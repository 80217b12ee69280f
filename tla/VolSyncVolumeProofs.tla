------------------------- MODULE VolSyncVolumeProofs -------------------------
(***************************************************************************)
(* What the steps of a pass do to one volume that VolSync replicates, for  *)
(* every volume, every VRG specification and every call that fails.        *)
(***************************************************************************)
EXTENDS VolSyncVolume, TLAPS

\* The inductive invariant of one volume on one cluster, which has a source and
\* a destination at once only where it may.
Well(w, may) ==
    /\ w \in VolumeType
    /\ w.rs.trigger # "none" <=> w.rs.there
    /\ w.mounted => w.pvc.there
    /\ w.pvc.there => w.pv.there
    /\ w.pvc.app => w.pvc.there
    /\ w.local.trigger # 0 => w.local.rd
    /\ w.local.addr => w.local.rd
    /\ w.rs.there /\ w.rd.there => may

\* A step that sets up neither a source nor a destination.
Keeps(w, x, may) ==
    /\ Well(x, may)
    /\ x.rs.there => w.rs.there
    /\ x.rd.there => w.rd.there
    /\ w.pvc.there => x.pvc.there

Result == [w : VolumeType, res : {"go", "stop", "requeue"}]
Tends(w, r, may) == r \in Result /\ Keeps(w, r.w, may)

-----------------------------------------------------------------------------
(* Changing one object of a volume.                                         *)

\* The objects that are not there are well formed.
LEMMA NothingTypes ==
    /\ NoPVC \in PVCType /\ NoPV \in PVType /\ NoRS \in RSType /\ NoRD \in RDType
    /\ NoLocal \in LocalType /\ NoStatus \in StatusType
BY DEF NoPVC, PVCType, NoPV, PVType, NoRS, RSType, NoRD, RDType, NoLocal, LocalType,
       NoStatus, StatusType, NoImage, Triggers

\* A step that does nothing.
LEMMA KeepsSelf == ASSUME NEW may, NEW w, Well(w, may) PROVE Keeps(w, w, may)
BY DEF Keeps

\* Steps follow on each other.
LEMMA KeepsTwice ==
    ASSUME NEW may, NEW w, NEW x, NEW y, Keeps(w, x, may), Keeps(x, y, may)
    PROVE  Keeps(w, y, may)
BY DEF Keeps

\* The PVC is changed and stays.
LEMMA PVCSet ==
    ASSUME NEW may, NEW w, Well(w, may), NEW a \in PVCType, a.there = w.pvc.there, a.app => a.there
    PROVE  Keeps(w, [w EXCEPT !.pvc = a], may)
<1> DEFINE x == [w EXCEPT !.pvc = a]
<1>1. /\ x \in VolumeType /\ x.pvc = a /\ x.pv = w.pv /\ x.mounted = w.mounted
      /\ x.rs = w.rs /\ x.rd = w.rd /\ x.local = w.local
  BY DEF Well, VolumeType
<1> HIDE DEF x
<1>2. Keeps(w, x, may)
  BY <1>1 DEF Keeps, Well
<1> QED
  BY <1>2 DEF x

\* The PV is changed and stays.
LEMMA PVSet ==
    ASSUME NEW may, NEW w, Well(w, may), NEW b \in PVType, b.there = w.pv.there
    PROVE  Keeps(w, [w EXCEPT !.pv = b], may)
<1> DEFINE x == [w EXCEPT !.pv = b]
<1>1. /\ x \in VolumeType /\ x.pvc = w.pvc /\ x.pv = b /\ x.mounted = w.mounted
      /\ x.rs = w.rs /\ x.rd = w.rd /\ x.local = w.local
  BY DEF Well, VolumeType
<1> HIDE DEF x
<1>2. Keeps(w, x, may)
  BY <1>1 DEF Keeps, Well
<1> QED
  BY <1>2 DEF x

\* The source is changed, or goes.
LEMMA RSSet ==
    ASSUME NEW may, NEW w, Well(w, may), NEW r \in RSType, r.there => w.rs.there,
           r.trigger # "none" <=> r.there
    PROVE  Keeps(w, [w EXCEPT !.rs = r], may)
<1> DEFINE x == [w EXCEPT !.rs = r]
<1>1. /\ x \in VolumeType /\ x.pvc = w.pvc /\ x.pv = w.pv /\ x.mounted = w.mounted
      /\ x.rs = r /\ x.rd = w.rd /\ x.local = w.local
  BY DEF Well, VolumeType
<1> HIDE DEF x
<1>2. Keeps(w, x, may)
  BY <1>1 DEF Keeps, Well
<1> QED
  BY <1>2 DEF x

\* The destination is changed, or goes.
LEMMA RDSet ==
    ASSUME NEW may, NEW w, Well(w, may), NEW r \in RDType, r.there => w.rd.there
    PROVE  Keeps(w, [w EXCEPT !.rd = r], may)
<1> DEFINE x == [w EXCEPT !.rd = r]
<1>1. /\ x \in VolumeType /\ x.pvc = w.pvc /\ x.pv = w.pv /\ x.mounted = w.mounted
      /\ x.rs = w.rs /\ x.rd = r /\ x.local = w.local
  BY DEF Well, VolumeType
<1> HIDE DEF x
<1>2. Keeps(w, x, may)
  BY <1>1 DEF Keeps, Well
<1> QED
  BY <1>2 DEF x

\* The local pair is changed, or goes.
LEMMA LocalSet ==
    ASSUME NEW may, NEW w, Well(w, may), NEW r \in LocalType, r.trigger # 0 => r.rd, r.addr => r.rd
    PROVE  Keeps(w, [w EXCEPT !.local = r], may)
<1> DEFINE x == [w EXCEPT !.local = r]
<1>1. /\ x \in VolumeType /\ x.pvc = w.pvc /\ x.pv = w.pv /\ x.mounted = w.mounted
      /\ x.rs = w.rs /\ x.rd = w.rd /\ x.local = r
  BY DEF Well, VolumeType
<1> HIDE DEF x
<1>2. Keeps(w, x, may)
  BY <1>1 DEF Keeps, Well
<1> QED
  BY <1>2 DEF x

\* What replicates the volume stays as it is.
LEMMA OtherSet ==
    ASSUME NEW may, NEW w, Well(w, may)
    PROVE  /\ \A s \in StatusType : Keeps(w, [w EXCEPT !.st = s], may)
           /\ \A n \in Nat : Keeps(w, [w EXCEPT !.kept = n], may)
           /\ \A d \in Nat \cup {Torn} : Keeps(w, [w EXCEPT !.data = d], may)
           /\ \A j \in {"none", "running", "done", "failed"} : Keeps(w, [w EXCEPT !.job = j], may)
           /\ \A t \in BOOLEAN : Keeps(w, [w EXCEPT !.tmp = t], may)
           /\ \A m \in BOOLEAN : (m => w.pvc.there) => Keeps(w, [w EXCEPT !.mounted = m], may)
<1> DEFINE Like(x) == /\ x \in VolumeType /\ x.pvc = w.pvc /\ x.pv = w.pv
                      /\ x.mounted => x.pvc.there
                      /\ x.rs = w.rs /\ x.rd = w.rd /\ x.local = w.local
<1>1. \A s \in StatusType : Like([w EXCEPT !.st = s])
  BY DEF Well, VolumeType
<1>2. \A n \in Nat : Like([w EXCEPT !.kept = n])
  BY DEF Well, VolumeType
<1>3. \A d \in Nat \cup {Torn} : Like([w EXCEPT !.data = d])
  BY DEF Well, VolumeType
<1>4. \A j \in {"none", "running", "done", "failed"} : Like([w EXCEPT !.job = j])
  BY DEF Well, VolumeType
<1>5. \A t \in BOOLEAN : Like([w EXCEPT !.tmp = t])
  BY DEF Well, VolumeType
<1>6. \A m \in BOOLEAN : (m => w.pvc.there) => Like([w EXCEPT !.mounted = m])
  BY DEF Well, VolumeType
<1>7. \A x : Like(x) => Keeps(w, x, may)
  BY DEF Keeps, Well
<1> HIDE DEF Like
<1> QED
  BY <1>1, <1>2, <1>3, <1>4, <1>5, <1>6, <1>7

\* How a step ends.
LEMMA Endings ==
    ASSUME NEW may, NEW w, NEW x, Keeps(w, x, may)
    PROVE  Tends(w, Go(x), may) /\ Tends(w, Stop(x), may) /\ Tends(w, Requeue(x), may)
BY DEF Tends, Keeps, Well, Result, Go, Stop, Requeue

\* A step that ends at once.
LEMMA EndsAtOnce ==
    ASSUME NEW may, NEW w, Well(w, may)
    PROVE  Tends(w, Go(w), may) /\ Tends(w, Stop(w), may) /\ Tends(w, Requeue(w), may)
BY KeepsSelf, Endings

\* One step after another.
LEMMA TendsTwice ==
    ASSUME NEW may, NEW w, NEW x, NEW r, Keeps(w, x, may), Tends(x, r, may)
    PROVE  Tends(w, r, may)
BY KeepsTwice DEF Tends

-----------------------------------------------------------------------------
(* The PVC and its PV.                                                      *)

\* A new PVC, for the application or for a destination.
LEMMA ClaimedKeeps ==
    ASSUME NEW may, NEW w, Well(w, may), ~w.pvc.there, NEW app \in BOOLEAN, NEW source \in Nat,
           NEW ver \in Nat \cup {Torn}
    PROVE  Keeps(w, Claimed(w, app, source, ver), may) /\ Claimed(w, app, source, ver).pvc.there
<1> DEFINE a == [NoPVC EXCEPT !.there = TRUE, !.app = app, !.source = source]
           b == [w.pv EXCEPT !.claim = "pvc"]
           c == [NoPV EXCEPT !.there = TRUE]
           x == [w EXCEPT !.pvc = a, !.pv = b]
           y == [w EXCEPT !.pvc = a, !.pv = c, !.data = ver]
<1>1. w \in VolumeType /\ w.pv \in PVType
  BY DEF Well, VolumeType
<1>2. a \in PVCType /\ a.there
  BY NothingTypes DEF PVCType, NoPVC
<1>3. b \in PVType /\ b.there = w.pv.there
  BY <1>1 DEF PVType
<1>4. c \in PVType /\ c.there
  BY NothingTypes DEF PVType, NoPV
<1>5. Claimed(w, app, source, ver) =
        IF w.pv.there /\ w.pv.claim = "free" /\ source = 0 THEN x ELSE y
  BY <1>1 DEF Claimed, VolumeType, PVType
<1> HIDE DEF a, b, c
<1>6. /\ x \in VolumeType /\ x.pvc = a /\ x.pv = b /\ x.mounted = w.mounted
      /\ x.rs = w.rs /\ x.rd = w.rd /\ x.local = w.local
  BY <1>1, <1>2, <1>3 DEF VolumeType
<1>7. /\ y \in VolumeType /\ y.pvc = a /\ y.pv = c /\ y.mounted = w.mounted
      /\ y.rs = w.rs /\ y.rd = w.rd /\ y.local = w.local
  BY <1>1, <1>2, <1>4 DEF VolumeType
<1> HIDE DEF x, y
<1>8. w.pv.there => Keeps(w, x, may) /\ x.pvc.there
  BY <1>2, <1>3, <1>6 DEF Keeps, Well
<1>9. Keeps(w, y, may) /\ y.pvc.there
  BY <1>2, <1>4, <1>7 DEF Keeps, Well
<1> QED
  BY <1>5, <1>8, <1>9

\* Errors in the status of a volume.
LEMMA SetupErrorKeeps == ASSUME NEW may, NEW w, Well(w, may) PROVE Keeps(w, SetupError(w), may)
<1>1. w \in VolumeType /\ w.st \in StatusType
  BY DEF Well, VolumeType
<1>2. SetupError(w) = [w EXCEPT !.st = [w.st EXCEPT !.setup = "Error"]]
  BY <1>1 DEF SetupError, VolumeType, StatusType
<1> DEFINE s == [w.st EXCEPT !.setup = "Error"]
<1>3. s \in StatusType
  BY <1>1 DEF StatusType
<1>4. SetupError(w) = [w EXCEPT !.st = s]
  BY <1>2
<1> HIDE DEF s
<1>5. Keeps(w, [w EXCEPT !.st = s], may)
  BY <1>3, OtherSet
<1> QED
  BY <1>4, <1>5

\* Marking a PVC for deletion.
LEMMA DeletePVCKeeps == ASSUME NEW may, NEW w, Well(w, may) PROVE Keeps(w, DeletePVC(w), may)
<1> DEFINE a == [w.pvc EXCEPT !.terminating = TRUE]
<1>1. w \in VolumeType /\ w.pvc \in PVCType
  BY DEF Well, VolumeType
<1>2. DeletePVC(w) = IF w.pvc.there THEN [w EXCEPT !.pvc = a] ELSE w
  BY <1>1 DEF DeletePVC, VolumeType, PVCType
<1>3. a \in PVCType /\ a.there = w.pvc.there /\ a.app = w.pvc.app
  BY <1>1 DEF PVCType
<1> HIDE DEF a
<1>4. Keeps(w, [w EXCEPT !.pvc = a], may)
  BY <1>3, PVCSet DEF Well
<1> QED
  BY <1>2, <1>4, KeepsSelf

\* retainPVForPVC and undoing it change the reclaim policy of the PV only.
LEMMA RetentionTends ==
    ASSUME NEW may, NEW w, Well(w, may), NEW f
    PROVE  Tends(w, RetainPVForPVC(w, f), may) /\ Tends(w, UndoPVRetentionForPVC(w, f), may)
<1> DEFINE a == [w.pv EXCEPT !.retain = TRUE, !.ours = TRUE]
           b == [w.pv EXCEPT !.retain = FALSE, !.ours = FALSE]
<1>1. w \in VolumeType /\ w.pv \in PVType
  BY DEF Well, VolumeType
<1>2. /\ [w EXCEPT !.pv.retain = TRUE, !.pv.ours = TRUE] = [w EXCEPT !.pv = a]
      /\ [w EXCEPT !.pv.retain = FALSE, !.pv.ours = FALSE] = [w EXCEPT !.pv = b]
  BY <1>1 DEF VolumeType, PVType
<1>3. a \in PVType /\ a.there = w.pv.there /\ b \in PVType /\ b.there = w.pv.there
  BY <1>1 DEF PVType
<1> HIDE DEF a, b
<1>4. Keeps(w, [w EXCEPT !.pv = a], may) /\ Keeps(w, [w EXCEPT !.pv = b], may)
  BY <1>3, PVSet
<1>5. Tends(w, Go([w EXCEPT !.pv = a]), may) /\ Tends(w, Go([w EXCEPT !.pv = b]), may)
  BY <1>4, Endings
<1> QED
  BY <1>2, <1>5, EndsAtOnce DEF RetainPVForPVC, UndoPVRetentionForPVC

\* Taking the finalizer off a PVC.
LEMMA RemoveFinalizerTends ==
    ASSUME NEW may, NEW w, Well(w, may), NEW f PROVE Tends(w, RemoveFinalizer(w, f), may)
<1> DEFINE a == [w.pvc EXCEPT !.finalizer = FALSE]
<1>1. w \in VolumeType /\ w.pvc \in PVCType
  BY DEF Well, VolumeType
<1>2. [w EXCEPT !.pvc.finalizer = FALSE] = [w EXCEPT !.pvc = a]
  BY <1>1 DEF VolumeType, PVCType
<1>3. a \in PVCType /\ a.there = w.pvc.there /\ a.app = w.pvc.app
  BY <1>1 DEF PVCType
<1> HIDE DEF a
<1>4. Keeps(w, [w EXCEPT !.pvc = a], may)
  BY <1>3, PVCSet DEF Well
<1>5. Tends(w, Go([w EXCEPT !.pvc = a]), may)
  BY <1>4, Endings
<1> QED
  BY <1>2, <1>5, EndsAtOnce DEF RemoveFinalizer

\* Leaving the PV for the next PVC.
LEMMA ClaimRefTends ==
    ASSUME NEW may, NEW w, Well(w, may), NEW f
    PROVE  Tends(w, CleanupPVClaimRefForPVCDeletion(w, f), may)
<1> DEFINE a == [w.pv EXCEPT !.claim = IF w.pv.claim = "pvc" THEN "free" ELSE w.pv.claim]
<1>1. w \in VolumeType /\ w.pv \in PVType
  BY DEF Well, VolumeType
<1>2. [w EXCEPT !.pv.claim = IF @ = "pvc" THEN "free" ELSE @] = [w EXCEPT !.pv = a]
  BY <1>1 DEF VolumeType, PVType
<1>3. a \in PVType /\ a.there = w.pv.there
  BY <1>1 DEF PVType
<1> HIDE DEF a
<1>4. Tends(w, Go([w EXCEPT !.pv = a]), may)
  BY <1>3, PVSet, Endings
<1> QED
  BY <1>2, <1>4, EndsAtOnce DEF CleanupPVClaimRefForPVCDeletion

-----------------------------------------------------------------------------
(* Removing what replicates the volume.                                     *)

\* DeleteRS: the source is gone, unless its deletion failed.
LEMMA DeleteRSKeeps ==
    ASSUME NEW may, NEW w, Well(w, may), NEW f
    PROVE  /\ Keeps(w, DeleteRS(w, f), may)
           /\ DeleteRS(w, f).rs.there => f = "deleteRS"
<1>1. NoRS \in RSType /\ ~NoRS.there /\ NoRS.trigger = "none"
  BY NothingTypes DEF NoRS
<1>2. w \in VolumeType
  BY DEF Well
<1>3. [w EXCEPT !.rs = NoRS].rs = NoRS
  BY <1>2 DEF VolumeType
<1> QED
  BY <1>1, <1>3, RSSet, KeepsSelf DEF DeleteRS

\* DeleteRD: when it goes on, the destination is gone.
LEMMA DeleteRDTends ==
    ASSUME NEW may, NEW g, NEW w, Well(w, may), NEW f
    PROVE  /\ Tends(w, DeleteRD(g, w, f), may)
           /\ DeleteRD(g, w, f).res = "go" => ~DeleteRD(g, w, f).w.rd.there
<1> DEFINE l == deleteLocalRDAndRS(w)
           d == IF g.direct THEN l ELSE Go(w)
           n == [d.w EXCEPT !.rd = NoRD]
           q == IF d.res = "go" THEN IF f = "deleteRD" THEN Requeue(d.w) ELSE Go(n) ELSE d
<1>1. Keeps(w, [w EXCEPT !.local = NoLocal], may)
  BY NothingTypes, LocalSet DEF NoLocal
<1>2. Tends(w, l, may)
  BY <1>1, Endings, EndsAtOnce DEF deleteLocalRDAndRS
<1>3. DeleteRD(g, w, f) = IF ~w.rd.there THEN Go(w) ELSE q
  BY DEF DeleteRD, Then, With
<1> HIDE DEF l
<1>4. Tends(w, d, may)
  BY <1>2, EndsAtOnce
<1> HIDE DEF d
<1>5. Well(d.w, may) /\ d.w \in VolumeType
  BY <1>4 DEF Tends, Keeps, Well
<1>6. NoRD \in RDType /\ ~NoRD.there
  BY NothingTypes DEF NoRD
<1>7. Keeps(d.w, n, may) /\ ~n.rd.there
  BY <1>5, <1>6, RDSet DEF VolumeType
<1> HIDE DEF n
<1>8. Tends(d.w, Go(n), may) /\ Tends(d.w, Requeue(d.w), may)
  BY <1>5, <1>7, Endings, EndsAtOnce
<1>9. Tends(w, q, may)
  BY <1>4, <1>8, TendsTwice DEF Tends
<1>10. q.res = "go" => ~q.w.rd.there
  BY <1>7 DEF Go, Requeue
<1> HIDE DEF q
<1> QED
  BY <1>3, <1>9, <1>10, EndsAtOnce DEF Go

\* A destination that is in the specification no more.
LEMMA CleanupRDKeeps ==
    ASSUME NEW may, NEW g, NEW w, Well(w, may), NEW f, NEW inSpec
    PROVE  Keeps(w, CleanupRDNotInSpecList(g, w, f, inSpec), may)
<1> DEFINE v == DeleteRD(g, w, f).w
<1>1. CleanupRDNotInSpecList(g, w, f, inSpec) =
        IF ~w.rd.there \/ inSpec THEN w ELSE IF g.state = "Secondary" THEN DeletePVC(v) ELSE v
  BY DEF CleanupRDNotInSpecList, With
<1>2. Keeps(w, v, may)
  BY DeleteRDTends DEF Tends
<1> HIDE DEF v
<1>3. Keeps(v, DeletePVC(v), may)
  BY <1>2, DeletePVCKeeps DEF Keeps
<1> QED
  BY <1>1, <1>2, <1>3, KeepsTwice, KeepsSelf

-----------------------------------------------------------------------------
(* A volume of a Primary.                                                   *)

\* pvcUnprotectVolSync: the volume is given back to its user.
LEMMA UnprotectTends ==
    ASSUME NEW may, NEW w, Well(w, may), NEW f PROVE Tends(w, pvcUnprotectVolSync(w, f), may)
<1> DEFINE r == UndoPVRetentionForPVC(w, f)
           d == DeleteRS(r.w, f)
           k == [d EXCEPT !.kept = 0]
           u == RemoveFinalizer(k, f)
           t == IF r.res = "go" THEN u ELSE r
           q == IF t.res = "go" THEN Go([t.w EXCEPT !.st = NoStatus]) ELSE t
<1>1. pvcUnprotectVolSync(w, f) = IF ~VolumeUnprotectionEnabled THEN Go(w) ELSE q
  BY DEF pvcUnprotectVolSync, UnprotectVolSyncPVC, Then, With
<1>2. Tends(w, r, may)
  BY RetentionTends
<1> HIDE DEF r
<1>3. Keeps(w, r.w, may) /\ Well(r.w, may)
  BY <1>2 DEF Tends, Keeps
<1>4. Keeps(r.w, d, may) /\ Well(d, may)
  BY <1>3, DeleteRSKeeps DEF Keeps
<1> HIDE DEF d
<1>5. Keeps(d, k, may) /\ Well(k, may)
  BY <1>4, OtherSet DEF Keeps
<1> HIDE DEF k
<1>6. Tends(k, u, may)
  BY <1>5, RemoveFinalizerTends
<1> HIDE DEF u
<1>7. Keeps(w, k, may)
  BY <1>3, <1>4, <1>5, KeepsTwice
<1>8. Tends(w, t, may)
  BY <1>2, <1>6, <1>7, TendsTwice
<1> HIDE DEF t
<1>9. Keeps(w, t.w, may) /\ Well(t.w, may)
  BY <1>8 DEF Tends, Keeps
<1>10. Tends(t.w, Go([t.w EXCEPT !.st = NoStatus]), may)
  BY <1>9, NothingTypes, OtherSet, Endings
<1>11. Tends(w, q, may)
  BY <1>8, <1>9, <1>10, TendsTwice
<1> HIDE DEF q
<1> QED
  BY <1>1, <1>11, EndsAtOnce

\* What comes before ReconcileRS.
LEMMA ProtectTends ==
    ASSUME NEW may, NEW g, NEW w, Well(w, may), NEW f PROVE Tends(w, Protect(g, w, f), may)
<1> DEFINE a == [w EXCEPT !.pvc = [w.pvc EXCEPT !.finalizer = TRUE]]
           b == [a EXCEPT !.st = [a.st EXCEPT !.listed = TRUE]]
           r == buildProtectedPVCForPVC(g, w, f)
           v == r.w
           c == [v EXCEPT !.rs = [v.rs EXCEPT !.trigger = "prepare"]]
           m == stopSchedulingRS(v, f)
           e == IF g.sourced THEN PreparePVC(g, v, f) ELSE Requeue(v)
           t == IF r.res = "go" THEN e ELSE r
           q == IF t.res = "go" THEN RetainPVForPVC(t.w, f) ELSE t
<1>1. w \in VolumeType /\ w.pvc \in PVCType
  BY DEF Well, VolumeType
<1>2. [w.pvc EXCEPT !.finalizer = TRUE] \in PVCType
      /\ [w.pvc EXCEPT !.finalizer = TRUE].there = w.pvc.there
      /\ [w.pvc EXCEPT !.finalizer = TRUE].app = w.pvc.app
  BY <1>1 DEF PVCType
<1>3. Keeps(w, a, may) /\ Well(a, may)
  BY <1>2, PVCSet DEF Well, Keeps
<1>4. [w EXCEPT !.pvc.finalizer = TRUE, !.st.listed = TRUE] = b
  BY <1>1 DEF VolumeType, PVCType, StatusType
<1> HIDE DEF a
<1>5. a \in VolumeType /\ a.st \in StatusType
  BY <1>3 DEF Well, VolumeType
<1>6. [a.st EXCEPT !.listed = TRUE] \in StatusType
  BY <1>5 DEF StatusType
<1>7. Keeps(w, b, may)
  BY <1>3, <1>6, OtherSet, KeepsTwice
<1> HIDE DEF b
<1>8. Keeps(w, pvcUnprotectVolSync(w, f).w, may)
  BY UnprotectTends DEF Tends
<1>9. Tends(w, r, may)
  BY <1>4, <1>7, <1>8, Endings, EndsAtOnce DEF buildProtectedPVCForPVC
<1> HIDE DEF r
<1>10. Keeps(w, v, may) /\ Well(v, may)
  BY <1>9 DEF Tends, Keeps
<1>11. Protect(g, w, f) = q
  BY DEF Protect, Then, With, r
<1> HIDE DEF v
<1>12. v \in VolumeType /\ v.rs \in RSType
  BY <1>10 DEF Well, VolumeType
<1>13. [v EXCEPT !.rs.trigger = "prepare"] = c
  BY <1>12 DEF VolumeType, RSType
<1>14. [v.rs EXCEPT !.trigger = "prepare"] \in RSType
       /\ [v.rs EXCEPT !.trigger = "prepare"].there = v.rs.there
       /\ [v.rs EXCEPT !.trigger = "prepare"].trigger = "prepare"
  BY <1>12 DEF RSType, Triggers
<1>15. v.rs.there => Keeps(v, c, may)
  BY <1>10, <1>14, RSSet
<1> HIDE DEF c
<1>16. Tends(v, m, may)
  BY <1>10, <1>13, <1>15, Endings, EndsAtOnce DEF stopSchedulingRS
<1> HIDE DEF m
<1>17. Tends(v, e, may)
  BY <1>10, <1>16, EndsAtOnce DEF PreparePVC, prepareForFinalSync, m
<1> HIDE DEF e
<1>18. Tends(w, t, may)
  BY <1>9, <1>10, <1>17, TendsTwice
<1> HIDE DEF t
<1>19. Keeps(w, t.w, may) /\ Well(t.w, may)
  BY <1>18 DEF Tends, Keeps
<1>20. Tends(t.w, RetainPVForPVC(t.w, f), may)
  BY <1>19, RetentionTends
<1>21. Tends(w, q, may)
  BY <1>18, <1>19, <1>20, TendsTwice
<1> QED
  BY <1>11, <1>21

\* The job that mounts an unused PVC.
LEMMA MountJobTends ==
    ASSUME NEW may, NEW w, Well(w, may) PROVE Tends(w, EnsureMountJobForUnmountedPVC(w), may)
<1> DEFINE a == [w EXCEPT !.job = "running"]
           b == [w EXCEPT !.job = "none"]
<1>1. w \in VolumeType /\ w.job \in {"none", "running", "done", "failed"}
  BY DEF Well, VolumeType
<1>2. Keeps(w, a, may) /\ Keeps(w, b, may)
  BY OtherSet
<1>3. EnsureMountJobForUnmountedPVC(w) \in
        {Go(w), Requeue(w), Requeue(a), Go(b), Requeue(SetupError(b))}
  BY <1>1 DEF EnsureMountJobForUnmountedPVC
<1> HIDE DEF a, b
<1>4. Keeps(w, SetupError(b), may)
  BY <1>2, SetupErrorKeeps, KeepsTwice DEF Keeps
<1>5. Tends(w, Requeue(a), may) /\ Tends(w, Go(b), may) /\ Tends(w, Requeue(SetupError(b)), may)
  BY <1>2, <1>4, Endings
<1> QED
  BY <1>3, <1>5, EndsAtOnce

\* A PVC in use is not finally synced.
LEMMA ValidateTends ==
    ASSUME NEW may, NEW g, NEW w, Well(w, may)
    PROVE  Tends(w, validatePVCForFinalSync(g, w), may)
<1> DEFINE a == [w EXCEPT !.st = [w.st EXCEPT !.setup = "Complete"]]
<1>1. w \in VolumeType /\ w.st \in StatusType
  BY DEF Well, VolumeType
<1>2. [w EXCEPT !.st.setup = "Complete"] = a
  BY <1>1 DEF VolumeType, StatusType
<1>3. [w.st EXCEPT !.setup = "Complete"] \in StatusType
  BY <1>1 DEF StatusType
<1>4. Keeps(w, a, may)
  BY <1>3, OtherSet
<1> HIDE DEF a
<1>5. Tends(w, Requeue(a), may)
  BY <1>4, Endings
<1> QED
  BY <1>2, <1>5, EndsAtOnce DEF validatePVCForFinalSync

\* Handing the PV to the temporary PVC.
LEMMA FinalSetupTends ==
    ASSUME NEW may, NEW g, NEW w, Well(w, may), NEW f
    PROVE  Tends(w, setupForFinalSync(g, w, f), may)
<1> DEFINE b == [w.pv EXCEPT !.retain = TRUE, !.ours = TRUE, !.claim = "tmp"]
           x == [w EXCEPT !.pv = b]
           y == [x EXCEPT !.tmp = TRUE]
           Ends(v) == Requeue(IF f = "createTmp" THEN v ELSE [v EXCEPT !.tmp = TRUE])
<1>1. w \in VolumeType /\ w.pv \in PVType
  BY DEF Well, VolumeType
<1>2. [w EXCEPT !.pv.retain = TRUE, !.pv.ours = TRUE, !.pv.claim = "tmp"] = x
  BY <1>1 DEF VolumeType, PVType
<1>3. b \in PVType /\ b.there = w.pv.there
  BY <1>1 DEF PVType
<1> HIDE DEF b
<1>4. Keeps(w, x, may)
  BY <1>3, PVSet
<1> HIDE DEF x
<1>5. SetupTmpPVCForFinalSync(w, f) =
        IF w.tmp THEN Go(w) ELSE IF f = "updatePV" THEN Requeue(w)
        ELSE Requeue(IF f = "createTmp" THEN x ELSE y)
  <2>1. SetupTmpPVCForFinalSync(w, f) =
          IF w.tmp THEN Go(w) ELSE IF f = "updatePV" THEN Requeue(w) ELSE With(x, Ends)
    BY <1>2 DEF SetupTmpPVCForFinalSync
  <2> HIDE DEF Ends
  <2>2. With(x, Ends) = Ends(x)
    BY DEF With
  <2> QED
    BY <2>1, <2>2 DEF Ends
<1>6. Keeps(w, y, may)
  BY <1>4, OtherSet, KeepsTwice DEF Keeps
<1> HIDE DEF y
<1>7. Tends(w, Requeue(x), may) /\ Tends(w, Requeue(y), may)
  BY <1>4, <1>6, Endings
<1>8. Tends(w, SetupTmpPVCForFinalSync(w, f), may)
  BY <1>5, <1>7, EndsAtOnce
<1> QED
  BY <1>8, EndsAtOnce DEF setupForFinalSync

\* After the final sync the PV is given back to the PVC.
LEMMA FinishTends ==
    ASSUME NEW may, NEW g, NEW w, Well(w, may), NEW f
    PROVE  Tends(w, FinishFinalSync(g, w, f), may)
<1> DEFINE v == [w EXCEPT !.tmp = FALSE]
           b == [v.pv EXCEPT !.claim = "pvc", !.retain = FALSE, !.ours = FALSE]
           x == [v EXCEPT !.pv = b]
           r == UndoAfterFinalSync(w, f)
           Ends(u) == IF f = "updatePV" THEN Requeue(u)
                      ELSE RemoveFinalizer([u EXCEPT !.pv.claim = "pvc", !.pv.retain = FALSE,
                                                     !.pv.ours = FALSE], f)
           q == IF r.res = "go" THEN Stop(CleanupAfterRSFinalSync(g, r.w))
                ELSE Requeue(SetupError(r.w))
<1>1. Keeps(w, v, may) /\ Well(v, may)
  BY OtherSet DEF Keeps
<1>2. r = IF f = "updatePV" THEN Requeue(v)
          ELSE RemoveFinalizer([v EXCEPT !.pv.claim = "pvc", !.pv.retain = FALSE,
                                         !.pv.ours = FALSE], f)
  <2>1. r = With(v, Ends)
    BY DEF UndoAfterFinalSync
  <2> HIDE DEF v, r, Ends
  <2>2. r = Ends(v)
    BY <2>1 DEF With
  <2> QED
    BY <2>2 DEF Ends
<1>3. FinishFinalSync(g, w, f) = IF ~g.run \/ ~isFinalSyncComplete(w) THEN Go(w) ELSE q
  <2> DEFINE Finished(e) == IF e.res = "go" THEN Stop(CleanupAfterRSFinalSync(g, e.w))
                            ELSE Requeue(SetupError(e.w))
  <2>1. FinishFinalSync(g, w, f) =
          IF ~g.run \/ ~isFinalSyncComplete(w) THEN Go(w) ELSE With(r, Finished)
    BY DEF FinishFinalSync
  <2>2. q = Finished(r)
    OBVIOUS
  <2> HIDE DEF r, q, Finished
  <2>3. With(r, Finished) = Finished(r)
    BY DEF With
  <2> QED
    BY <2>1, <2>2, <2>3
<1> HIDE DEF v
<1>4. v \in VolumeType /\ v.pv \in PVType
  BY <1>1 DEF Well, VolumeType
<1>5. [v EXCEPT !.pv.claim = "pvc", !.pv.retain = FALSE, !.pv.ours = FALSE] = x
  BY <1>4 DEF VolumeType, PVType
<1>6. b \in PVType /\ b.there = v.pv.there
  BY <1>4 DEF PVType
<1> HIDE DEF b
<1>7. Keeps(v, x, may) /\ Well(x, may)
  BY <1>1, <1>6, PVSet DEF Keeps
<1> HIDE DEF x, r
<1>8. Tends(w, Requeue(v), may) /\ Tends(x, RemoveFinalizer(x, f), may) /\ Keeps(w, x, may)
  BY <1>1, <1>7, Endings, RemoveFinalizerTends, KeepsTwice
<1>9. Tends(w, r, may)
  BY <1>2, <1>5, <1>8, TendsTwice
<1>10. Keeps(w, r.w, may) /\ Well(r.w, may)
  BY <1>9 DEF Tends, Keeps
<1>11. Keeps(r.w, CleanupAfterRSFinalSync(g, r.w), may)
  BY <1>10, DeletePVCKeeps, KeepsSelf DEF CleanupAfterRSFinalSync
<1>12. Tends(w, Stop(CleanupAfterRSFinalSync(g, r.w)), may)
  BY <1>10, <1>11, KeepsTwice, Endings
<1>12a. Tends(w, Requeue(SetupError(r.w)), may)
  BY <1>10, SetupErrorKeeps, KeepsTwice, Endings
<1> HIDE DEF q
<1>13. Tends(w, q, may)
  BY <1>12, <1>12a DEF q
<1> QED
  BY <1>3, <1>13, EndsAtOnce

\* createOrUpdateRS, where there is no destination.
LEMMA SourceMade ==
    ASSUME NEW may, NEW g, NEW w, Well(w, may), ~w.rd.there, NEW f
    PROVE  /\ createOrUpdateRS(g, w, f) \in Result
           /\ Well(createOrUpdateRS(g, w, f).w, may)
<1> DEFINE t == setupForFinalSync(g, w, f)
           v == t.w
           a == [v.rs EXCEPT !.there = TRUE, !.trigger = IF g.run THEN "final" ELSE "schedule"]
           s == [v.st EXCEPT !.setup = "Complete"]
           x == [v EXCEPT !.rs = a, !.st = s]
           q == IF t.res = "go"
                THEN IF f = "writeRS" THEN Requeue(SetupError(v)) ELSE Go(x) ELSE t
           z == [v EXCEPT !.rs.there = TRUE, !.st.setup = "Complete",
                          !.rs.trigger = IF g.run THEN "final" ELSE "schedule"]
           q0 == IF t.res = "go"
                 THEN IF f = "writeRS" THEN Requeue(SetupError(v)) ELSE Go(z) ELSE t
<1>1. createOrUpdateRS(g, w, f) = IF f = "class" THEN Requeue(SetupError(w)) ELSE q0
  BY DEF createOrUpdateRS, Then, With
<1>2. Tends(w, t, may)
  BY FinalSetupTends
<1> HIDE DEF t
<1>3. Keeps(w, v, may) /\ Well(v, may) /\ v \in VolumeType /\ v.rs \in RSType /\ v.st \in StatusType
  BY <1>2 DEF Tends, Keeps, Well, VolumeType
<1>4. ~v.rd.there
  BY <1>3 DEF Keeps
<1> HIDE DEF v
<1>5. z = x
  BY <1>3 DEF VolumeType, RSType, StatusType
<1>6. a \in RSType /\ a.there /\ a.trigger # "none"
  BY <1>3 DEF RSType, Triggers
<1>7. s \in StatusType
  BY <1>3 DEF StatusType
<1> HIDE DEF a, s
<1>8. /\ x \in VolumeType /\ x.pvc = v.pvc /\ x.pv = v.pv /\ x.mounted = v.mounted
      /\ x.rs = a /\ x.rd = v.rd /\ x.local = v.local
  BY <1>3, <1>6, <1>7 DEF VolumeType
<1> HIDE DEF x, z
<1>9. Well(x, may)
  BY <1>3, <1>4, <1>6, <1>8 DEF Well
<1>10. Tends(x, Go(x), may)
  BY <1>9, EndsAtOnce
<1>11. Go(x).w = x
  BY DEF Go
<1>12. Tends(v, Requeue(SetupError(v)), may) /\ Tends(w, Requeue(SetupError(w)), may)
  BY <1>3, SetupErrorKeeps, Endings
<1>13. q0 \in Result /\ Well(q0.w, may)
  BY <1>2, <1>5, <1>9, <1>10, <1>11, <1>12 DEF Tends, Keeps
<1> HIDE DEF q0
<1> QED
  BY <1>1, <1>12, <1>13 DEF Tends, Keeps

\* ReconcileRS makes a source only where it has removed the destination.
LEMMA ReconcileRSWell ==
    ASSUME NEW may, NEW g, NEW w, Well(w, may), NEW f
    PROVE  ReconcileRS(g, w, f) \in Result /\ Well(ReconcileRS(g, w, f).w, may)
<1> DEFINE d == DeleteRD(g, w, f)
           m == EnsureMountJobForUnmountedPVC(d.w)
           t == IF m.res = "go" THEN validatePVCForFinalSync(g, m.w) ELSE m
           u == IF t.res = "go" THEN createOrUpdateRS(g, t.w, f) ELSE t
           q == IF u.res = "go" THEN FinishFinalSync(g, u.w, f) ELSE u
           Ends(e) ==
             IF e.res # "go" THEN Requeue(SetupError(e.w))
             ELSE Then(Then(Then(EnsureMountJobForUnmountedPVC(e.w),
                       LAMBDA v : validatePVCForFinalSync(g, v)),
                       LAMBDA v : createOrUpdateRS(g, v, f)),
                       LAMBDA v : FinishFinalSync(g, v, f))
<1>1. ReconcileRS(g, w, f) =
        IF ~g.secret THEN Requeue(w) ELSE IF d.res # "go" THEN Requeue(SetupError(d.w)) ELSE q
  <2>1. ReconcileRS(g, w, f) = IF ~g.secret THEN Requeue(w) ELSE With(d, Ends)
    BY DEF ReconcileRS
  <2> HIDE DEF d, Ends
  <2>2. With(d, Ends) = Ends(d)
    BY DEF With
  <2>3. Ends(d) = IF d.res # "go" THEN Requeue(SetupError(d.w)) ELSE q
    <3> DEFINE Validated(e) == IF e.res = "go" THEN validatePVCForFinalSync(g, e.w) ELSE e
               Made(e) == IF e.res = "go" THEN createOrUpdateRS(g, e.w, f) ELSE e
               Finished(e) == IF e.res = "go" THEN FinishFinalSync(g, e.w, f) ELSE e
    <3>1. Ends(d) = IF d.res # "go" THEN Requeue(SetupError(d.w))
                    ELSE With(With(With(m, Validated), Made), Finished)
      BY DEF Ends, Then
    <3>2. q = Finished(Made(Validated(m)))
      OBVIOUS
    <3> HIDE DEF m, q, Validated, Made, Finished
    <3>3. With(With(With(m, Validated), Made), Finished) = Finished(Made(Validated(m)))
      BY DEF With
    <3> QED
      BY <3>1, <3>2, <3>3
  <2> QED
    BY <2>1, <2>2, <2>3
<1>2. Tends(w, d, may) /\ (d.res = "go" => ~d.w.rd.there)
  BY DeleteRDTends
<1> HIDE DEF d
<1>3. Well(d.w, may)
  BY <1>2 DEF Tends, Keeps
<1>4. Tends(d.w, m, may)
  BY <1>3, MountJobTends
<1> HIDE DEF m
<1>5. Keeps(d.w, m.w, may) /\ Well(m.w, may)
  BY <1>4 DEF Tends, Keeps
<1>6. Tends(d.w, t, may)
  BY <1>4, <1>5, ValidateTends, TendsTwice
<1> HIDE DEF t
<1>7. t \in Result /\ Well(t.w, may) /\ (t.w.rd.there => d.w.rd.there)
  BY <1>6 DEF Tends, Keeps
<1>8. d.res = "go" => u \in Result /\ Well(u.w, may)
  BY <1>2, <1>7, SourceMade
<1> HIDE DEF u
<1>9. d.res = "go" => q \in Result /\ Well(q.w, may)
  BY <1>8, FinishTends DEF Tends, Keeps
<1> HIDE DEF q
<1>10. Tends(w, Requeue(w), may) /\ Tends(d.w, Requeue(SetupError(d.w)), may)
  BY <1>3, EndsAtOnce, SetupErrorKeeps, Endings
<1> QED
  BY <1>1, <1>9, <1>10 DEF Tends, Keeps

-----------------------------------------------------------------------------
(* A volume of a Secondary.                                                 *)

\* The PVC a destination writes into.
LEMMA DirectCopyTends ==
    ASSUME NEW may, NEW w, Well(w, may), NEW f
    PROVE  Tends(w, EnsurePVCforDirectCopy(w, f), may) /\ EnsurePVCforDirectCopy(w, f).w.pvc.there
<1> DEFINE a == [w.pvc EXCEPT !.app = FALSE]
           x == IF w.pvc.there THEN [w EXCEPT !.pvc = a] ELSE Claimed(w, FALSE, 0, 0)
<1>1. w \in VolumeType /\ w.pvc \in PVCType
  BY DEF Well, VolumeType
<1>2. [w EXCEPT !.pvc.app = FALSE] = [w EXCEPT !.pvc = a]
  BY <1>1 DEF VolumeType, PVCType
<1>3. a \in PVCType /\ a.there = w.pvc.there /\ ~a.app
  BY <1>1 DEF PVCType
<1>4. EnsurePVCforDirectCopy(w, f) = RetainPVForPVC(x, f)
  BY <1>2 DEF EnsurePVCforDirectCopy
<1> HIDE DEF a
<1>5. Keeps(w, [w EXCEPT !.pvc = a], may)
  BY <1>3, PVCSet
<1>6. [w EXCEPT !.pvc = a].pvc = a
  BY <1>1 DEF VolumeType
<1>7. Keeps(w, x, may) /\ x.pvc.there
  BY <1>3, <1>5, <1>6, ClaimedKeeps
<1> HIDE DEF x
<1>8. Tends(x, RetainPVForPVC(x, f), may)
  BY <1>7, RetentionTends DEF Keeps
<1> QED
  BY <1>4, <1>7, <1>8, TendsTwice DEF Tends, Keeps

\* ReconcileRD makes a destination only where it has removed the source, or
\* could not remove it.
LEMMA ReconcileRDWell ==
    ASSUME NEW may, NEW g, NEW w, Well(w, may), NEW f, f = "deleteRS" => may
    PROVE  ReconcileRD(g, w, f) \in Result /\ Well(ReconcileRD(g, w, f).w, may)
<1> DEFINE d == DeleteRS(w, f)
           e == EnsurePVCforDirectCopy(d, f)
           h == IF e.res = "go"
                THEN IF IsPVCInUseByNonRDPod(e.w) THEN Requeue(e.w) ELSE Go(e.w) ELSE e
           p == PrecreateDestPVCIfEnabled(g, d, f)
           v == p.w
           a == [v.rd EXCEPT !.there = TRUE]
           x == [v EXCEPT !.rd = a]
           t == IF p.res = "go" THEN createOrUpdateRD(v, f) ELSE p
           q == IF t.res = "go" THEN generateRDInfo(t.w) ELSE t
<1>1. ReconcileRD(g, w, f) = IF ~g.secret THEN Requeue(w) ELSE q
  BY DEF ReconcileRD, Then, With
<1>2. p = IF ~g.direct THEN Go(d) ELSE h
  BY DEF PrecreateDestPVCIfEnabled, Then, With
<1> HIDE DEF p
<1>3. Well(d, may) /\ (d.rs.there => may)
  BY DeleteRSKeeps DEF Keeps
<1> HIDE DEF d
<1>4. Tends(d, e, may)
  BY <1>3, DirectCopyTends
<1> HIDE DEF e
<1>5. Keeps(d, e.w, may)
  BY <1>4 DEF Tends
<1>6. Tends(d, h, may)
  BY <1>4, <1>5, Endings
<1> HIDE DEF h
<1>7. Tends(d, p, may)
  BY <1>2, <1>3, <1>6, EndsAtOnce
<1>8. Well(v, may) /\ v \in VolumeType /\ v.rd \in RDType /\ p \in Result
  BY <1>7 DEF Tends, Keeps, Well, VolumeType
<1>9. v.rs.there => may
  BY <1>3, <1>7 DEF Tends, Keeps
<1> HIDE DEF v
<1>10. a \in RDType
  BY <1>8 DEF RDType
<1>11. [v EXCEPT !.rd.there = TRUE] = x
  BY <1>8 DEF VolumeType, RDType
<1> HIDE DEF a
<1>12. /\ x \in VolumeType /\ x.pvc = v.pvc /\ x.pv = v.pv /\ x.mounted = v.mounted
       /\ x.rs = v.rs /\ x.rd = a /\ x.local = v.local
  BY <1>8, <1>10 DEF VolumeType
<1> HIDE DEF x
<1>13. Well(x, may)
  BY <1>8, <1>9, <1>12 DEF Well
<1>14. Tends(x, Go(x), may) /\ Tends(v, Requeue(v), may) /\ Tends(w, Requeue(w), may)
  BY <1>8, <1>13, EndsAtOnce
<1>15. createOrUpdateRD(v, f) \in {Requeue(v), Go(x)}
  BY <1>11 DEF createOrUpdateRD
<1>16. t \in Result /\ Well(t.w, may)
  BY <1>8, <1>14, <1>15 DEF Tends, Keeps, v
<1> HIDE DEF t
<1>17. Tends(t.w, generateRDInfo(t.w), may)
  BY <1>16, EndsAtOnce DEF generateRDInfo
<1>18. q \in Result /\ Well(q.w, may)
  BY <1>16, <1>17 DEF Tends, Keeps
<1> HIDE DEF q
<1> QED
  BY <1>1, <1>14, <1>18 DEF Tends, Keeps

\* A PVC the application deleted goes.
LEMMA DeletingTends ==
    ASSUME NEW may, NEW w, Well(w, may), NEW f
    PROVE  Tends(w, handleDeletingVolSyncPVCsAsSecondary(w, f), may)
<1> DEFINE r == CleanupPVClaimRefForPVCDeletion(w, f)
           q == IF r.res = "go" THEN RemoveFinalizer(r.w, f) ELSE r
<1>1. handleDeletingVolSyncPVCsAsSecondary(w, f) = IF ~w.pvc.terminating THEN Go(w) ELSE q
  BY DEF handleDeletingVolSyncPVCsAsSecondary, Then, With
<1>2. Tends(w, r, may)
  BY ClaimRefTends
<1> HIDE DEF r
<1>3. Keeps(w, r.w, may) /\ Well(r.w, may)
  BY <1>2 DEF Tends, Keeps
<1>4. Tends(w, q, may)
  BY <1>2, <1>3, RemoveFinalizerTends, TendsTwice
<1> HIDE DEF q
<1> QED
  BY <1>1, <1>4, EndsAtOnce

-----------------------------------------------------------------------------
(* Restoring and deleting.                                                  *)

\* A PVC made from a snapshot.
LEMMA SnapshotTends ==
    ASSUME NEW may, NEW w, Well(w, may)
    PROVE  Tends(w, ensurePVCFromSnapshot(w), may)
<1> DEFINE x == Claimed(w, TRUE, w.rd.image.id, w.rd.image.ver)
           y == DeletePVC(w)
<1>1. w.rd.image.id \in Nat /\ w.rd.image.ver \in Nat
  BY DEF Well, VolumeType, RDType
<1>2. ~w.pvc.there => Keeps(w, x, may)
  BY <1>1, ClaimedKeeps
<1>3. Keeps(w, y, may)
  BY DeletePVCKeeps
<1>4. ensurePVCFromSnapshot(w) = IF ~w.pvc.there THEN Go(x)
                                 ELSE IF w.pvc.source # w.rd.image.id THEN Requeue(y) ELSE Go(w)
  BY DEF ensurePVCFromSnapshot
<1> HIDE DEF x, y
<1> QED
  BY <1>2, <1>3, <1>4, Endings, EndsAtOnce

\* The local pair is set up, then told which snapshot to copy.
LEMMA LocalTends ==
    ASSUME NEW may, NEW w, Well(w, may), NEW f
    PROVE  Tends(w, reconcileLocalReplication(w, f), may)
<1> DEFINE e == EnsurePVCforDirectCopy(w, f)
           v == e.w
           a == [v.local EXCEPT !.rd = TRUE]
           b == [v.local EXCEPT !.trigger = v.rd.image.id]
           x == [v EXCEPT !.local.rd = TRUE]
           y == [v EXCEPT !.local.trigger = v.rd.image.id]
           q == IF e.res = "go" THEN IF ~v.local.addr THEN Requeue(x) ELSE Go(y) ELSE e
<1>1. reconcileLocalReplication(w, f) = q
  BY DEF reconcileLocalReplication, Then, With
<1>2. Tends(w, e, may)
  BY DirectCopyTends
<1> HIDE DEF e
<1>3. /\ Keeps(w, v, may) /\ Well(v, may) /\ v \in VolumeType /\ v.local \in LocalType
      /\ v.rd.image.id \in Nat
  BY <1>2 DEF Tends, Keeps, Well, VolumeType, RDType
<1>4. v.local.addr => v.local.rd
  BY <1>3 DEF Well
<1> HIDE DEF v
<1>5. x = [v EXCEPT !.local = a] /\ y = [v EXCEPT !.local = b]
  BY <1>3 DEF VolumeType, LocalType
<1>6. a \in LocalType /\ a.rd
  BY <1>3 DEF LocalType
<1>7. b \in LocalType /\ b.rd = v.local.rd
  BY <1>3 DEF LocalType
<1> HIDE DEF a, b
<1>8. Keeps(v, x, may)
  BY <1>3, <1>5, <1>6, LocalSet
<1>9. v.local.addr => Keeps(v, y, may)
  BY <1>3, <1>4, <1>5, <1>7, LocalSet
<1> HIDE DEF x, y
<1>10. Keeps(w, x, may) /\ (v.local.addr => Keeps(w, y, may))
  BY <1>3, <1>8, <1>9, KeepsTwice
<1>11. Tends(w, q, may)
  BY <1>2, <1>10, Endings
<1> QED
  BY <1>1, <1>11

\* Rolling a volume back to the last snapshot.
LEMMA RollbackTends ==
    ASSUME NEW may, NEW w, Well(w, may), NEW f PROVE Tends(w, rollbackToLastSnapshot(w, f), may)
<1> DEFINE v == [w EXCEPT !.rd.paused = TRUE]
           a == [w.rd EXCEPT !.paused = TRUE]
           r == reconcileLocalReplication(v, f)
           u == r.w
           b == [u.local EXCEPT !.paused = TRUE]
           x == [u EXCEPT !.local.paused = TRUE]
           q == IF r.res = "go" THEN IF u.local.last = u.rd.image.id THEN Go(x) ELSE Requeue(u)
                ELSE r
           Ends(y) ==
             IF y.mounted /\ ~y.local.rd THEN Requeue(y)
             ELSE Then(reconcileLocalReplication(y, f), LAMBDA z :
                    IF z.local.last = z.rd.image.id THEN Go([z EXCEPT !.local.paused = TRUE])
                    ELSE Requeue(z))
<1>1. rollbackToLastSnapshot(w, f) = IF v.mounted /\ ~v.local.rd THEN Requeue(v) ELSE q
  <2>1. rollbackToLastSnapshot(w, f) = With(v, Ends)
    BY DEF rollbackToLastSnapshot
  <2> HIDE DEF v, Ends
  <2>2. With(v, Ends) = Ends(v)
    BY DEF With
  <2>3. Ends(v) = IF v.mounted /\ ~v.local.rd THEN Requeue(v) ELSE q
    BY DEF Ends, Then, With
  <2> QED
    BY <2>1, <2>2, <2>3
<1>2. w \in VolumeType /\ w.rd \in RDType
  BY DEF Well, VolumeType
<1>3. v = [w EXCEPT !.rd = a]
  BY <1>2 DEF VolumeType, RDType
<1>4. a \in RDType /\ a.there = w.rd.there
  BY <1>2 DEF RDType
<1> HIDE DEF a
<1>5. Keeps(w, v, may) /\ Well(v, may)
  BY <1>3, <1>4, RDSet DEF Keeps
<1> HIDE DEF v
<1>6. Tends(v, r, may)
  BY <1>5, LocalTends
<1> HIDE DEF r
<1>7. Keeps(v, u, may) /\ Well(u, may) /\ u \in VolumeType /\ u.local \in LocalType
  BY <1>6 DEF Tends, Keeps, Well, VolumeType
<1>8. (u.local.trigger # 0 => u.local.rd) /\ (u.local.addr => u.local.rd)
  BY <1>7 DEF Well
<1> HIDE DEF u
<1>9. x = [u EXCEPT !.local = b]
  BY <1>7 DEF VolumeType, LocalType
<1>10. b \in LocalType /\ b.rd = u.local.rd /\ b.trigger = u.local.trigger /\ b.addr = u.local.addr
  BY <1>7 DEF LocalType
<1> HIDE DEF b
<1>11. Keeps(u, x, may)
  BY <1>7, <1>8, <1>9, <1>10, LocalSet
<1> HIDE DEF x
<1>12. Keeps(v, x, may)
  BY <1>7, <1>11, KeepsTwice
<1>13. Tends(v, q, may)
  BY <1>6, <1>7, <1>12, Endings
<1> HIDE DEF q
<1>14. Tends(w, q, may) /\ Tends(w, Requeue(v), may)
  BY <1>5, <1>13, TendsTwice, Endings
<1> QED
  BY <1>1, <1>14

\* The snapshot is kept, and the PVC is made from it or rolled back to it.
LEMMA ValidateSnapshotTends ==
    ASSUME NEW may, NEW g, NEW w, Well(w, may), NEW f
    PROVE  Tends(w, ValidateSnapshotAndEnsurePVC(g, w, f), may)
<1> DEFINE i == w.rd.image.id
           v == [w EXCEPT !.kept = i]
           r == IF g.action = "Failover" THEN rollbackToLastSnapshot(v, f) ELSE Go(v)
           u == r.w
           a == [u.pvc EXCEPT !.app = TRUE]
           x == [u EXCEPT !.pvc.app = TRUE]
           q == IF r.res = "go" THEN Go(x) ELSE r
           Ends(y) ==
             IF ~g.direct THEN ensurePVCFromSnapshot(y)
             ELSE IF ~y.pvc.there THEN Requeue(y)
             ELSE Then(IF g.action = "Failover" THEN rollbackToLastSnapshot(y, f) ELSE Go(y),
                       LAMBDA z : Go([z EXCEPT !.pvc.app = TRUE]))
<1>1. ValidateSnapshotAndEnsurePVC(g, w, f) =
        IF ~g.direct THEN ensurePVCFromSnapshot(v) ELSE IF ~v.pvc.there THEN Requeue(v) ELSE q
  <2>1. ValidateSnapshotAndEnsurePVC(g, w, f) = With(v, Ends)
    BY DEF ValidateSnapshotAndEnsurePVC
  <2> HIDE DEF v, Ends
  <2>2. With(v, Ends) = Ends(v)
    BY DEF With
  <2>3. Ends(v) = IF ~g.direct THEN ensurePVCFromSnapshot(v)
                  ELSE IF ~v.pvc.there THEN Requeue(v) ELSE q
    <3> DEFINE Handed(e) == IF e.res = "go" THEN Go([e.w EXCEPT !.pvc.app = TRUE]) ELSE e
    <3>1. Ends(v) = IF ~g.direct THEN ensurePVCFromSnapshot(v)
                    ELSE IF ~v.pvc.there THEN Requeue(v) ELSE With(r, Handed)
      BY DEF Ends, Then
    <3>2. q = Handed(r)
      OBVIOUS
    <3> HIDE DEF r, q, Handed
    <3>3. With(r, Handed) = Handed(r)
      BY DEF With
    <3> QED
      BY <3>1, <3>2, <3>3
  <2> QED
    BY <2>1, <2>2, <2>3
<1>2. i \in Nat
  BY DEF Well, VolumeType, RDType
<1> HIDE DEF i
<1>3. Keeps(w, v, may) /\ Well(v, may)
  BY <1>2, OtherSet DEF Keeps
<1> HIDE DEF v
<1>4. Tends(v, r, may)
  BY <1>3, RollbackTends, EndsAtOnce
<1> HIDE DEF r
<1>5. Keeps(v, u, may) /\ Well(u, may) /\ u \in VolumeType /\ u.pvc \in PVCType
  BY <1>4 DEF Tends, Keeps, Well, VolumeType
<1>6. v.pvc.there => u.pvc.there
  BY <1>5 DEF Keeps
<1> HIDE DEF u
<1>7. x = [u EXCEPT !.pvc = a]
  BY <1>5 DEF VolumeType, PVCType
<1>8. a \in PVCType /\ a.there = u.pvc.there
  BY <1>5 DEF PVCType
<1> HIDE DEF a
<1>9. v.pvc.there => Keeps(u, x, may)
  BY <1>5, <1>6, <1>7, <1>8, PVCSet
<1> HIDE DEF x
<1>10. v.pvc.there => Tends(v, q, may)
  BY <1>4, <1>5, <1>9, KeepsTwice, Endings
<1> HIDE DEF q
<1>11. v.pvc.there => Tends(w, q, may)
  BY <1>3, <1>10, TendsTwice
<1>12. Tends(w, Requeue(v), may) /\ Tends(w, ensurePVCFromSnapshot(v), may)
  BY <1>3, SnapshotTends, TendsTwice, Endings
<1> QED
  BY <1>1, <1>11, <1>12

\* restorePVForVolSync: whether it worked is in the status.
LEMMA RestoreTends ==
    ASSUME NEW may, NEW g, NEW w, Well(w, may), NEW f
    PROVE  Tends(w, restorePVForVolSync(g, w, f), may)
<1> DEFINE r == EnsurePVCfromRD(g, w, f)
           c == IF r.res = "go" THEN "Complete" ELSE "Error"
           s == [r.w.st EXCEPT !.listed = TRUE, !.restored = c]
           x == [r.w EXCEPT !.st = s]
           q == [r EXCEPT !.w.st = [@ EXCEPT !.listed = TRUE, !.restored = c]]
<1>1. restorePVForVolSync(g, w, f) = q
  BY DEF restorePVForVolSync, With
<1>2. Tends(w, r, may)
  BY ValidateSnapshotTends, EndsAtOnce DEF EnsurePVCfromRD
<1> HIDE DEF r
<1>3. c \in {"Complete", "Error"}
  OBVIOUS
<1> HIDE DEF c
<1>4. r \in Result /\ Keeps(w, r.w, may) /\ Well(r.w, may) /\ r.w \in VolumeType /\ r.w.st \in StatusType
  BY <1>2 DEF Tends, Keeps, Well, VolumeType
<1>5. s \in StatusType
  BY <1>3, <1>4 DEF StatusType
<1>6. q = [w |-> x, res |-> r.res]
  BY <1>4 DEF Result, VolumeType, StatusType
<1> HIDE DEF s
<1>7. Keeps(w, x, may)
  BY <1>4, <1>5, OtherSet, KeepsTwice
<1>8. x \in VolumeType
  BY <1>7 DEF Keeps, Well
<1> HIDE DEF x, q
<1>9. q \in Result /\ q.w = x
  BY <1>4, <1>6, <1>8 DEF Result
<1> QED
  BY <1>1, <1>7, <1>9 DEF Tends

\* doCleanupResources removes both the source and the destination.
LEMMA CleanupTends ==
    ASSUME NEW may, NEW g, NEW w, Well(w, may), NEW f
    PROVE  Tends(w, doCleanupResources(g, w, f), may)
<1> DEFINE s == DeleteRS(w, f)
           r == DeleteRD(g, s, f)
           q == IF r.res = "go" THEN Go([r.w EXCEPT !.kept = 0]) ELSE r
<1>1. doCleanupResources(g, w, f) = q
  BY DEF doCleanupResources, Then, With
<1>2. Keeps(w, s, may) /\ Well(s, may)
  BY DeleteRSKeeps DEF Keeps
<1> HIDE DEF s
<1>3. Tends(w, r, may)
  BY <1>2, DeleteRDTends, TendsTwice
<1> HIDE DEF r
<1>4. Keeps(w, r.w, may) /\ Well(r.w, may)
  BY <1>3 DEF Tends, Keeps
<1>5. Keeps(w, [r.w EXCEPT !.kept = 0], may)
  BY <1>4, OtherSet, KeepsTwice
<1> QED
  BY <1>1, <1>3, <1>5, Endings

\* deleteDestinationPVC: the PVC a destination was given goes with it.
LEMMA DestinationPVCTends ==
    ASSUME NEW may, NEW w, Well(w, may), NEW f PROVE Tends(w, deleteDestinationPVC(w, f), may)
<1> DEFINE r == UndoPVRetentionForPVC(w, f)
           t == IF r.res = "go" THEN RemoveFinalizer(r.w, f) ELSE r
           q == IF t.res = "go" THEN Go(DeletePVC(t.w)) ELSE t
<1>1. deleteDestinationPVC(w, f) = IF ~w.pvc.there THEN Go(w) ELSE q
  BY DEF deleteDestinationPVC, Then, With
<1>2. Tends(w, r, may)
  BY RetentionTends
<1> HIDE DEF r
<1>3. Keeps(w, r.w, may) /\ Well(r.w, may)
  BY <1>2 DEF Tends, Keeps
<1>4. Tends(w, t, may)
  BY <1>2, <1>3, RemoveFinalizerTends, TendsTwice
<1> HIDE DEF t
<1>5. Keeps(w, t.w, may) /\ Well(t.w, may)
  BY <1>4 DEF Tends, Keeps
<1>6. Keeps(w, DeletePVC(t.w), may)
  BY <1>5, DeletePVCKeeps, KeepsTwice
<1>7. Tends(w, q, may)
  BY <1>4, <1>6, Endings
<1> HIDE DEF q
<1> QED
  BY <1>1, <1>7, EndsAtOnce

\* cleanupResources, for a PVC of the application or of a destination.
LEMMA CleanupResourcesTends ==
    ASSUME NEW may, NEW g, NEW w, Well(w, may), NEW f, NEW isPVC, NEW isRD
    PROVE  Tends(w, cleanupResources(g, w, f, isPVC, isRD), may)
<1> DEFINE c == doCleanupResources(g, w, f)
           d == IF c.res = "go" THEN RemoveFinalizer(c.w, f) ELSE c
           r == IF isPVC THEN d ELSE Go(w)
           e == doCleanupResources(g, r.w, f)
           h == IF e.res = "go"
                THEN IF g.state = "Secondary" THEN deleteDestinationPVC(e.w, f) ELSE Go(e.w)
                ELSE e
           q == IF r.res = "go" THEN IF ~isRD THEN Go(r.w) ELSE h ELSE r
<1>1. cleanupResources(g, w, f, isPVC, isRD) = q
  BY DEF cleanupResources, Then, With
<1>2. Tends(w, c, may)
  BY CleanupTends
<1> HIDE DEF c
<1>3. Keeps(w, c.w, may) /\ Well(c.w, may)
  BY <1>2 DEF Tends, Keeps
<1>4. Tends(w, d, may)
  BY <1>2, <1>3, RemoveFinalizerTends, TendsTwice
<1> HIDE DEF d
<1>5. Tends(w, r, may)
  BY <1>4, EndsAtOnce
<1> HIDE DEF r
<1>6. Keeps(w, r.w, may) /\ Well(r.w, may)
  BY <1>5 DEF Tends, Keeps
<1>7. Tends(w, e, may)
  BY <1>6, CleanupTends, TendsTwice
<1> HIDE DEF e
<1>8. Keeps(w, e.w, may) /\ Well(e.w, may)
  BY <1>7 DEF Tends, Keeps
<1>9. Tends(w, h, may)
  BY <1>7, <1>8, DestinationPVCTends, TendsTwice, Endings
<1> HIDE DEF h
<1> QED
  BY <1>1, <1>5, <1>6, <1>9, Endings
=============================================================================
