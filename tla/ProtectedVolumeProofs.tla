------------------------ MODULE ProtectedVolumeProofs ------------------------
(***************************************************************************)
(* What the steps of a pass do to one volume, for every volume, every VRG  *)
(* specification and every call that fails.                                *)
(***************************************************************************)
EXTENDS ProtectedVolume, TLAPS

AllCurrent(w) == \A i \in 1..Stores : w.s3[i] = [pv |-> "current", pvc |-> "current"]

\* The volume is on its way out, so its objects may have left the stores.
Leaving(v, w) ==
    v.deleted \/ w.pvc.terminating \/ (~w.pvc.selected /\ w.pvc.finalizer)

Paired(w) == /\ w.pvc.bound <=> w.pv.phase = "Bound"
             /\ w.pvc.finalizer => w.pvc.bound
             /\ w.pvc.bound => w.pvc.there
PolicyKept(w) == ~w.reclaims => ~w.pv.retained /\ (w.pv.phase # "None" => w.pv.retain)
Archived(v, w) == isArchivedAlready(w) => AllCurrent(w) \/ Leaving(v, w)
Replicated(v, w) == /\ w.vr.there => v.async /\ w.vr.state \in Roles
                    /\ w.vr.terminating => w.vr.there

\* What every step keeps, whatever call fails.
Sound(v, w) == /\ w \in VolumeType
               /\ Paired(w) /\ PolicyKept(w) /\ Archived(v, w) /\ Replicated(v, w)

\* What every step keeps of a PVC that nobody else owns, when updating a PVC
\* does not fail: a replicated volume has its PV retained.
Retained(w) == /\ w.pvc.owner # "other"
               /\ w.vr.there => w.pv.retain
               /\ w.pvc.protected => w.pvc.finalizer /\ w.pv.retain

\* What no step of a pass changes.
SameVolume(w, x) ==
    /\ x.inUse = w.inUse /\ x.reclaims = w.reclaims /\ x.pv.phase = w.pv.phase
    /\ x.pvc.there = w.pvc.there /\ x.pvc.bound = w.pvc.bound
    /\ x.pvc.terminating = w.pvc.terminating /\ x.pvc.selected = w.pvc.selected

\* A step that takes a volume under protection, or stores its objects.
Protects(v, w, x) ==
    /\ Sound(v, x) /\ SameVolume(w, x) /\ x.vr = w.vr
    /\ w.pvc.finalizer => x.pvc.finalizer
    /\ w.pv.retain => x.pv.retain
    /\ x.pvc.owner = w.pvc.owner \/ x.pvc.finalizer
    /\ Retained(w) => Retained(x)

\* A resize leaves the stores with objects of the same kinds.
LEMMA OutdatedType == ASSUME NEW s \in S3Type PROVE Outdated(s) \in S3Type
BY DEF Outdated, S3Type, Objects

\* A step that does nothing protects.
LEMMA ProtectsSelf == ASSUME NEW v, NEW w, Sound(v, w) PROVE Protects(v, w, w)
BY DEF Protects, SameVolume

\* Steps that take a volume under protection follow on each other.
LEMMA ProtectsTwice ==
    ASSUME NEW v, NEW w, NEW x, NEW y, Protects(v, w, x), Protects(v, x, y)
    PROVE  Protects(v, w, y)
BY DEF Protects, SameVolume

\* Only the entry in the status differs.
LEMMA ProtectsStatus ==
    ASSUME NEW v, NEW w, NEW s \in StatusType, Sound(v, w)
    PROVE  Protects(v, w, [w EXCEPT !.st = s])
<1> DEFINE x == [w EXCEPT !.st = s]
<1>1. w \in VolumeType
  BY DEF Sound
<1>2. x \in VolumeType /\ x.pvc = w.pvc /\ x.pv = w.pv /\ x.vr = w.vr /\ x.s3 = w.s3
      /\ x.inUse = w.inUse /\ x.reclaims = w.reclaims
  BY <1>1 DEF VolumeType
<1> HIDE DEF x
<1>3. Sound(v, x)
  BY <1>2 DEF Sound, Paired, PolicyKept, Archived, Replicated, AllCurrent, Leaving, isArchivedAlready
<1>4. Protects(v, w, x)
  BY <1>2, <1>3 DEF Protects, SameVolume, Retained
<1> QED
  BY <1>4 DEF x

\* Writing the entry of status.protectedPVCs changes nothing else of a volume.
LEMMA StatusSteps ==
    ASSUME NEW v, NEW w, Sound(v, w)
    PROVE  /\ \A r \in {"Progressing", "Error", "Ready", "Replicating", "Replicated"} :
                 Protects(v, w, DataReady(w, r))
           /\ \A r \in {"None", "Error", "Ready", "Replicating", "DataProtected"} :
                 Protects(v, w, DataProtected(w, r))
           /\ \A r \in {"UploadError", "AnnotationFailed", "Uploaded"} :
                 Protects(v, w, ClusterData(w, r))
           /\ Protects(v, w, pvcStatusDeleteIfPresent(w))
           /\ Protects(v, w, [w EXCEPT !.st.listed = @ \/ v.async])
<1>1. w \in VolumeType
  BY DEF Sound
<1>2. ASSUME NEW r \in {"Progressing", "Error", "Ready", "Replicating", "Replicated"}
      PROVE  Protects(v, w, DataReady(w, r))
  <2>1. DataReady(w, r) = [w EXCEPT !.st = [w.st EXCEPT !.listed = TRUE, !.dataReady = r]]
    BY <1>1 DEF DataReady, VolumeType, StatusType
  <2>2. [w.st EXCEPT !.listed = TRUE, !.dataReady = r] \in StatusType
    BY <1>1 DEF VolumeType, StatusType
  <2> QED
    BY <2>1, <2>2, ProtectsStatus
<1>3. ASSUME NEW r \in {"None", "Error", "Ready", "Replicating", "DataProtected"}
      PROVE  Protects(v, w, DataProtected(w, r))
  <2>1. DataProtected(w, r) = [w EXCEPT !.st = [w.st EXCEPT !.listed = TRUE, !.dataProtected = r]]
    BY <1>1 DEF DataProtected, VolumeType, StatusType
  <2>2. [w.st EXCEPT !.listed = TRUE, !.dataProtected = r] \in StatusType
    BY <1>1 DEF VolumeType, StatusType
  <2> QED
    BY <2>1, <2>2, ProtectsStatus
<1>4. ASSUME NEW r \in {"UploadError", "AnnotationFailed", "Uploaded"}
      PROVE  Protects(v, w, ClusterData(w, r))
  <2>1. ClusterData(w, r) = [w EXCEPT !.st = [w.st EXCEPT !.listed = TRUE, !.clusterData = r]]
    BY <1>1 DEF ClusterData, VolumeType, StatusType
  <2>2. [w.st EXCEPT !.listed = TRUE, !.clusterData = r] \in StatusType
    BY <1>1 DEF VolumeType, StatusType
  <2> QED
    BY <2>1, <2>2, ProtectsStatus
<1>5. Protects(v, w, pvcStatusDeleteIfPresent(w))
  <2>1. NoStatus \in StatusType
    BY DEF NoStatus, StatusType
  <2> QED
    BY <2>1, ProtectsStatus DEF pvcStatusDeleteIfPresent
<1>6. Protects(v, w, [w EXCEPT !.st.listed = @ \/ v.async])
  <2>1. [w EXCEPT !.st.listed = @ \/ v.async] = [w EXCEPT !.st = [w.st EXCEPT !.listed = w.st.listed \/ v.async]]
    BY <1>1 DEF VolumeType, StatusType
  <2>2. [w.st EXCEPT !.listed = w.st.listed \/ v.async] \in StatusType
    BY <1>1 DEF VolumeType, StatusType
  <2> QED
    BY <2>1, <2>2, ProtectsStatus
<1> QED
  BY <1>2, <1>3, <1>4, <1>5, <1>6

-----------------------------------------------------------------------------
(* Taking a volume under protection.                                        *)

\* addFinalizerToPVC: when it goes on, the VRG owns the PVC and holds it.
LEMMA AddFinalizer ==
    ASSUME NEW v, NEW f, NEW w, Sound(v, w), w.pvc.bound
    PROVE  LET r == addFinalizerToPVC(w, f) IN
           /\ Protects(v, w, r.w)
           /\ r.res = "go" => r.w.pvc.finalizer
<1>1. w \in VolumeType
  BY DEF Sound
<1> DEFINE x == [w EXCEPT !.pvc.owner = "vrg", !.pvc.finalizer = TRUE]
<1>2. x \in VolumeType
  BY <1>1 DEF VolumeType, PVCType
<1>3. /\ x.pv = w.pv /\ x.vr = w.vr /\ x.s3 = w.s3 /\ x.inUse = w.inUse /\ x.reclaims = w.reclaims
      /\ x.pvc.owner = "vrg" /\ x.pvc.finalizer /\ SameVolume(w, x)
      /\ x.pvc.archived = w.pvc.archived /\ x.pvc.protected = w.pvc.protected
  BY <1>1 DEF VolumeType, PVCType, SameVolume
<1> HIDE DEF x
<1>4. Sound(v, x)
  BY <1>2, <1>3 DEF Sound, SameVolume, Paired, PolicyKept, Archived, Replicated, AllCurrent, Leaving, isArchivedAlready
<1>5. Protects(v, w, x)
  BY <1>3, <1>4 DEF Protects, Retained
<1>6. Protects(v, w, DataReady(w, "Error"))
  BY StatusSteps
<1> QED
  BY <1>3, <1>5, <1>6, ProtectsSelf DEF addFinalizerToPVC, Go, Requeue, x

\* retainPVForPVC: when it goes on, the PV is retained.
LEMMA RetainPV ==
    ASSUME NEW v, NEW f, NEW w, Sound(v, w)
    PROVE  LET r == retainPVForPVC(w, f) IN
           /\ w.pv.phase # "None" => Protects(v, w, r.w)
           /\ r.res = "go" => r.w.pv.retain
<1>1. w \in VolumeType
  BY DEF Sound
<1> DEFINE x == [w EXCEPT !.pv.retain = TRUE, !.pv.retained = TRUE,
                          !.pv.archived = FALSE, !.s3 = Outdated(w.s3)]
<1>2. x \in VolumeType
  BY <1>1, OutdatedType DEF VolumeType, PVType
<1>3. /\ x.pvc = w.pvc /\ x.vr = w.vr /\ x.s3 = Outdated(w.s3)
      /\ x.inUse = w.inUse /\ x.reclaims = w.reclaims
      /\ x.pv.retain /\ x.pv.phase = w.pv.phase /\ ~x.pv.archived
  BY <1>1 DEF VolumeType, PVType
<1> HIDE DEF x
<1>5. ~w.pv.retain /\ w.pv.phase # "None" => Sound(v, x)
  BY <1>1, <1>2, <1>3 DEF Sound, Paired, PolicyKept, Archived, Replicated, AllCurrent, Leaving, isArchivedAlready, VolumeType
<1>6. ~w.pv.retain /\ w.pv.phase # "None" => Protects(v, w, x)
  BY <1>3, <1>5 DEF Protects, SameVolume, Retained
<1>7. Protects(v, w, DataReady(w, "Error"))
  BY StatusSteps
<1> QED
  BY <1>3, <1>6, <1>7, ProtectsSelf DEF retainPVForPVC, Go, Requeue, x

\* addProtectedAnnotationForPVC, once the finalizer is set and the PV retained.
LEMMA AddAnnotation ==
    ASSUME NEW v, NEW f, NEW w, Sound(v, w), w.pvc.finalizer, w.pv.retain
    PROVE  Protects(v, w, addProtectedAnnotationForPVC(w, f).w)
<1>1. w \in VolumeType
  BY DEF Sound
<1> DEFINE x == [w EXCEPT !.pvc.protected = TRUE]
<1>2. x \in VolumeType
  BY <1>1 DEF VolumeType, PVCType
<1>3. /\ x.pv = w.pv /\ x.vr = w.vr /\ x.s3 = w.s3 /\ x.inUse = w.inUse /\ x.reclaims = w.reclaims
      /\ x.pvc.owner = w.pvc.owner /\ x.pvc.finalizer = w.pvc.finalizer /\ SameVolume(w, x)
      /\ x.pvc.archived = w.pvc.archived
  BY <1>1 DEF VolumeType, PVCType, SameVolume
<1> HIDE DEF x
<1>4. Sound(v, x)
  BY <1>2, <1>3 DEF Sound, SameVolume, Paired, PolicyKept, Archived, Replicated, AllCurrent, Leaving, isArchivedAlready
<1>5. Protects(v, w, x)
  BY <1>3, <1>4 DEF Protects, Retained
<1>6. Protects(v, w, DataReady(w, "Error"))
  BY StatusSteps
<1> QED
  BY <1>5, <1>6, ProtectsSelf DEF addProtectedAnnotationForPVC, Go, Requeue, x

\* Once prepared, a PVC that nobody else owns is held and its PV retained.
LEMMA Prepared ==
    ASSUME NEW v, NEW f, NEW w, Sound(v, w)
    PROVE  LET r == preparePVCForVRProtection(w, f) IN
           /\ Protects(v, w, r.w)
           /\ r.res = "go" /\ Retained(r.w) => r.w.pvc.finalizer /\ r.w.pv.retain
<1>1. w \in VolumeType /\ (w.pvc.bound => w.pv.phase # "None")
  BY DEF Sound, Paired
<1> DEFINE a == addFinalizerToPVC(w, f)
           b == Then(a, LAMBDA x : retainPVForPVC(x, f))
           c == Then(b, LAMBDA x : addProtectedAnnotationForPVC(x, f))
<1>2. w.pvc.bound => Protects(v, w, a.w) /\ (a.res = "go" => a.w.pvc.finalizer)
  BY AddFinalizer
<1>3. b = IF a.res = "go" THEN retainPVForPVC(a.w, f) ELSE a
  BY DEF Then, With
<1>4. c = IF b.res = "go" THEN addProtectedAnnotationForPVC(b.w, f) ELSE b
  BY DEF Then, With
<1>5. protectPVC(w, f) = IF w.pvc.owner = "other" THEN Go(DataReady(w, "Error")) ELSE c
  BY DEF protectPVC
<1> HIDE DEF a, b, c
<1>6. w.pvc.bound => /\ Protects(v, w, b.w)
                     /\ b.res = "go" => b.w.pvc.finalizer /\ b.w.pv.retain
  <2> HAVE w.pvc.bound
  <2>1. CASE a.res # "go"
    BY <2>1, <1>2, <1>3
  <2>2. CASE a.res = "go"
    <3>1. Sound(v, a.w) /\ a.w.pv.phase # "None"
      BY <1>1, <1>2 DEF Protects, SameVolume
    <3>2. Protects(v, a.w, b.w) /\ (b.res = "go" => b.w.pv.retain)
      BY <2>2, <3>1, <1>3, RetainPV
    <3>3. b.w.pvc.finalizer
      BY <2>2, <1>2, <3>2 DEF Protects
    <3> QED
      BY <1>2, <3>2, <3>3, ProtectsTwice
  <2> QED
    BY <2>1, <2>2
<1>7. w.pvc.bound => /\ Protects(v, w, c.w)
                     /\ c.res = "go" => c.w.pvc.finalizer /\ c.w.pv.retain
  <2> HAVE w.pvc.bound
  <2>1. CASE b.res # "go"
    BY <2>1, <1>6, <1>4
  <2>2. CASE b.res = "go"
    <3>1. Sound(v, b.w)
      BY <1>6 DEF Protects
    <3>2. Protects(v, b.w, c.w)
      BY <2>2, <1>6, <3>1, <1>4, AddAnnotation
    <3>3. c.w.pvc.finalizer /\ c.w.pv.retain
      BY <2>2, <1>6, <3>2 DEF Protects
    <3> QED
      BY <1>6, <3>2, <3>3, ProtectsTwice
  <2> QED
    BY <2>1, <2>2
<1>8. Protects(v, w, DataReady(w, "Error")) /\ Protects(v, w, DataReady(w, "Progressing")) /\ Protects(v, w, w)
  BY StatusSteps, ProtectsSelf
<1>9. DataReady(w, "Error").pvc = w.pvc
  BY <1>1 DEF DataReady, VolumeType
<1> QED
  BY <1>5, <1>7, <1>8, <1>9 DEF preparePVCForVRProtection, skipPVC, Go, Stop, Retained

\* updateProtectedPVCs lists the PVC and changes nothing else.
LEMMA ListedEntry ==
    ASSUME NEW v, NEW f, NEW w, Sound(v, w)
    PROVE  Protects(v, w, updateProtectedPVCs(v, w, f).w)
BY StatusSteps, ProtectsSelf DEF updateProtectedPVCs, Go, Requeue

-----------------------------------------------------------------------------
(* The VolumeReplication.                                                   *)

\* What a Secondary reports once it follows the other cluster.
Follows(vr) == /\ vr.observed /\ vr.cond["Completed"] = "True"
               /\ validateAdditionalVRStatusForSecondary(vr).ready

\* Only the VolumeReplication and the entry in the status differ.
SameButVR(w, x) ==
    /\ x.pvc = w.pvc /\ x.pv = w.pv /\ x.s3 = w.s3
    /\ x.inUse = w.inUse /\ x.reclaims = w.reclaims

Created(w, x, state) ==
    ~w.vr.there /\ x.vr.there /\ ~x.vr.terminating /\ x.vr.state = state
Updated(w, x, state) ==
    /\ w.vr.there /\ x.vr.there /\ x.vr.terminating = w.vr.terminating
    /\ x.vr.state = state /\ ~x.vr.observed

\* checkVRStatus finds a secondary ready exactly when its storage follows the
\* peer, whatever the specification of the VRG.
LEMMA FollowsIsReady ==
    ASSUME NEW v, NEW vr PROVE checkVRStatus(v, vr, "Secondary").ready <=> Follows(vr)
BY DEF checkVRStatus, validateVRStatus, Follows, Verdict, Errored

\* checkVRStatus has a verdict of the kinds that the conditions of a PVC have.
LEMMA Verdicts ==
    ASSUME NEW v, NEW vr, NEW state \in Roles
    PROVE  /\ checkVRStatus(v, vr, state).dataReady
                 \in {"Progressing", "Error", "Ready", "Replicating", "Replicated"}
           /\ checkVRStatus(v, vr, state).dataProtected
                 \in {"Keep", "None", "Error", "Ready", "Replicating", "DataProtected"}
BY DEF checkVRStatus, validateVRStatus, Verdict, Errored, validateAdditionalVRStatusForSecondary,
       checkResyncCompletionAsSecondary, Roles

\* The verdict of checkVRStatus goes to the entry in the status only.
LEMMA AppliedVerdict ==
    ASSUME NEW v, NEW w, NEW d, Sound(v, w),
           d.dataReady \in {"Progressing", "Error", "Ready", "Replicating", "Replicated"},
           d.dataProtected \in {"Keep", "None", "Error", "Ready", "Replicating", "DataProtected"}
    PROVE  Protects(v, w, Applied(w, d)) /\ SameButVR(w, Applied(w, d))
<1> DEFINE x == DataReady(w, d.dataReady)
           s == IF d.dataProtected = "Keep" THEN w.st.dataProtected ELSE d.dataProtected
<1>1. w \in VolumeType
  BY DEF Sound
<1>2. s \in {"None", "Error", "Ready", "Replicating", "DataProtected"}
  BY <1>1 DEF VolumeType, StatusType
<1>3. Protects(v, w, x) /\ SameButVR(w, x)
  BY <1>1, StatusSteps DEF DataReady, SameButVR, VolumeType
<1>4. Sound(v, x) /\ x \in VolumeType
  BY <1>3 DEF Protects, Sound
<1>5. Applied(w, d) = DataProtected(x, s)
  BY DEF Applied
<1> HIDE DEF x, s
<1>6. Protects(v, x, DataProtected(x, s)) /\ SameButVR(x, DataProtected(x, s))
  BY <1>2, <1>4, StatusSteps DEF DataProtected, SameButVR, VolumeType
<1> QED
  BY <1>3, <1>5, <1>6, ProtectsTwice DEF SameButVR

\* Another VolumeReplication, and nothing else, keeps a volume sound.
LEMMA OtherVR ==
    ASSUME NEW v, NEW w, NEW vr \in VRType, Sound(v, w),
           vr.there => v.async /\ vr.state \in Roles, vr.terminating => vr.there
    PROVE  LET x == [w EXCEPT !.vr = vr] IN Sound(v, x) /\ SameButVR(w, x) /\ x.vr = vr
<1> DEFINE x == [w EXCEPT !.vr = vr]
<1>1. w \in VolumeType
  BY DEF Sound
<1>2. x \in VolumeType /\ SameButVR(w, x) /\ x.vr = vr
  BY <1>1 DEF VolumeType, SameButVR
<1> HIDE DEF x
<1>3. Sound(v, x)
  BY <1>2 DEF Sound, SameButVR, Paired, PolicyKept, Archived, Replicated, AllCurrent, Leaving, isArchivedAlready
<1> QED
  BY <1>2, <1>3 DEF x

\* createVR makes a VolumeReplication of a volume that has none.
LEMMA VRCreated ==
    ASSUME NEW v, NEW w, NEW state \in Roles, Sound(v, w), v.async, ~w.vr.there
    PROVE  LET x == DataReady([w EXCEPT !.vr = createVR(v, state)], "Progressing") IN
           Sound(v, x) /\ SameButVR(w, x) /\ Created(w, x, state)
<1> DEFINE y == [w EXCEPT !.vr = createVR(v, state)]
           x == DataReady(y, "Progressing")
<1>1. createVR(v, state) \in VRType
  BY DEF createVR, VRType, NoConditions, Readings, autoResync
<1>2. /\ createVR(v, state).there /\ ~createVR(v, state).terminating
      /\ createVR(v, state).state = state
  BY DEF createVR
<1>3. Sound(v, y) /\ SameButVR(w, y) /\ y.vr = createVR(v, state)
  BY <1>1, <1>2, OtherVR
<1> HIDE DEF y
<1>4. Protects(v, y, x)
  BY <1>3, StatusSteps
<1>5. Sound(v, x) /\ x.vr = y.vr
  BY <1>4 DEF Protects
<1>6. SameButVR(y, x)
  BY <1>3 DEF DataReady, SameButVR, Sound, VolumeType
<1> QED
  BY <1>2, <1>3, <1>5, <1>6 DEF SameButVR, Created, y

\* updateVR asks an existing VolumeReplication for the role, and what the driver
\* said before no longer counts.
LEMMA VRUpdated ==
    ASSUME NEW v, NEW w, NEW state \in Roles, Sound(v, w), w.vr.there
    PROVE  LET x == DataReady([w EXCEPT !.vr.state = state,
                                        !.vr.autoResync = autoResync(v, state),
                                        !.vr.observed = FALSE,
                                        !.vr.cond = Aged(w.vr.cond)], "Progressing") IN
           Sound(v, x) /\ SameButVR(w, x) /\ Updated(w, x, state)
<1> DEFINE y == [w EXCEPT !.vr.state = state, !.vr.autoResync = autoResync(v, state),
                          !.vr.observed = FALSE, !.vr.cond = Aged(w.vr.cond)]
           u == [w.vr EXCEPT !.state = state, !.autoResync = autoResync(v, state),
                              !.observed = FALSE, !.cond = Aged(w.vr.cond)]
           x == DataReady(y, "Progressing")
<1>1. w \in VolumeType /\ w.vr \in VRType
  BY DEF Sound, VolumeType
<1>2. Aged(w.vr.cond) \in [DOMAIN NoConditions -> Readings]
  BY <1>1 DEF VRType, Aged, Readings
<1>3. autoResync(v, state) \in BOOLEAN
  BY DEF autoResync
<1>4. y = [w EXCEPT !.vr = u]
  BY <1>1 DEF VolumeType, VRType
<1>5. u \in VRType /\ u.there = w.vr.there /\ u.terminating = w.vr.terminating
      /\ u.state = state /\ ~u.observed
  BY <1>1, <1>2, <1>3 DEF VRType
<1> HIDE DEF y, u
<1>6. Sound(v, y) /\ SameButVR(w, y) /\ y.vr = u
  <2>1. v.async /\ (w.vr.terminating => w.vr.there)
    BY DEF Sound, Replicated
  <2>2. (u.there => v.async /\ u.state \in Roles) /\ (u.terminating => u.there)
    BY <1>5, <2>1
  <2>3. u \in VRType
    BY <1>5
  <2>4. LET z == [w EXCEPT !.vr = u] IN Sound(v, z) /\ SameButVR(w, z) /\ z.vr = u
    BY <2>2, <2>3, OtherVR
  <2> QED
    BY <1>4, <2>4
<1>7. Sound(v, x) /\ x.vr = y.vr
  BY <1>6, StatusSteps DEF Protects
<1>8. SameButVR(y, x)
  BY <1>6 DEF DataReady, SameButVR, Sound, VolumeType
<1> QED
  BY <1>5, <1>6, <1>7, <1>8 DEF SameButVR, Updated, y

\* One call changes a VolumeReplication in one way at most, and lets the pass go
\* on only past one that was there, unchanged, in the state asked for.
LEMMA ProcessedVR ==
    ASSUME NEW v, NEW w, NEW f, NEW state \in Roles, Sound(v, w)
    PROVE  LET r == processVR(v, w, state, f) IN
           /\ Sound(v, r.w) /\ SameButVR(w, r.w)
           /\ \/ r.w.vr = w.vr
              \/ r.res # "go" /\ v.async /\ (Created(w, r.w, state) \/ Updated(w, r.w, state))
           /\ r.res = "go" /\ v.async => w.vr.there /\ (state = "Secondary" => w.vr.state = "Secondary" /\ Follows(w.vr))
<1> DEFINE r == processVR(v, w, state, f)
           Ok(q) == /\ Sound(v, q.w) /\ SameButVR(w, q.w)
                    /\ \/ q.w.vr = w.vr
                       \/ q.res # "go" /\ v.async /\ (Created(w, q.w, state) \/ Updated(w, q.w, state))
                    /\ q.res = "go" /\ v.async =>
                         w.vr.there /\ (state = "Secondary" => w.vr.state = "Secondary" /\ Follows(w.vr))
<1>1. w \in VolumeType
  BY DEF Sound
<1>2. Ok(Requeue(DataReady(w, "Error")))
  <2>1. SameButVR(w, DataReady(w, "Error"))
    BY <1>1 DEF DataReady, SameButVR, VolumeType
  <2>2. Protects(v, w, DataReady(w, "Error"))
    BY StatusSteps
  <2>3. Sound(v, DataReady(w, "Error")) /\ DataReady(w, "Error").vr = w.vr
    <3>1. DataReady(w, "Error").vr = w.vr
      BY <1>1 DEF DataReady, VolumeType
    <3> QED
      BY <2>2, <3>1 DEF Protects
  <2> QED
    BY <2>1, <2>3 DEF Requeue
<1>3. CASE ~v.async
  <2> DEFINE d == IF state = "Primary" THEN Verdict(TRUE, "Ready", "Ready")
                  ELSE Verdict(TRUE, "Replicated", "DataProtected")
  <2>1. Protects(v, w, Applied(w, d)) /\ SameButVR(w, Applied(w, d))
    BY AppliedVerdict DEF Verdict
  <2>2. r = Go(Applied(w, d))
    BY <1>3 DEF processVR
  <2> HIDE DEF d
  <2>3. Sound(v, Applied(w, d)) /\ Applied(w, d).vr = w.vr
    BY <2>1 DEF Protects
  <2> QED
    BY <1>3, <2>1, <2>2, <2>3 DEF Go
<1>4. CASE v.async /\ ~w.vr.there
  <2>1. Ok(Stop(DataReady([w EXCEPT !.vr = createVR(v, state)], "Progressing")))
    BY <1>4, VRCreated DEF Stop
  <2> QED
    BY <1>2, <1>4, <2>1 DEF processVR, createOrUpdateVR
<1>5. CASE v.async /\ w.vr.there
  <2> DEFINE d == checkVRStatus(v, w.vr, state)
             x == [w EXCEPT !.vr.state = state, !.vr.autoResync = autoResync(v, state),
                            !.vr.observed = FALSE, !.vr.cond = Aged(w.vr.cond)]
  <2>1. Ok(Stop(DataReady(x, "Progressing")))
    BY <1>5, VRUpdated DEF Stop
  <2>2. ASSUME w.vr.state = state PROVE Ok(Answered(w, d))
    <3>1. Protects(v, w, Applied(w, d)) /\ SameButVR(w, Applied(w, d))
      BY AppliedVerdict, Verdicts
    <3>2. Answered(w, d).w = Applied(w, d) /\ (Answered(w, d).res = "go" => d.ready)
      BY DEF Answered
    <3>3. state = "Secondary" /\ d.ready => Follows(w.vr)
      BY FollowsIsReady
    <3> HIDE DEF d
    <3> QED
      BY <1>5, <2>2, <3>1, <3>2, <3>3 DEF Protects
  <2> HIDE DEF Ok, d, x
  <2>3. updateVR(v, w, state, f) =
           IF w.vr.state = state /\ w.vr.autoResync = autoResync(v, state) THEN Answered(w, d)
           ELSE IF f.call = "writeVR" THEN Requeue(DataReady(w, "Error"))
           ELSE Stop(DataReady(x, "Progressing"))
    BY DEF updateVR, d, x
  <2>4. Ok(updateVR(v, w, state, f))
    BY <1>2, <2>1, <2>2, <2>3
  <2>5. Ok(r)
    BY <1>2, <1>5, <2>4 DEF processVR, createOrUpdateVR
  <2> QED
    BY <2>5 DEF Ok
<1> QED
  BY <1>3, <1>4, <1>5

-----------------------------------------------------------------------------
(* Storing the PV and the PVC.                                              *)

\* annotateWithDestinationVolumeHandleForVolRep outdates the stored PV with the
\* annotation that says it is archived.
LEMMA HandleAnnotated ==
    ASSUME NEW v, NEW w, NEW f, Sound(v, w)
    PROVE  Protects(v, w, annotateWithDestinationVolumeHandleForVolRep(w, f).w)
<1>1. w \in VolumeType
  BY DEF Sound
<1> DEFINE x == [w EXCEPT !.pv.handle = TRUE, !.pv.archived = FALSE, !.s3 = Outdated(w.s3)]
<1>2. x \in VolumeType
  BY <1>1, OutdatedType DEF VolumeType, PVType
<1>3. /\ x.pvc = w.pvc /\ x.vr = w.vr /\ x.s3 = Outdated(w.s3)
      /\ x.inUse = w.inUse /\ x.reclaims = w.reclaims /\ x.pv.retain = w.pv.retain
      /\ x.pv.retained = w.pv.retained /\ x.pv.phase = w.pv.phase /\ ~x.pv.archived
  BY <1>1 DEF VolumeType, PVType
<1> HIDE DEF x
<1>5. Sound(v, x)
  BY <1>2, <1>3 DEF Sound, Paired, PolicyKept, Archived, Replicated, AllCurrent, Leaving, isArchivedAlready
<1>6. Protects(v, w, x)
  BY <1>3, <1>5 DEF Protects, SameVolume, Retained
<1> QED
  BY <1>6, ProtectsSelf DEF annotateWithDestinationVolumeHandleForVolRep, Go, Requeue, x

\* Unless an upload fails, every store holds both objects as they are now.
LEMMA AllUploaded ==
    ASSUME NEW w, NEW f, w.s3 \in S3Type
    PROVE  /\ Uploaded(w, f) \in S3Type
           /\ f.call \notin {"uploadPV", "uploadPVC"} =>
                \A i \in 1..Stores : Uploaded(w, f)[i] = [pv |-> "current", pvc |-> "current"]
<1>1. Uploaded(w, f) \in S3Type
  BY DEF Uploaded, S3Type, Objects
<1>2. ASSUME f.call \notin {"uploadPV", "uploadPVC"}, NEW i \in 1..Stores
      PROVE  Uploaded(w, f)[i] = [pv |-> "current", pvc |-> "current"]
  BY <1>2, StoresAssumption DEF Uploaded
<1> QED
  BY <1>1, <1>2

\* The annotations are set after the stores are complete.
LEMMA ObjectsUploaded ==
    ASSUME NEW v, NEW w, NEW f, Sound(v, w)
    PROVE  Protects(v, w, uploadPVandPVCtoS3Stores(v, w, f).w)
<1>1. w \in VolumeType /\ w.s3 \in S3Type
  BY DEF Sound, VolumeType
<1> DEFINE x == [w EXCEPT !.s3 = Uploaded(w, f)]
           a == UploadPVandPVCtoS3Stores(w, f)
           b == Then(a, LAMBDA y : addArchivedAnnotationForPVC(y, f))
<1>2. /\ x \in VolumeType /\ x.s3 = Uploaded(w, f) /\ x.pvc = w.pvc /\ x.pv = w.pv /\ x.vr = w.vr
      /\ x.inUse = w.inUse /\ x.reclaims = w.reclaims
  BY <1>1, AllUploaded DEF VolumeType
<1>3. f.call \notin {"uploadPV", "uploadPVC"} => AllCurrent(x)
  BY <1>1, <1>2, AllUploaded DEF AllCurrent
<1>4. a = IF f.call \in {"uploadPV", "uploadPVC"} THEN Requeue(ClusterData(x, "UploadError")) ELSE Go(x)
  BY DEF UploadPVandPVCtoS3Stores
<1>5. b = IF a.res = "go" THEN addArchivedAnnotationForPVC(a.w, f) ELSE a
  BY DEF Then, With
<1> HIDE DEF x, a, b
<1>6. ASSUME ~isArchivedAlready(w), ~v.dryRun PROVE Protects(v, w, b.w)
  <2>1. Sound(v, x)
    BY <1>2, <1>6 DEF Sound, Paired, PolicyKept, Archived, Replicated, AllCurrent, Leaving, isArchivedAlready
  <2>2. Protects(v, w, x)
    BY <1>2, <1>6, <2>1 DEF Protects, SameVolume, Retained
  <2>3. CASE f.call \in {"uploadPV", "uploadPVC"}
    <3>1. Protects(v, x, ClusterData(x, "UploadError"))
      BY <2>1, StatusSteps
    <3>2. b.w = ClusterData(x, "UploadError")
      BY <2>3, <1>4, <1>5 DEF Requeue
    <3> QED
      BY <2>2, <3>1, <3>2, ProtectsTwice
  <2>4. CASE f.call \notin {"uploadPV", "uploadPVC"}
    <3> DEFINE y == [x EXCEPT !.pvc.archived = TRUE]
               z == [x EXCEPT !.pvc.archived = TRUE, !.pv.archived = TRUE]
    <3>1. b = addArchivedAnnotationForPVC(x, f)
      BY <2>4, <1>4, <1>5 DEF Go
    <3>2. /\ y \in VolumeType /\ SameVolume(x, y) /\ y.pv = x.pv /\ y.vr = x.vr /\ y.s3 = x.s3
          /\ y.pvc.owner = x.pvc.owner /\ y.pvc.finalizer = x.pvc.finalizer
          /\ y.pvc.protected = x.pvc.protected
      BY <1>2 DEF VolumeType, PVCType, SameVolume
    <3>3. /\ z \in VolumeType /\ SameVolume(x, z) /\ z.vr = x.vr /\ z.s3 = x.s3
          /\ z.pvc.owner = x.pvc.owner /\ z.pvc.finalizer = x.pvc.finalizer
          /\ z.pvc.protected = x.pvc.protected
          /\ z.pv.retain = x.pv.retain /\ z.pv.retained = x.pv.retained
      BY <1>2 DEF VolumeType, PVCType, PVType, SameVolume
    <3> HIDE DEF y, z
    <3>4. Sound(v, y) /\ Sound(v, z)
      <4>1. AllCurrent(y) /\ AllCurrent(z)
        BY <2>4, <1>3, <3>2, <3>3 DEF AllCurrent
      <4> QED
        BY <2>1, <3>2, <3>3, <4>1 DEF Sound, SameVolume, Paired, PolicyKept, Archived, Replicated
    <3>5. Protects(v, x, y) /\ Protects(v, x, z)
      BY <3>2, <3>3, <3>4 DEF Protects, Retained
    <3>6. /\ Protects(v, x, ClusterData(x, "AnnotationFailed"))
          /\ Protects(v, y, ClusterData(y, "AnnotationFailed"))
          /\ Protects(v, z, ClusterData(z, "Uploaded"))
      BY <2>1, <3>4, StatusSteps
    <3>7. b.w \in {ClusterData(x, "AnnotationFailed"), ClusterData(y, "AnnotationFailed"),
                   ClusterData(z, "Uploaded")}
      BY <3>1 DEF addArchivedAnnotationForPVC, Requeue, Go, y, z
    <3>8. Protects(v, x, b.w)
      BY <3>5, <3>6, <3>7, ProtectsTwice
    <3> QED
      BY <2>2, <3>8, ProtectsTwice
  <2> QED
    BY <2>3, <2>4
<1>7. uploadPVandPVCtoS3Stores(v, w, f) =
        IF v.dryRun THEN Go(w) ELSE IF isArchivedAlready(w) THEN Go(ClusterData(w, "Uploaded"))
        ELSE IF w.pvc.resizing THEN Requeue(w) ELSE b
  BY DEF uploadPVandPVCtoS3Stores, b, a
<1>8. Protects(v, w, ClusterData(w, "Uploaded")) /\ Protects(v, w, w)
  BY StatusSteps, ProtectsSelf
<1> QED
  BY <1>6, <1>7, <1>8 DEF Go, Requeue

-----------------------------------------------------------------------------
(* Letting a volume go.                                                     *)

\* The protection was given up: by the user, or with the VRG.
Ended(v, w) == \/ v.deleted
               \/ /\ VolumeUnprotectionEnabled /\ v.state = "Primary" /\ ~v.finalSync
                  /\ w.pvc.terminating \/ ~w.pvc.selected

MayStop(v, w) == Ended(v, w) \/ w.vr.terminating \/ (w.vr.state = "Secondary" /\ Follows(w.vr))

\* What one pass may make of a VolumeReplication.
VRStep(v, w, x) ==
    \/ x.vr = w.vr
    \/ Created(w, x, "Primary") \/ Updated(w, x, "Primary")
    \/ Updated(w, x, "Secondary") /\ ~w.inUse
    \/ w.vr.there /\ x.vr = [w.vr EXCEPT !.terminating = TRUE] /\ MayStop(v, w)

\* What one pass, in which the call f fails, may make of a volume.
Passes(v, f, w, x) ==
    /\ Sound(v, x) /\ SameVolume(w, x) /\ VRStep(v, w, x)
    /\ w.pvc.finalizer => x.pvc.finalizer \/ ~x.vr.there
    /\ x.pvc.owner = w.pvc.owner \/ x.pvc.finalizer \/ ~x.vr.there
    /\ Retained(w) /\ f.call # "updatePVC" => Retained(x)

\* A step that takes a volume under protection is a step of a pass.
LEMMA ProtectsPasses ==
    ASSUME NEW v, NEW f, NEW w, NEW x, Protects(v, w, x) PROVE Passes(v, f, w, x)
BY DEF Protects, Passes, VRStep

\* A pass may first take the volume under protection.
LEMMA ProtectsThenPasses ==
    ASSUME NEW v, NEW f, NEW w, NEW x, NEW y, Protects(v, w, x), Passes(v, f, x, y)
    PROVE  Passes(v, f, w, y)
<1>1. VRStep(v, w, y)
  BY DEF Protects, Passes, VRStep, SameVolume, MayStop, Ended, Created, Updated
<1> QED
  BY <1>1 DEF Protects, Passes, SameVolume

\* A pass may end with storing objects or writing the status.
LEMMA PassesThenProtects ==
    ASSUME NEW v, NEW f, NEW w, NEW x, NEW y, Passes(v, f, w, x), Protects(v, x, y)
    PROVE  Passes(v, f, w, y)
<1>1. VRStep(v, w, y)
  BY DEF Protects, Passes, VRStep, Created, Updated
<1> QED
  BY <1>1 DEF Protects, Passes, SameVolume

\* A step that leaves all but the status alone protects.
LEMMA SameProtects ==
    ASSUME NEW v, NEW w, NEW x, Sound(v, x), SameButVR(w, x), x.vr = w.vr
    PROVE  Protects(v, w, x)
BY DEF Protects, SameVolume, SameButVR, Retained

\* A PVC is let go once no VolumeReplication of it is left.
LEMMA PVCLetGo ==
    ASSUME NEW v, NEW f, NEW w, Sound(v, w), ~w.vr.there
    PROVE  Passes(v, f, w, preparePVCForVRDeletion(v, w, f).w)
<1>1. w \in VolumeType
  BY DEF Sound
<1> DEFINE u == undoPVRetention(w)
           t == IF v.async \/ v.state = "Primary" THEN u ELSE [w EXCEPT !.pv.leftBehind = TRUE]
           x == [t EXCEPT !.pv.archived = FALSE]
           y == [x EXCEPT !.pvc.owner = IF @ = "vrg" THEN "none" ELSE @, !.pvc.finalizer = FALSE,
                          !.pvc.protected = FALSE, !.pvc.archived = FALSE]
           a == PreparePV(v, w, f)
           b == preparePVCForVRDeletion(v, w, f)
           Like(z) == /\ z \in VolumeType /\ z.pvc = w.pvc /\ z.vr = w.vr
                      /\ z.inUse = w.inUse /\ z.reclaims = w.reclaims /\ z.pv.phase = w.pv.phase
                      /\ ~w.reclaims => ~z.pv.retained /\ z.pv.retain = w.pv.retain
                      /\ z.s3 = w.s3 \/ z.s3 = Outdated(w.s3)
<1>2. ~w.reclaims => ~w.pv.retained
  BY DEF Sound, PolicyKept
<1>3. Like(u)
  <2> DEFINE z == [w EXCEPT !.pv.retain = FALSE, !.pv.retained = FALSE, !.s3 = Outdated(w.s3)]
  <2>1. /\ z \in VolumeType /\ z.pvc = w.pvc /\ z.vr = w.vr /\ z.inUse = w.inUse
        /\ z.reclaims = w.reclaims /\ z.pv.phase = w.pv.phase /\ z.s3 = Outdated(w.s3)
    BY <1>1, OutdatedType DEF VolumeType, PVType
  <2>3. w.pv.retained => Like(z)
    BY <1>2, <2>1
  <2>4. Like(w)
    BY <1>1, <1>2
  <2> QED
    BY <2>3, <2>4 DEF undoPVRetention
<1>4. Like([w EXCEPT !.pv.leftBehind = TRUE])
  BY <1>1, <1>2 DEF VolumeType, PVType
<1>5. Like(t)
  BY <1>3, <1>4
<1> HIDE DEF t
<1>6. Like(x) /\ ~x.pv.archived
  <2>1. t \in VolumeType
    BY <1>5
  <2>2. /\ x \in VolumeType /\ x.pvc = t.pvc /\ x.vr = t.vr /\ x.s3 = t.s3 /\ x.inUse = t.inUse
        /\ x.reclaims = t.reclaims /\ x.pv.phase = t.pv.phase /\ x.pv.retain = t.pv.retain
        /\ x.pv.retained = t.pv.retained /\ ~x.pv.archived
    BY <2>1 DEF VolumeType, PVType
  <2> HIDE DEF x
  <2> QED
    BY <1>5, <2>2
<1> HIDE DEF x
<1>7. /\ y \in VolumeType /\ SameVolume(w, y) /\ y.vr = w.vr /\ y.pv = x.pv /\ y.s3 = x.s3
      /\ ~y.pvc.finalizer /\ ~y.pvc.protected /\ ~y.pvc.archived /\ (y.pvc.owner = "other" => w.pvc.owner = "other")
  <2> DEFINE c == [w.pvc EXCEPT !.owner = IF @ = "vrg" THEN "none" ELSE @, !.finalizer = FALSE,
                                !.protected = FALSE, !.archived = FALSE]
  <2>1. w.pvc \in PVCType
    BY <1>1 DEF VolumeType
  <2>2. /\ c \in PVCType /\ c.there = w.pvc.there /\ c.bound = w.pvc.bound
        /\ c.terminating = w.pvc.terminating /\ c.selected = w.pvc.selected
        /\ ~c.finalizer /\ ~c.protected /\ ~c.archived /\ (c.owner = "other" => w.pvc.owner = "other")
    BY <2>1 DEF PVCType
  <2>3. y = [x EXCEPT !.pvc = c]
    BY <1>6 DEF VolumeType
  <2> HIDE DEF c, y
  <2>4. /\ y \in VolumeType /\ y.pvc = c /\ y.vr = x.vr /\ y.pv = x.pv /\ y.s3 = x.s3
        /\ y.inUse = x.inUse /\ y.reclaims = x.reclaims
    BY <1>6, <2>2, <2>3 DEF VolumeType
  <2> QED
    BY <1>6, <2>2, <2>4 DEF SameVolume
<1> HIDE DEF y
<1>8. Sound(v, x) /\ Sound(v, y)
  <2>1. Paired(x) /\ PolicyKept(x) /\ Archived(v, x) /\ Replicated(v, x)
    BY <1>6 DEF Sound, Paired, PolicyKept, Archived, Replicated, isArchivedAlready
  <2>2. Paired(y) /\ PolicyKept(y) /\ Archived(v, y) /\ Replicated(v, y)
    BY <1>6, <1>7 DEF Sound, Paired, PolicyKept, Archived, Replicated, isArchivedAlready, SameVolume
  <2> QED
    BY <1>6, <1>7, <2>1, <2>2 DEF Sound
<1>9. f.call = "updatePVC" => Passes(v, f, w, x)
  BY <1>6, <1>8 DEF Passes, SameVolume, VRStep
<1>10. Passes(v, f, w, y)
  BY <1>6, <1>7, <1>8 DEF Passes, VRStep, Retained
<1>11. Passes(v, f, w, pvcStatusDeleteIfPresent(y))
  <2>1. Protects(v, y, pvcStatusDeleteIfPresent(y))
    BY <1>8, StatusSteps
  <2> QED
    BY <1>10, <2>1, PassesThenProtects
<1>12. a = IF f.call = "updatePV" \/ w.pv.phase = "None" THEN Requeue(w) ELSE Go(x)
  BY DEF PreparePV, x, t
<1>13. b = IF a.res = "go" THEN PreparePVC(a.w, f) ELSE a
  BY DEF preparePVCForVRDeletion, Then, With
<1>14. PreparePVC(x, f) = IF f.call = "updatePVC" THEN Requeue(x) ELSE Go(pvcStatusDeleteIfPresent(y))
  BY DEF PreparePVC, y
<1>15. Passes(v, f, w, w)
  BY ProtectsSelf, ProtectsPasses
<1> HIDE DEF a, b
<1>16. b.w = w \/ (b.w = x /\ f.call = "updatePVC") \/ b.w = pvcStatusDeleteIfPresent(y)
  BY <1>12, <1>13, <1>14 DEF Requeue, Go
<1>17. Passes(v, f, w, b.w)
  BY <1>9, <1>11, <1>15, <1>16
<1> QED
  BY <1>17 DEF b

\* undoPVCFinalizersAndPVRetention deletes the VolumeReplication first, and lets
\* the PVC go only once it is gone.
LEMMA Undone ==
    ASSUME NEW v, NEW f, NEW w, Sound(v, w), w.vr.there => MayStop(v, w)
    PROVE  Passes(v, f, w, undoPVCFinalizersAndPVRetention(v, w, f).w)
<1> DEFINE a == deleteVR(w, f)
           b == undoPVCFinalizersAndPVRetention(v, w, f)
           u == [w.vr EXCEPT !.terminating = TRUE]
           x == [w EXCEPT !.vr.terminating = TRUE]
<1>1. b = IF a.res = "go" THEN preparePVCForVRDeletion(v, a.w, f) ELSE a
  BY DEF undoPVCFinalizersAndPVRetention, Then, With
<1>2. a = IF ~w.vr.there THEN Go(w) ELSE IF f.call = "writeVR" THEN Requeue(w) ELSE Requeue(x)
  BY DEF deleteVR
<1>3. w \in VolumeType /\ w.vr \in VRType
  BY DEF Sound, VolumeType
<1>4. x = [w EXCEPT !.vr = u] /\ u \in VRType /\ u.there = w.vr.there /\ u.terminating
      /\ u.state = w.vr.state
  BY <1>3 DEF VolumeType, VRType
<1> HIDE DEF a, b, x
<1>5. w.vr.there => Sound(v, x) /\ SameButVR(w, x) /\ x.vr = u
  <2> HAVE w.vr.there
  <2>1. v.async /\ w.vr.state \in Roles
    BY DEF Sound, Replicated
  <2>2. u \in VRType /\ (u.there => v.async /\ u.state \in Roles) /\ (u.terminating => u.there)
    BY <1>4, <2>1
  <2> HIDE DEF u
  <2>3. LET z == [w EXCEPT !.vr = u] IN Sound(v, z) /\ SameButVR(w, z) /\ z.vr = u
    BY <2>2, OtherVR
  <2> QED
    BY <1>4, <2>3
<1>6. w.vr.there => Passes(v, f, w, x)
  <2> HAVE w.vr.there
  <2>1. VRStep(v, w, x)
    BY <1>5 DEF VRStep
  <2>2. x.vr.there
    BY <1>4, <1>5
  <2> HIDE DEF u
  <2> QED
    BY <1>5, <2>1, <2>2 DEF Passes, SameVolume, SameButVR, Retained
<1>7. Passes(v, f, w, w)
  BY ProtectsSelf, ProtectsPasses
<1>8. CASE ~w.vr.there
  <2>1. b = preparePVCForVRDeletion(v, w, f)
    BY <1>1, <1>2, <1>8 DEF Go
  <2>2. Passes(v, f, w, b.w)
    BY <1>8, <2>1, PVCLetGo
  <2> QED
    BY <2>2 DEF b
<1>9. CASE w.vr.there
  <2>1. b.w = w \/ b.w = x
    BY <1>1, <1>2, <1>9 DEF Requeue
  <2>2. Passes(v, f, w, b.w)
    BY <1>6, <1>7, <1>9, <2>1
  <2> QED
    BY <2>2 DEF b
<1> QED
  BY <1>8, <1>9

\* reconcileMissingVR goes on only when a VolumeReplication is there and is not
\* being deleted.
LEMMA MissingVR ==
    ASSUME NEW v, NEW f, NEW w, Sound(v, w)
    PROVE  LET r == reconcileMissingVR(v, w, f) IN
           /\ Passes(v, f, w, r.w)
           /\ r.res = "go" => r.w = w /\ (v.async => w.vr.there /\ ~w.vr.terminating)
<1> DEFINE a == preparePVCForVRDeletion(v, w, f)
           b == Then(a, LAMBDA x : Stop(x))
           r == reconcileMissingVR(v, w, f)
<1>1. b = IF a.res = "go" THEN Stop(a.w) ELSE a
  BY DEF Then, With
<1>2. r = IF ~v.async \/ (w.vr.there /\ ~w.vr.terminating /\ f.call # "getVR") THEN Go(w)
          ELSE IF f.call = "getVR" \/ w.vr.there THEN Requeue(w) ELSE b
  BY DEF reconcileMissingVR
<1>3. Passes(v, f, w, w) /\ (~w.vr.there => Passes(v, f, w, a.w))
  BY ProtectsSelf, ProtectsPasses, PVCLetGo
<1> HIDE DEF a, b, r
<1>4. b.w = a.w /\ b.res # "go"
  BY <1>1 DEF Stop
<1>5. /\ Passes(v, f, w, r.w)
      /\ r.res = "go" => r.w = w /\ (v.async => w.vr.there /\ ~w.vr.terminating)
  BY <1>2, <1>3, <1>4 DEF Go, Requeue
<1> QED
  BY <1>5 DEF r

-----------------------------------------------------------------------------
(* The two roles of a volume, and its end.                                  *)

\* reconcileVRAsSecondary goes on only when the volume follows the peer.
LEMMA VRAsSecondary ==
    ASSUME NEW v, NEW f, NEW w, Sound(v, w), v.async => w.vr.there
    PROVE  LET r == reconcileVRAsSecondary(v, w, f) IN
           /\ Passes(v, f, w, r.w)
           /\ r.res = "go" => Protects(v, w, r.w) /\ (w.vr.there => MayStop(v, r.w))
<1> DEFINE p == processVR(v, w, "Secondary", f)
           q == DataReady(w, "Progressing")
           r == reconcileVRAsSecondary(v, w, f)
<1>1. r = IF ~isPVCReadyForSecondary(v, w) THEN Requeue(q) ELSE p
  BY DEF reconcileVRAsSecondary
<1>2. Passes(v, f, w, q)
  BY StatusSteps, ProtectsPasses
<1>3. /\ Sound(v, p.w) /\ SameButVR(w, p.w)
      /\ \/ p.w.vr = w.vr
         \/ p.res # "go" /\ v.async /\ (Created(w, p.w, "Secondary") \/ Updated(w, p.w, "Secondary"))
      /\ p.res = "go" /\ v.async => w.vr.there /\ w.vr.state = "Secondary" /\ Follows(w.vr)
  BY ProcessedVR DEF Roles
<1> HIDE DEF p, q, r
<1>4. p.w.vr = w.vr => Protects(v, w, p.w)
  BY <1>3, SameProtects
<1>5. ASSUME isPVCReadyForSecondary(v, w) PROVE Passes(v, f, w, p.w)
  <2>1. CASE p.w.vr = w.vr
    BY <1>4, <2>1, ProtectsPasses
  <2>2. CASE p.w.vr # w.vr
    <3>1. Updated(w, p.w, "Secondary") /\ ~w.inUse
      BY <1>3, <1>5, <2>2 DEF Created, isPVCReadyForSecondary
    <3> QED
      BY <1>3, <3>1 DEF Passes, SameVolume, SameButVR, Retained, VRStep, Updated
  <2> QED
    BY <2>1, <2>2
<1>6. p.res = "go" => Protects(v, w, p.w) /\ (w.vr.there => MayStop(v, p.w))
  <2> HAVE p.res = "go"
  <2>1. p.w.vr = w.vr
    BY <1>3
  <2>2. w.vr.there => v.async
    BY DEF Sound, Replicated
  <2> QED
    BY <1>3, <1>4, <2>1, <2>2 DEF MayStop
<1>7. /\ Passes(v, f, w, r.w)
      /\ r.res = "go" => Protects(v, w, r.w) /\ (w.vr.there => MayStop(v, r.w))
  BY <1>1, <1>2, <1>5, <1>6 DEF Requeue
<1> QED
  BY <1>7 DEF r

\* processPVCAsSecondary: the whole pass over one PVC of a Secondary.
LEMMA AsSecondary ==
    ASSUME NEW v, NEW f, NEW w, Sound(v, w)
    PROVE  Passes(v, f, w, processPVCAsSecondary(v, w, f).w)
<1> DEFINE a == updateProtectedPVCs(v, w, f)
           b == Then(a, LAMBDA x : preparePVCForVRProtection(x, f))
           c(x) == reconcileMissingVR(v, x, f)
           d(x) == Then(c(x), LAMBDA y : reconcileVRAsSecondary(v, y, f))
           e(x) == reconcilePVCVRAsSecondary(v, x, f)
           r == Then(b, LAMBDA x : reconcilePVCVRAsSecondary(v, x, f))
<1>1. b = IF a.res = "go" THEN preparePVCForVRProtection(a.w, f) ELSE a
  BY DEF Then, With
<1>2. r = IF b.res = "go" THEN e(b.w) ELSE b
  BY DEF Then, With
<1>3. ASSUME NEW x PROVE d(x) = IF c(x).res = "go" THEN reconcileVRAsSecondary(v, c(x).w, f) ELSE c(x)
  BY DEF Then, With
<1>4. ASSUME NEW x
      PROVE  e(x) = IF d(x).res = "go" THEN undoPVCFinalizersAndPVRetention(v, d(x).w, f) ELSE d(x)
  BY DEF reconcilePVCVRAsSecondary, Then, With
<1>5. processPVCAsSecondary(v, w, f) = IF ~w.pvc.finalizer THEN Stop(pvcStatusDeleteIfPresent(w)) ELSE r
  BY DEF processPVCAsSecondary
<1>6. Protects(v, w, a.w)
  BY ListedEntry
<1> HIDE DEF a, b, r
<1>7. Protects(v, w, b.w)
  <2>1. Sound(v, a.w)
    BY <1>6 DEF Protects
  <2>2. Protects(v, a.w, preparePVCForVRProtection(a.w, f).w)
    BY <2>1, Prepared
  <2> QED
    BY <1>1, <1>6, <2>2, ProtectsTwice
<1>8. ASSUME NEW x, Sound(v, x) PROVE Passes(v, f, x, e(x).w)
  <2>1. Passes(v, f, x, c(x).w) /\ (c(x).res = "go" => c(x).w = x /\ (v.async => x.vr.there /\ ~x.vr.terminating))
    BY <1>8, MissingVR
  <2> HIDE DEF c
  <2>2. CASE c(x).res # "go"
    <3> HIDE DEF d, e
    <3> QED
      BY <1>3, <1>4, <2>1, <2>2
  <2>3. CASE c(x).res = "go"
    <3>1. d(x) = reconcileVRAsSecondary(v, x, f)
      BY <1>3, <2>1, <2>3
    <3> HIDE DEF d, e
    <3>2. /\ Passes(v, f, x, d(x).w)
          /\ d(x).res = "go" => Protects(v, x, d(x).w) /\ (x.vr.there => MayStop(v, d(x).w))
      BY <1>8, <2>1, <2>3, <3>1, VRAsSecondary
    <3>3. CASE d(x).res # "go"
      BY <1>4, <3>2, <3>3
    <3>4. CASE d(x).res = "go"
      <4>1. Sound(v, d(x).w) /\ (d(x).w.vr.there => MayStop(v, d(x).w))
        BY <3>2, <3>4 DEF Protects
      <4>2. Passes(v, f, d(x).w, undoPVCFinalizersAndPVRetention(v, d(x).w, f).w)
        BY <4>1, Undone
      <4> QED
        BY <1>4, <3>2, <3>4, <4>2, ProtectsThenPasses
    <3> QED
      BY <3>3, <3>4
  <2> QED
    BY <2>2, <2>3
<1>9. Passes(v, f, w, r.w)
  <2>1. Sound(v, b.w) /\ Passes(v, f, w, b.w)
    BY <1>7, ProtectsPasses DEF Protects
  <2>2. Passes(v, f, b.w, e(b.w).w)
    BY <1>8, <2>1
  <2> HIDE DEF e
  <2>3. Passes(v, f, w, e(b.w).w)
    BY <1>7, <2>2, ProtectsThenPasses
  <2> QED
    BY <1>2, <2>1, <2>3
<1>10. Passes(v, f, w, pvcStatusDeleteIfPresent(w))
  BY StatusSteps, ProtectsPasses
<1> QED
  BY <1>5, <1>9, <1>10 DEF Stop

\* processVR asks for the role Primary.
LEMMA VRAsPrimary ==
    ASSUME NEW v, NEW f, NEW w, Sound(v, w), Retained(w) => w.pv.retain
    PROVE  LET r == processVR(v, w, "Primary", f) IN
           Passes(v, f, w, r.w) /\ (r.res = "go" => Protects(v, w, r.w))
<1> DEFINE p == processVR(v, w, "Primary", f)
<1>1. /\ Sound(v, p.w) /\ SameButVR(w, p.w)
      /\ \/ p.w.vr = w.vr
         \/ p.res # "go" /\ v.async /\ (Created(w, p.w, "Primary") \/ Updated(w, p.w, "Primary"))
  BY ProcessedVR DEF Roles
<1> HIDE DEF p
<1>2. p.w.vr = w.vr => Protects(v, w, p.w)
  BY <1>1, SameProtects
<1>3. Created(w, p.w, "Primary") \/ Updated(w, p.w, "Primary") => Passes(v, f, w, p.w)
  BY <1>1 DEF Passes, SameVolume, SameButVR, Retained, VRStep
<1>4. Passes(v, f, w, p.w) /\ (p.res = "go" => Protects(v, w, p.w))
  BY <1>1, <1>2, <1>3, ProtectsPasses
<1> QED
  BY <1>4 DEF p

\* reconcileVRForDeletion: the VolumeReplication of a volume that is given up.
LEMMA VRForDeletion ==
    ASSUME NEW v, NEW f, NEW w, Sound(v, w), v.async => w.vr.there, Ended(v, w)
    PROVE  Passes(v, f, w, reconcileVRForDeletion(v, w, f).w)
<1> DEFINE s == reconcileVRAsSecondary(v, w, f)
           p == processVR(v, w, "Primary", f)
           d == IF v.state = "Secondary" THEN s ELSE p
           i == Insisting(v, d)
           r == reconcileVRForDeletion(v, w, f)
<1>1. r = IF i.res = "go" THEN undoPVCFinalizersAndPVRetention(v, i.w, f) ELSE i
  BY DEF reconcileVRForDeletion, Then, With
<1>2. Passes(v, f, w, s.w) /\ (s.res = "go" => Protects(v, w, s.w))
  BY VRAsSecondary
<1>3. Passes(v, f, w, p.w) /\ (p.res = "go" => Protects(v, w, p.w))
  <2>1. CASE v.async
    <3>1. Retained(w) => w.pv.retain
      BY <2>1 DEF Retained
    <3> QED
      BY <3>1, VRAsPrimary
  <2>2. CASE ~v.async
    <3>1. /\ Sound(v, p.w) /\ SameButVR(w, p.w) /\ p.w.vr = w.vr
      BY <2>2, ProcessedVR DEF Roles
    <3> HIDE DEF p
    <3>2. Protects(v, w, p.w)
      BY <3>1, SameProtects
    <3> QED
      BY <3>2, ProtectsPasses
  <2> QED
    BY <2>1, <2>2
<1> HIDE DEF s, p
<1>4. i.w = d.w /\ (i.res = "go" => d.res = "go")
  BY DEF Insisting, Requeue
<1>5. Passes(v, f, w, i.w) /\ (i.res = "go" => Protects(v, w, i.w))
  BY <1>2, <1>3, <1>4
<1> HIDE DEF i, r
<1>6. CASE i.res = "go"
  <2>1. Sound(v, i.w) /\ MayStop(v, i.w)
    BY <1>5, <1>6 DEF Protects, SameVolume, MayStop, Ended
  <2>2. Passes(v, f, i.w, undoPVCFinalizersAndPVRetention(v, i.w, f).w)
    BY <2>1, Undone
  <2>3. Passes(v, f, w, r.w)
    BY <1>1, <1>5, <1>6, <2>2, ProtectsThenPasses
  <2> QED
    BY <2>3 DEF r
<1>7. CASE i.res # "go"
  <2>1. Passes(v, f, w, r.w)
    BY <1>1, <1>5, <1>7
  <2> QED
    BY <2>1 DEF r
<1> QED
  BY <1>6, <1>7

\* pvcsUnprotectVolRep: the whole pass over one PVC that is given up.
LEMMA Unprotected ==
    ASSUME NEW v, NEW f, NEW w, Sound(v, w), Ended(v, w)
    PROVE  Passes(v, f, w, pvcsUnprotectVolRep(v, w, f).w)
<1> DEFINE p == preparePVCForVRProtection(w, f)
           a == OrRequeue(p)
           b == Then(a, LAMBDA x : reconcileMissingVR(v, x, f))
           r == Then(b, LAMBDA x : reconcileVRForDeletion(v, x, f))
<1>1. b = IF a.res = "go" THEN reconcileMissingVR(v, a.w, f) ELSE a
  BY DEF Then, With
<1>2. r = IF b.res = "go" THEN reconcileVRForDeletion(v, b.w, f) ELSE b
  BY DEF Then, With
<1>3. pvcsUnprotectVolRep(v, w, f) = IF ~w.pvc.finalizer THEN Stop(w) ELSE r
  BY DEF pvcsUnprotectVolRep
<1>4. Protects(v, w, p.w)
  BY Prepared
<1> HIDE DEF p, r, b
<1>5. a.w = p.w
  BY DEF OrRequeue, Requeue
<1> HIDE DEF a
<1>6. Protects(v, w, a.w) /\ Passes(v, f, w, a.w) /\ Sound(v, a.w) /\ Ended(v, a.w)
  <2>1. Protects(v, w, a.w)
    BY <1>4, <1>5
  <2> QED
    BY <2>1, ProtectsPasses DEF Protects, SameVolume, Ended
<1>7. Passes(v, f, w, b.w) /\ (b.res = "go" => b.w = a.w /\ (v.async => a.w.vr.there))
  <2>1. CASE a.res = "go"
    <3>1. Passes(v, f, a.w, b.w) /\ (b.res = "go" => b.w = a.w /\ (v.async => a.w.vr.there))
      BY <1>1, <1>6, <2>1, MissingVR
    <3> QED
      BY <1>6, <3>1, ProtectsThenPasses
  <2>2. CASE a.res # "go"
    BY <1>1, <1>6, <2>2
  <2> QED
    BY <2>1, <2>2
<1>8. Passes(v, f, w, r.w)
  <2>1. CASE b.res = "go"
    <3>1. Passes(v, f, a.w, reconcileVRForDeletion(v, a.w, f).w)
      BY <1>6, <1>7, <2>1, VRForDeletion
    <3> QED
      BY <1>2, <1>6, <1>7, <2>1, <3>1, ProtectsThenPasses
  <2>2. CASE b.res # "go"
    BY <1>2, <1>7, <2>2
  <2> QED
    BY <2>1, <2>2
<1>9. Passes(v, f, w, w)
  BY ProtectsSelf, ProtectsPasses
<1> QED
  BY <1>3, <1>8, <1>9 DEF Stop

\* The stores are emptied of a volume only when it is on its way out.
LEMMA UnprotectedPVC ==
    ASSUME NEW v, NEW f, NEW w, Sound(v, w), Leaving(v, w), v.state = "Primary", ~v.finalSync
    PROVE  Passes(v, f, w, pvcUnprotectVolRep(v, w, f).w)
<1> DEFINE x == [w EXCEPT !.s3 = Emptied]
           a == pvAndPvcObjectReplicasDelete(w, f)
           r == Then(a, LAMBDA y : pvcsUnprotectVolRep(v, y, f))
<1>1. r = IF a.res = "go" THEN pvcsUnprotectVolRep(v, a.w, f) ELSE a
  BY DEF Then, With
<1>2. a = IF f.call = "deleteS3" THEN Requeue(w) ELSE Go(x)
  BY DEF pvAndPvcObjectReplicasDelete
<1>3. pvcUnprotectVolRep(v, w, f) = IF ~VolumeUnprotectionEnabled THEN Stop(w) ELSE r
  BY DEF pvcUnprotectVolRep
<1>4. w \in VolumeType
  BY DEF Sound
<1>5. Emptied \in S3Type
  BY DEF Emptied, S3Type, Objects
<1>6. /\ x \in VolumeType /\ x.pvc = w.pvc /\ x.pv = w.pv /\ x.vr = w.vr
      /\ x.inUse = w.inUse /\ x.reclaims = w.reclaims
  BY <1>4, <1>5 DEF VolumeType
<1> HIDE DEF a, r, x
<1>7. Sound(v, x) /\ Leaving(v, x)
  BY <1>6 DEF Sound, Paired, PolicyKept, Archived, Replicated, Leaving
<1>8. VolumeUnprotectionEnabled => Ended(v, x)
  BY <1>7 DEF Ended, Leaving
<1>9. VolumeUnprotectionEnabled => Passes(v, f, x, pvcsUnprotectVolRep(v, x, f).w)
  BY <1>7, <1>8, Unprotected
<1>10. ASSUME NEW y, Passes(v, f, x, y) PROVE Passes(v, f, w, y)
  <2>1. VRStep(v, w, y)
    BY <1>6, <1>10 DEF Passes, VRStep, MayStop, Ended, Created, Updated
  <2> QED
    BY <1>6, <1>10, <2>1 DEF Passes, SameVolume, Leaving, Retained, Sound, Paired
<1>11. Passes(v, f, w, w)
  BY ProtectsSelf, ProtectsPasses
<1> QED
  BY <1>1, <1>2, <1>3, <1>9, <1>10, <1>11 DEF Go, Requeue, Stop

\* processPVCAsPrimary: the whole pass over one PVC of a Primary.
LEMMA AsPrimary ==
    ASSUME NEW v, NEW f, NEW w, Sound(v, w)
    PROVE  Passes(v, f, w, processPVCAsPrimary(v, w, f).w)
<1> DEFINE a == updateProtectedPVCs(v, w, f)
           b == Then(a, LAMBDA x : preparePVCForVRProtection(x, f))
           c(x) == Regardless(processVR(v, x, "Primary", f))
           d(x) == Then(c(x), LAMBDA y : annotateWithDestinationVolumeHandleForVolRep(y, f))
           e(x) == Then(d(x), LAMBDA y : uploadPVandPVCtoS3Stores(v, y, f))
           r == Then(b, LAMBDA x : e(x))
<1>1. b = IF a.res = "go" THEN preparePVCForVRProtection(a.w, f) ELSE a
  BY DEF Then, With
<1>2. r = IF b.res = "go" THEN e(b.w) ELSE b
  <2> HIDE DEF b, e
  <2> QED
    BY DEF Then, With
<1>3. ASSUME NEW x
      PROVE  d(x) = IF c(x).res = "go" THEN annotateWithDestinationVolumeHandleForVolRep(c(x).w, f) ELSE c(x)
  BY DEF Then, With
<1>4. ASSUME NEW x PROVE e(x) = IF d(x).res = "go" THEN uploadPVandPVCtoS3Stores(v, d(x).w, f) ELSE d(x)
  BY DEF Then, With
<1>5. processPVCAsPrimary(v, w, f) = IF w.pvc.terminating THEN pvcUnprotectVolRepIfDeleted(v, w, f) ELSE r
  BY DEF processPVCAsPrimary
<1>6. Protects(v, w, a.w)
  BY ListedEntry
<1>7. Passes(v, f, w, w)
  BY ProtectsSelf, ProtectsPasses
<1> HIDE DEF a, b, r
<1>8. /\ Protects(v, w, b.w)
      /\ b.res = "go" /\ a.res = "go" /\ Retained(b.w) => b.w.pv.retain
  <2>1. Sound(v, a.w)
    BY <1>6 DEF Protects
  <2> DEFINE q == preparePVCForVRProtection(a.w, f)
  <2>2. Protects(v, a.w, q.w) /\ (q.res = "go" /\ Retained(q.w) => q.w.pv.retain)
    BY <2>1, Prepared
  <2> HIDE DEF q
  <2>3. b = IF a.res = "go" THEN q ELSE a
    BY <1>1 DEF q
  <2> QED
    BY <1>6, <2>2, <2>3, ProtectsTwice
<1>9. ASSUME NEW x, Sound(v, x), Retained(x) => x.pv.retain PROVE Passes(v, f, x, e(x).w)
  <2>1. Passes(v, f, x, c(x).w)
    <3> DEFINE p == processVR(v, x, "Primary", f)
    <3>1. Passes(v, f, x, p.w)
      BY <1>9, VRAsPrimary
    <3> HIDE DEF p
    <3>2. c(x) = Regardless(p)
      BY DEF p
    <3>3. Regardless(p).w = p.w
      BY DEF Regardless, Go
    <3> QED
      BY <3>1, <3>2, <3>3
  <2> HIDE DEF c
  <2>2. Passes(v, f, x, d(x).w)
    <3>1. Sound(v, c(x).w)
      BY <2>1 DEF Passes
    <3>2. Protects(v, c(x).w, annotateWithDestinationVolumeHandleForVolRep(c(x).w, f).w)
      BY <3>1, HandleAnnotated
    <3>3. Passes(v, f, x, annotateWithDestinationVolumeHandleForVolRep(c(x).w, f).w)
      BY <2>1, <3>2, PassesThenProtects
    <3> HIDE DEF d
    <3> QED
      BY <1>3, <2>1, <3>3
  <2> HIDE DEF d
  <2>3. Sound(v, d(x).w)
    BY <2>2 DEF Passes
  <2>4. Protects(v, d(x).w, uploadPVandPVCtoS3Stores(v, d(x).w, f).w)
    BY <2>3, ObjectsUploaded
  <2>5. Passes(v, f, x, uploadPVandPVCtoS3Stores(v, d(x).w, f).w)
    BY <2>2, <2>4, PassesThenProtects
  <2> HIDE DEF e
  <2> QED
    BY <1>4, <2>2, <2>5
<1>10. Passes(v, f, w, r.w)
  <2>1. Sound(v, b.w) /\ Passes(v, f, w, b.w)
    BY <1>8, ProtectsPasses DEF Protects
  <2>2. CASE b.res = "go"
    <3>1. Retained(b.w) => b.w.pv.retain
      BY <1>1, <1>8, <2>2
    <3>2. Passes(v, f, b.w, e(b.w).w)
      BY <1>9, <2>1, <3>1
    <3> HIDE DEF e
    <3>3. Passes(v, f, w, e(b.w).w)
      BY <1>8, <3>2, ProtectsThenPasses
    <3> QED
      BY <1>2, <2>2, <3>3
  <2>3. CASE b.res # "go"
    BY <1>2, <2>1, <2>3
  <2> QED
    BY <2>2, <2>3
<1>11. w.pvc.terminating => Passes(v, f, w, pvcUnprotectVolRepIfDeleted(v, w, f).w)
  <2> HAVE w.pvc.terminating
  <2>1. v.state = "Primary" /\ ~v.finalSync => Passes(v, f, w, pvcUnprotectVolRep(v, w, f).w)
    BY UnprotectedPVC DEF Leaving
  <2> QED
    BY <1>7, <2>1 DEF pvcUnprotectVolRepIfDeleted, Stop
<1> QED
  BY <1>5, <1>10, <1>11
=============================================================================
