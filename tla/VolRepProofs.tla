---------------------------- MODULE VolRepProofs ----------------------------
(***************************************************************************)
(* What the VRG controller keeps of every volume it protects, for every    *)
(* number of volumes and S3 stores, every scene and every call that fails. *)
(***************************************************************************)
EXTENDS VolRepPassProofs

-----------------------------------------------------------------------------
(* The inductive invariant.                                                 *)

SpecType ==
    [there : BOOLEAN, async : BOOLEAN, state : Roles, finalSync : BOOLEAN,
     action : {"None", "Relocate", "Failover"}, dryRun : BOOLEAN, testFailover : BOOLEAN,
     deleted : BOOLEAN]

\* No PVC is another resource's, and updating a PVC never fails.
Undisturbed(s) == s.start # "shared" /\ "updatePVC" \notin s.calls

\* What always holds of the volume p in the scene s, under the specification v.
VolumeInv(s, v, p, w) ==
    /\ Sound(v, w)
    /\ w.pvc.terminating => "delete" \in s.acts
    /\ w.pvc.there /\ ~w.pvc.selected => "deselect" \in s.acts
    /\ Undisturbed(s) => Retained(w)

VolRepInv ==
    /\ scene \in Scenes /\ spec \in SpecType /\ spec.async = scene.async
    /\ spec.deleted => "end" \in scene.acts
    /\ vols = [p \in VolumeSet |-> vols[p]]
    /\ \A p \in VolumeSet : VolumeInv(scene, spec, p, vols[p])

\* A VRG that was just created, for every start and every reclaim policy.
LEMMA InitInv == InitVolRep => VolRepInv
<1> SUFFICES ASSUME InitVolRep PROVE VolRepInv
  OBVIOUS
<1>1. scene \in SceneType /\ scene \in Scenes
  BY VolRepAssumption DEF InitVolRep
<1>2. spec \in SpecType /\ spec.async = scene.async /\ ~spec.deleted
  BY <1>1 DEF InitVolRep, InitSpec, SpecType, SceneType, Roles
<1>3. PICK reclaims \in BOOLEAN : vols = [p \in VolumeSet |->
          InitVolume(scene.start, p \in scene.present,
                     scene.start = "shared" /\ p = Volumes[Len(Volumes)], reclaims)]
  BY DEF InitVolRep
<1>4. ASSUME NEW p \in VolumeSet PROVE VolumeInv(scene, spec, p, vols[p])
  <2> DEFINE shared == scene.start = "shared" /\ p = Volumes[Len(Volumes)]
             running == scene.start \in Running /\ p \in scene.present
             w == vols[p]
             pvc == IF running THEN [NoPVC EXCEPT !.there = TRUE, !.bound = TRUE, !.selected = TRUE,
                                       !.owner = IF shared THEN "other" ELSE "none"]
                    ELSE NoPVC
             pv == IF running THEN [NoPV EXCEPT !.phase = "Bound", !.retain = ~reclaims] ELSE NoPV
             s3 == IF scene.start \in Running \/ ~(p \in scene.present) THEN Emptied
                   ELSE [i \in 1..Stores |-> [pv |-> "peer", pvc |-> "peer"]]
  <2>1. w = [pvc |-> pvc, pv |-> pv, vr |-> NoVR, st |-> NoStatus, reclaims |-> reclaims,
             inUse |-> running, s3 |-> s3]
    BY <1>3 DEF InitVolume
  <2>2. /\ pvc \in PVCType /\ pvc.there = running /\ pvc.bound = running /\ ~pvc.terminating
        /\ pvc.selected = running /\ ~pvc.finalizer /\ ~pvc.archived /\ ~pvc.protected
        /\ pvc.owner = "other" => scene.start = "shared"
    BY DEF NoPVC, PVCType
  <2>3. /\ pv \in PVType /\ ~pv.retained /\ pv.phase = (IF running THEN "Bound" ELSE "None")
        /\ running => pv.retain = ~reclaims
    BY DEF NoPV, PVType
  <2>4. NoVR \in VRType /\ ~NoVR.there /\ ~NoVR.terminating /\ NoStatus \in StatusType
    BY DEF NoVR, VRType, NoConditions, Readings, NoStatus, StatusType, Roles
  <2>5. s3 \in S3Type
    BY DEF S3Type, Objects, Emptied
  <2>7. running \in BOOLEAN
    OBVIOUS
  <2> HIDE DEF pvc, pv, s3, running
  <2>8. w \in VolumeType /\ w.pvc = pvc /\ w.pv = pv /\ w.vr = NoVR /\ w.s3 = s3
        /\ w.reclaims = reclaims
    BY <2>1, <2>2, <2>3, <2>4, <2>5, <2>7 DEF VolumeType
  <2> HIDE DEF w
  <2>9. Sound(spec, w)
    BY <2>2, <2>3, <2>4, <2>8
       DEF Sound, Paired, PolicyKept, Archived, Replicated, isArchivedAlready
  <2>10. Undisturbed(scene) => Retained(w)
    BY <2>2, <2>4, <2>8 DEF Undisturbed, Retained
  <2>12. VolumeInv(scene, spec, p, w)
    BY <2>2, <2>8, <2>9, <2>10 DEF VolumeInv
  <2> QED
    BY <2>12 DEF w
<1>5. vols = [p \in VolumeSet |-> vols[p]]
  BY <1>3
<1> QED
  BY <1>1, <1>2, <1>4, <1>5 DEF VolRepInv

\* The invariant of a volume holds under every specification the hub may give
\* the VRG next.
LEMMA OtherSpec ==
    ASSUME NEW s, NEW v, NEW u, NEW p, NEW w, VolumeInv(s, v, p, w),
           u.async = v.async, v.deleted => u.deleted
    PROVE  VolumeInv(s, u, p, w)
<1>1. Sound(u, w)
  BY DEF VolumeInv, Sound, Archived, Leaving, Replicated
<1> QED
  BY <1>1 DEF VolumeInv

\* processVRG keeps the invariant.
LEMMA PassInv ==
    ASSUME VolRepInv, NEW f \in Faults, NEW q \in VolumeSet, Reconcile(f, q)
    PROVE  VolRepInv'
<1> DEFINE r == processVRG(f, q)
<1>1. vols' = r.vols /\ spec' = [spec EXCEPT !.there = r.there] /\ scene' = scene
  BY DEF Reconcile
<1>2. VolumesSound
  BY DEF VolRepInv, VolumeInv, VolumesSound
<1>3. PassOf(f, r.vols) /\ r.there \in BOOLEAN
  BY <1>2, OnePass
<1>4. Undisturbed(scene) => f.call # "updatePVC"
  BY DEF Reconcile, Undisturbed, NoFault
<1> HIDE DEF r
<1>5. spec' \in SpecType /\ spec'.async = spec.async /\ spec'.deleted = spec.deleted
      /\ spec'.dryRun = spec.dryRun
  BY <1>1, <1>3 DEF VolRepInv, SpecType
<1>6. ASSUME NEW p \in VolumeSet PROVE VolumeInv(scene, spec', p, vols'[p])
  <2> DEFINE w == vols[p]
             x == vols'[p]
  <2>1. VolumeInv(scene, spec, p, w) /\ Total(spec, f, w, x)
    BY <1>1, <1>3 DEF VolRepInv, PassOf
  <2> HIDE DEF w, x
  <2>2. Sound(spec, x) /\ (x.pvc.terminating => "delete" \in scene.acts)
        /\ (x.pvc.there /\ ~x.pvc.selected => "deselect" \in scene.acts)
    BY <2>1 DEF VolumeInv, Total
  <2>3. Undisturbed(scene) => Retained(x)
    BY <1>4, <2>1 DEF VolumeInv, Total
  <2>5. VolumeInv(scene, spec, p, x)
    BY <2>2, <2>3 DEF VolumeInv
  <2>6. VolumeInv(scene, spec', p, x)
    BY <1>5, <2>5, OtherSpec
  <2> QED
    BY <2>6 DEF x
<1>7. vols' = [p \in VolumeSet |-> vols'[p]]
  BY <1>1, <1>3 DEF PassOf
<1> QED
  BY <1>1, <1>5, <1>6, <1>7 DEF VolRepInv

\* The hub keeps the invariant: it changes the specification only.
LEMMA HubInv == ASSUME VolRepInv, Hub PROVE VolRepInv'
<1> DEFINE Kept == /\ vols' = vols /\ scene' = scene /\ spec' \in SpecType /\ spec'.async = spec.async
                   /\ spec.deleted => spec'.deleted
                   /\ spec'.dryRun => spec.dryRun
                   /\ spec'.deleted => "end" \in scene.acts
<1>0. spec \in SpecType /\ (spec.deleted => "end" \in scene.acts)
  BY DEF VolRepInv
<1>1. Kept
  <2>1. CASE HubFinalSync
    BY <1>0, <2>1 DEF HubFinalSync, Change, SpecType
  <2>2. CASE HubKeepsTest
    BY <1>0, <2>2 DEF HubKeepsTest, Change, SpecType
  <2>3. CASE HubDeletes
    BY <1>0, <2>3 DEF HubDeletes, Change, SpecType, May
  <2>4. ASSUME NEW a \in {"Relocate", "Failover"}, HubDemotes(a) PROVE Kept
    <3> DEFINE s == [spec EXCEPT !.state = "Secondary", !.action = a, !.finalSync = FALSE, !.dryRun = FALSE]
    <3>1. spec' = s /\ vols' = vols /\ scene' = scene
      BY <2>4 DEF HubDemotes, Change
    <3>2. s \in SpecType /\ s.async = spec.async /\ s.deleted = spec.deleted /\ ~s.dryRun
      BY <1>0 DEF SpecType, Roles
    <3> HIDE DEF s
    <3> QED
      BY <1>0, <3>1, <3>2
  <2>5. ASSUME NEW a \in {"Relocate", "Failover"}, HubPromotes(a) PROVE Kept
    <3> DEFINE s == [spec EXCEPT !.state = "Primary", !.action = a, !.testFailover = FALSE]
    <3>1. spec' = s /\ vols' = vols /\ scene' = scene
      BY <2>5 DEF HubPromotes, Change
    <3>2. s \in SpecType /\ s.async = spec.async /\ s.deleted = spec.deleted /\ s.dryRun = spec.dryRun
      BY <1>0 DEF SpecType, Roles
    <3> HIDE DEF s
    <3> QED
      BY <1>0, <3>1, <3>2
  <2> QED
    BY <2>1, <2>2, <2>3, <2>4, <2>5 DEF Hub
<1>2. \A p \in VolumeSet : VolumeInv(scene, spec', p, vols[p])
  BY <1>1, OtherSpec DEF VolRepInv
<1> QED
  BY <1>1, <1>2 DEF VolRepInv

-----------------------------------------------------------------------------
(* The others: the user, the pods, Kubernetes and the storage driver.       *)

\* What they may make of a volume.
Touches(w, x) ==
    /\ \/ x.vr = w.vr
       \/ /\ w.vr.there /\ x.vr.there /\ x.vr.state = w.vr.state
          /\ x.vr.terminating = w.vr.terminating
       \/ w.vr.terminating /\ ~x.vr.there
    /\ w.pvc.finalizer => x.pvc.finalizer
    /\ w.pv.phase # "None" /\ x.pv.phase = "None"
         => w.pvc.terminating /\ ~w.pvc.finalizer /\ ~w.pv.retain

\* The step changes no volume but p, and that one to x.
Becomes(p, x) == /\ vols' = [vols EXCEPT ![p] = x] /\ UNCHANGED <<scene, spec>>
                 /\ VolumeInv(scene, spec, p, x) /\ Touches(vols[p], x)

\* The user may delete, deselect or reselect a PVC, as far as the scene allows.
LEMMA ClaimTouched ==
    ASSUME NEW s, NEW v, NEW p, NEW w, NEW x, VolumeInv(s, v, p, w), x \in VolumeType,
           x.pv = w.pv, x.vr = w.vr, x.s3 = w.s3, x.reclaims = w.reclaims,
           x.pvc.there = w.pvc.there, x.pvc.bound = w.pvc.bound, x.pvc.owner = w.pvc.owner,
           x.pvc.finalizer = w.pvc.finalizer, x.pvc.archived = w.pvc.archived,
           x.pvc.protected = w.pvc.protected,
           x.pvc.terminating => w.pvc.terminating \/ "delete" \in s.acts,
           w.pvc.terminating => x.pvc.terminating,
           x.pvc.there /\ ~x.pvc.selected => ~w.pvc.selected \/ "deselect" \in s.acts,
           w.pvc.finalizer /\ ~w.pvc.selected => ~x.pvc.selected
    PROVE  VolumeInv(s, v, p, x) /\ Touches(w, x)
<1>1. Sound(v, x)
  BY DEF VolumeInv, Sound, Paired, PolicyKept, Replicated, Archived, Leaving, isArchivedAlready,
         AllCurrent
<1>2. Retained(w) => Retained(x)
  BY DEF Retained
<1> QED
  BY <1>1, <1>2 DEF VolumeInv, Touches

\* The user and the pods.
LEMMA UserAndPods ==
    ASSUME VolRepInv, NEW p \in VolumeSet,
           \/ UserDeletesPVC(p) \/ UserDeselectsPVC(p) \/ UserReselectsPVC(p)
           \/ PodStarts(p) \/ PodStops(p)
    PROVE  \E x : Becomes(p, x)
<1> DEFINE w == vols[p]
<1>1. VolumeInv(scene, spec, p, w) /\ w \in VolumeType
  BY DEF VolRepInv, VolumeInv, Sound
<1>2. ASSUME NEW x, Volume(p, x), VolumeInv(scene, spec, p, x) /\ Touches(w, x)
      PROVE  \E y : Becomes(p, y)
  BY <1>2 DEF Volume, Becomes
<1>3. CASE UserDeletesPVC(p)
  <2> DEFINE x == [w EXCEPT !.pvc.terminating = TRUE]
  <2>1. Volume(p, x) /\ "delete" \in scene.acts
    BY <1>3 DEF UserDeletesPVC, May
  <2>2. /\ x \in VolumeType /\ x.pv = w.pv /\ x.vr = w.vr /\ x.s3 = w.s3 /\ x.reclaims = w.reclaims
        /\ x.pvc.there = w.pvc.there /\ x.pvc.bound = w.pvc.bound /\ x.pvc.owner = w.pvc.owner
        /\ x.pvc.finalizer = w.pvc.finalizer /\ x.pvc.archived = w.pvc.archived
        /\ x.pvc.protected = w.pvc.protected /\ x.pvc.selected = w.pvc.selected
        /\ x.pvc.terminating = TRUE
    BY <1>1 DEF VolumeType, PVCType
  <2> HIDE DEF x, w
  <2>3. VolumeInv(scene, spec, p, x) /\ Touches(w, x)
    BY <1>1, <2>1, <2>2, ClaimTouched
  <2> QED
    BY <1>2, <2>1, <2>3
<1>4. CASE UserDeselectsPVC(p)
  <2> DEFINE x == [w EXCEPT !.pvc.selected = FALSE]
  <2>1. Volume(p, x) /\ "deselect" \in scene.acts
    BY <1>4 DEF UserDeselectsPVC, May
  <2>2. /\ x \in VolumeType /\ x.pv = w.pv /\ x.vr = w.vr /\ x.s3 = w.s3 /\ x.reclaims = w.reclaims
        /\ x.pvc.there = w.pvc.there /\ x.pvc.bound = w.pvc.bound /\ x.pvc.owner = w.pvc.owner
        /\ x.pvc.finalizer = w.pvc.finalizer /\ x.pvc.archived = w.pvc.archived
        /\ x.pvc.protected = w.pvc.protected /\ x.pvc.terminating = w.pvc.terminating
        /\ x.pvc.selected = FALSE
    BY <1>1 DEF VolumeType, PVCType
  <2> HIDE DEF x, w
  <2>3. VolumeInv(scene, spec, p, x) /\ Touches(w, x)
    BY <1>1, <2>1, <2>2, ClaimTouched
  <2> QED
    BY <1>2, <2>1, <2>3
<1>5. CASE UserReselectsPVC(p)
  <2> DEFINE x == [w EXCEPT !.pvc.selected = TRUE]
  <2>1. Volume(p, x) /\ ~w.pvc.finalizer
    BY <1>5 DEF UserReselectsPVC
  <2>2. /\ x \in VolumeType /\ x.pv = w.pv /\ x.vr = w.vr /\ x.s3 = w.s3 /\ x.reclaims = w.reclaims
        /\ x.pvc.there = w.pvc.there /\ x.pvc.bound = w.pvc.bound /\ x.pvc.owner = w.pvc.owner
        /\ x.pvc.finalizer = w.pvc.finalizer /\ x.pvc.archived = w.pvc.archived
        /\ x.pvc.protected = w.pvc.protected /\ x.pvc.terminating = w.pvc.terminating
        /\ x.pvc.selected = TRUE
    BY <1>1 DEF VolumeType, PVCType
  <2> HIDE DEF x, w
  <2>3. VolumeInv(scene, spec, p, x) /\ Touches(w, x)
    BY <1>1, <2>1, <2>2, ClaimTouched
  <2> QED
    BY <1>2, <2>1, <2>3
<1>6. CASE PodStarts(p) \/ PodStops(p)
  <2>1. PICK b \in BOOLEAN : Volume(p, [w EXCEPT !.inUse = b])
    BY <1>6 DEF PodStarts, PodStops
  <2> DEFINE x == [w EXCEPT !.inUse = b]
  <2>2. /\ x \in VolumeType /\ x.pvc = w.pvc /\ x.pv = w.pv /\ x.vr = w.vr /\ x.s3 = w.s3
        /\ x.reclaims = w.reclaims
    BY <1>1 DEF VolumeType
  <2> HIDE DEF x, w
  <2>3. VolumeInv(scene, spec, p, x) /\ Touches(w, x)
    <3>1. (x.pvc.terminating => w.pvc.terminating) /\ (~x.pvc.selected => ~w.pvc.selected)
      BY <2>2
    <3> QED
      BY <1>1, <2>2, <3>1, ClaimTouched
  <2> QED
    BY <1>2, <2>1, <2>3 DEF x
<1> QED
  BY <1>3, <1>4, <1>5, <1>6

\* A resize makes the annotations and the stored objects outdated together.
LEMMA Resizing ==
    ASSUME VolRepInv, NEW p \in VolumeSet, UserResizesPVC(p) \/ DriverResized(p)
    PROVE  \E x : Becomes(p, x)
<1> DEFINE w == vols[p]
           s3 == Outdated(w.s3)
           y == [w EXCEPT !.pvc.resizing = TRUE, !.pvc.archived = FALSE, !.s3 = s3]
           z == [w EXCEPT !.pvc.resizing = FALSE, !.pv.archived = FALSE, !.s3 = s3]
<1>1. VolumeInv(scene, spec, p, w) /\ w \in VolumeType
  BY DEF VolRepInv, VolumeInv, Sound
<1>2. PICK x : Volume(p, x) /\ x \in {y, z}
  BY DEF UserResizesPVC, DriverResized
<1>3. s3 \in S3Type
  BY <1>1, OutdatedType DEF VolumeType
<1> HIDE DEF w
<1> DEFINE Like(u) ==
      /\ u \in VolumeType /\ u.vr = w.vr /\ u.reclaims = w.reclaims /\ u.s3 = s3
      /\ u.pvc.there = w.pvc.there /\ u.pvc.bound = w.pvc.bound /\ u.pvc.owner = w.pvc.owner
      /\ u.pvc.finalizer = w.pvc.finalizer /\ u.pvc.protected = w.pvc.protected
      /\ u.pvc.terminating = w.pvc.terminating /\ u.pvc.selected = w.pvc.selected
      /\ u.pv.phase = w.pv.phase /\ u.pv.retain = w.pv.retain /\ u.pv.retained = w.pv.retained
      /\ ~isArchivedAlready(u)
<1>4. Like(x)
  <2> HIDE DEF s3
  <2>1. Like(y)
    BY <1>1, <1>3 DEF VolumeType, PVCType, isArchivedAlready
  <2>2. Like(z)
    <3> DEFINE c == [w.pvc EXCEPT !.resizing = FALSE]
               d == [w.pv EXCEPT !.archived = FALSE]
    <3>1. /\ c \in PVCType /\ c.there = w.pvc.there /\ c.bound = w.pvc.bound /\ c.owner = w.pvc.owner
          /\ c.finalizer = w.pvc.finalizer /\ c.protected = w.pvc.protected
          /\ c.terminating = w.pvc.terminating /\ c.selected = w.pvc.selected
      BY <1>1 DEF VolumeType, PVCType
    <3>2. /\ d \in PVType /\ d.phase = w.pv.phase /\ d.retain = w.pv.retain
          /\ d.retained = w.pv.retained /\ ~d.archived
      BY <1>1 DEF VolumeType, PVType
    <3>3. z = [w EXCEPT !.pvc = c, !.pv = d, !.s3 = s3]
      BY <1>1 DEF VolumeType
    <3> HIDE DEF c, d, z
    <3>4. /\ z \in VolumeType /\ z.pvc = c /\ z.pv = d /\ z.s3 = s3
          /\ z.vr = w.vr /\ z.reclaims = w.reclaims
      BY <1>1, <1>3, <3>1, <3>2, <3>3 DEF VolumeType
    <3> QED
      BY <3>1, <3>2, <3>4 DEF isArchivedAlready
  <2> QED
    BY <1>2, <2>1, <2>2
<1> HIDE DEF y, z
<1>5. Sound(spec, x)
  BY <1>1, <1>4 DEF VolumeInv, Sound, Paired, PolicyKept, Replicated, Archived
<1>6. Retained(w) => Retained(x)
  BY <1>4 DEF Retained
<1>8. VolumeInv(scene, spec, p, x) /\ Touches(w, x)
  BY <1>1, <1>4, <1>5, <1>6 DEF VolumeInv, Touches
<1> QED
  BY <1>2, <1>8 DEF w, Volume, Becomes

\* Kubernetes binds a restored PVC to its PV.
LEMMA Binding ==
    ASSUME VolRepInv, NEW p \in VolumeSet, PVCBinds(p)
    PROVE  \E x : Becomes(p, x)
<1> DEFINE w == vols[p]
           x == [w EXCEPT !.pvc.bound = TRUE, !.pv.phase = "Bound"]
<1>1. VolumeInv(scene, spec, p, w) /\ w \in VolumeType
  BY DEF VolRepInv, VolumeInv, Sound
<1>2. Volume(p, x) /\ w.pvc.there /\ w.pv.phase = "Available"
  BY DEF PVCBinds
<1> HIDE DEF w
<1>3. /\ x \in VolumeType /\ x.vr = w.vr /\ x.reclaims = w.reclaims /\ x.s3 = w.s3
      /\ x.pvc.there = w.pvc.there /\ x.pvc.bound /\ x.pvc.owner = w.pvc.owner
      /\ x.pvc.finalizer = w.pvc.finalizer /\ x.pvc.protected = w.pvc.protected
      /\ x.pvc.terminating = w.pvc.terminating /\ x.pvc.selected = w.pvc.selected
      /\ x.pvc.archived = w.pvc.archived /\ x.pv.archived = w.pv.archived
      /\ x.pv.phase = "Bound" /\ x.pv.retain = w.pv.retain /\ x.pv.retained = w.pv.retained
  BY <1>1 DEF VolumeType, PVCType, PVType
<1> HIDE DEF x
<1>4. Sound(spec, x)
  BY <1>1, <1>2, <1>3 DEF VolumeInv, Sound, Paired, PolicyKept, Replicated, Archived, Leaving,
                          isArchivedAlready, AllCurrent
<1>5. Retained(w) => Retained(x)
  BY <1>3 DEF Retained
<1>7. VolumeInv(scene, spec, p, x) /\ Touches(w, x)
  BY <1>1, <1>3, <1>4, <1>5 DEF VolumeInv, Touches
<1> QED
  BY <1>2, <1>7 DEF w, Volume, Becomes

\* Kubernetes removes a PVC; its PV goes by the reclaim policy.
LEMMA Removal ==
    ASSUME VolRepInv, NEW p \in VolumeSet, PVCRemoved(p)
    PROVE  \E x : Becomes(p, x)
<1> DEFINE w == vols[p]
           pv == IF w.pv.phase # "Bound" THEN w.pv
                 ELSE IF w.pv.retain THEN [w.pv EXCEPT !.phase = "Released"] ELSE NoPV
           x == [w EXCEPT !.pvc = NoPVC, !.pv = pv]
<1>1. VolumeInv(scene, spec, p, w) /\ w \in VolumeType
  BY DEF VolRepInv, VolumeInv, Sound
<1>2. Volume(p, x) /\ w.pvc.terminating /\ ~w.pvc.finalizer
  <2>1. x = [w EXCEPT !.pvc = NoPVC, !.pv = IF @.phase # "Bound" THEN @
                           ELSE IF @.retain THEN [@ EXCEPT !.phase = "Released"] ELSE NoPV]
    BY <1>1 DEF VolumeType
  <2> QED
    BY <2>1 DEF PVCRemoved
<1> HIDE DEF w
<1>3. /\ pv \in PVType /\ pv.phase # "Bound"
      /\ pv.retained => w.pv.retained
      /\ pv.phase # "None" => w.pv.phase # "None" /\ pv.retain = w.pv.retain
      /\ pv.phase = "None" => w.pv.phase = "None" \/ ~w.pv.retain
      /\ w.pv.retain => pv.retain
  <2>1. NoPV \in PVType /\ NoPV.phase = "None" /\ ~NoPV.retained /\ w.pv \in PVType
    BY <1>1, NothingTypes DEF VolumeType, NoPV
  <2> QED
    BY <2>1 DEF PVType
<1>4. NoPVC \in PVCType /\ ~NoPVC.there /\ ~NoPVC.bound /\ ~NoPVC.terminating /\ ~NoPVC.finalizer
      /\ ~NoPVC.archived /\ ~NoPVC.protected /\ NoPVC.owner = "none"
  BY NothingTypes DEF NoPVC
<1> HIDE DEF pv
<1>5. x \in VolumeType /\ x.pvc = NoPVC /\ x.pv = pv /\ x.vr = w.vr /\ x.s3 = w.s3
      /\ x.reclaims = w.reclaims
  BY <1>1, <1>3, <1>4 DEF VolumeType
<1> HIDE DEF x
<1>6. Sound(spec, x)
  <2>1. Paired(x) /\ Replicated(spec, x) /\ Archived(spec, x)
    BY <1>1, <1>3, <1>4, <1>5 DEF VolumeInv, Sound, Paired, Replicated, Archived, isArchivedAlready
  <2>2. PolicyKept(x)
    BY <1>1, <1>3, <1>5 DEF VolumeInv, Sound, PolicyKept
  <2> QED
    BY <1>5, <2>1, <2>2 DEF Sound
<1>7. Retained(w) => Retained(x)
  <2>1. Retained(w) /\ w.vr.there => w.pv.retain
    BY DEF Retained
  <2> QED
    BY <2>1, <1>3, <1>4, <1>5 DEF Retained
<1>9. VolumeInv(scene, spec, p, x)
  BY <1>1, <1>4, <1>5, <1>6, <1>7 DEF VolumeInv
<1>10. Touches(w, x)
  BY <1>2, <1>3, <1>5 DEF Touches
<1> QED
  BY <1>2, <1>9, <1>10 DEF w, Volume, Becomes

\* The storage driver.
LEMMA DriverActs ==
    ASSUME VolRepInv, NEW p \in VolumeSet,
           \/ DriverSucceeds(p) \/ DriverFails(p) \/ DriverKnowsDestination(p)
           \/ DriverReleasesVR(p)
    PROVE  \E x : Becomes(p, x)
<1> DEFINE w == vols[p]
<1>1. VolumeInv(scene, spec, p, w) /\ w \in VolumeType /\ w.vr \in VRType
      /\ vols = [a \in VolumeSet |-> vols[a]]
  BY DEF VolRepInv, VolumeInv, Sound, VolumeType
<1>2. ASSUME NEW r \in VRType, vols' = [vols EXCEPT ![p] = [w EXCEPT !.vr = r]],
             UNCHANGED <<scene, spec>>,
             w.vr.terminating => r.terminating \/ ~r.there,
             r.terminating => w.vr.terminating /\ r.there,
             r.there => w.vr.there /\ r.state = w.vr.state /\ r.terminating = w.vr.terminating,
             ~r.there => w.vr.terminating
      PROVE  \E x : Becomes(p, x)
  <2> DEFINE x == [w EXCEPT !.vr = r]
  <2>1. x \in VolumeType /\ x.pvc = w.pvc /\ x.pv = w.pv /\ x.s3 = w.s3 /\ x.vr = r
        /\ x.reclaims = w.reclaims
    BY <1>1 DEF VolumeType
  <2> HIDE DEF x, w
  <2>2. Sound(spec, x)
    BY <1>1, <1>2, <2>1 DEF VolumeInv, Sound, Paired, PolicyKept, Replicated, Archived, Leaving,
                            isArchivedAlready, AllCurrent
  <2>3. Retained(w) => Retained(x)
    BY <1>2, <2>1 DEF Retained
  <2>4. VolumeInv(scene, spec, p, x) /\ Touches(w, x)
    BY <1>1, <1>2, <2>1, <2>2, <2>3 DEF VolumeInv, Touches
  <2> QED
    BY <1>2, <2>4 DEF x, w, Becomes
<1>3. ASSUME NEW c \in [DOMAIN NoConditions -> Readings], DriverReports(p, c)
      PROVE  \E x : Becomes(p, x)
  <2> DEFINE role == IF c["Completed"] = "True" THEN w.vr.state ELSE w.vr.role
             r == [w.vr EXCEPT !.observed = TRUE, !.cond = c, !.role = role]
  <2>1. w.vr.there /\ ~w.vr.terminating /\ UNCHANGED <<scene, spec>>
    BY <1>3 DEF DriverReports
  <2>2. vols' = [vols EXCEPT ![p] = [w EXCEPT !.vr = r]]
    <3>1. vols' = [vols EXCEPT ![p].vr.observed = TRUE, ![p].vr.cond = c,
                            ![p].vr.role = IF c["Completed"] = "True" THEN vols[p].vr.state ELSE @]
      BY <1>3 DEF DriverReports
    <3> QED
      BY <1>1, <3>1 DEF VolumeType, VRType
  <2>3. r \in VRType /\ r.there = w.vr.there /\ r.terminating = w.vr.terminating
        /\ r.state = w.vr.state
    <3>1. role \in Roles \cup {"Unknown"}
      BY <1>1, <2>1 DEF VolumeInv, Sound, Replicated, VRType
    <3> HIDE DEF role
    <3> QED
      BY <1>1, <3>1 DEF VRType
  <2> HIDE DEF r, w
  <2> QED
    BY <1>2, <2>1, <2>2, <2>3
<1>4. CASE DriverSucceeds(p) \/ DriverFails(p)
  <2>1. \A t : Succeeds(t) \subseteq [DOMAIN NoConditions -> Readings]
               /\ Fails(t) \in [DOMAIN NoConditions -> Readings]
    BY DEF Succeeds, Fails, Report, NoConditions, Readings
  <2>2. \E c : c \in [DOMAIN NoConditions -> Readings] /\ DriverReports(p, c)
    BY <1>4, <2>1 DEF DriverSucceeds, DriverFails
  <2> QED
    BY <1>3, <2>2
<1>5. CASE DriverKnowsDestination(p)
  <2>1. PICK d \in {"True", "False"} : Volume(p, [w EXCEPT !.vr.destination = d])
    BY <1>5 DEF DriverKnowsDestination
  <2> DEFINE r == [w.vr EXCEPT !.destination = d]
  <2>2. vols' = [vols EXCEPT ![p] = [w EXCEPT !.vr = r]] /\ UNCHANGED <<scene, spec>>
    BY <1>1, <2>1 DEF Volume, VolumeType
  <2>3. r \in VRType /\ r.there = w.vr.there /\ r.terminating = w.vr.terminating
        /\ r.state = w.vr.state /\ w.vr.there
    BY <1>1, <1>5 DEF VRType, DriverKnowsDestination
  <2> HIDE DEF r, w
  <2> QED
    BY <1>2, <2>2, <2>3
<1>6. CASE DriverReleasesVR(p)
  <2> DEFINE r == [w.vr EXCEPT !.there = FALSE, !.terminating = FALSE]
  <2>1. vols' = [vols EXCEPT ![p] = [w EXCEPT !.vr = r]] /\ UNCHANGED <<scene, spec>>
    BY <1>1, <1>6 DEF DriverReleasesVR, Volume, VolumeType
  <2>2. r \in VRType /\ ~r.there /\ ~r.terminating /\ w.vr.terminating
    BY <1>1, <1>6 DEF VRType, DriverReleasesVR
  <2> HIDE DEF r, w
  <2> QED
    BY <1>2, <2>1, <2>2
<1> QED
  BY <1>4, <1>5, <1>6

\* Every step of the others changes one volume, and keeps its invariant.
LEMMA OutsideSteps ==
    ASSUME VolRepInv, NEW p \in VolumeSet, Outside(p)
    PROVE  \E x : Becomes(p, x)
BY UserAndPods, Resizing, Binding, Removal, DriverActs DEF Outside

\* The others keep the invariant.
LEMMA OutsideInv ==
    ASSUME VolRepInv, NEW p \in VolumeSet, Outside(p)
    PROVE  VolRepInv'
<1>1. PICK x : Becomes(p, x)
  BY OutsideSteps
<1>2. vols' = [vols EXCEPT ![p] = x] /\ scene' = scene /\ spec' = spec /\ VolumeInv(scene, spec, p, x)
  BY <1>1 DEF Becomes
<1>3. vols' = [q \in VolumeSet |-> IF q = p THEN x ELSE vols[q]]
  BY <1>2 DEF VolRepInv
<1>4. vols' = [q \in VolumeSet |-> vols'[q]]
  BY <1>3
<1>5. \A q \in VolumeSet : VolumeInv(scene, spec, q, vols'[q])
  BY <1>2, <1>3 DEF VolRepInv
<1> QED
  BY <1>2, <1>4, <1>5 DEF VolRepInv

\* A stuttering step keeps the invariant.
LEMMA StutterInv == ASSUME VolRepInv, UNCHANGED volrepVars PROVE VolRepInv'
<1>1. vols' = vols /\ scene' = scene /\ spec' = spec
  BY DEF volrepVars
<1> QED
  BY <1>1 DEF VolRepInv

\* VolRepInv holds of every pass, call that fails and step of the others.
THEOREM VolRepInvariant == SpecVolRep => []VolRepInv
<1>1. VolRepInv /\ [NextVolRep]_volrepVars => VolRepInv'
  <2> SUFFICES ASSUME VolRepInv, [NextVolRep]_volrepVars PROVE VolRepInv'
    OBVIOUS
  <2>1. CASE \E f \in Faults, q \in VolumeSet : Reconcile(f, q)
    BY <2>1, PassInv
  <2>2. CASE Hub
    BY <2>2, HubInv
  <2>3. CASE \E p \in VolumeSet : Outside(p)
    BY <2>3, OutsideInv
  <2>4. CASE UNCHANGED volrepVars
    BY <2>4, StutterInv
  <2> QED
    BY <2>1, <2>2, <2>3, <2>4 DEF NextVolRep
<1> QED
  BY InitInv, <1>1, PTL DEF SpecVolRep

-----------------------------------------------------------------------------
(* What follows from it.                                                    *)

\* Every volume keeps its type, and both sides of a PV and PVC are bound, or
\* neither is, through restore, resizes and deletions.
THEOREM VolumesPaired == SpecVolRep => []VolRepTypeOK
<1>1. VolRepInv => VolRepTypeOK
  BY DEF VolRepInv, VolumeInv, Sound, Paired, VolRepTypeOK
<1> QED
  BY VolRepInvariant, <1>1, PTL

\* undoPVRetention: a PV that the user wants retained stays retained.
THEOREM PolicyIsKept == SpecVolRep => []UserPolicyKept
<1>1. VolRepInv => UserPolicyKept
  BY DEF VolRepInv, VolumeInv, Sound, PolicyKept, UserPolicyKept
<1> QED
  BY VolRepInvariant, <1>1, PTL

\* isArchivedAlready: a live volume whose annotations say that it is archived
\* is in every store as it is now.
THEOREM ArchiveIsCurrent == SpecVolRep => []ArchivedIsStored
<1>1. VolRepInv => ArchivedIsStored
  <2> SUFFICES ASSUME VolRepInv, NEW p \in VolumeSet, isArchivedAlready(vols[p]),
                      vols[p].pvc.selected, ~vols[p].pvc.terminating, ~spec.deleted
               PROVE  \A i \in 1..Stores : vols[p].s3[i] = [pv |-> "current", pvc |-> "current"]
    BY DEF ArchivedIsStored
  <2>1. Archived(spec, vols[p])
    BY DEF VolRepInv, VolumeInv, Sound
  <2>2. AllCurrent(vols[p])
    BY <2>1 DEF Archived, Leaving
  <2> QED
    BY <2>2 DEF AllCurrent
<1> QED
  BY VolRepInvariant, <1>1, PTL

-----------------------------------------------------------------------------
(* The contract.                                                            *)

\* Deleting a PVC is left out where it may destroy a replicated volume.
Careful(s) == "delete" \in s.acts /\ s.async => Undisturbed(s)

RoleOf(vr) == IF ~vr.there THEN "none" ELSE IF vr.terminating THEN "leaving"
              ELSE IF vr.state = "Primary" THEN "primary"
              ELSE IF Follows(vr) THEN "following" ELSE "demoted"

\* ContractVolume under the specification v.
Mapped(v, w) == [role |-> RoleOf(w.vr), held |-> w.pvc.finalizer, used |-> w.inUse,
                 ended |-> Ended(v, w),
                 renewed |-> w.pvc.there /\ w.pvc.owner = "none" /\ ~w.pvc.finalizer,
                 stored |-> w.pv.phase # "None"]

\* The contract but for what it says of volumes that go.
Orderly(a, b) == /\ Contract!RoleStep(a, b) /\ Contract!DemotedUnused(a, b)
                 /\ Contract!LetGoUnreplicated(a, b)

\* ContractVolume does not depend on the specification but for what was ended.
LEMMA MappedNow == ASSUME NEW p PROVE ContractVolume(vols[p]) = Mapped(spec, vols[p])
BY FollowsIsReady DEF ContractVolume, Mapped, RoleOf, Ended

\* The same after the step.
LEMMA MappedNext == ASSUME NEW p PROVE (ContractVolume(vols[p]))' = Mapped(spec', vols'[p])
BY FollowsIsReady DEF ContractVolume, Mapped, RoleOf, Ended

\* A volume maps to a volume of the contract.
LEMMA MappedType == ASSUME NEW v, NEW w \in VolumeType PROVE Mapped(v, w) \in Contract!VolumeStates
<1>1. RoleOf(w.vr) \in Contract!Replicas
  BY DEF RoleOf, Contract!Replicas
<1>2. w.pvc.finalizer \in BOOLEAN /\ w.inUse \in BOOLEAN
  BY DEF VolumeType, PVCType
<1>3. Ended(v, w) \in BOOLEAN
  BY DEF Ended
<1> QED
  BY <1>1, <1>2, <1>3 DEF Mapped, Contract!VolumeStates

\* The fields of what a volume maps to.
LEMMA MappedFields ==
    ASSUME NEW v, NEW w
    PROVE  /\ Mapped(v, w).role = RoleOf(w.vr) /\ Mapped(v, w).held = w.pvc.finalizer
           /\ Mapped(v, w).used = w.inUse /\ Mapped(v, w).ended = Ended(v, w)
           /\ Mapped(v, w).renewed = (w.pvc.there /\ w.pvc.owner = "none" /\ ~w.pvc.finalizer)
           /\ Mapped(v, w).stored = (w.pv.phase # "None")
BY DEF Mapped

\* A pass changes the role of a volume as the contract allows.
LEMMA PassRole ==
    ASSUME NEW v, NEW w, NEW x, Sound(v, w), Sound(v, x),
           VRStep(v, w, x) \/ (v.deleted /\ x.vr.there /\ x.vr.terminating)
    PROVE  /\ <<RoleOf(w.vr), RoleOf(x.vr)>> \in Contract!RoleSteps
                \/ (Ended(v, w) /\ RoleOf(x.vr) = "leaving")
           /\ RoleOf(w.vr) = "primary" /\ RoleOf(x.vr) = "demoted" => ~w.inUse
<1> DEFINE Good == /\ <<RoleOf(w.vr), RoleOf(x.vr)>> \in Contract!RoleSteps
                        \/ (Ended(v, w) /\ RoleOf(x.vr) = "leaving")
                   /\ RoleOf(w.vr) = "primary" /\ RoleOf(x.vr) = "demoted" => ~w.inUse
<1>1. RoleOf(w.vr) \in Contract!Replicas
  BY DEF RoleOf, Contract!Replicas
<1>2. CASE x.vr = w.vr
  BY <1>1, <1>2 DEF Contract!RoleSteps
<1>3. CASE Created(w, x, "Primary")
  BY <1>3 DEF Created, RoleOf, Contract!RoleSteps
<1>4. CASE Updated(w, x, "Primary")
  BY <1>4 DEF Updated, RoleOf, Contract!RoleSteps, Contract!Replicas
<1>5. CASE Updated(w, x, "Secondary") /\ ~w.inUse
  <2>1. ~Follows(x.vr)
    BY <1>5 DEF Updated, Follows
  <2> QED
    BY <1>5, <2>1 DEF Updated, RoleOf, Contract!RoleSteps, Contract!Replicas
<1>6. CASE w.vr.there /\ x.vr = [w.vr EXCEPT !.terminating = TRUE] /\ MayStop(v, w)
  <2>1. x.vr.there /\ x.vr.terminating
    <3>1. w.vr \in VRType
      BY DEF Sound, VolumeType
    <3> QED
      BY <1>6, <3>1 DEF VRType
  <2>2. RoleOf(x.vr) = "leaving"
    BY <2>1 DEF RoleOf
  <2> QED
    BY <1>6, <2>2 DEF MayStop, RoleOf, Contract!RoleSteps, Contract!Replicas
<1>7. CASE v.deleted /\ x.vr.there /\ x.vr.terminating
  BY <1>7 DEF RoleOf, Ended
<1>8. Good
  BY <1>2, <1>3, <1>4, <1>5, <1>6, <1>7 DEF VRStep
<1> QED
  BY <1>8

\* A pass of the controller is a step of the contract, whatever call fails.
LEMMA PassContract ==
    ASSUME NEW v, NEW u, NEW f, NEW w, NEW x, Sound(v, w), Total(v, f, w, x)
    PROVE  Contract!VolumeStep(Mapped(v, w), Mapped(u, x))
<1> DEFINE a == Mapped(v, w)
           b == Mapped(u, x)
<1>1. Contract!RoleStep(a, b) /\ Contract!DemotedUnused(a, b)
  BY PassRole, MappedFields DEF Total, Contract!RoleStep, Contract!DemotedUnused
<1>2. Contract!LetGoUnreplicated(a, b)
  <2>1. a.held = w.pvc.finalizer /\ b.held = x.pvc.finalizer /\ b.role = RoleOf(x.vr)
        /\ b.renewed = (x.pvc.there /\ x.pvc.owner = "none" /\ ~x.pvc.finalizer)
    BY MappedFields
  <2> HIDE DEF a, b
  <2> QED
    BY <2>1 DEF Total, RoleOf, Contract!LetGoUnreplicated
<1>3. Contract!DestroyedReleased(a, b)
  <2>1. w.pv.phase # "None" /\ x.pv.phase = "None" => ~w.pvc.finalizer /\ ~w.vr.there
    BY DEF Total, Sound, Paired, Replicated
  <2>2. /\ a.stored = (w.pv.phase # "None") /\ b.stored = (x.pv.phase # "None")
        /\ a.held = w.pvc.finalizer /\ a.role = RoleOf(w.vr)
    BY MappedFields
  <2> HIDE DEF a, b
  <2> QED
    BY <2>1, <2>2 DEF RoleOf, Contract!DestroyedReleased
<1> QED
  BY <1>1, <1>2, <1>3 DEF Contract!VolumeStep

\* A step of the others keeps the order of replication.
LEMMA TouchOrderly ==
    ASSUME NEW s, NEW v, NEW p, NEW w, NEW x, VolumeInv(s, v, p, w), Touches(w, x)
    PROVE  Orderly(Mapped(v, w), Mapped(v, x))
<1> DEFINE a == Mapped(v, w)
           b == Mapped(v, x)
<1>1. <<RoleOf(w.vr), RoleOf(x.vr)>> \in Contract!RoleSteps
      /\ ~(RoleOf(w.vr) = "primary" /\ RoleOf(x.vr) = "demoted")
  <2>1. w.vr.terminating => w.vr.there
    BY DEF VolumeInv, Sound, Replicated
  <2>2. RoleOf(w.vr) \in Contract!Replicas
    BY DEF RoleOf, Contract!Replicas
  <2>3. CASE x.vr = w.vr
    BY <2>2, <2>3 DEF Contract!RoleSteps
  <2>4. CASE /\ w.vr.there /\ x.vr.there /\ x.vr.state = w.vr.state
             /\ x.vr.terminating = w.vr.terminating
    BY <2>4 DEF RoleOf, Contract!RoleSteps, Contract!Replicas
  <2>5. CASE w.vr.terminating /\ ~x.vr.there
    BY <2>1, <2>5 DEF RoleOf, Contract!RoleSteps, Contract!Replicas
  <2> QED
    BY <2>3, <2>4, <2>5 DEF Touches
<1>2. Contract!RoleStep(a, b) /\ Contract!DemotedUnused(a, b)
  BY <1>1, MappedFields DEF Contract!RoleStep, Contract!DemotedUnused
<1>3. Contract!LetGoUnreplicated(a, b)
  BY MappedFields DEF Touches, Contract!LetGoUnreplicated
<1> QED
  BY <1>2, <1>3 DEF Orderly

\* A step of the others is a step of the contract.
LEMMA TouchContract ==
    ASSUME NEW s, NEW v, NEW p, NEW w, NEW x, Careful(s), v.async = s.async,
           VolumeInv(s, v, p, w), Touches(w, x)
    PROVE  Contract!VolumeStep(Mapped(v, w), Mapped(v, x))
<1> DEFINE a == Mapped(v, w)
           b == Mapped(v, x)
<1>1. Orderly(a, b)
  BY TouchOrderly
<1>2. Contract!DestroyedReleased(a, b)
  <2>1. w.pv.phase # "None" /\ x.pv.phase = "None" => ~w.pvc.finalizer /\ ~w.vr.there
    <3> SUFFICES ASSUME w.pv.phase # "None", x.pv.phase = "None"
                 PROVE  ~w.pvc.finalizer /\ ~w.vr.there
      OBVIOUS
    <3>1. w.pvc.terminating /\ ~w.pvc.finalizer /\ ~w.pv.retain
      BY DEF Touches
    <3>2. w.vr.there => s.async
      BY DEF VolumeInv, Sound, Replicated
    <3>3. s.async => Retained(w)
      BY <3>1 DEF VolumeInv, Careful
    <3> QED
      BY <3>1, <3>2, <3>3 DEF Retained
  <2>2. /\ a.stored = (w.pv.phase # "None") /\ b.stored = (x.pv.phase # "None")
        /\ a.held = w.pvc.finalizer /\ a.role = RoleOf(w.vr)
    BY MappedFields
  <2> HIDE DEF a, b
  <2> QED
    BY <2>1, <2>2 DEF RoleOf, Contract!DestroyedReleased
<1> QED
  BY <1>1, <1>2 DEF Orderly, Contract!VolumeStep

\* A new specification is a stuttering step of the contract.
LEMMA SameContract ==
    ASSUME NEW v, NEW u, NEW w PROVE Contract!VolumeStep(Mapped(v, w), Mapped(u, w))
<1>1. RoleOf(w.vr) \in Contract!Replicas
  BY DEF RoleOf, Contract!Replicas
<1>2. <<RoleOf(w.vr), RoleOf(w.vr)>> \in Contract!RoleSteps
  BY <1>1 DEF Contract!RoleSteps
<1> QED
  BY <1>2, MappedFields DEF Contract!VolumeStep, Contract!RoleStep, Contract!DemotedUnused,
       Contract!LetGoUnreplicated, Contract!DestroyedReleased

\* Every step keeps the order of replication and, in a careful scene, the contract.
LEMMA StepOrderly ==
    ASSUME VolRepInv, [NextVolRep]_volrepVars, NEW p \in VolumeSet
    PROVE  /\ Orderly(Mapped(spec, vols[p]), Mapped(spec', vols'[p]))
           /\ Careful(scene) => Contract!VolumeStep(Mapped(spec, vols[p]), Mapped(spec', vols'[p]))
<1> DEFINE a == Mapped(spec, vols[p])
           b == Mapped(spec', vols'[p])
<1>0. /\ VolumeInv(scene, spec, p, vols[p]) /\ Sound(spec, vols[p]) /\ spec.async = scene.async
      /\ vols = [q \in VolumeSet |-> vols[q]]
  BY DEF VolRepInv, VolumeInv
<1>1. CASE \E f \in Faults, q \in VolumeSet : Reconcile(f, q)
  <2>1. PICK f \in Faults, q \in VolumeSet : Reconcile(f, q)
    BY <1>1
  <2> DEFINE r == processVRG(f, q)
  <2>2. vols' = r.vols
    BY <2>1 DEF Reconcile
  <2>3. VolumesSound
    BY DEF VolRepInv, VolumeInv, VolumesSound
  <2>4. PassOf(f, r.vols)
    BY <2>3, OnePass
  <2> HIDE DEF r
  <2>5. Total(spec, f, vols[p], vols'[p])
    BY <2>2, <2>4 DEF PassOf
  <2>6. Contract!VolumeStep(a, b)
    BY <1>0, <2>5, PassContract
  <2> QED
    BY <2>6 DEF Orderly, Contract!VolumeStep
<1>2. CASE vols' = vols
  <2>1. Contract!VolumeStep(a, b)
    BY <1>2, SameContract
  <2> QED
    BY <2>1 DEF Orderly, Contract!VolumeStep
<1>3. CASE \E q \in VolumeSet : Outside(q)
  <2>1. PICK q \in VolumeSet : Outside(q)
    BY <1>3
  <2>2. PICK x : Becomes(q, x)
    BY <2>1, OutsideSteps
  <2>3. spec' = spec /\ vols'[p] = (IF p = q THEN x ELSE vols[p]) /\ Touches(vols[q], x)
    BY <1>0, <2>2 DEF Becomes
  <2>4. CASE p = q
    <3>1. Touches(vols[p], vols'[p])
      BY <2>3, <2>4
    <3>2. Orderly(a, b)
      BY <1>0, <2>3, <3>1, TouchOrderly
    <3>3. Careful(scene) => Contract!VolumeStep(a, b)
      BY <1>0, <2>3, <3>1, TouchContract
    <3> QED
      BY <3>2, <3>3
  <2>5. CASE p # q
    <3>1. Contract!VolumeStep(a, b)
      BY <2>3, <2>5, SameContract
    <3> QED
      BY <3>1 DEF Orderly, Contract!VolumeStep
  <2> QED
    BY <2>4, <2>5
<1>4. Hub \/ UNCHANGED volrepVars => vols' = vols
  BY DEF Hub, HubFinalSync, HubKeepsTest, HubDeletes, HubDemotes, HubPromotes, Change, volrepVars
<1> QED
  BY <1>1, <1>2, <1>3, <1>4 DEF NextVolRep

\* Whatever call fails: no pass demotes a volume in use, lets a replicated
\* volume's PVC go, or stops replication before the volume follows the peer,
\* unless its protection was given up (reconcileVolRepsAsPrimary,
\* reconcileVolRepsAsSecondary, processForDeletion).
OrderKept == \A p \in VolumeSet : Orderly(ContractVolume(vols[p]), ContractVolume(vols[p])')

\* Every step keeps the order of replication: see OrderKept.
THEOREM ReplicationOrder == SpecVolRep => [][OrderKept]_volrepVars
<1>1. VolRepInv /\ [NextVolRep]_volrepVars => OrderKept
  BY StepOrderly, MappedNow, MappedNext DEF OrderKept
<1> QED
  BY VolRepInvariant, <1>1, PTL DEF SpecVolRep

\* The VRG controller implements VolumeContract, where nobody deletes the PVC
\* of a volume replicated across regions or, if somebody does, no PVC is
\* another resource's and updating a PVC does not fail.
THEOREM ContractKept ==
    ASSUME \A s \in Scenes : Careful(s)
    PROVE  SpecVolRep => ImplementsContract
<1> DEFINE cv == [p \in VolumeSet |-> ContractVolume(vols[p])]
<1>1. InitVolRep => Contract!InitContract
  <2> SUFFICES ASSUME InitVolRep PROVE Contract!InitContract
    OBVIOUS
  <2>1. VolRepInv
    BY InitInv
  <2>2. \A p \in VolumeSet : ~vols[p].vr.there /\ ~vols[p].pvc.finalizer
    <3>1. \A t, a, h, r : /\ InitVolume(t, a, h, r).vr = NoVR
                          /\ ~InitVolume(t, a, h, r).pvc.finalizer
      BY DEF InitVolume, NoPVC
    <3>2. ~NoVR.there
      BY DEF NoVR
    <3> QED
      BY <3>1, <3>2 DEF InitVolRep
  <2>3. ASSUME NEW p \in VolumeSet
        PROVE  cv[p] \in {s \in Contract!VolumeStates : s.role = "none" /\ ~s.held}
    <3>1. cv[p] = Mapped(spec, vols[p])
      BY MappedNow
    <3>2. Mapped(spec, vols[p]) \in Contract!VolumeStates
      BY <2>1, MappedType DEF VolRepInv, VolumeInv, Sound
    <3>3. Mapped(spec, vols[p]).role = "none" /\ ~Mapped(spec, vols[p]).held
      BY <2>2, MappedFields DEF RoleOf
    <3> HIDE DEF cv
    <3> QED
      BY <3>1, <3>2, <3>3
  <2> QED
    BY <2>3 DEF Contract!InitContract
<1>2. VolRepInv /\ VolRepInv' /\ [NextVolRep]_volrepVars => Contract!NextContract
  <2> SUFFICES ASSUME VolRepInv, VolRepInv', [NextVolRep]_volrepVars PROVE Contract!NextContract
    OBVIOUS
  <2>1. ASSUME NEW p \in VolumeSet
        PROVE  cv'[p] \in Contract!VolumeStates /\ Contract!VolumeStep(cv[p], cv'[p])
    <3>1. cv[p] = Mapped(spec, vols[p]) /\ cv'[p] = Mapped(spec', vols'[p])
      BY MappedNow, MappedNext
    <3>2. Mapped(spec', vols'[p]) \in Contract!VolumeStates
      <4>1. vols'[p] \in VolumeType
        BY DEF VolRepInv, VolumeInv, Sound
      <4> QED
        BY <4>1, MappedType
    <3>3. Contract!VolumeStep(Mapped(spec, vols[p]), Mapped(spec', vols'[p]))
      BY StepOrderly DEF VolRepInv
    <3> HIDE DEF cv
    <3> QED
      BY <3>1, <3>2, <3>3
  <2>2. cv' = [p \in VolumeSet |-> cv'[p]]
    OBVIOUS
  <2> QED
    BY <2>1, <2>2 DEF Contract!NextContract
<1> QED
  BY VolRepInvariant, <1>1, <1>2, PTL DEF SpecVolRep, ImplementsContract, Contract!SpecContract
=============================================================================
