------------------------ MODULE VolGroupRepPassProofs ------------------------
(***************************************************************************)
(* Volumes replicated as a group: what the steps of a pass make of the     *)
(* claims, of the group and of the S3 stores, up to the pass of a primary  *)
(* VRG, for any number of claims, VRGs and stores and whatever call fails. *)
(***************************************************************************)
EXTENDS VolGroupRep, TLAPS, WellFoundedInduction

-----------------------------------------------------------------------------
(* The state.                                                               *)

MemberPVType ==
    [phase : {"None", "Available", "Bound", "Released"}, retain : BOOLEAN,
     retained : BOOLEAN, archived : BOOLEAN, leftBehind : BOOLEAN, handle : BOOLEAN]

MemberType ==
    [pvc : PVCType, pv : MemberPVType, st : StatusType, inUse : BOOLEAN,
     label : {"none", "member", "reset"}, s3 : S3Type]

GroupType ==
    [there : BOOLEAN, terminating : BOOLEAN, state : Roles \cup {"None"},
     autoResync : BOOLEAN, observed : BOOLEAN, role : Roles \cup {"None", "Unknown"},
     cond : [DOMAIN NoConditions -> Readings], destination : {"Missing", "True", "False"},
     refs : SUBSET MemberSet, content : BOOLEAN, archived : BOOLEAN,
     contentArchived : BOOLEAN, handle : BOOLEAN,
     s3 : [1..Stores -> [vgrc : Objects, vgr : Objects]]]

Tellings == {"None", "Primary", "True", "False"}

VRGType ==
    [there : BOOLEAN, deleted : BOOLEAN, state : Roles, action : {"None", "Failover", "Relocate"},
     async : BOOLEAN, finalSync : BOOLEAN, dryRun : BOOLEAN, testFailover : BOOLEAN,
     unused : Tellings, fresh : BOOLEAN]

\* A claim with the VRG's finalizer is bound and the VRG's.
ClaimOK(w) ==
    /\ w \in MemberType
    /\ w.pvc.owner # "other"
    /\ w.pvc.finalizer => w.pvc.bound /\ w.pvc.owner = "vrg"
    /\ w.pvc.bound => w.pvc.there

\* Each annotation stands for its own object in the stores.
GroupOK(g) ==
    /\ g \in GroupType
    /\ ~g.there => g.refs = {} /\ ~g.terminating
    /\ g.archived => \A i \in 1..Stores : g.s3[i].vgr = "current"
    /\ g.contentArchived => \A i \in 1..Stores : g.s3[i].vgrc = "current"

WellFormed ==
    /\ gscene \in GroupScenes
    /\ vrgs \in [Apps -> VRGType]
    /\ members \in [MemberSet -> MemberType]
    /\ \A p \in MemberSet : ClaimOK(members[p])
    /\ GroupOK(group)
    /\ gchanges \in 0..gscene.changes /\ gfaults \in 0..gscene.faults

-----------------------------------------------------------------------------
(* What the steps of a pass make of one claim.                              *)

\* A pass leaves alone what users, pods and Kubernetes say of a claim.
Keeps(w, x) ==
    /\ ClaimOK(x) /\ x.inUse = w.inUse
    /\ x.pvc.there = w.pvc.there /\ x.pvc.bound = w.pvc.bound
    /\ x.pvc.terminating = w.pvc.terminating /\ x.pvc.selected = w.pvc.selected

\* Steps that hold on to a claim, that let it go, and that do neither.
Holds(w, x) == Keeps(w, x) /\ x.label = w.label /\ (w.pvc.finalizer => x.pvc.finalizer)
Frees(w, x) == Keeps(w, x) /\ (x.pvc.finalizer => w.pvc.finalizer)
Same(w, x) == Holds(w, x) /\ Frees(w, x)

\* Steps on a claim follow on each other.
LEMMA StepsCompose ==
    ASSUME NEW w, NEW x, NEW y
    PROVE  /\ Keeps(w, x) /\ Keeps(x, y) => Keeps(w, y)
           /\ Holds(w, x) /\ Holds(x, y) => Holds(w, y)
           /\ Frees(w, x) /\ Frees(x, y) => Frees(w, y)
           /\ Same(w, x) /\ Same(x, y) => Same(w, y)
           /\ ClaimOK(w) => Same(w, w)
BY DEF Keeps, Holds, Frees, Same

\* A step that touches neither the PVC nor the label does neither.
LEMMA OthersSame ==
    ASSUME NEW w, NEW x, ClaimOK(w), x \in MemberType, x.pvc = w.pvc, x.label = w.label, x.inUse = w.inUse
    PROVE  Same(w, x)
BY DEF Same, Holds, Frees, Keeps, ClaimOK

\* The fields of a claim are written one at a time.
LEMMA FieldsSet ==
    ASSUME NEW w \in MemberType
    PROVE  /\ \A s \in StatusType :
                 LET x == [w EXCEPT !.st = s] IN
                 x \in MemberType /\ x.pvc = w.pvc /\ x.label = w.label /\ x.inUse = w.inUse
           /\ \A s \in S3Type :
                 LET x == [w EXCEPT !.s3 = s] IN
                 x \in MemberType /\ x.pvc = w.pvc /\ x.label = w.label /\ x.inUse = w.inUse
           /\ \A v \in MemberPVType, s \in S3Type :
                 LET x == [w EXCEPT !.pv = v, !.s3 = s] IN
                 x \in MemberType /\ x.pvc = w.pvc /\ x.label = w.label /\ x.inUse = w.inUse
           /\ \A v \in MemberPVType :
                 LET x == [w EXCEPT !.pv = v] IN
                 x \in MemberType /\ x.pvc = w.pvc /\ x.label = w.label /\ x.inUse = w.inUse
           /\ \A v \in PVCType :
                 LET x == [w EXCEPT !.pvc = v] IN
                 x \in MemberType /\ x.pvc = v /\ x.label = w.label /\ x.inUse = w.inUse
BY DEF MemberType

\* The fields of a PV and of a PVC that passes write.
LEMMA PVSet ==
    ASSUME NEW v \in MemberPVType
    PROVE  /\ [v EXCEPT !.archived = TRUE] \in MemberPVType
           /\ [v EXCEPT !.handle = TRUE, !.archived = FALSE] \in MemberPVType
           /\ [v EXCEPT !.retain = TRUE, !.retained = TRUE, !.archived = FALSE] \in MemberPVType
BY DEF MemberPVType

PVCAs(c, x) ==
    /\ x \in PVCType /\ x.there = c.there /\ x.bound = c.bound
    /\ x.terminating = c.terminating /\ x.selected = c.selected

LEMMA PVCSet ==
    ASSUME NEW c \in PVCType
    PROVE  /\ LET x == [c EXCEPT !.owner = "vrg", !.finalizer = TRUE] IN
              PVCAs(c, x) /\ x.owner = "vrg" /\ x.finalizer
           /\ LET x == [c EXCEPT !.protected = TRUE] IN
              PVCAs(c, x) /\ x.owner = c.owner /\ x.finalizer = c.finalizer
           /\ LET x == [c EXCEPT !.archived = TRUE] IN
              PVCAs(c, x) /\ x.owner = c.owner /\ x.finalizer = c.finalizer
           /\ LET x == [c EXCEPT !.owner = IF @ = "vrg" THEN "none" ELSE @, !.finalizer = FALSE,
                                 !.protected = FALSE, !.archived = FALSE] IN
              PVCAs(c, x) /\ x.owner = (IF c.owner = "vrg" THEN "none" ELSE c.owner) /\ ~x.finalizer
BY DEF PVCAs, PVCType

\* The entry in status.protectedPVCs.
LEMMA StatusSame ==
    ASSUME NEW w, ClaimOK(w)
    PROVE  /\ \A r \in {"Progressing", "Error", "Ready", "Replicating", "Replicated"} :
                 Same(w, DataReady(w, r))
           /\ \A r \in {"None", "Error", "Ready", "Replicating", "DataProtected"} :
                 Same(w, DataProtected(w, r))
           /\ \A r \in {"UploadError", "AnnotationFailed", "Uploaded"} :
                 Same(w, ClusterData(w, r))
           /\ Same(w, pvcStatusDeleteIfPresent(w))
           /\ \A b \in BOOLEAN : Same(w, [w EXCEPT !.st.listed = b])
<1>1. w \in MemberType /\ w.st \in StatusType
  BY DEF ClaimOK, MemberType
<1>2. \A s \in StatusType : Same(w, [w EXCEPT !.st = s])
  BY <1>1, FieldsSet, OthersSame
<1>3. ASSUME NEW r \in {"Progressing", "Error", "Ready", "Replicating", "Replicated"}
      PROVE  Same(w, DataReady(w, r))
  <2>1. DataReady(w, r) = [w EXCEPT !.st = [w.st EXCEPT !.listed = TRUE, !.dataReady = r]]
    BY <1>1 DEF DataReady, MemberType, StatusType
  <2>2. [w.st EXCEPT !.listed = TRUE, !.dataReady = r] \in StatusType
    BY <1>1 DEF StatusType
  <2> QED
    BY <1>2, <2>1, <2>2
<1>4. ASSUME NEW r \in {"None", "Error", "Ready", "Replicating", "DataProtected"}
      PROVE  Same(w, DataProtected(w, r))
  <2>1. DataProtected(w, r) = [w EXCEPT !.st = [w.st EXCEPT !.listed = TRUE, !.dataProtected = r]]
    BY <1>1 DEF DataProtected, MemberType, StatusType
  <2>2. [w.st EXCEPT !.listed = TRUE, !.dataProtected = r] \in StatusType
    BY <1>1 DEF StatusType
  <2> QED
    BY <1>2, <2>1, <2>2
<1>5. ASSUME NEW r \in {"UploadError", "AnnotationFailed", "Uploaded"}
      PROVE  Same(w, ClusterData(w, r))
  <2>1. ClusterData(w, r) = [w EXCEPT !.st = [w.st EXCEPT !.listed = TRUE, !.clusterData = r]]
    BY <1>1 DEF ClusterData, MemberType, StatusType
  <2>2. [w.st EXCEPT !.listed = TRUE, !.clusterData = r] \in StatusType
    BY <1>1 DEF StatusType
  <2> QED
    BY <1>2, <2>1, <2>2
<1>6. Same(w, pvcStatusDeleteIfPresent(w))
  BY <1>2 DEF pvcStatusDeleteIfPresent, NoStatus, StatusType
<1>7. ASSUME NEW b \in BOOLEAN PROVE Same(w, [w EXCEPT !.st.listed = b])
  <2>1. [w EXCEPT !.st.listed = b] = [w EXCEPT !.st = [w.st EXCEPT !.listed = b]]
    BY <1>1 DEF MemberType, StatusType
  <2>2. [w.st EXCEPT !.listed = b] \in StatusType
    BY <1>1 DEF StatusType
  <2> QED
    BY <1>2, <2>1, <2>2
<1> QED
  BY <1>3, <1>4, <1>5, <1>6, <1>7

\* What the stores hold may get old, and may be written.
LEMMA StoresType ==
    /\ \A s \in S3Type : Outdated(s) \in S3Type
    /\ Emptied \in S3Type
    /\ \A w, f : w.s3 \in S3Type => Uploaded(w, f) \in S3Type
<1>1. \A s \in S3Type : Outdated(s) \in S3Type
  BY DEF Outdated, S3Type, Objects
<1>2. Emptied \in S3Type
  BY DEF Emptied, S3Type, Objects
<1>3. ASSUME NEW w, NEW f, w.s3 \in S3Type PROVE Uploaded(w, f) \in S3Type
  <2> DEFINE last == IF f.call \in {"uploadPV", "uploadPVC"} THEN f.store ELSE Stores + 1
             pv(i) == IF i < last \/ (i = last /\ f.call = "uploadPVC") THEN "current" ELSE w.s3[i].pv
             pvc(i) == IF i < last THEN "current" ELSE w.s3[i].pvc
  <2>1. Uploaded(w, f) = [i \in 1..Stores |-> [pv |-> pv(i), pvc |-> pvc(i)]]
    BY DEF Uploaded
  <2>2. \A i \in 1..Stores : w.s3[i].pv \in Objects /\ w.s3[i].pvc \in Objects
    BY <1>3 DEF S3Type
  <2>3. \A i \in 1..Stores : pv(i) \in Objects /\ pvc(i) \in Objects
    <3>1. "current" \in Objects
      BY DEF Objects
    <3> HIDE DEF last
    <3> QED
      BY <2>2, <3>1
  <2> HIDE DEF pv, pvc
  <2> QED
    BY <2>1, <2>3 DEF S3Type
<1> QED
  BY <1>1, <1>2, <1>3

\* Taking a claim that is bound under protection; one that is held already is
\* kept from it only by the calls that retain its PV and annotate it.
LEMMA ProtectHolds ==
    ASSUME NEW w, NEW f, ClaimOK(w), w.pvc.bound
    PROVE  LET r == protectPVC(w, f) IN
           /\ Holds(w, r.w)
           /\ w.pvc.finalizer /\ f.call \notin {"retainPV", "annotatePVC"} => r.res = "go"
<1>1. w \in MemberType /\ w.pvc \in PVCType
  BY DEF ClaimOK, MemberType
<1>2. ASSUME NEW x, ClaimOK(x) PROVE Holds(x, x) /\ Holds(x, DataReady(x, "Error"))
  BY <1>2, StatusSame, StepsCompose DEF Same
<1> DEFINE a == addFinalizerToPVC(w, f)
           b == Then(a, LAMBDA x : retainPVForPVC(x, f))
           c == Then(b, LAMBDA x : addProtectedAnnotationForPVC(x, f))
<1>3. Holds(w, a.w) /\ (w.pvc.finalizer => a.res = "go")
  <2> DEFINE v == [w.pvc EXCEPT !.owner = "vrg", !.finalizer = TRUE]
             x == [w EXCEPT !.pvc = v]
  <2>1. [w EXCEPT !.pvc.owner = "vrg", !.pvc.finalizer = TRUE] = x
    BY <1>1 DEF MemberType, PVCType
  <2>2. /\ v \in PVCType /\ v.owner = "vrg" /\ v.finalizer
        /\ v.there = w.pvc.there /\ v.bound = w.pvc.bound
        /\ v.terminating = w.pvc.terminating /\ v.selected = w.pvc.selected
    BY <1>1, PVCSet DEF PVCAs
  <2>3. x \in MemberType /\ x.pvc = v /\ x.label = w.label /\ x.inUse = w.inUse
    BY <1>1, <2>2, FieldsSet
  <2> HIDE DEF v, x
  <2>4. Holds(w, x)
    BY <2>2, <2>3 DEF Holds, Keeps, ClaimOK
  <2>5. a \in {Go(w), Requeue(DataReady(w, "Error")), Go(x)} /\ (w.pvc.finalizer => a = Go(w))
    BY <2>1 DEF addFinalizerToPVC, ClaimOK
  <2> HIDE DEF a
  <2> QED
    BY <1>2, <2>4, <2>5 DEF Go, Requeue
<1>4. b = IF a.res = "go" THEN retainPVForPVC(a.w, f) ELSE a
  BY DEF Then, With
<1>5. c = IF b.res = "go" THEN addProtectedAnnotationForPVC(b.w, f) ELSE b
  BY DEF Then, With
<1>6. protectPVC(w, f) = c
  BY DEF protectPVC, ClaimOK
<1> HIDE DEF a, b, c
<1>7. ASSUME NEW x, ClaimOK(x)
      PROVE  /\ Holds(x, retainPVForPVC(x, f).w)
             /\ f.call # "retainPV" => retainPVForPVC(x, f).res = "go"
  <2> DEFINE v == [x.pv EXCEPT !.retain = TRUE, !.retained = TRUE, !.archived = FALSE]
             y == [x EXCEPT !.pv = v, !.s3 = Outdated(x.s3)]
  <2>1. x \in MemberType /\ x.pv \in MemberPVType /\ x.s3 \in S3Type
    BY <1>7 DEF ClaimOK, MemberType
  <2>2. [x EXCEPT !.pv.retain = TRUE, !.pv.retained = TRUE,
                  !.pv.archived = FALSE, !.s3 = Outdated(x.s3)] = y
    BY <2>1 DEF MemberType, MemberPVType
  <2>3. v \in MemberPVType
    BY <2>1, PVSet
  <2>4. Outdated(x.s3) \in S3Type
    BY <2>1, StoresType
  <2> HIDE DEF v
  <2>5. y \in MemberType /\ y.pvc = x.pvc /\ y.label = x.label /\ y.inUse = x.inUse
    BY <2>1, <2>3, <2>4 DEF MemberType
  <2> HIDE DEF y
  <2>6. Holds(x, y)
    BY <1>7, <2>5, OthersSame DEF Same
  <2> QED
    BY <1>2, <1>7, <2>2, <2>6 DEF retainPVForPVC, Go, Requeue
<1>8. Holds(w, b.w) /\ (w.pvc.finalizer /\ f.call # "retainPV" => b.res = "go")
  <2>1. ClaimOK(a.w)
    BY <1>3 DEF Holds, Keeps
  <2> QED
    BY <1>3, <1>4, <1>7, <2>1, StepsCompose
<1>9. ASSUME NEW x, ClaimOK(x)
      PROVE  /\ Holds(x, addProtectedAnnotationForPVC(x, f).w)
             /\ f.call # "annotatePVC" => addProtectedAnnotationForPVC(x, f).res = "go"
  <2> DEFINE v == [x.pvc EXCEPT !.protected = TRUE]
             y == [x EXCEPT !.pvc = v]
  <2>1. x \in MemberType /\ x.pvc \in PVCType
    BY <1>9 DEF ClaimOK, MemberType
  <2>2. [x EXCEPT !.pvc.protected = TRUE] = y
    BY <2>1 DEF MemberType, PVCType
  <2>3. /\ v \in PVCType /\ v.owner = x.pvc.owner /\ v.finalizer = x.pvc.finalizer
        /\ v.there = x.pvc.there /\ v.bound = x.pvc.bound
        /\ v.terminating = x.pvc.terminating /\ v.selected = x.pvc.selected
    BY <2>1, PVCSet DEF PVCAs
  <2>4. y \in MemberType /\ y.pvc = v /\ y.label = x.label /\ y.inUse = x.inUse
    BY <2>1, <2>3, FieldsSet
  <2> HIDE DEF v, y
  <2>5. Holds(x, y)
    BY <1>9, <2>3, <2>4 DEF Holds, Keeps, ClaimOK
  <2> QED
    BY <1>2, <1>9, <2>2, <2>5 DEF addProtectedAnnotationForPVC, Go, Requeue
<1>10. /\ Holds(w, c.w)
       /\ w.pvc.finalizer /\ f.call \notin {"retainPV", "annotatePVC"} => c.res = "go"
  <2>1. ClaimOK(b.w)
    BY <1>8 DEF Holds, Keeps
  <2> QED
    BY <1>5, <1>8, <1>9, <2>1, StepsCompose
<1> QED
  BY <1>6, <1>10

\* preparePVCForVRProtection: a claim that the VRG holds goes on unless its PV cannot
\* be retained or itself not be annotated.
LEMMA PreparationHolds ==
    ASSUME NEW w, NEW f, ClaimOK(w)
    PROVE  LET r == preparePVCForVRProtection(w, f) IN
           /\ Holds(w, r.w)
           /\ w.pvc.finalizer /\ f.call \notin {"retainPV", "annotatePVC"} => r.res = "go"
<1> DEFINE r == preparePVCForVRProtection(w, f)
<1>1. Holds(w, w) /\ Holds(w, DataReady(w, "Progressing"))
  <2>1. Same(w, w)
    BY StepsCompose
  <2>2. Same(w, DataReady(w, "Progressing"))
    BY StatusSame
  <2> QED
    BY <2>1, <2>2 DEF Same
<1>2. r = Go(w) \/ (skipPVC(w) /\ r = Stop(DataReady(w, "Progressing")))
      \/ (~skipPVC(w) /\ r = protectPVC(w, f))
  BY DEF preparePVCForVRProtection
<1>3. ~skipPVC(w) => w.pvc.bound
  BY DEF skipPVC
<1>4. w.pvc.finalizer => ~skipPVC(w)
  BY DEF skipPVC, ClaimOK
<1> HIDE DEF r
<1>5. Holds(w, r.w) /\ (w.pvc.finalizer /\ f.call \notin {"retainPV", "annotatePVC"} => r.res = "go")
  BY <1>1, <1>2, <1>3, <1>4, ProtectHolds DEF Go, Stop
<1> QED
  BY <1>5 DEF r

\* A claim that the VRG holds is ready for its group unless its class cannot be
\* read, its PV not be retained or itself not be annotated.
LEMMA PreparedHolds ==
    ASSUME NEW v, NEW w, NEW f, ClaimOK(w), v.async \in BOOLEAN
    PROVE  LET r == Prepared(v, w, f) IN
           /\ Holds(w, r.w)
           /\ w.pvc.finalizer /\ f.call \notin {"class", "retainPV", "annotatePVC"} => r.res = "go"
<1> DEFINE a == updateProtectedPVCs(v, w, f)
           P(x) == preparePVCForVRProtection(x, f)
           b == Then(a, P)
<1>1. Prepared(v, w, f) = b
  BY DEF Prepared
<1>2. Same(w, a.w) /\ (f.call # "class" => a.res = "go")
  <2> DEFINE x == [w EXCEPT !.st.listed = @ \/ v.async]
  <2>1. w.st.listed \in BOOLEAN
    BY DEF ClaimOK, MemberType, StatusType
  <2>2. Same(w, x) /\ Same(w, w)
    BY <2>1, StatusSame, StepsCompose
  <2> HIDE DEF x
  <2>3. a \in {Requeue(w), Go(x)} /\ (f.call # "class" => a = Go(x))
    BY DEF updateProtectedPVCs, x
  <2> HIDE DEF a
  <2> QED
    BY <2>2, <2>3 DEF Go, Requeue
<1>3. ASSUME NEW x, ClaimOK(x)
      PROVE  /\ Holds(x, P(x).w)
             /\ x.pvc.finalizer /\ f.call \notin {"retainPV", "annotatePVC"} => P(x).res = "go"
  BY <1>3, PreparationHolds
<1> HIDE DEF a, P
<1>4. b = IF a.res = "go" THEN P(a.w) ELSE a
  BY DEF Then, With
<1> HIDE DEF b
<1>5. ClaimOK(a.w) /\ Holds(w, a.w) /\ a.w.pvc.finalizer = w.pvc.finalizer
  BY <1>2 DEF Same, Holds, Frees, Keeps, ClaimOK, MemberType, PVCType
<1> QED
  BY <1>1, <1>2, <1>3, <1>4, <1>5, StepsCompose

\* preparePVCForVRDeletion lets a claim go, and never holds one.
LEMMA DeletionFrees ==
    ASSUME NEW v, NEW w, NEW f, ClaimOK(w)
    PROVE  LET r == preparePVCForVRDeletion(v, w, f) IN
           Frees(w, r.w) /\ r.w.label = w.label /\ r.res \in {"go", "requeue"}
<1> DEFINE a == PreparePV(v, w, f)
           P(x) == PreparePVC(x, f)
           b == Then(a, P)
<1>1. preparePVCForVRDeletion(v, w, f) = b
  BY DEF preparePVCForVRDeletion
<1>2. Same(w, a.w) /\ a.res \in {"go", "requeue"}
  <2>1. w \in MemberType /\ w.pv \in MemberPVType /\ w.s3 \in S3Type
    BY DEF ClaimOK, MemberType
  <2> DEFINE u == [w.pv EXCEPT !.retain = FALSE, !.retained = FALSE]
             l == [w.pv EXCEPT !.leftBehind = TRUE]
             x == IF v.async \/ v.state = "Primary" THEN undoPVRetention(w)
                  ELSE [w EXCEPT !.pv.leftBehind = TRUE]
             y == [x EXCEPT !.pv.archived = FALSE]
  <2>2. [w EXCEPT !.pv.retain = FALSE, !.pv.retained = FALSE, !.s3 = Outdated(w.s3)]
        = [w EXCEPT !.pv = u, !.s3 = Outdated(w.s3)]
    BY <2>1 DEF MemberType, MemberPVType
  <2>3. [w EXCEPT !.pv.leftBehind = TRUE] = [w EXCEPT !.pv = l]
    BY <2>1 DEF MemberType, MemberPVType
  <2>4. u \in MemberPVType /\ l \in MemberPVType
    BY <2>1 DEF MemberPVType
  <2>5. Outdated(w.s3) \in S3Type
    BY <2>1, StoresType
  <2> HIDE DEF u, l
  <2>6. x \in {w, [w EXCEPT !.pv = u, !.s3 = Outdated(w.s3)], [w EXCEPT !.pv = l]}
    BY <2>2, <2>3 DEF undoPVRetention
  <2> HIDE DEF x
  <2>7. x \in MemberType /\ x.pvc = w.pvc /\ x.label = w.label /\ x.inUse = w.inUse
    <3>1. CASE x = w
      BY <2>1, <3>1
    <3>2. CASE x = [w EXCEPT !.pv = u, !.s3 = Outdated(w.s3)]
      <4> DEFINE k == Outdated(w.s3)
      <4>1. k \in S3Type /\ x = [w EXCEPT !.pv = u, !.s3 = k]
        BY <2>5, <3>2
      <4> HIDE DEF k
      <4> QED
        BY <2>1, <2>4, <4>1 DEF MemberType
    <3>3. CASE x = [w EXCEPT !.pv = l]
      BY <2>1, <2>4, <3>3, FieldsSet
    <3> QED
      BY <2>6, <3>1, <3>2, <3>3
  <2> DEFINE z == [x.pv EXCEPT !.archived = FALSE]
  <2>8. z \in MemberPVType /\ y = [x EXCEPT !.pv = z]
    BY <2>7 DEF MemberType, MemberPVType
  <2> HIDE DEF z, y
  <2>9. y \in MemberType /\ y.pvc = x.pvc /\ y.label = x.label /\ y.inUse = x.inUse
    BY <2>7, <2>8, FieldsSet
  <2>10. Same(w, y) /\ Same(w, w)
    BY <2>7, <2>9, OthersSame, StepsCompose
  <2>11. a \in {Requeue(w), Go(y)}
    BY DEF PreparePV, x, y
  <2> HIDE DEF a
  <2> QED
    BY <2>10, <2>11 DEF Go, Requeue
<1>3. ASSUME NEW x, ClaimOK(x)
      PROVE  Frees(x, P(x).w) /\ P(x).w.label = x.label /\ P(x).res \in {"go", "requeue"}
  <2>1. x \in MemberType /\ x.pvc \in PVCType
    BY <1>3 DEF ClaimOK, MemberType
  <2> DEFINE z == [x.pvc EXCEPT !.owner = IF @ = "vrg" THEN "none" ELSE @, !.finalizer = FALSE,
                                !.protected = FALSE, !.archived = FALSE]
             y == [x EXCEPT !.pvc = z]
  <2>2. [x EXCEPT !.pvc.owner = IF @ = "vrg" THEN "none" ELSE @, !.pvc.finalizer = FALSE,
                  !.pvc.protected = FALSE, !.pvc.archived = FALSE] = y
    BY <2>1 DEF MemberType, PVCType
  <2>3. /\ z \in PVCType /\ z.owner = (IF x.pvc.owner = "vrg" THEN "none" ELSE x.pvc.owner) /\ ~z.finalizer
        /\ z.there = x.pvc.there /\ z.bound = x.pvc.bound
        /\ z.terminating = x.pvc.terminating /\ z.selected = x.pvc.selected
    BY <2>1, PVCSet DEF PVCAs
  <2>4. y \in MemberType /\ y.pvc = z /\ y.label = x.label /\ y.inUse = x.inUse
    BY <2>1, <2>3, FieldsSet
  <2> HIDE DEF z, y
  <2>5. Frees(x, y) /\ ClaimOK(y)
    BY <1>3, <2>3, <2>4 DEF Frees, Keeps, ClaimOK
  <2> DEFINE d == pvcStatusDeleteIfPresent(y)
  <2>6. Same(y, d) /\ Same(x, x)
    BY <1>3, <2>5, StatusSame, StepsCompose
  <2> HIDE DEF d
  <2>7. Frees(x, d) /\ d.label = x.label /\ Frees(x, x)
    BY <2>4, <2>5, <2>6, StepsCompose DEF Same, Holds
  <2>8. P(x) \in {Requeue(x), Go(d)}
    BY <2>2 DEF PreparePVC, d
  <2> HIDE DEF P
  <2> QED
    BY <2>7, <2>8 DEF Go, Requeue
<1> HIDE DEF a, P
<1>4. b = IF a.res = "go" THEN P(a.w) ELSE a
  BY DEF Then, With
<1> HIDE DEF b
<1>5. ClaimOK(a.w) /\ Frees(w, a.w) /\ a.w.label = w.label
  BY <1>2 DEF Same, Holds, Keeps
<1> QED
  BY <1>1, <1>2, <1>3, <1>4, <1>5, StepsCompose

\* A claim that is let go loses its label.
LEMMA LetGoFrees ==
    ASSUME NEW v, NEW w, NEW f, ClaimOK(w)
    PROVE  Frees(w, PreparedForDeletion(v, w, f).w)
<1> DEFINE a == preparePVCForVRDeletion(v, w, f)
           x == [a.w EXCEPT !.label = "none"]
<1>1. Frees(w, a.w) /\ ClaimOK(a.w)
  BY DeletionFrees DEF Frees, Keeps
<1>2. PreparedForDeletion(v, w, f) \in {a, Go(x)}
  BY DEF PreparedForDeletion, Then, With
<1>3. a.w \in MemberType
  BY <1>1 DEF ClaimOK
<1> HIDE DEF a
<1>4. x \in MemberType /\ x.pvc = a.w.pvc /\ x.inUse = a.w.inUse
  BY <1>3 DEF MemberType
<1> HIDE DEF x
<1>5. Frees(a.w, x)
  BY <1>1, <1>4 DEF Frees, Keeps, ClaimOK
<1>6. Frees(w, x)
  BY <1>1, <1>5, StepsCompose
<1> QED
  BY <1>1, <1>2, <1>6 DEF Go

\* The claim's objects in the stores, its handle and its label.
LEMMA SmallSteps ==
    ASSUME NEW v, NEW w, NEW g, NEW f, ClaimOK(w)
    PROVE  /\ Same(w, pvAndPvcObjectReplicasDelete(w, f).w)
           /\ Same(w, annotateWithDestinationVolumeHandleForVolGroupRep(w, g, f).w)
           /\ Frees(w, resetCGLabelValue(w, f).w)
           /\ LET x == addVolRepConsistencyGroupLabel(w) IN
              Frees(w, x) /\ x.pvc = w.pvc /\ (w.label = "member" => x.label = "member")
           /\ \A out : Frees(w, out.w) => Frees(w, OrError(out).w)
<1>1. w \in MemberType /\ w.pv \in MemberPVType /\ w.s3 \in S3Type
  BY DEF ClaimOK, MemberType
<1>2. Same(w, w)
  BY StepsCompose
<1>3. Same(w, pvAndPvcObjectReplicasDelete(w, f).w)
  <2> DEFINE x == [w EXCEPT !.s3 = Emptied]
  <2>1. x \in MemberType /\ x.pvc = w.pvc /\ x.label = w.label /\ x.inUse = w.inUse
    BY <1>1, StoresType, FieldsSet
  <2> HIDE DEF x
  <2>2. Same(w, x)
    BY <2>1, OthersSame
  <2> QED
    BY <1>2, <2>2 DEF pvAndPvcObjectReplicasDelete, Go, Requeue, x
<1>4. Same(w, annotateWithDestinationVolumeHandleForVolGroupRep(w, g, f).w)
  <2> DEFINE u == [w.pv EXCEPT !.handle = TRUE, !.archived = FALSE]
             x == [w EXCEPT !.pv = u, !.s3 = Outdated(w.s3)]
             a == annotateWithDestinationVolumeHandleForVolGroupRep(w, g, f)
  <2>1. [w EXCEPT !.pv.handle = TRUE, !.pv.archived = FALSE, !.s3 = Outdated(w.s3)] = x
    BY <1>1 DEF MemberType, MemberPVType
  <2>2. u \in MemberPVType
    BY <1>1, PVSet
  <2>3. Outdated(w.s3) \in S3Type
    BY <1>1, StoresType
  <2>4. x \in MemberType /\ x.pvc = w.pvc /\ x.label = w.label /\ x.inUse = w.inUse
    <3> DEFINE k == Outdated(w.s3)
    <3>1. k \in S3Type /\ x = [w EXCEPT !.pv = u, !.s3 = k]
      BY <2>3
    <3> HIDE DEF k, u, x
    <3> QED
      BY <1>1, <2>2, <3>1 DEF MemberType
  <2> HIDE DEF x
  <2>5. Same(w, x)
    BY <2>4, OthersSame
  <2>6. a \in {Requeue(w), Go(w), Go(x)}
    BY <2>1 DEF annotateWithDestinationVolumeHandleForVolGroupRep
  <2> HIDE DEF a
  <2>7. Same(w, a.w)
    BY <1>2, <2>5, <2>6 DEF Go, Requeue
  <2> QED
    BY <2>7 DEF a
<1>5. ASSUME NEW l \in {"none", "member", "reset"}
      PROVE  LET x == [w EXCEPT !.label = l] IN Frees(w, x) /\ x.pvc = w.pvc /\ x.label = l /\ ClaimOK(x)
  <2> DEFINE x == [w EXCEPT !.label = l]
  <2>1. x \in MemberType /\ x.pvc = w.pvc /\ x.label = l /\ x.inUse = w.inUse
    BY <1>1 DEF MemberType
  <2> HIDE DEF x
  <2>2. Frees(w, x) /\ x.pvc = w.pvc /\ x.label = l /\ ClaimOK(x)
    BY <2>1 DEF Frees, Keeps, ClaimOK
  <2> QED
    BY <2>2 DEF x
<1>6. Frees(w, resetCGLabelValue(w, f).w)
  <2> DEFINE x == [w EXCEPT !.label = "reset"]
             y == DataReady(x, "Error")
             z == DataReady(w, "Error")
  <2>1. Frees(w, x) /\ ClaimOK(x)
    BY <1>5
  <2> HIDE DEF x
  <2>2. Same(x, y) /\ Same(w, z)
    BY <2>1, StatusSame
  <2> HIDE DEF y, z
  <2>3. Frees(w, y) /\ Frees(w, z)
    BY <2>1, <2>2, StepsCompose DEF Same
  <2>4. resetCGLabelValue(w, f) \in {Requeue(y), Requeue(z)}
    BY DEF resetCGLabelValue, x, y, z
  <2> QED
    BY <2>3, <2>4 DEF Requeue
<1>7. LET x == addVolRepConsistencyGroupLabel(w) IN
      Frees(w, x) /\ x.pvc = w.pvc /\ (w.label = "member" => x.label = "member")
  BY <1>2, <1>5 DEF addVolRepConsistencyGroupLabel, Same
<1>8. ASSUME NEW out, Frees(w, out.w) PROVE Frees(w, OrError(out).w)
  <2> DEFINE y == DataReady(out.w, "Error")
  <2>1. Same(out.w, y)
    BY <1>8, StatusSame DEF Frees, Keeps
  <2> HIDE DEF y
  <2>2. OrError(out) \in {out, Requeue(y)}
    BY DEF OrError, y
  <2>3. Frees(w, y)
    BY <1>8, <2>1, StepsCompose DEF Same
  <2> QED
    BY <1>8, <2>2, <2>3 DEF Requeue
<1> QED
  BY <1>3, <1>4, <1>6, <1>7, <1>8

\* The upload of the claim's objects.
LEMMA UploadSame ==
    ASSUME NEW v, NEW w, NEW f, ClaimOK(w)
    PROVE  Same(w, uploadPVandPVCtoS3Stores(v, w, f).w)
<1> DEFINE a == UploadPVandPVCtoS3Stores(w, f)
           P(x) == addArchivedAnnotationForPVC(x, f)
           b == Then(a, P)
<1>1. Same(w, w) /\ Same(w, ClusterData(w, "Uploaded"))
  BY StatusSame, StepsCompose
<1>2. Same(w, a.w)
  <2> DEFINE x == [w EXCEPT !.s3 = Uploaded(w, f)]
             y == ClusterData(x, "UploadError")
  <2>1. w \in MemberType /\ Uploaded(w, f) \in S3Type
    BY StoresType DEF ClaimOK, MemberType
  <2>2. x \in MemberType /\ x.pvc = w.pvc /\ x.label = w.label /\ x.inUse = w.inUse
    BY <2>1, FieldsSet
  <2> HIDE DEF x
  <2>3. Same(w, x) /\ ClaimOK(x)
    BY <2>2, OthersSame DEF Same, Holds, Keeps
  <2>4. Same(w, y)
    BY <2>3, StatusSame, StepsCompose
  <2> HIDE DEF y
  <2>5. a \in {Requeue(y), Go(x)}
    BY DEF UploadPVandPVCtoS3Stores, x, y
  <2> HIDE DEF a
  <2> QED
    BY <2>3, <2>4, <2>5 DEF Go, Requeue
<1>3. ASSUME NEW x, ClaimOK(x) PROVE Same(x, P(x).w)
  <2>1. x \in MemberType /\ x.pvc \in PVCType /\ x.pv \in MemberPVType
    BY <1>3 DEF ClaimOK, MemberType
  <2> DEFINE u == [x.pvc EXCEPT !.archived = TRUE]
             t == [x.pv EXCEPT !.archived = TRUE]
             y == [x EXCEPT !.pvc = u]
             z == [y EXCEPT !.pv = t]
  <2>2. [x EXCEPT !.pvc.archived = TRUE] = y
    BY <2>1 DEF MemberType, PVCType
  <2>3. [x EXCEPT !.pvc.archived = TRUE, !.pv.archived = TRUE] = z
    BY <2>1 DEF MemberType, PVCType, MemberPVType
  <2>4. /\ u \in PVCType /\ u.owner = x.pvc.owner /\ u.finalizer = x.pvc.finalizer
        /\ u.there = x.pvc.there /\ u.bound = x.pvc.bound
        /\ u.terminating = x.pvc.terminating /\ u.selected = x.pvc.selected
    BY <2>1, PVCSet DEF PVCAs
  <2>5. t \in MemberPVType
    BY <2>1, PVSet
  <2>6. y \in MemberType /\ y.pvc = u /\ y.label = x.label /\ y.inUse = x.inUse
    BY <2>1, <2>4, FieldsSet
  <2> HIDE DEF u, t, y
  <2>7. z \in MemberType /\ z.pvc = y.pvc /\ z.label = y.label /\ z.inUse = y.inUse
    BY <2>5, <2>6, FieldsSet
  <2> HIDE DEF z
  <2>8. Same(x, y) /\ ClaimOK(y)
    BY <1>3, <2>4, <2>6 DEF Same, Holds, Frees, Keeps, ClaimOK
  <2>9. Same(y, z)
    BY <2>7, <2>8, OthersSame
  <2>10. Same(x, z) /\ ClaimOK(z)
    BY <2>8, <2>9, StepsCompose DEF Same, Holds, Keeps
  <2> DEFINE d1 == ClusterData(x, "AnnotationFailed")
             d2 == ClusterData(y, "AnnotationFailed")
             d3 == ClusterData(z, "Uploaded")
  <2>11. Same(x, d1) /\ Same(y, d2) /\ Same(z, d3)
    BY <1>3, <2>8, <2>10, StatusSame
  <2> HIDE DEF d1, d2, d3
  <2>12. P(x) \in {Requeue(d1), Requeue(d2), Go(d3)}
    BY <2>2, <2>3 DEF addArchivedAnnotationForPVC, d1, d2, d3
  <2> HIDE DEF P
  <2> QED
    BY <2>8, <2>10, <2>11, <2>12, StepsCompose DEF Go, Requeue
<1>4. uploadPVandPVCtoS3Stores(v, w, f) \in {Go(w), Go(ClusterData(w, "Uploaded")), Requeue(w), b}
  BY DEF uploadPVandPVCtoS3Stores
<1> HIDE DEF a, P
<1>5. b = IF a.res = "go" THEN P(a.w) ELSE a
  BY DEF Then, With
<1> HIDE DEF b
<1>6. Same(w, b.w)
  BY <1>2, <1>3, <1>5, StepsCompose DEF Same, Holds, Keeps
<1> QED
  BY <1>1, <1>4, <1>6 DEF Go, Requeue

-----------------------------------------------------------------------------
(* What the steps of a pass make of the group.                              *)

VerdictOK(d) ==
    /\ d.dataReady \in {"Keep", "Progressing", "Error", "Ready", "Replicating", "Replicated"}
    /\ d.dataProtected \in {"Keep", "Error", "Ready", "Replicating", "DataProtected"}

\* Every verdict on the group that says anything can be written in the status of a claim.
LEMMA VerdictWritten ==
    ASSUME NEW w, NEW d, ClaimOK(w), VerdictOK(d), d.dataReady # "Keep" PROVE Same(w, Applied(w, d))
<1> DEFINE x == DataReady(w, d.dataReady)
           p == IF d.dataProtected = "Keep" THEN w.st.dataProtected ELSE d.dataProtected
<1>1. Same(w, x)
  BY StatusSame DEF VerdictOK
<1> HIDE DEF x
<1>2. ClaimOK(x)
  BY <1>1 DEF Same, Holds, Keeps
<1>3. p \in {"None", "Error", "Ready", "Replicating", "DataProtected"}
  BY DEF VerdictOK, ClaimOK, MemberType, StatusType
<1> HIDE DEF p
<1>4. Same(w, DataProtected(x, p))
  BY <1>1, <1>2, <1>3, StatusSame, StepsCompose
<1>5. Applied(w, d) = DataProtected(x, p)
  BY DEF Applied, x, p
<1> QED
  BY <1>4, <1>5

\* What is said of the group is one of the verdicts.
LEMMA GroupVerdicts ==
    ASSUME NEW v, NEW g, NEW state
    PROVE  /\ VerdictOK(checkVGRStatus(v, g, state))
           /\ VerdictOK(Said("Error")) /\ VerdictOK(Said("Progressing")) /\ VerdictOK(Silent)
<1>1. VerdictOK(checkVRStatus(v, g, state))
  BY DEF VerdictOK, checkVRStatus, validateVRStatus, validateAdditionalVRStatusForSecondary,
         checkResyncCompletionAsSecondary, Errored, Verdict
<1>2. VerdictOK(validateGlobalVGRStatus(v, g))
  BY DEF VerdictOK, validateGlobalVGRStatus, Verdict
<1>3. VerdictOK(Said("Error")) /\ VerdictOK(Said("Progressing")) /\ VerdictOK(Silent)
  BY DEF VerdictOK, Silent, Said, Verdict
<1> QED
  BY <1>1, <1>2, <1>3 DEF checkVGRStatus

\* A change of the VGR leaves its copies in the stores behind, and says so.
LEMMA GroupOutdated ==
    ASSUME NEW g, GroupOK(g)
    PROVE  LET x == OutdatedGroup(g) IN
           GroupOK(x) /\ x.state = g.state /\ x.there = g.there
<1> DEFINE s == [i \in 1..Stores |-> [g.s3[i] EXCEPT !.vgr = IF @ = "current" THEN "old" ELSE @]]
           x == [g EXCEPT !.archived = FALSE, !.s3 = s]
<1>1. OutdatedGroup(g) = x
  BY DEF OutdatedGroup
<1>2. s \in [1..Stores -> [vgrc : Objects, vgr : Objects]] /\ \A i \in 1..Stores : s[i].vgrc = g.s3[i].vgrc
  <2>1. \A i \in 1..Stores : g.s3[i] \in [vgrc : Objects, vgr : Objects]
    BY DEF GroupOK, GroupType
  <2>2. ASSUME NEW i \in 1..Stores
        PROVE  s[i] \in [vgrc : Objects, vgr : Objects] /\ s[i].vgrc = g.s3[i].vgrc
    BY <2>1 DEF Objects
  <2> HIDE DEF s
  <2>3. s = [i \in 1..Stores |-> s[i]]
    BY DEF s
  <2> QED
    BY <2>2, <2>3
<1> HIDE DEF s
<1>3. /\ x \in GroupType /\ x.s3 = s /\ ~x.archived /\ x.contentArchived = g.contentArchived
      /\ x.there = g.there /\ x.terminating = g.terminating /\ x.refs = g.refs /\ x.state = g.state
  BY <1>2 DEF GroupOK, GroupType
<1> HIDE DEF x
<1>4. GroupOK(x)
  BY <1>2, <1>3 DEF GroupOK
<1> QED
  BY <1>1, <1>3, <1>4

\* createOrUpdateVGR: only what was asked for changes the role.
LEMMA VGRWritten ==
    ASSUME NEW v \in VRGType, NEW g, NEW state \in Roles, NEW f, GroupOK(g)
    PROVE  LET h == createOrUpdateVGR(v, g, state, f) IN
           GroupOK(h.g) /\ VerdictOK(h.verdict) /\ h.g.state \in {g.state, state}
<1> DEFINE h == createOrUpdateVGR(v, g, state, f)
           c == createVGR(v, g, state)
           m == [g EXCEPT !.state = state, !.autoResync = autoResync(v, state),
                          !.observed = FALSE, !.cond = Aged(g.cond)]
           o == OutdatedGroup(m)
<1>1. g \in GroupType
  BY DEF GroupOK
<1>2. autoResync(v, state) \in BOOLEAN
  BY DEF autoResync
<1>3. Aged(g.cond) \in [DOMAIN NoConditions -> Readings]
  BY <1>1 DEF Aged, GroupType, Readings, NoConditions
<1>4. GroupOK(m) /\ m.state = state
  <2>1. /\ m \in GroupType /\ m.s3 = g.s3 /\ m.archived = g.archived
        /\ m.contentArchived = g.contentArchived
        /\ m.there = g.there /\ m.terminating = g.terminating /\ m.refs = g.refs /\ m.state = state
    BY <1>1, <1>2, <1>3 DEF GroupType
  <2> HIDE DEF m
  <2> QED
    BY <2>1 DEF GroupOK
<1> HIDE DEF m
<1>5. GroupOK(o) /\ o.state = state
  BY <1>4, GroupOutdated
<1> HIDE DEF o
<1>6. GroupOK(c) /\ c.state = state
  <2>1. NoConditions \in [DOMAIN NoConditions -> Readings]
    BY DEF NoConditions, Readings
  <2>2. /\ c \in GroupType /\ c.s3 = g.s3 /\ ~c.archived /\ ~c.contentArchived
        /\ c.there /\ c.state = state
    <3>1. c \in GroupType
      <4> DEFINE d == [g EXCEPT !.there = TRUE, !.terminating = FALSE, !.state = state,
                                !.autoResync = FALSE, !.observed = FALSE, !.role = "Unknown"]
      <4>1. d \in GroupType
        BY <1>1 DEF GroupType
      <4>2. c = [d EXCEPT !.cond = NoConditions, !.destination = "Missing", !.refs = {},
                          !.content = FALSE, !.archived = FALSE, !.contentArchived = FALSE,
                          !.handle = FALSE]
        BY DEF createVGR
      <4> HIDE DEF c, d
      <4> QED
        BY <2>1, <4>1, <4>2 DEF GroupType
    <3>2. c.s3 = g.s3 /\ ~c.archived /\ ~c.contentArchived /\ c.there /\ c.state = state
      BY <1>1 DEF createVGR, GroupType
    <3> QED
      BY <3>1, <3>2
  <2> HIDE DEF c
  <2> QED
    BY <2>2 DEF GroupOK
<1> HIDE DEF c
<1>7. h \in {Handled(g, Silent, "requeue"), Handled(g, Said("Error"), "requeue"),
             Judged(g, checkVGRStatus(v, g, state)),
             Handled(o, Said("Progressing"), "stop"), Handled(c, Said("Progressing"), "stop")}
  BY DEF createOrUpdateVGR, updateVGR, o, m, c
<1> HIDE DEF h
<1>8. GroupOK(h.g) /\ VerdictOK(h.verdict) /\ h.g.state \in {g.state, state}
  BY <1>5, <1>6, <1>7, GroupVerdicts DEF Handled, Judged
<1> QED
  BY <1>8 DEF h

\* deleteVGR: it goes on only once the VGR has gone.
LEMMA VGRDeleted ==
    ASSUME NEW g, NEW f, GroupOK(g)
    PROVE  LET d == deleteVGR(g, f) IN
           /\ GroupOK(d.w) /\ d.w.state = g.state
           /\ d.res = "go" => d.w = g /\ ~g.there
<1> DEFINE x == [g EXCEPT !.terminating = TRUE]
<1>1. g.there => GroupOK(x) /\ x.state = g.state
  <2>1. /\ x \in GroupType /\ x.s3 = g.s3 /\ x.archived = g.archived
        /\ x.contentArchived = g.contentArchived /\ x.there = g.there /\ x.state = g.state
    BY DEF GroupOK, GroupType
  <2> HIDE DEF x
  <2> QED
    BY <2>1 DEF GroupOK
<1> HIDE DEF x
<1>2. (~g.there /\ deleteVGR(g, f) = Go(g)) \/ deleteVGR(g, f) = Requeue(g)
      \/ (g.there /\ deleteVGR(g, f) = Requeue(x))
  BY DEF deleteVGR, x
<1> QED
  BY <1>1, <1>2 DEF Go, Requeue

\* The handle of the group goes into its content, whose copies are then old.
LEMMA HandleAnnotated ==
    ASSUME NEW g, NEW f, GroupOK(g)
    PROVE  LET d == annotateWithDestinationVolumeGroupHandle(g, f) IN
           GroupOK(d.w) /\ d.w.state = g.state
<1> DEFINE s == [i \in 1..Stores |-> [g.s3[i] EXCEPT !.vgrc = IF @ = "current" THEN "old" ELSE @]]
           x == [g EXCEPT !.handle = TRUE, !.contentArchived = FALSE, !.s3 = s]
           d == annotateWithDestinationVolumeGroupHandle(g, f)
<1>1. s \in [1..Stores -> [vgrc : Objects, vgr : Objects]] /\ \A i \in 1..Stores : s[i].vgr = g.s3[i].vgr
  <2>1. \A i \in 1..Stores : g.s3[i] \in [vgrc : Objects, vgr : Objects]
    BY DEF GroupOK, GroupType
  <2>2. ASSUME NEW i \in 1..Stores
        PROVE  s[i] \in [vgrc : Objects, vgr : Objects] /\ s[i].vgr = g.s3[i].vgr
    BY <2>1 DEF Objects
  <2> HIDE DEF s
  <2>3. s = [i \in 1..Stores |-> s[i]]
    BY DEF s
  <2> QED
    BY <2>2, <2>3
<1>2. d \in {Requeue(g), Go(g), Go(x)}
  BY DEF annotateWithDestinationVolumeGroupHandle
<1> HIDE DEF s, d
<1>3. /\ x \in GroupType /\ x.s3 = s /\ ~x.contentArchived /\ x.archived = g.archived
      /\ x.there = g.there /\ x.terminating = g.terminating /\ x.refs = g.refs /\ x.state = g.state
  BY <1>1 DEF GroupOK, GroupType
<1> HIDE DEF x
<1>4. GroupOK(x)
  BY <1>1, <1>3 DEF GroupOK
<1>5. GroupOK(d.w) /\ d.w.state = g.state
  BY <1>2, <1>3, <1>4 DEF Go, Requeue
<1> QED
  BY <1>5 DEF d

\* The upload: an annotation is written only when every store has its object.
LEMMA GroupUploaded ==
    ASSUME NEW v, NEW g, NEW f, GroupOK(g)
    PROVE  LET x == uploadVGRandVGRCtoS3Stores(v, g, f).w IN GroupOK(x) /\ x.state = g.state
<1> DEFINE failing == f.call \in {"uploadVGRC", "uploadVGR"}
           last == IF failing THEN f.store ELSE Stores + 1
           vgrc(i) == IF i < last \/ (i = last /\ f.call = "uploadVGR") THEN "current" ELSE g.s3[i].vgrc
           vgr(i) == IF i < last THEN "current" ELSE g.s3[i].vgr
           s == [i \in 1..Stores |-> [vgrc |-> vgrc(i), vgr |-> vgr(i)]]
           u == [g EXCEPT !.s3 = s]
           a == addArchivedAnnotationForVGRandVGRC(u, f).w
           up == uploadVGRandVGRCtoS3Stores(v, g, f).w
<1>1. UploadVGRandVGRCtoS3Stores(g, f) = u
  BY DEF UploadVGRandVGRCtoS3Stores
<1>2. \A i \in 1..Stores : vgrc(i) \in {"current", g.s3[i].vgrc} /\ vgr(i) \in {"current", g.s3[i].vgr}
  <2> HIDE DEF last
  <2> QED
    OBVIOUS
<1>3. ~failing => \A i \in 1..Stores : vgrc(i) = "current" /\ vgr(i) = "current"
  BY StoresAssumption
<1> HIDE DEF vgrc, vgr, failing
<1>4. /\ s \in [1..Stores -> [vgrc : Objects, vgr : Objects]]
      /\ \A i \in 1..Stores : s[i].vgrc = vgrc(i) /\ s[i].vgr = vgr(i)
  <2>1. \A i \in 1..Stores : vgrc(i) \in Objects /\ vgr(i) \in Objects
    BY <1>2 DEF GroupOK, GroupType, Objects
  <2> QED
    BY <2>1
<1> HIDE DEF s
<1>5. /\ u \in GroupType /\ u.s3 = s /\ u.archived = g.archived /\ u.contentArchived = g.contentArchived
      /\ u.there = g.there /\ u.terminating = g.terminating /\ u.refs = g.refs /\ u.state = g.state
  BY <1>4 DEF GroupOK, GroupType
<1> HIDE DEF u
<1>6. GroupOK(u) /\ u.state = g.state
  BY <1>2, <1>4, <1>5 DEF GroupOK
<1>7. ~failing => GroupOK(a) /\ a.state = g.state
  <2> DEFINE x(b) == [u EXCEPT !.archived = TRUE, !.contentArchived = b]
  <2>1. ASSUME NEW b \in BOOLEAN
        PROVE  /\ x(b) \in GroupType /\ x(b).s3 = s /\ x(b).there = u.there
               /\ x(b).terminating = u.terminating /\ x(b).refs = u.refs /\ x(b).state = u.state
    BY <1>5 DEF GroupType
  <2>2. a \in {u, x(TRUE), x(FALSE)}
    BY DEF addArchivedAnnotationForVGRandVGRC, Go, Requeue
  <2> HIDE DEF x
  <2>3. ~failing => \A b \in BOOLEAN : GroupOK(x(b)) /\ x(b).state = g.state
    <3> SUFFICES ASSUME ~failing, NEW b \in BOOLEAN PROVE GroupOK(x(b)) /\ x(b).state = g.state
      OBVIOUS
    <3>1. \A i \in 1..Stores : s[i].vgrc = "current" /\ s[i].vgr = "current"
      BY <1>3, <1>4
    <3> QED
      BY <1>6, <2>1, <3>1 DEF GroupOK
  <2> HIDE DEF a
  <2> QED
    BY <1>6, <2>2, <2>3
<1> HIDE DEF a
<1>8. up = g \/ (failing /\ up = u) \/ (~failing /\ up = a)
  BY <1>1 DEF uploadVGRandVGRCtoS3Stores, Go, Requeue, failing, a
<1> QED
  BY <1>6, <1>7, <1>8

-----------------------------------------------------------------------------
(* Going through the claims one after the other.                            *)

\* Every set of natural numbers has a least element.
LEMMA LeastNat ==
    ASSUME NEW T \in SUBSET Nat, T # {} PROVE \E n \in T : \A m \in T : n <= m
<1> DEFINE R == {ss \in Nat \X Nat : ss[1] < ss[2]}
<1>1. IsWellFoundedOn(R, Nat)
  BY NatLessThanWellFounded DEF OpToRel
<1> HIDE DEF R
<1>2. PICK n \in T : \A m \in T : ~(<<m, n>> \in R)
  BY <1>1, WFMin
<1>3. \A m \in T : n <= m
  <2> SUFFICES ASSUME NEW m \in T, m < n PROVE FALSE
    OBVIOUS
  <2>1. <<m, n>> \in Nat \X Nat /\ <<m, n>>[1] < <<m, n>>[2]
    OBVIOUS
  <2>2. <<m, n>> \in R
    BY <2>1, Zenon DEF R
  <2> QED
    BY <1>2, <2>2
<1> QED
  BY <1>3

\* The first k steps of N from r, all of them in S.
Walk(g, S, r, N, k) ==
    g \in [0..k -> S] /\ g[0] = r /\ \A i \in 1..k : g[i] = N[<<g[i-1], i>>]

\* Steps that stay in a set can be taken one after the other.
LEMMA StepsExist ==
    ASSUME NEW S, NEW r \in S, NEW N, NEW n \in Nat, N \in [S \X (1..n) -> S]
    PROVE  \E g : Walk(g, S, r, N, n)
<1> DEFINE Walks(g, k) == /\ g \in [0..k -> S] /\ g[0] = r
                          /\ \A i \in 1..k : g[i] = N[<<g[i-1], i>>]
           T == {k \in 0..n : ~ \E g : Walks(g, k)}
<1> SUFFICES ASSUME T # {} PROVE FALSE
  <2>1. (\E g : Walks(g, n)) => \E g : Walk(g, S, r, N, n)
    BY DEF Walk
  <2> HIDE DEF Walks
  <2> QED
    BY <2>1
<1>1. T \in SUBSET Nat
  OBVIOUS
<1> HIDE DEF T
<1>2. PICK k \in T : \A m \in T : k <= m
  BY <1>1, LeastNat
<1>3. k \in 0..n /\ ~ \E g : Walks(g, k)
  BY DEF T
<1>4. CASE k = 0
  <2>1. Walks([i \in 0..0 |-> r], 0)
    OBVIOUS
  <2> QED
    BY <1>3, <1>4, <2>1
<1>5. CASE k # 0
  <2>1. k - 1 \in 0..n /\ ~(k <= k - 1) /\ k \in 1..n
    BY <1>3, <1>5
  <2>2. PICK h : Walks(h, k - 1)
    BY <1>2, <2>1 DEF T
  <2> DEFINE g == [i \in 0..k |-> IF i = k THEN N[<<h[k-1], k>>] ELSE h[i]]
  <2>3. h[k-1] \in S /\ N[<<h[k-1], k>>] \in S
    BY <2>1, <2>2
  <2>4. \A i \in 0..k : i # k => i \in 0..(k-1)
    BY <2>1
  <2>5. g \in [0..k -> S]
    BY <2>2, <2>3, <2>4
  <2>6. g[0] = r
    BY <1>5, <2>1, <2>2
  <2>7. ASSUME NEW i \in 1..k PROVE g[i] = N[<<g[i-1], i>>]
    <3>1. i - 1 \in 0..k /\ i - 1 # k /\ i \in 0..k
      BY <2>1
    <3>2. g[i-1] = h[i-1]
      BY <3>1
    <3>3. CASE i = k
      BY <3>1, <3>2, <3>3
    <3>4. CASE i # k
      <4>1. i \in 1..(k-1)
        BY <2>1, <3>4
      <4>2. h[i] = N[<<h[i-1], i>>]
        BY <2>2, <4>1
      <4> QED
        BY <3>1, <3>2, <3>4, <4>2
    <3> QED
      BY <3>3, <3>4
  <2> HIDE DEF g
  <2>8. Walks(g, k)
    BY <2>5, <2>6, <2>7
  <2> QED
    BY <1>3, <2>8
<1> QED
  BY <1>4, <1>5

\* What every step keeps holds in the end.
LEMMA StepsStay ==
    ASSUME NEW S, NEW g, NEW n \in Nat, g[0] \in S,
           \A i \in 1..n : g[i-1] \in S => g[i] \in S
    PROVE  g[n] \in S
<1> DEFINE T == {k \in 0..n : g[k] \notin S}
<1> SUFFICES ASSUME T # {} PROVE FALSE
  OBVIOUS
<1>1. T \in SUBSET Nat
  OBVIOUS
<1> HIDE DEF T
<1>2. PICK k \in T : \A m \in T : k <= m
  BY <1>1, LeastNat
<1>3. k \in 0..n /\ g[k] \notin S
  BY DEF T
<1>4. k # 0
  BY <1>3
<1>5. k - 1 \in 0..n /\ ~(k <= k - 1) /\ k \in 1..n
  BY <1>3, <1>4
<1>6. g[k-1] \in S
  BY <1>2, <1>5 DEF T
<1> QED
  BY <1>3, <1>5, <1>6

-----------------------------------------------------------------------------
(* The steps of a pass.                                                     *)

PassType ==
    [ws : [MemberSet -> MemberType], g : GroupType, unused : Tellings \cup {"Keep"}, again : BOOLEAN]

PassOK(r) == r \in PassType /\ GroupOK(r.g) /\ \A p \in MemberSet : ClaimOK(r.ws[p])

\* A step of a pass of VRG a touches only its own claims and says nothing to the
\* others; it does not demote the group.
Moves(a, r, x) ==
    /\ PassOK(x) /\ x.unused = r.unused /\ x.g.state \in {r.g.state, "Primary"}
    /\ \A p \in MemberSet : /\ Keeps(r.ws[p], x.ws[p])
                            /\ p \notin PVCsOf(a) => x.ws[p] = r.ws[p]

\* One that holds no claim anew.
Releases(a, r, x) == Moves(a, r, x) /\ \A p \in MemberSet : Frees(r.ws[p], x.ws[p])

SameLabels(r, x) == \A p \in MemberSet : x.ws[p].label = r.ws[p].label

\* Steps of a pass follow on each other.
LEMMA PassesCompose ==
    ASSUME NEW a, NEW r, NEW x, NEW y
    PROVE  /\ Moves(a, r, x) /\ Moves(a, x, y) => Moves(a, r, y)
           /\ Releases(a, r, x) /\ Releases(a, x, y) => Releases(a, r, y)
           /\ SameLabels(r, x) /\ SameLabels(x, y) => SameLabels(r, y)
           /\ PassOK(r) => Releases(a, r, r)
<1>1. Moves(a, r, x) /\ Moves(a, x, y) => Moves(a, r, y)
  <2> SUFFICES ASSUME Moves(a, r, x), Moves(a, x, y) PROVE Moves(a, r, y)
    OBVIOUS
  <2>1. \A p \in MemberSet : Keeps(r.ws[p], y.ws[p])
    BY StepsCompose DEF Moves
  <2> QED
    BY <2>1 DEF Moves
<1>2. Releases(a, r, x) /\ Releases(a, x, y) => Releases(a, r, y)
  BY <1>1, StepsCompose DEF Releases
<1>3. SameLabels(r, x) /\ SameLabels(x, y) => SameLabels(r, y)
  BY DEF SameLabels
<1>4. PassOK(r) => Releases(a, r, r)
  BY StepsCompose DEF Releases, Moves, PassOK, Same, Frees
<1> QED
  BY <1>1, <1>2, <1>3, <1>4

\* A pass that has got new claims, a new group or a request to be repeated.
LEMMA PassSet ==
    ASSUME NEW a, NEW r, PassOK(r)
    PROVE  /\ \A ws : /\ ws = [p \in MemberSet |-> ws[p]]
                      /\ \A p \in MemberSet : /\ Keeps(r.ws[p], ws[p])
                                              /\ p \notin PVCsOf(a) => ws[p] = r.ws[p]
                      => LET x == [r EXCEPT !.ws = ws] IN
                         /\ Moves(a, r, x) /\ x.ws = ws /\ x.g = r.g
                         /\ (\A p \in MemberSet : Frees(r.ws[p], ws[p])) => Releases(a, r, x)
           /\ \A g : GroupOK(g) /\ g.state \in {r.g.state, "Primary"} =>
                     LET x == [r EXCEPT !.g = g] IN
                     Releases(a, r, x) /\ SameLabels(r, x) /\ x.g = g /\ x.ws = r.ws
           /\ \A b \in BOOLEAN : LET x == [r EXCEPT !.again = b] IN
                     Releases(a, r, x) /\ SameLabels(r, x) /\ x.g = r.g /\ x.ws = r.ws /\ x.again = b
<1>1. r \in PassType
  BY DEF PassOK
<1>2. \A p \in MemberSet : Frees(r.ws[p], r.ws[p])
  BY StepsCompose DEF PassOK, Same
<1>3. ASSUME NEW ws, ws = [p \in MemberSet |-> ws[p]],
             \A p \in MemberSet : Keeps(r.ws[p], ws[p]) /\ (p \notin PVCsOf(a) => ws[p] = r.ws[p])
      PROVE  LET x == [r EXCEPT !.ws = ws] IN
             /\ Moves(a, r, x) /\ x.ws = ws /\ x.g = r.g
             /\ (\A p \in MemberSet : Frees(r.ws[p], ws[p])) => Releases(a, r, x)
  <2> DEFINE x == [r EXCEPT !.ws = ws]
  <2>1. \A p \in MemberSet : ClaimOK(ws[p])
    BY <1>3 DEF Keeps
  <2>2. ws \in [MemberSet -> MemberType]
    BY <1>3, <2>1 DEF ClaimOK
  <2>3. x \in PassType /\ x.ws = ws /\ x.g = r.g /\ x.unused = r.unused
    BY <1>1, <2>2 DEF PassType
  <2> HIDE DEF x
  <2>4. Moves(a, r, x)
    BY <1>3, <2>1, <2>3 DEF Moves, PassOK
  <2>5. (\A p \in MemberSet : Frees(r.ws[p], ws[p])) => Releases(a, r, x)
    BY <2>3, <2>4 DEF Releases
  <2> QED
    BY <2>3, <2>4, <2>5 DEF x
<1>4. ASSUME NEW g, GroupOK(g), g.state \in {r.g.state, "Primary"}
      PROVE  LET x == [r EXCEPT !.g = g] IN
             Releases(a, r, x) /\ SameLabels(r, x) /\ x.g = g /\ x.ws = r.ws
  <2> DEFINE x == [r EXCEPT !.g = g]
  <2>1. x \in PassType /\ x.ws = r.ws /\ x.g = g /\ x.unused = r.unused
    BY <1>1, <1>4 DEF PassType, GroupOK
  <2> HIDE DEF x
  <2>2. Releases(a, r, x) /\ SameLabels(r, x)
    BY <1>2, <1>4, <2>1 DEF Releases, Moves, PassOK, SameLabels, Frees
  <2> QED
    BY <2>1, <2>2 DEF x
<1>5. ASSUME NEW b \in BOOLEAN
      PROVE  LET x == [r EXCEPT !.again = b] IN
             Releases(a, r, x) /\ SameLabels(r, x) /\ x.g = r.g /\ x.ws = r.ws /\ x.again = b
  <2> DEFINE x == [r EXCEPT !.again = b]
  <2>1. x \in PassType /\ x.ws = r.ws /\ x.g = r.g /\ x.unused = r.unused /\ x.again = b
    BY <1>1 DEF PassType
  <2> HIDE DEF x
  <2>2. Releases(a, r, x) /\ SameLabels(r, x)
    BY <1>2, <2>1 DEF Releases, Moves, PassOK, SameLabels, Frees
  <2> QED
    BY <2>1, <2>2 DEF x
<1> QED
  BY <1>3, <1>4, <1>5

\* Put.
LEMMA OutcomePut ==
    ASSUME NEW a, NEW r, PassOK(r), NEW p \in PVCsOf(a), NEW out, Frees(r.ws[p], out.w)
    PROVE  /\ Releases(a, r, Put(r, p, out)) /\ Put(r, p, out).g = r.g
           /\ out.w.label = r.ws[p].label => SameLabels(r, Put(r, p, out))
<1>1. r \in PassType /\ r.ws \in [MemberSet -> MemberType]
  BY DEF PassOK, PassType
<1>2. \A q \in MemberSet : Same(r.ws[q], r.ws[q])
  BY StepsCompose DEF PassOK
<1> DEFINE ws == [r.ws EXCEPT ![p] = out.w]
           y == [r EXCEPT !.ws = ws]
           x == [y EXCEPT !.again = r.again \/ out.res = "requeue"]
<1>3. Put(r, p, out) = x
  BY <1>1 DEF Put, PassType
<1>4. p \in MemberSet
  BY DEF PVCsOf
<1>5. ws = [q \in MemberSet |-> ws[q]] /\ \A q \in MemberSet : ws[q] = IF q = p THEN out.w ELSE r.ws[q]
  BY <1>1, <1>4
<1> HIDE DEF ws
<1>6. \A q \in MemberSet : Frees(r.ws[q], ws[q]) /\ (q \notin PVCsOf(a) => ws[q] = r.ws[q])
  BY <1>2, <1>5 DEF Same
<1>7. Releases(a, r, y) /\ y.ws = ws /\ y.g = r.g
  BY <1>5, <1>6, PassSet DEF Frees
<1> HIDE DEF y
<1>8. PassOK(y)
  BY <1>7 DEF Releases, Moves
<1>9. Releases(a, y, x) /\ x.ws = y.ws /\ x.g = y.g
  BY <1>8, PassSet
<1> HIDE DEF x
<1>10. Releases(a, r, x) /\ x.g = r.g
  BY <1>7, <1>9, PassesCompose
<1>11. out.w.label = r.ws[p].label => SameLabels(r, x)
  BY <1>5, <1>7, <1>9 DEF SameLabels
<1> QED
  BY <1>3, <1>10, <1>11

\* PutAll.
LEMMA OutcomesPut ==
    ASSUME NEW a, NEW r, PassOK(r), NEW out, DOMAIN out \subseteq PVCsOf(a),
           \A p \in DOMAIN out : Holds(r.ws[p], out[p].w)
    PROVE  /\ Moves(a, r, PutAll(r, out)) /\ SameLabels(r, PutAll(r, out)) /\ PutAll(r, out).g = r.g
           /\ \A p \in MemberSet : p \notin DOMAIN out => PutAll(r, out).ws[p] = r.ws[p]
           /\ \A p \in DOMAIN out : PutAll(r, out).ws[p] = out[p].w
<1>1. r \in PassType /\ r.ws \in [MemberSet -> MemberType]
  BY DEF PassOK, PassType
<1>2. \A p \in MemberSet : Same(r.ws[p], r.ws[p])
  BY StepsCompose DEF PassOK
<1> DEFINE ws == [p \in MemberSet |-> IF p \in DOMAIN out THEN out[p].w ELSE r.ws[p]]
           y == [r EXCEPT !.ws = ws]
           b == (r.again \/ \E p \in DOMAIN out : out[p].res = "requeue")
           x == [y EXCEPT !.again = b]
<1>3. PutAll(r, out) = x
  BY <1>1 DEF PutAll, PassType
<1>4. ws = [p \in MemberSet |-> ws[p]]
      /\ \A p \in MemberSet : ws[p] = IF p \in DOMAIN out THEN out[p].w ELSE r.ws[p]
  OBVIOUS
<1> HIDE DEF ws
<1>5. DOMAIN out \subseteq MemberSet
  BY DEF PVCsOf
<1>6. \A p \in MemberSet : Holds(r.ws[p], ws[p]) /\ (p \notin PVCsOf(a) => ws[p] = r.ws[p])
  BY <1>2, <1>4 DEF Same
<1>7. Moves(a, r, y) /\ y.ws = ws /\ y.g = r.g
  BY <1>4, <1>6, PassSet DEF Holds
<1> HIDE DEF y
<1>8. PassOK(y) /\ b \in BOOLEAN
  BY <1>7 DEF Moves
<1> HIDE DEF b
<1>9. Releases(a, y, x) /\ x.ws = y.ws /\ x.g = y.g
  BY <1>8, PassSet
<1> HIDE DEF x
<1>10. Moves(a, r, x)
  BY <1>7, <1>9, PassesCompose DEF Releases
<1>11. SameLabels(r, x)
  BY <1>6, <1>7, <1>9 DEF SameLabels, Holds
<1> QED
  BY <1>3, <1>4, <1>5, <1>7, <1>9, <1>10, <1>11

\* pvcUnprotectVolGroupRep and what comes before it, for one claim.
LEMMA GroupUnprotected ==
    ASSUME NEW a, NEW v, NEW f, NEW r, PassOK(r), NEW p \in PVCsOf(a)
    PROVE  Releases(a, r, GroupUnprotect(v, r, p, f))
<1>1. ASSUME NEW x, PassOK(x) PROVE Releases(a, x, pvcUnprotectVolGroupRep(v, x, p, f))
  <2>1. ClaimOK(x.ws[p]) /\ GroupOK(x.g)
    BY <1>1 DEF PassOK, PVCsOf
  <2> DEFINE w == x.ws[p]
             o1 == resetCGLabelValue(w, f)
             o2 == Requeue(DataReady(w, "Error"))
             o3 == Requeue(DataReady(w, "Progressing"))
             o4 == OrError(PreparedForDeletion(v, w, f))
             d == deleteVGR(x.g, f)
             y == [x EXCEPT !.g = d.w]
  <2>2. Frees(w, o1.w) /\ Frees(w, o4.w)
    <3>1. Frees(w, PreparedForDeletion(v, w, f).w)
      BY <2>1, LetGoFrees
    <3> QED
      BY <2>1, <3>1, SmallSteps
  <2>3. Frees(w, o2.w) /\ Frees(w, o3.w)
    BY <2>1, StatusSame DEF Same, Requeue
  <2>4. Releases(a, x, y) /\ y.ws = x.ws
    <3>1. GroupOK(d.w) /\ d.w.state = x.g.state
      BY <2>1, VGRDeleted
    <3> HIDE DEF d
    <3> QED
      BY <1>1, <3>1, PassSet
  <2>5. pvcUnprotectVolGroupRep(v, x, p, f)
            \in {Put(x, p, o1), Put(x, p, o2), Put(x, p, o3), Put(x, p, o4), Put(y, p, o2)}
    BY DEF pvcUnprotectVolGroupRep
  <2> HIDE DEF o1, o2, o3, o4, y
  <2>6. /\ Releases(a, x, Put(x, p, o1)) /\ Releases(a, x, Put(x, p, o2))
        /\ Releases(a, x, Put(x, p, o3)) /\ Releases(a, x, Put(x, p, o4))
    BY <1>1, <2>2, <2>3, OutcomePut DEF w
  <2>7. Releases(a, y, Put(y, p, o2))
    <3>1. PassOK(y)
      BY <2>4 DEF Releases, Moves
    <3>2. Frees(y.ws[p], o2.w)
      BY <2>3, <2>4
    <3> QED
      BY <3>1, <3>2, OutcomePut
  <2>8. Releases(a, x, Put(y, p, o2))
    BY <2>4, <2>7, PassesCompose
  <2> QED
    BY <2>5, <2>6, <2>8
<1> DEFINE out == pvAndPvcObjectReplicasDelete(r.ws[p], f)
           y == Put(r, p, out)
<1>2. Frees(r.ws[p], out.w)
  BY SmallSteps DEF PassOK, PVCsOf, Same
<1>3. GroupUnprotect(v, r, p, f) \in {r, y, pvcUnprotectVolGroupRep(v, y, p, f)}
  BY DEF GroupUnprotect, With
<1> HIDE DEF out
<1>4. Releases(a, r, y)
  BY <1>2, OutcomePut
<1> HIDE DEF y
<1>5. Releases(a, y, pvcUnprotectVolGroupRep(v, y, p, f))
  BY <1>1, <1>4 DEF Releases, Moves
<1>6. Releases(a, r, pvcUnprotectVolGroupRep(v, y, p, f))
  BY <1>4, <1>5, PassesCompose
<1> QED
  BY <1>3, <1>4, <1>6, PassesCompose

\* The claims that leave the group, one after the other.
LEMMA EachUnprotected ==
    ASSUME NEW a, NEW v, NEW F, NEW r, PassOK(r), NEW ps \in SUBSET PVCsOf(a)
    PROVE  Releases(a, r, UnprotectEach(v, r, ps, F))
<1> DEFINE n == Len(Members)
           D(g) == g = [i \in 0..n |->
                          IF i = 0 THEN r
                          ELSE With(g[i-1], LAMBDA x : IF Members[i] \in ps
                                                       THEN GroupUnprotect(v, x, Members[i], F[Members[i]]) ELSE x)]
           after == CHOOSE g : D(g)
           B(x, i) == IF Members[i] \in ps THEN GroupUnprotect(v, x, Members[i], F[Members[i]]) ELSE x
           S == {x \in PassType : Releases(a, r, x)}
           N == [z \in S \X (1..n) |-> B(z[1], z[2])]
<1>1. UnprotectEach(v, r, ps, F) = after[n]
  BY DEF UnprotectEach, OnEach
<1>2. n \in Nat
  BY GroupAssumption
<1>3. r \in S
  BY PassesCompose DEF PassOK
<1>4. ASSUME NEW x \in S, NEW i PROVE B(x, i) \in S
  <2>1. Releases(a, r, x) /\ PassOK(x)
    BY DEF Releases, Moves
  <2>2. Members[i] \in ps => Releases(a, x, GroupUnprotect(v, x, Members[i], F[Members[i]]))
    BY <2>1, GroupUnprotected
  <2>3. Releases(a, r, B(x, i))
    BY <2>1, <2>2, PassesCompose
  <2> QED
    BY <2>3 DEF Releases, Moves, PassOK
<1>5. \A g, i : With(g[i-1], LAMBDA x : IF Members[i] \in ps
                             THEN GroupUnprotect(v, x, Members[i], F[Members[i]]) ELSE x) = B(g[i-1], i)
  BY DEF With
<1> HIDE DEF B, S
<1>6. \A i \in 1..n : \A x \in S : N[<<x, i>>] = B(x, i)
  OBVIOUS
<1>7. N \in [S \X (1..n) -> S]
  BY <1>4, <1>6
<1> HIDE DEF N, n
<1>8. PICK g : Walk(g, S, r, N, n)
  BY <1>2, <1>3, <1>7, StepsExist
<1>9. \A i \in 1..n : g[i] = B(g[i-1], i)
  <2> SUFFICES ASSUME NEW i \in 1..n PROVE g[i] = B(g[i-1], i)
    OBVIOUS
  <2>1. i - 1 \in 0..n
    BY <1>2
  <2> QED
    BY <1>6, <1>8, <2>1 DEF Walk
<1>10. D(g)
  <2>1. \A i \in 0..n : g[i] = IF i = 0 THEN r ELSE B(g[i-1], i)
    BY <1>2, <1>8, <1>9 DEF Walk
  <2> QED
    BY <1>5, <1>8, <2>1 DEF Walk
<1>11. D(after)
  BY <1>10
<1> HIDE DEF after
<1>12. after[0] \in S /\ \A i \in 1..n : after[i-1] \in S => after[i] \in S
  <2>1. after = [i \in 0..n |-> IF i = 0 THEN r ELSE B(after[i-1], i)]
    BY <1>5, <1>11
  <2> HIDE DEF D
  <2>2. after[0] = r /\ \A i \in 1..n : after[i] = B(after[i-1], i)
    <3>1. 0 \in 0..n /\ \A i \in 1..n : i \in 0..n /\ i # 0
      BY <1>2
    <3> QED
      BY <2>1, <3>1
  <2> QED
    BY <1>3, <1>4, <2>2
<1>13. after[n] \in S
  BY <1>2, <1>12, StepsStay
<1> QED
  BY <1>1, <1>13 DEF S

\* One claim after the other is let go, until one fails.
LEMMA EachLetGo ==
    ASSUME NEW a, NEW v, NEW F, NEW r, PassOK(r), NEW ps \in SUBSET PVCsOf(a)
    PROVE  LET x == LetGo(v, r, ps, F) IN Releases(a, r, x) /\ x.g = r.g
<1> DEFINE z == [r EXCEPT !.again = FALSE]
           n == Len(Members)
           D(g) == g = [i \in 0..n |->
                          IF i = 0 THEN z
                          ELSE With(g[i-1], LAMBDA x : IF Members[i] \in ps
                                                       THEN LetGoNext(v, x, Members[i], F[Members[i]]) ELSE x)]
           after == CHOOSE g : D(g)
           B(x, i) == IF Members[i] \in ps THEN LetGoNext(v, x, Members[i], F[Members[i]]) ELSE x
           S == {x \in PassType : Releases(a, z, x) /\ x.g = z.g}
           N == [k \in S \X (1..n) |-> B(k[1], k[2])]
<1>1. LetGo(v, r, ps, F) = [after[n] EXCEPT !.again = @ \/ r.again]
  BY DEF LetGo, OnEach
<1>2. n \in Nat
  BY GroupAssumption
<1>3. PassOK(z) /\ Releases(a, r, z) /\ z.g = r.g
  BY PassSet DEF Releases, Moves
<1> HIDE DEF z
<1>4. z \in S
  BY <1>3, PassesCompose DEF PassOK
<1>5. ASSUME NEW x \in S, NEW i PROVE B(x, i) \in S
  <2>1. Releases(a, z, x) /\ PassOK(x) /\ x.g = z.g
    BY DEF Releases, Moves
  <2>2. ASSUME NEW p \in ps, NEW f
        PROVE  LET y == LetGoNext(v, x, p, f) IN Releases(a, x, y) /\ y.g = x.g
    <3> DEFINE out == PreparedForDeletion(v, x.ws[p], f)
    <3>1. Frees(x.ws[p], out.w)
      BY <2>1, LetGoFrees DEF PassOK, PVCsOf
    <3>2. LetGoNext(v, x, p, f) \in {x, Put(x, p, out)}
      BY DEF LetGoNext
    <3> HIDE DEF out
    <3>3. p \in PVCsOf(a) /\ PassOK(x)
      BY <2>1
    <3>4. Releases(a, x, Put(x, p, out)) /\ Put(x, p, out).g = x.g
      BY <3>1, <3>3, OutcomePut
    <3>5. Releases(a, x, x)
      BY <3>3, PassesCompose
    <3> QED
      BY <3>2, <3>4, <3>5
  <2>3. Releases(a, z, B(x, i)) /\ B(x, i).g = z.g
    BY <2>1, <2>2, PassesCompose
  <2> QED
    BY <2>3 DEF Releases, Moves, PassOK
<1>6. \A g, i : With(g[i-1], LAMBDA x : IF Members[i] \in ps
                             THEN LetGoNext(v, x, Members[i], F[Members[i]]) ELSE x) = B(g[i-1], i)
  BY DEF With
<1> HIDE DEF B, S
<1>7. \A i \in 1..n : \A x \in S : N[<<x, i>>] = B(x, i)
  OBVIOUS
<1>8. N \in [S \X (1..n) -> S]
  BY <1>5, <1>7
<1> HIDE DEF N, n
<1>9. PICK g : Walk(g, S, z, N, n)
  BY <1>2, <1>4, <1>8, StepsExist
<1>10. \A i \in 1..n : g[i] = B(g[i-1], i)
  <2> SUFFICES ASSUME NEW i \in 1..n PROVE g[i] = B(g[i-1], i)
    OBVIOUS
  <2>1. i - 1 \in 0..n
    BY <1>2
  <2> QED
    BY <1>7, <1>9, <2>1 DEF Walk
<1>11. D(g)
  <2>1. \A i \in 0..n : g[i] = IF i = 0 THEN z ELSE B(g[i-1], i)
    BY <1>2, <1>9, <1>10 DEF Walk
  <2> QED
    BY <1>6, <1>9, <2>1 DEF Walk
<1>12. D(after)
  BY <1>11
<1> HIDE DEF after
<1>13. after[0] \in S /\ \A i \in 1..n : after[i-1] \in S => after[i] \in S
  <2>1. after = [i \in 0..n |-> IF i = 0 THEN z ELSE B(after[i-1], i)]
    BY <1>6, <1>12
  <2> HIDE DEF D
  <2>2. after[0] = z /\ \A i \in 1..n : after[i] = B(after[i-1], i)
    <3>1. 0 \in 0..n /\ \A i \in 1..n : i \in 0..n /\ i # 0
      BY <1>2
    <3> QED
      BY <2>1, <3>1
  <2> QED
    BY <1>4, <1>5, <2>2
<1>14. after[n] \in S
  BY <1>2, <1>13, StepsStay
<1> DEFINE y == after[n]
           b == y.again \/ r.again
<1>15. Releases(a, z, y) /\ y.g = z.g /\ PassOK(y)
  BY <1>14 DEF S, Releases, Moves
<1>16. b \in BOOLEAN /\ LetGo(v, r, ps, F) = [y EXCEPT !.again = b]
  BY <1>1
<1> HIDE DEF y, b
<1> QED
  BY <1>3, <1>15, <1>16, PassSet, PassesCompose

\* The group's verdict goes to its claims.
LEMMA ConclusionDrawn ==
    ASSUME NEW a, NEW r, PassOK(r), NEW ps \in SUBSET PVCsOf(a), NEW h, GroupOK(h.g), VerdictOK(h.verdict)
    PROVE  LET x == Concluded(r, ps, h) IN
           /\ PassOK(x) /\ x.unused = r.unused /\ x.g = h.g /\ SameLabels(r, x)
           /\ \A p \in MemberSet : /\ Frees(r.ws[p], x.ws[p])
                                   /\ p \notin PVCsOf(a) => x.ws[p] = r.ws[p]
<1> DEFINE ws == [p \in MemberSet |-> IF p \in ps /\ h.verdict.dataReady # "Keep"
                                      THEN Applied(r.ws[p], h.verdict) ELSE r.ws[p]]
           b == r.again \/ h.res = "requeue"
           x == Concluded(r, ps, h)
<1>1. x = [r EXCEPT !.g = h.g, !.again = b, !.ws = ws]
  BY DEF Concluded
<1>2. r \in PassType /\ b \in BOOLEAN
  BY DEF PassOK
<1>3. ASSUME NEW p \in MemberSet PROVE Same(r.ws[p], ws[p])
  <2>1. /\ Same(r.ws[p], r.ws[p])
        /\ h.verdict.dataReady # "Keep" => Same(r.ws[p], Applied(r.ws[p], h.verdict))
    BY VerdictWritten, StepsCompose DEF PassOK
  <2> QED
    BY <2>1
<1>4. \A p \in MemberSet : p \notin PVCsOf(a) => ws[p] = r.ws[p]
  OBVIOUS
<1>5. ws = [p \in MemberSet |-> ws[p]]
  OBVIOUS
<1> HIDE DEF ws, b, x
<1>6. x.g = h.g /\ x.ws = ws /\ x.unused = r.unused /\ x.again = b
  BY <1>1, <1>2 DEF PassType
<1>7. \A p \in MemberSet : ClaimOK(ws[p]) /\ ws[p].label = r.ws[p].label /\ Frees(r.ws[p], ws[p])
  BY <1>3 DEF Same, Holds, Keeps
<1>8. ws \in [MemberSet -> MemberType]
  BY <1>5, <1>7 DEF ClaimOK
<1>9. x \in PassType
  <2>1. r.unused \in Tellings \cup {"Keep"} /\ h.g \in GroupType
    BY <1>2 DEF PassType, GroupOK
  <2>2. x = [ws |-> ws, g |-> h.g, unused |-> r.unused, again |-> b]
    BY <1>1, <1>2 DEF PassType
  <2> QED
    BY <1>2, <1>8, <2>1, <2>2 DEF PassType
<1> QED
  BY <1>4, <1>6, <1>7, <1>9 DEF PassOK, SameLabels, x

\* The claims' objects go to the stores, whatever has become of the group.
LEMMA EachProtected ==
    ASSUME NEW a, NEW v, NEW F, NEW r, PassOK(r), NEW ps \in SUBSET PVCsOf(a)
    PROVE  LET x == ProtectEach(v, r, ps, F) IN Moves(a, r, x) /\ x.g = r.g
<1>1. ASSUME NEW p \in ps PROVE Same(r.ws[p], ProtectMember(v, r.ws[p], r.g, F[p]).w)
  <2> DEFINE w == r.ws[p]
             d == annotateWithDestinationVolumeHandleForVolGroupRep(w, r.g, F[p])
             u == uploadPVandPVCtoS3Stores(v, d.w, F[p])
  <2>1. Same(w, d.w)
    BY SmallSteps DEF PassOK, PVCsOf
  <2>2. ProtectMember(v, w, r.g, F[p]) \in {d, u}
    BY DEF ProtectMember, Then, With
  <2> HIDE DEF d
  <2>3. Same(d.w, u.w)
    BY <2>1, UploadSame DEF Same, Holds, Keeps
  <2> HIDE DEF w, u
  <2> QED
    BY <2>1, <2>2, <2>3, StepsCompose DEF w
<1> DEFINE out == [p \in ps |-> ProtectMember(v, r.ws[p], r.g, F[p])]
<1>2. ProtectEach(v, r, ps, F) = PutAll(r, out)
  BY DEF ProtectEach, With
<1>3. DOMAIN out = ps /\ \A p \in ps : Holds(r.ws[p], out[p].w)
  BY <1>1 DEF Same
<1> HIDE DEF out
<1>4. Moves(a, r, PutAll(r, out)) /\ PutAll(r, out).g = r.g
  BY <1>3, OutcomesPut
<1> QED
  BY <1>2, <1>4

\* The group's own objects.
LEMMA GroupStored ==
    ASSUME NEW a, NEW v, NEW f, NEW r, PassOK(r)
    PROVE  Moves(a, r, StoreGroup(v, r, f))
<1> DEFINE d == annotateWithDestinationVolumeGroupHandle(r.g, f)
           U(g) == IF gscene.global THEN Go(g) ELSE uploadVGRandVGRCtoS3Stores(v, g, f)
           out == Then(d, U)
           b == r.again \/ out.res # "go"
           y == [r EXCEPT !.g = out.w]
<1>1. StoreGroup(v, r, f) = [y EXCEPT !.again = b]
  BY DEF StoreGroup, With
<1>2. b \in BOOLEAN
  BY DEF PassOK, PassType
<1>3. GroupOK(d.w) /\ d.w.state = r.g.state
  BY HandleAnnotated DEF PassOK
<1> HIDE DEF d
<1>4. GroupOK(out.w) /\ out.w.state = r.g.state
  <2>1. GroupOK(U(d.w).w) /\ U(d.w).w.state = r.g.state
    BY <1>3, GroupUploaded DEF Go
  <2>2. out \in {d, U(d.w)}
    BY DEF Then, With
  <2> HIDE DEF U, out
  <2> QED
    BY <1>3, <2>1, <2>2
<1> HIDE DEF out, b
<1>5. Releases(a, r, y) /\ PassOK(y)
  BY <1>4, PassSet DEF Releases, Moves
<1> HIDE DEF y
<1>6. Releases(a, y, [y EXCEPT !.again = b])
  BY <1>2, <1>5, PassSet
<1> QED
  BY <1>1, <1>5, <1>6, PassesCompose DEF Releases

\* reconcileVolGroupRepsAsPrimary never demotes.
LEMMA ReconciledAsPrimary ==
    ASSUME NEW a, vrgs[a] \in VRGType, NEW f, NEW F, NEW r, PassOK(r), NEW ps \in SUBSET PVCsOf(a)
    PROVE  Moves(a, r, reconcileVolGroupRepsAsPrimary(a, r, ps, f, F))
<1> DEFINE h == createOrUpdateVGR(vrgs[a], r.g, "Primary", f)
           c == Concluded(r, ps, h)
           e == ProtectEach(vrgs[a], c, ps, F)
<1>1. reconcileVolGroupRepsAsPrimary(a, r, ps, f, F) \in {Again(r), r, c, StoreGroup(vrgs[a], e, f)}
  BY DEF reconcileVolGroupRepsAsPrimary, With
<1>2. GroupOK(h.g) /\ VerdictOK(h.verdict) /\ h.g.state \in {r.g.state, "Primary"}
  BY VGRWritten DEF PassOK, Roles
<1> HIDE DEF h
<1>3. Moves(a, r, c)
  <2>1. /\ PassOK(c) /\ c.unused = r.unused /\ c.g = h.g
        /\ \A p \in MemberSet : Frees(r.ws[p], c.ws[p]) /\ (p \notin PVCsOf(a) => c.ws[p] = r.ws[p])
    BY <1>2, ConclusionDrawn
  <2> HIDE DEF c
  <2> QED
    BY <1>2, <2>1 DEF Moves, Frees
<1> HIDE DEF c
<1>4. Moves(a, c, e)
  BY <1>3, EachProtected DEF Moves
<1> HIDE DEF e
<1>5. Moves(a, e, StoreGroup(vrgs[a], e, f))
  BY <1>4, GroupStored DEF Moves
<1>6. Moves(a, r, StoreGroup(vrgs[a], e, f))
  BY <1>3, <1>4, <1>5, PassesCompose
<1>7. Moves(a, r, Again(r)) /\ Moves(a, r, r)
  BY PassSet, PassesCompose DEF Again, Releases
<1> QED
  BY <1>1, <1>3, <1>6, <1>7

\* What a VRG says of itself.
LEMMA Telling ==
    ASSUME NEW r, PassOK(r), NEW u \in Tellings
    PROVE  LET x == Tells(r, u) IN
           /\ PassOK(x) /\ x.ws = r.ws /\ x.g = r.g
           /\ gscene.global => x.unused = u
           /\ ~gscene.global => x.unused = r.unused
BY DEF Tells, PassOK, PassType

\* A pass starts from what is there, and labels claims.
LEMMA PassStarts ==
    ASSUME WellFormed, NEW a
    PROVE  LET r == Start(a) IN
           /\ PassOK(r) /\ r.g = group /\ r.unused = "Keep"
           /\ \A p \in MemberSet : /\ Frees(members[p], r.ws[p]) /\ r.ws[p].pvc = members[p].pvc
                                   /\ p \notin PVCsOf(a) => r.ws[p] = members[p]
                                   /\ members[p].label = "member" => r.ws[p].label = "member"
<1> DEFINE ws == [p \in MemberSet |->
                    IF p \in GroupSelected(a, members) /\ ~vrgs[a].deleted
                    THEN addVolRepConsistencyGroupLabel(members[p]) ELSE members[p]]
<1>1. Start(a) = [ws |-> ws, g |-> group, unused |-> "Keep", again |-> FALSE]
  BY DEF Start
<1>2. ASSUME NEW p \in MemberSet
      PROVE  /\ Frees(members[p], ws[p]) /\ ws[p].pvc = members[p].pvc
             /\ members[p].label = "member" => ws[p].label = "member"
  <2> DEFINE x == addVolRepConsistencyGroupLabel(members[p])
  <2>1. ClaimOK(members[p])
    BY DEF WellFormed
  <2>2. Frees(members[p], x) /\ x.pvc = members[p].pvc /\ (members[p].label = "member" => x.label = "member")
    BY <2>1, SmallSteps
  <2>3. Frees(members[p], members[p])
    BY <2>1, StepsCompose DEF Same
  <2>4. ws[p] \in {x, members[p]}
    OBVIOUS
  <2> HIDE DEF x, ws
  <2> QED
    BY <2>2, <2>3, <2>4
<1>3. \A p \in MemberSet : p \notin PVCsOf(a) => ws[p] = members[p]
  BY DEF GroupSelected
<1>4. ws = [p \in MemberSet |-> ws[p]]
  OBVIOUS
<1> HIDE DEF ws
<1>5. \A p \in MemberSet : ClaimOK(ws[p])
  BY <1>2 DEF Frees, Keeps
<1>6. ws \in [MemberSet -> MemberType]
  BY <1>4, <1>5 DEF ClaimOK
<1>7. PassOK(Start(a))
  BY <1>1, <1>5, <1>6 DEF PassOK, PassType, WellFormed, GroupOK
<1> QED
  BY <1>1, <1>2, <1>3, <1>7

\* PrepareEach: claims that are held stay held, and all of them go on unless one
\* of three calls fails.
Prepares(a, v, r, ps, F) ==
    LET x == PrepareEach(v, r, ps, F) IN
    /\ Moves(a, r, x.r) /\ SameLabels(r, x.r) /\ x.r.g = r.g /\ x.ready \subseteq ps
    /\ (\A p \in ps : r.ws[p].pvc.finalizer) =>
          /\ Releases(a, r, x.r)
          /\ (\A p \in ps : F[p].call \notin {"class", "retainPV", "annotatePVC"}) => x.ready = ps

\* Prepared, for every claim on its own.
LEMMA EachPrepared ==
    ASSUME NEW a, NEW v, v.async \in BOOLEAN, NEW F, NEW r, PassOK(r), NEW ps \in SUBSET PVCsOf(a)
    PROVE  Prepares(a, v, r, ps, F)
<1> DEFINE out == [p \in ps |-> Prepared(v, r.ws[p], F[p])]
           x == PrepareEach(v, r, ps, F)
           y == PutAll(r, out)
<1>1. x = [r |-> y, ready |-> {p \in ps : out[p].res = "go"}]
  BY DEF PrepareEach, With
<1>2. ASSUME NEW p \in ps
      PROVE  /\ Holds(r.ws[p], out[p].w)
             /\ r.ws[p].pvc.finalizer /\ F[p].call \notin {"class", "retainPV", "annotatePVC"} => out[p].res = "go"
  <2>1. ClaimOK(r.ws[p])
    BY DEF PassOK, PVCsOf
  <2>2. out[p] = Prepared(v, r.ws[p], F[p])
    OBVIOUS
  <2> HIDE DEF out
  <2> QED
    BY <2>1, <2>2, PreparedHolds
<1>3. DOMAIN out = ps
  OBVIOUS
<1> HIDE DEF out, x
<1>4. /\ Moves(a, r, y) /\ SameLabels(r, y) /\ y.g = r.g
      /\ \A p \in MemberSet : p \notin ps => y.ws[p] = r.ws[p]
  <2>1. DOMAIN out \subseteq PVCsOf(a) /\ \A p \in DOMAIN out : Holds(r.ws[p], out[p].w)
    BY <1>2, <1>3
  <2> QED
    BY <1>3, <2>1, OutcomesPut
<1> HIDE DEF y
<1>5. x.r = y /\ x.ready = {p \in ps : out[p].res = "go"}
  BY <1>1
<1>6. ASSUME \A p \in ps : r.ws[p].pvc.finalizer, NEW p \in MemberSet PROVE Frees(r.ws[p], y.ws[p])
  <2>1. CASE p \in ps
    BY <1>4, <1>6, <2>1 DEF Frees, Moves
  <2>2. CASE p \notin ps
    BY <1>4, <2>2, StepsCompose DEF PassOK, Same
  <2> QED
    BY <2>1, <2>2
<1> QED
  BY <1>2, <1>4, <1>5, <1>6 DEF Prepares, Releases, x

\* PrepareHeld: a pass over a deleted VRG keeps hold of what it prepares.
LEMMA HeldPrepared ==
    ASSUME NEW a, NEW F, NEW r, PassOK(r), NEW ps \in SUBSET PVCsOf(a),
           \A p \in ps : r.ws[p].pvc.finalizer
    PROVE  LET x == PrepareHeld(r, ps, F) IN Releases(a, r, x.r) /\ x.ready \subseteq ps
<1> DEFINE out == [p \in ps |-> OrRequeue(preparePVCForVRProtection(r.ws[p], F[p]))]
           x == PrepareHeld(r, ps, F)
           y == PutAll(r, out)
<1>1. x = [r |-> y, ready |-> {p \in ps : out[p].res = "go"}]
  BY DEF PrepareHeld, With
<1>2. ASSUME NEW p \in ps PROVE Holds(r.ws[p], out[p].w)
  <2> DEFINE d == preparePVCForVRProtection(r.ws[p], F[p])
  <2>1. ClaimOK(r.ws[p])
    BY DEF PassOK, PVCsOf
  <2>2. out[p] = OrRequeue(d)
    OBVIOUS
  <2>3. Holds(r.ws[p], d.w)
    BY <2>1, PreparationHolds
  <2> HIDE DEF out, d
  <2> QED
    BY <2>2, <2>3 DEF OrRequeue, Requeue
<1>3. DOMAIN out = ps
  OBVIOUS
<1> HIDE DEF out, x
<1>4. /\ Moves(a, r, y) /\ \A p \in MemberSet : p \notin ps => y.ws[p] = r.ws[p]
  <2>1. DOMAIN out \subseteq PVCsOf(a) /\ \A p \in DOMAIN out : Holds(r.ws[p], out[p].w)
    BY <1>2, <1>3
  <2> QED
    BY <1>3, <2>1, OutcomesPut
<1> HIDE DEF y
<1>5. ASSUME NEW p \in MemberSet PROVE Frees(r.ws[p], y.ws[p])
  <2>1. CASE p \in ps
    BY <1>4, <2>1 DEF Frees, Moves
  <2>2. CASE p \notin ps
    BY <1>4, <2>2, StepsCompose DEF PassOK, Same
  <2> QED
    BY <2>1, <2>2
<1>6. x.r = y /\ x.ready \subseteq ps
  BY <1>1
<1> QED
  BY <1>4, <1>5, <1>6 DEF Releases, x

\* Claims that a pass as Secondary does not hold leave the status.
LEMMA OthersUnlisted ==
    ASSUME NEW a, NEW r, PassOK(r)
    PROVE  LET x == Unlisted(a, r) IN
           /\ Releases(a, r, x) /\ x.g = r.g
           /\ \A p \in MemberSet : Same(r.ws[p], x.ws[p])
<1> DEFINE ws == [p \in MemberSet |-> IF p \in GroupSelected(a, r.ws) \ Held(a, r.ws)
                                      THEN pvcStatusDeleteIfPresent(r.ws[p]) ELSE r.ws[p]]
<1>1. Unlisted(a, r) = [r EXCEPT !.ws = ws]
  BY DEF Unlisted
<1>2. ASSUME NEW p \in MemberSet PROVE Same(r.ws[p], ws[p])
  <2>1. Same(r.ws[p], pvcStatusDeleteIfPresent(r.ws[p])) /\ Same(r.ws[p], r.ws[p])
    BY StatusSame, StepsCompose DEF PassOK
  <2> QED
    BY <2>1
<1>3. \A p \in MemberSet : p \notin PVCsOf(a) => ws[p] = r.ws[p]
  BY DEF GroupSelected
<1>4. ws = [p \in MemberSet |-> ws[p]]
  OBVIOUS
<1> HIDE DEF ws
<1>5. \A p \in MemberSet : Frees(r.ws[p], ws[p]) /\ Keeps(r.ws[p], ws[p])
  BY <1>2 DEF Same, Frees
<1> QED
  BY <1>1, <1>2, <1>3, <1>4, <1>5, PassSet

\* Claims that were deselected or deleted are let go first.
LEMMA LeaversLetGo ==
    ASSUME NEW a, NEW F, NEW r, PassOK(r)
    PROVE  /\ Releases(a, r, GroupDeselectedUnprotect(a, r, F))
           /\ Releases(a, r, LeavingUnprotect(a, r, F))
<1>1. Releases(a, r, r)
  BY PassesCompose
<1>2. Releases(a, r, LeavingUnprotect(a, r, F))
  <2>1. Leaving(a, r.ws) \in SUBSET PVCsOf(a)
    BY DEF Leaving, GroupSelected
  <2> QED
    <3>1. Releases(a, r, UnprotectEach(vrgs[a], r, Leaving(a, r.ws), F))
      BY <2>1, EachUnprotected
    <3> QED
      BY <1>1, <3>1 DEF LeavingUnprotect
<1> DEFINE y == UnprotectEach(vrgs[a], r, Deselected(a, r.ws), F)
           ws == [p \in MemberSet |->
                    IF p \in PVCsOf(a) \ GroupSelected(a, r.ws) /\ VolumeUnprotectionEnabled
                    THEN pvcStatusDeleteIfPresent(y.ws[p]) ELSE y.ws[p]]
<1>3. Releases(a, r, y) /\ PassOK(y)
  <2>1. Deselected(a, r.ws) \in SUBSET PVCsOf(a)
    BY DEF Deselected
  <2> QED
    <3>1. Releases(a, r, y)
      BY <2>1, EachUnprotected
    <3> HIDE DEF y
    <3> QED
      BY <3>1 DEF Releases, Moves
<1>4. GroupDeselectedUnprotect(a, r, F) \in {r, [y EXCEPT !.ws = ws]}
  BY DEF GroupDeselectedUnprotect, With
<1> HIDE DEF y
<1>5. ASSUME NEW p \in MemberSet PROVE Frees(y.ws[p], ws[p]) /\ Keeps(y.ws[p], ws[p])
  <2>1. Same(y.ws[p], pvcStatusDeleteIfPresent(y.ws[p])) /\ Same(y.ws[p], y.ws[p])
    BY <1>3, StatusSame, StepsCompose DEF PassOK
  <2> QED
    BY <2>1 DEF Same, Frees
<1>6. \A p \in MemberSet : p \notin PVCsOf(a) => ws[p] = y.ws[p]
  OBVIOUS
<1>7. ws = [p \in MemberSet |-> ws[p]]
  OBVIOUS
<1> HIDE DEF ws
<1>8. Releases(a, y, [y EXCEPT !.ws = ws])
  BY <1>3, <1>5, <1>6, <1>7, PassSet
<1>9. Releases(a, r, [y EXCEPT !.ws = ws])
  BY <1>3, <1>8, PassesCompose
<1> QED
  BY <1>1, <1>2, <1>4, <1>9

\* A pass as Primary: it may hold claims, and neither demotes the group nor says
\* that the claims are unused.
LEMMA PrimaryPass ==
    ASSUME WellFormed, NEW a, vrgs[a] \in VRGType, NEW f, NEW F
    PROVE  LET x == GroupAsPrimary(a, f, F) IN
           /\ PassOK(x) /\ x.unused \in {"Keep", "Primary"} /\ x.g.state \in {group.state, "Primary"}
           /\ \A p \in MemberSet : /\ Keeps(members[p], x.ws[p])
                                   /\ p \notin PVCsOf(a) => x.ws[p] = members[p]
<1> DEFINE s == Start(a)
           t == Tells(s, "Primary")
           d == GroupDeselectedUnprotect(a, t, F)
           l == LeavingUnprotect(a, d, F)
           ps == GroupSelected(a, l.ws) \ Leaving(a, l.ws)
           q == PrepareEach(vrgs[a], l, ps, F)
           x == reconcileVolGroupRepsAsPrimary(a, q.r, q.ready, f, F)
<1>1. GroupAsPrimary(a, f, F) = x
  BY DEF GroupAsPrimary, With
<1>2. /\ PassOK(s) /\ s.g = group /\ s.unused = "Keep"
      /\ \A p \in MemberSet : Keeps(members[p], s.ws[p]) /\ (p \notin PVCsOf(a) => s.ws[p] = members[p])
  BY PassStarts DEF Frees
<1> HIDE DEF s
<1>3. PassOK(t) /\ t.ws = s.ws /\ t.g = s.g /\ t.unused \in {"Keep", "Primary"}
  BY <1>2, Telling DEF Tellings
<1> HIDE DEF t
<1>4. Releases(a, t, d)
  BY <1>3, LeaversLetGo
<1> HIDE DEF d
<1>5. Moves(a, t, d) /\ PassOK(d)
  BY <1>4 DEF Releases, Moves
<1>6. Releases(a, d, l)
  BY <1>5, LeaversLetGo
<1> HIDE DEF l
<1>7. Moves(a, d, l) /\ PassOK(l)
  BY <1>6 DEF Releases, Moves
<1>8. ps \in SUBSET PVCsOf(a)
  BY DEF GroupSelected
<1> HIDE DEF ps
<1>9. Moves(a, l, q.r) /\ q.ready \in SUBSET PVCsOf(a)
  <2>1. vrgs[a].async \in BOOLEAN
    BY DEF VRGType
  <2>2. Prepares(a, vrgs[a], l, ps, F)
    BY <1>7, <1>8, <2>1, EachPrepared
  <2>3. Moves(a, l, q.r) /\ q.ready \subseteq ps
    BY <2>2 DEF Prepares
  <2> HIDE DEF q
  <2> QED
    BY <1>8, <2>3
<1> HIDE DEF q
<1>10. PassOK(q.r)
  BY <1>9 DEF Moves
<1>11. Moves(a, q.r, x)
  BY <1>9, <1>10, ReconciledAsPrimary
<1> HIDE DEF x
<1>12. Moves(a, t, x)
  BY <1>5, <1>7, <1>9, <1>11, PassesCompose
<1>13. \A p \in MemberSet : Keeps(members[p], x.ws[p]) /\ (p \notin PVCsOf(a) => x.ws[p] = members[p])
  <2> SUFFICES ASSUME NEW p \in MemberSet
               PROVE  Keeps(members[p], x.ws[p]) /\ (p \notin PVCsOf(a) => x.ws[p] = members[p])
    OBVIOUS
  <2>1. Keeps(members[p], t.ws[p]) /\ Keeps(t.ws[p], x.ws[p])
    BY <1>2, <1>3, <1>12 DEF Moves
  <2> QED
    BY <1>2, <1>3, <1>12, <2>1, StepsCompose DEF Moves
<1>14. PassOK(x) /\ x.unused \in {"Keep", "Primary"} /\ x.g.state \in {group.state, "Primary"}
  BY <1>2, <1>3, <1>12 DEF Moves
<1> QED
  BY <1>1, <1>13, <1>14

=============================================================================
