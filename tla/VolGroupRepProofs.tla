-------------------------- MODULE VolGroupRepProofs --------------------------
(***************************************************************************)
(* Volumes replicated as a group, for any number of claims, VRGs and S3    *)
(* stores and whatever calls fail: the stores hold what the annotations    *)
(* say, the group goes with the last VRG, and no pass demotes it under a   *)
(* claim in use.                                                           *)
(***************************************************************************)
EXTENDS VolGroupRepPassProofs

-----------------------------------------------------------------------------
(* What holds of every state.                                               *)

\* Where VRGs are demoted the claims stay selected, a claim that is held can
\* always be prepared, and pods come back only where a relocation waits for the
\* claims to be deleted.
OrderlyScene(s) ==
    s.acts \cap {"relocate", "failover"} # {} =>
        /\ "deselect" \notin s.acts
        /\ s.calls \cap {"class", "retainPV", "annotatePVC"} = {}
        /\ "pods" \in s.acts => "failover" \notin s.acts

\* A claim that may go, and that no pod will use again.
Idle(w) == w.pvc.finalizer => ~w.inUse /\ (GroupMay("pods") => w.pvc.terminating)

\* What a VRG has told the others still holds.
Told(a) ==
    vrgs[a].unused = "True" /\ vrgs[a].fresh /\ ~vrgs[a].deleted =>
        /\ vrgs[a].state = "Secondary"
        /\ \A p \in PVCsOf(a) : Idle(members[p])

GroupInv ==
    /\ WellFormed
    /\ \A a \in Apps : ~vrgs[a].there => vrgs[a].deleted
    /\ (\A a \in Apps : ~vrgs[a].there) => ~group.there \/ group.terminating

OrderlyInv ==
    OrderlyScene(gscene) =>
        /\ ~GroupMay("failover") => \A a \in Apps : vrgs[a].action # "Failover"
        /\ ~(GroupMay("failover") \/ GroupMay("relocate")) => \A a \in Apps : vrgs[a].state = "Primary"
        /\ ~GroupMay("deselect") => \A p \in MemberSet : members[p].pvc.there => members[p].pvc.selected
        /\ \A a \in Apps : Told(a)

-----------------------------------------------------------------------------
(* Passes that may demote the group.                                        *)

\* The claims in ps may be demoted, as far as VRG a can see.
Unused(a, r, ps) == \A p \in ps : isPVCReadyForSecondary(vrgs[a], r.ws[p])

\* Claims are only let go.  The VRG says that they are unused, and demotes the
\* group, only when those in ps are; it demotes a shared group only when the
\* other VRGs have said so.
Demotes(a, r, ps, x) ==
    /\ PassOK(x)
    /\ \A p \in MemberSet : Frees(r.ws[p], x.ws[p]) /\ (p \notin PVCsOf(a) => x.ws[p] = r.ws[p])
    /\ x.unused # r.unused =>
          gscene.global /\ x.unused \in {"True", "False"} /\ (x.unused = "True" => Unused(a, r, ps))
    /\ x.g.state \notin {r.g.state, "Primary"} =>
          Unused(a, r, ps) /\ (gscene.global => areSiblingVRGsReadyForGlobalSecondary(a))

\* Such a step after, and before, one that releases.
LEMMA DemotionsCompose ==
    ASSUME NEW a, NEW r, NEW x, NEW y, NEW ps \in SUBSET MemberSet
    PROVE  /\ Releases(a, r, x) => Demotes(a, r, ps, x)
           /\ Demotes(a, r, ps, x) /\ Releases(a, x, y) => Demotes(a, r, ps, y)
           /\ Releases(a, r, x) /\ Demotes(a, x, ps, y) => Demotes(a, r, ps, y)
           /\ \A qs \in SUBSET ps : Demotes(a, r, ps, x) => Demotes(a, r, qs, x)
<1>1. Releases(a, r, x) => Demotes(a, r, ps, x)
  BY DEF Releases, Moves, Demotes
<1>2. ASSUME Demotes(a, r, ps, x), Releases(a, x, y) PROVE Demotes(a, r, ps, y)
  <2>1. \A p \in MemberSet : Frees(r.ws[p], y.ws[p]) /\ (p \notin PVCsOf(a) => y.ws[p] = r.ws[p])
    BY <1>2, StepsCompose DEF Demotes, Releases, Moves
  <2>2. PassOK(y) /\ y.unused = x.unused /\ y.g.state \in {x.g.state, "Primary"}
    BY <1>2 DEF Releases, Moves
  <2> QED
    BY <1>2, <2>1, <2>2 DEF Demotes
<1>3. ASSUME Releases(a, r, x), Demotes(a, x, ps, y) PROVE Demotes(a, r, ps, y)
  <2>1. \A p \in MemberSet : Frees(r.ws[p], y.ws[p]) /\ (p \notin PVCsOf(a) => y.ws[p] = r.ws[p])
    BY <1>3, StepsCompose DEF Demotes, Releases, Moves
  <2>2. x.unused = r.unused /\ x.g.state \in {r.g.state, "Primary"}
    BY <1>3 DEF Releases, Moves
  <2>3. Unused(a, x, ps) => Unused(a, r, ps)
    <3>1. \A p \in MemberSet : x.ws[p].inUse = r.ws[p].inUse /\ x.ws[p].pvc.terminating = r.ws[p].pvc.terminating
      BY <1>3 DEF Releases, Moves, Keeps
    <3> QED
      BY <3>1 DEF Unused, isPVCReadyForSecondary
  <2> QED
    BY <1>3, <2>1, <2>2, <2>3 DEF Demotes
<1>4. \A qs \in SUBSET ps : Demotes(a, r, ps, x) => Demotes(a, r, qs, x)
  BY DEF Demotes, Unused
<1> QED
  BY <1>1, <1>2, <1>3, <1>4

\* The places of claims in use have a first one.
LEMMA FirstInUse ==
    ASSUME NEW v, NEW ws, NEW ps \in SUBSET MemberSet
    PROVE  LET busy == InUse(v, ws, ps) IN
           /\ busy # {} => Members[CHOOSE i \in busy : \A j \in busy : i <= j] \in ps
           /\ busy = {} => \A p \in ps : isPVCReadyForSecondary(v, ws[p])
<1> DEFINE busy == InUse(v, ws, ps)
<1>1. busy \in SUBSET Nat /\ \A i \in busy : Members[i] \in ps
  <2>1. DOMAIN Members = 1..Len(Members) /\ Len(Members) \in Nat
    BY GroupAssumption
  <2> QED
    BY <2>1 DEF InUse
<1>2. busy = {} => \A p \in ps : isPVCReadyForSecondary(v, ws[p])
  BY DEF InUse, MemberSet, Range
<1> HIDE DEF busy
<1>3. busy # {} => \E i \in busy : \A j \in busy : i <= j
  BY <1>1, LeastNat
<1> QED
  BY <1>1, <1>2, <1>3 DEF busy

\* reconcileVGRAsSecondary: the one place that demotes.
LEMMA ReconciledAsSecondary ==
    ASSUME NEW a, vrgs[a] \in VRGType, NEW f, NEW r, PassOK(r), NEW ps \in SUBSET PVCsOf(a)
    PROVE  Demotes(a, r, ps, reconcileVGRAsSecondary(a, r, ps, f).r)
<1> DEFINE busy == InUse(vrgs[a], r.ws, ps)
           first == Members[CHOOSE i \in busy : \A j \in busy : i <= j]
           no == Tells(r, "False")
           yes == Tells(r, "True")
           x1 == Again([no EXCEPT !.ws[first] = DataReady(@, "Progressing")])
           x2 == Again(yes)
           h == createOrUpdateVGR(vrgs[a], r.g, "Secondary", f)
           x3 == Concluded(yes, ps, h)
           s == reconcileVGRAsSecondary(a, r, ps, f)
<1> SUFFICES Demotes(a, r, ps, s.r)
  OBVIOUS
<1>1. \/ busy # {} /\ s.r = x1
      \/ busy = {} /\ s.r = x2
      \/ busy = {} /\ (gscene.global => areSiblingVRGsReadyForGlobalSecondary(a)) /\ s.r = x3
  <2>1. s = IF busy # {} THEN OutOf("requeue", x1)
            ELSE IF gscene.global /\ ~areSiblingVRGsReadyForGlobalSecondary(a) THEN OutOf("requeue", x2)
            ELSE OutOf(h.res, x3)
    BY DEF reconcileVGRAsSecondary, With
  <2> HIDE DEF s, busy, x1, x2, x3, h
  <2> QED
    BY <2>1 DEF OutOf
<1>2. ps \in SUBSET MemberSet
  BY DEF PVCsOf
<1>3. (busy # {} => first \in ps) /\ (busy = {} => Unused(a, r, ps))
  BY <1>2, FirstInUse DEF Unused
<1>4. /\ PassOK(no) /\ no.ws = r.ws /\ no.g = r.g
      /\ gscene.global => no.unused = "False"
      /\ ~gscene.global => no.unused = r.unused
      /\ PassOK(yes) /\ yes.ws = r.ws /\ yes.g = r.g
      /\ gscene.global => yes.unused = "True"
      /\ ~gscene.global => yes.unused = r.unused
  <2>1. "True" \in Tellings /\ "False" \in Tellings
    BY DEF Tellings
  <2>2. /\ PassOK(no) /\ no.ws = r.ws /\ no.g = r.g
        /\ gscene.global => no.unused = "False"
        /\ ~gscene.global => no.unused = r.unused
    BY <2>1, Telling
  <2>3. /\ PassOK(yes) /\ yes.ws = r.ws /\ yes.g = r.g
        /\ gscene.global => yes.unused = "True"
        /\ ~gscene.global => yes.unused = r.unused
    BY <2>1, Telling
  <2> QED
    BY <2>2, <2>3
<1> HIDE DEF busy, first, no, yes, s
<1>5. \A p \in MemberSet : Frees(r.ws[p], r.ws[p])
  BY StepsCompose DEF PassOK, Same
<1>6. /\ busy # {} => Demotes(a, r, ps, no)
      /\ busy = {} => Demotes(a, r, ps, yes)
  BY <1>3, <1>4, <1>5 DEF Demotes
<1>7. CASE busy # {} /\ s.r = x1
  <2> DEFINE out == Requeue(DataReady(no.ws[first], "Progressing"))
  <2>1. x1 = Put(no, first, out)
    BY <1>4 DEF Again, Put, Requeue, PassOK, PassType
  <2>2. first \in PVCsOf(a) /\ first \in MemberSet
    BY <1>2, <1>3, <1>7
  <2>3. Frees(no.ws[first], out.w)
    <3>1. Same(no.ws[first], DataReady(no.ws[first], "Progressing"))
      BY <1>4, <2>2, StatusSame DEF PassOK
    <3> QED
      BY <3>1 DEF Requeue, Same
  <2> HIDE DEF out, x1
  <2>4. PassOK(no)
    BY <1>4
  <2>5. Releases(a, no, x1)
    BY <2>1, <2>2, <2>3, <2>4, OutcomePut
  <2> QED
    BY <1>2, <1>6, <1>7, <2>5, DemotionsCompose
<1>8. CASE busy = {} /\ s.r = x2
  <2>1. Releases(a, yes, x2)
    <3>1. PassOK(yes)
      BY <1>4
    <3> QED
      BY <3>1, PassSet DEF Again
  <2> HIDE DEF x2
  <2> QED
    BY <1>2, <1>6, <1>8, <2>1, DemotionsCompose
<1>9. CASE busy = {} /\ (gscene.global => areSiblingVRGsReadyForGlobalSecondary(a)) /\ s.r = x3
  <2>1. GroupOK(h.g) /\ VerdictOK(h.verdict) /\ h.g.state \in {r.g.state, "Secondary"}
    BY VGRWritten DEF PassOK, Roles
  <2> HIDE DEF h
  <2>2. /\ PassOK(x3) /\ x3.unused = yes.unused /\ x3.g = h.g
        /\ \A p \in MemberSet : Frees(yes.ws[p], x3.ws[p]) /\ (p \notin PVCsOf(a) => x3.ws[p] = yes.ws[p])
    <3>1. PassOK(yes)
      BY <1>4
    <3> QED
      BY <2>1, <3>1, ConclusionDrawn
  <2> HIDE DEF x3
  <2> QED
    BY <1>3, <1>4, <1>9, <2>1, <2>2 DEF Demotes
<1> QED
  BY <1>1, <1>7, <1>8, <1>9

\* What is done where the VGR has gone, and once it has been demoted.
LEMMA Undone ==
    ASSUME NEW a, NEW v, NEW f, NEW F, NEW r, PassOK(r), NEW ps \in SUBSET PVCsOf(a)
    PROVE  /\ Releases(a, r, LetGo(v, r, ps, F))
           /\ Releases(a, r, Again(r))
           /\ Releases(a, r, reconcileMissingVGR(v, r, ps, f, F))
           /\ Releases(a, r, undoPVCFinalizersAndPVRetentionForVGR(v, r, ps, f, F))
<1> DEFINE l == LetGo(v, r, ps, F)
           d == IF gscene.global THEN Go(r.g) ELSE deleteVGR(r.g, f)
           y == [r EXCEPT !.g = d.w]
<1>1. Releases(a, r, l) /\ Releases(a, r, Again(r))
  BY EachLetGo, PassSet DEF Again
<1>2. reconcileMissingVGR(v, r, ps, f, F) \in {Again(r), l}
  BY DEF reconcileMissingVGR
<1>3. undoPVCFinalizersAndPVRetentionForVGR(v, r, ps, f, F) \in {l, Again(y)}
  BY DEF undoPVCFinalizersAndPVRetentionForVGR, With
<1>4. GroupOK(d.w) /\ d.w.state = r.g.state
  BY VGRDeleted DEF PassOK, Go
<1> HIDE DEF d, l
<1>5. Releases(a, r, y) /\ PassOK(y)
  BY <1>4, PassSet DEF Releases, Moves
<1> HIDE DEF y
<1>6. Releases(a, y, Again(y))
  BY <1>5, PassSet DEF Again
<1>7. Releases(a, r, Again(y))
  BY <1>5, <1>6, PassesCompose
<1> QED
  BY <1>1, <1>2, <1>3, <1>7 DEF l

\* DemoteAndLetGo, with what is handled.
LEMMA DemotedAndLetGo ==
    ASSUME NEW a, vrgs[a] \in VRGType, NEW f, NEW F, NEW r, PassOK(r), NEW ps \in SUBSET PVCsOf(a)
    PROVE  Demotes(a, r, ps, DemoteAndLetGo(a, r, ps, f, F))
<1> DEFINE m == reconcileMissingVGR(vrgs[a], r, ps, f, F)
           s == reconcileVGRAsSecondary(a, r, ps, f)
           u == undoPVCFinalizersAndPVRetentionForVGR(vrgs[a], s.r, ps, f, F)
<1>1. DemoteAndLetGo(a, r, ps, f, F) \in {r, Again(m), s.r, u}
  BY DEF DemoteAndLetGo, With
<1>2. ps \in SUBSET MemberSet
  BY DEF PVCsOf
<1>3. Releases(a, r, m) /\ PassOK(m)
  <2>1. Releases(a, r, m)
    BY Undone
  <2> HIDE DEF m
  <2> QED
    BY <2>1 DEF Releases, Moves
<1>4. Demotes(a, r, ps, s.r) /\ PassOK(s.r)
  <2>1. Demotes(a, r, ps, s.r)
    BY ReconciledAsSecondary
  <2> HIDE DEF s
  <2> QED
    BY <2>1 DEF Demotes
<1> HIDE DEF m, s
<1>5. Releases(a, m, Again(m)) /\ Releases(a, s.r, u)
  BY <1>3, <1>4, Undone
<1> HIDE DEF u
<1>6. Releases(a, r, r) /\ Releases(a, r, Again(m))
  BY <1>3, <1>5, PassesCompose
<1>7. Demotes(a, r, ps, u)
  BY <1>2, <1>4, <1>5, DemotionsCompose
<1>8. Demotes(a, r, ps, r) /\ Demotes(a, r, ps, Again(m))
  BY <1>2, <1>6, DemotionsCompose
<1> QED
  BY <1>1, <1>4, <1>7, <1>8

\* reconcileVolGroupRepsAsSecondary: strays are not asked.
LEMMA GroupReconciledAsSecondary ==
    ASSUME NEW a, vrgs[a] \in VRGType, NEW f, NEW F, NEW r, PassOK(r), NEW ps \in SUBSET PVCsOf(a)
    PROVE  Demotes(a, r, ps \ Strays(r, ps), reconcileVolGroupRepsAsSecondary(a, r, ps, f, F))
<1> DEFINE st == Strays(r, ps)
           l == LetGo(vrgs[a], r, st, F)
           x1 == [r EXCEPT !.unused = "True"]
           x3 == DemoteAndLetGo(a, l, ps \ st, f, F)
           x == reconcileVolGroupRepsAsSecondary(a, r, ps, f, F)
<1> SUFFICES Demotes(a, r, ps \ st, x)
  OBVIOUS
<1>1. (gscene.global /\ ps = {} /\ x = x1) \/ x = Again(r) \/ x = x3
  BY DEF reconcileVolGroupRepsAsSecondary
<1>2. st \in SUBSET PVCsOf(a) /\ ps \ st \in SUBSET PVCsOf(a) /\ ps \ st \in SUBSET MemberSet
  BY DEF Strays, PVCsOf
<1> HIDE DEF st, x
<1>3. CASE gscene.global /\ ps = {} /\ x = x1
  <2>1. PassOK(x) /\ x.ws = r.ws /\ x.g = r.g /\ x.unused = "True"
    BY <1>3 DEF PassOK, PassType, Tellings
  <2>2. \A p \in MemberSet : Frees(r.ws[p], r.ws[p])
    BY StepsCompose DEF PassOK, Same
  <2>3. Unused(a, r, ps \ st)
    BY <1>3 DEF Unused
  <2> HIDE DEF x1
  <2> QED
    BY <1>3, <2>1, <2>2, <2>3 DEF Demotes
<1>4. CASE x = Again(r)
  <2>1. Releases(a, r, Again(r))
    BY <1>2, Undone
  <2> QED
    BY <1>2, <1>4, <2>1, DemotionsCompose
<1>5. CASE x = x3
  <2>1. Releases(a, r, l)
    BY <1>2, Undone
  <2> HIDE DEF l
  <2>2. PassOK(l)
    BY <2>1 DEF Releases, Moves
  <2>3. Demotes(a, l, ps \ st, x3)
    BY <1>2, <2>2, DemotedAndLetGo
  <2> HIDE DEF x3
  <2> QED
    BY <1>2, <1>5, <2>1, <2>3, DemotionsCompose
<1> QED
  BY <1>1, <1>3, <1>4, <1>5

\* A pass as Secondary: every claim that the VRG holds is asked, unless one of
\* the calls that prepare it fails.
LEMMA SecondaryPass ==
    ASSUME WellFormed, NEW a, vrgs[a] \in VRGType, NEW f, NEW F
    PROVE  \E ps \in SUBSET PVCsOf(a) :
              /\ Demotes(a, Start(a), ps, GroupAsSecondary(a, f, F))
              /\ (\A p \in MemberSet : F[p].call \notin {"class", "retainPV", "annotatePVC"}) =>
                    \A p \in PVCsOf(a) :
                       /\ members[p].pvc.selected /\ members[p].pvc.finalizer
                       /\ gscene.global \/ members[p].label = "member"
                       => p \in ps
<1> DEFINE s == Start(a)
           u == Unlisted(a, s)
           held == Held(a, u.ws)
           q == PrepareEach(vrgs[a], u, held, F)
           ps == q.ready \ Strays(q.r, q.ready)
           x == reconcileVolGroupRepsAsSecondary(a, q.r, q.ready, f, F)
<1>1. GroupAsSecondary(a, f, F) = x
  BY DEF GroupAsSecondary, With
<1>2. /\ PassOK(s)
      /\ \A p \in MemberSet : /\ s.ws[p].pvc = members[p].pvc
                              /\ members[p].label = "member" => s.ws[p].label = "member"
  BY PassStarts
<1> HIDE DEF s
<1>3. Releases(a, s, u) /\ \A p \in MemberSet : Same(s.ws[p], u.ws[p])
  BY <1>2, OthersUnlisted
<1> HIDE DEF u
<1>4. held \in SUBSET PVCsOf(a) /\ \A p \in held : u.ws[p].pvc.finalizer
  BY DEF Held, GroupSelected
<1>5. /\ Releases(a, u, q.r) /\ SameLabels(u, q.r) /\ q.ready \subseteq held
      /\ (\A p \in held : F[p].call \notin {"class", "retainPV", "annotatePVC"}) => q.ready = held
  <2>1. PassOK(u)
    BY <1>3 DEF Releases, Moves
  <2>2. vrgs[a].async \in BOOLEAN
    BY DEF VRGType
  <2> HIDE DEF held
  <2>3. held \in SUBSET PVCsOf(a)
    BY <1>4
  <2>4. \A p \in held : u.ws[p].pvc.finalizer
    BY <1>4
  <2> QED
    <3>1. Prepares(a, vrgs[a], u, held, F)
      BY <2>1, <2>2, <2>3, EachPrepared
    <3> QED
      BY <2>4, <3>1 DEF Prepares
<1> HIDE DEF q
<1>6. /\ Releases(a, s, q.r) /\ PassOK(q.r) /\ q.ready \in SUBSET PVCsOf(a)
      /\ ps \in SUBSET PVCsOf(a) /\ ps \in SUBSET MemberSet
  <2>1. Releases(a, s, q.r)
    BY <1>3, <1>5, PassesCompose
  <2> QED
    BY <1>4, <1>5, <2>1 DEF Releases, Moves, PVCsOf
<1>7. Demotes(a, q.r, ps, x)
  BY <1>6, GroupReconciledAsSecondary
<1> HIDE DEF x
<1>8. Demotes(a, s, ps, x)
  BY <1>6, <1>7, DemotionsCompose
<1>9. ASSUME \A p \in MemberSet : F[p].call \notin {"class", "retainPV", "annotatePVC"},
             NEW p \in PVCsOf(a), members[p].pvc.selected, members[p].pvc.finalizer,
             gscene.global \/ members[p].label = "member"
      PROVE  p \in ps
  <2>1. p \in MemberSet /\ members[p].pvc.there
    BY <1>9 DEF PVCsOf, WellFormed, ClaimOK
  <2>2. s.ws[p].pvc = members[p].pvc /\ (members[p].label = "member" => s.ws[p].label = "member")
    BY <1>2, <2>1
  <2>3. /\ u.ws[p].pvc.there /\ u.ws[p].pvc.selected /\ u.ws[p].pvc.finalizer
        /\ members[p].label = "member" => u.ws[p].label = "member"
    BY <1>3, <1>9, <2>1, <2>2 DEF Same, Holds, Keeps
  <2>4. p \in held
    BY <2>3 DEF Held, GroupSelected
  <2>5. p \in q.ready
    BY <1>4, <1>5, <1>9, <2>4 DEF PVCsOf
  <2>6. members[p].label = "member" => q.r.ws[p].label = "member"
    BY <1>5, <2>1, <2>3 DEF SameLabels
  <2>7. p \notin Strays(q.r, q.ready)
    BY <1>9, <2>6 DEF Strays
  <2> QED
    BY <2>5, <2>7
<1> HIDE DEF ps
<1> QED
  BY <1>1, <1>6, <1>8, <1>9 DEF s

\* reconcileVGRForDeletion and what is done where the VGR has gone.
LEMMA GroupUnprotectedForDeletion ==
    ASSUME NEW a, vrgs[a] \in VRGType, NEW f, NEW F, NEW r, PassOK(r), NEW ps \in SUBSET PVCsOf(a)
    PROVE  Demotes(a, r, ps, UnprotectGroup(a, r, ps, f, F))
<1> DEFINE m == reconcileMissingVGR(vrgs[a], r, ps, f, F)
           s == ProcessVGRForDeletion(a, r, ps, f)
           u == undoPVCFinalizersAndPVRetentionForVGR(vrgs[a], s.r, ps, f, F)
<1>1. UnprotectGroup(a, r, ps, f, F) \in {r, m, u, Again(s.r), s.r}
  <2>1. reconcileVGRForDeletion(a, r, ps, f, F) \in {u, Again(s.r), s.r}
    BY DEF reconcileVGRForDeletion, With
  <2> HIDE DEF m, s, u
  <2> QED
    BY <2>1 DEF UnprotectGroup, m
<1>2. ps \in SUBSET MemberSet
  BY DEF PVCsOf
<1>3. Releases(a, r, m) /\ Releases(a, r, r)
  BY Undone, PassesCompose
<1>4. Demotes(a, r, ps, s.r)
  <2>1. CASE vrgs[a].state = "Secondary"
    BY <2>1, ReconciledAsSecondary DEF ProcessVGRForDeletion
  <2>2. CASE vrgs[a].state # "Secondary"
    <3> DEFINE h == createOrUpdateVGR(vrgs[a], r.g, "Primary", f)
               c == Concluded(r, ps, h)
    <3>1. s = OutOf(h.res, c)
      BY <2>2 DEF ProcessVGRForDeletion, With
    <3>2. GroupOK(h.g) /\ VerdictOK(h.verdict) /\ h.g.state \in {r.g.state, "Primary"}
      BY VGRWritten DEF PassOK, Roles
    <3> HIDE DEF h
    <3>3. /\ PassOK(c) /\ c.unused = r.unused /\ c.g = h.g
          /\ \A p \in MemberSet : Frees(r.ws[p], c.ws[p]) /\ (p \notin PVCsOf(a) => c.ws[p] = r.ws[p])
      BY <3>2, ConclusionDrawn
    <3> HIDE DEF c, s
    <3>4. Demotes(a, r, ps, c)
      BY <3>2, <3>3 DEF Demotes
    <3> QED
      BY <3>1, <3>4 DEF OutOf
  <2> QED
    BY <2>1, <2>2
<1> HIDE DEF m, s
<1>5. PassOK(s.r)
  BY <1>4 DEF Demotes
<1>6. Releases(a, s.r, u) /\ Releases(a, s.r, Again(s.r))
  BY <1>5, Undone
<1> HIDE DEF u
<1>7. Demotes(a, r, ps, u) /\ Demotes(a, r, ps, Again(s.r))
  BY <1>2, <1>4, <1>6, DemotionsCompose
<1>8. Demotes(a, r, ps, r) /\ Demotes(a, r, ps, m)
  BY <1>2, <1>3, DemotionsCompose
<1> QED
  BY <1>1, <1>4, <1>7, <1>8

\* A pass over a VRG that is being deleted: it is through only when its group has
\* gone or is going, unless another VRG still has it.
LEMMA DeletionPass ==
    ASSUME WellFormed, NEW a, vrgs[a] \in VRGType, NEW f, NEW F
    PROVE  LET x == GroupDeleted(a, f, F) IN
           /\ Demotes(a, Start(a), {}, x)
           /\ ~x.again /\ Siblings(a) = {} => ~x.g.there \/ x.g.terminating
<1> DEFINE s == Start(a)
           e0 == GroupDeselectedUnprotect(a, s, F)
           hs == {p \in Held(a, e0.ws) : e0.ws[p].st.listed}
           prep == PrepareHeld(e0, hs, F)
           e == prep.r
           ps == prep.ready
           r == UnprotectGroup(a, e, ps, f, F)
           d == deleteVGR(r.g, f)
           b == d.res # "go"
           y1 == [r EXCEPT !.g = d.w]
           y2 == [r EXCEPT !.g.terminating = r.g.there]
           x == GroupDeleted(a, f, F)
<1>1. GroupForDeletion(a, f, F) = r
  BY DEF GroupForDeletion, With
<1>2. PassOK(s)
  BY PassStarts
<1> HIDE DEF s
<1>3. Releases(a, s, e) /\ ps \subseteq hs
  <2>1. Releases(a, s, e0)
    BY <1>2, LeaversLetGo
  <2> HIDE DEF e0
  <2>2. PassOK(e0) /\ hs \in SUBSET PVCsOf(a) /\ \A p \in hs : e0.ws[p].pvc.finalizer
    BY <2>1 DEF Releases, Moves, Held, GroupSelected, PVCsOf
  <2> HIDE DEF hs
  <2>3. Releases(a, e0, e) /\ ps \subseteq hs
    BY <2>2, HeldPrepared
  <2> QED
    BY <2>1, <2>3, PassesCompose
<1>4. PassOK(e) /\ ps \in SUBSET PVCsOf(a) /\ ps \in SUBSET MemberSet
  <2>1. hs \in SUBSET PVCsOf(a) /\ hs \in SUBSET MemberSet
    BY DEF Held, GroupSelected, PVCsOf
  <2> QED
    BY <1>3, <2>1 DEF Releases, Moves
<1> HIDE DEF e0, hs, prep, e, ps
<1>5. Demotes(a, e, ps, r)
  BY <1>4, GroupUnprotectedForDeletion
<1> HIDE DEF r
<1>6. Demotes(a, s, {}, r) /\ PassOK(r)
  <2>1. Demotes(a, s, ps, r)
    BY <1>3, <1>4, <1>5, DemotionsCompose
  <2> QED
    BY <1>4, <1>5, <2>1, DemotionsCompose DEF Demotes
<1>7. /\ GroupOK(d.w) /\ d.w.state = r.g.state
      /\ d.res = "go" => d.w = r.g /\ ~r.g.there
  BY <1>6, VGRDeleted DEF PassOK
<1> HIDE DEF d
<1>8. Releases(a, r, y1) /\ y1.g = d.w /\ PassOK(y1)
  BY <1>6, <1>7, PassSet DEF Releases, Moves
<1>9. Releases(a, r, y2) /\ y2.g.terminating = r.g.there /\ y2.g.there = r.g.there
  <2> DEFINE g == [r.g EXCEPT !.terminating = r.g.there]
  <2>1. r.g \in GroupType /\ GroupOK(r.g) /\ r \in PassType
    BY <1>6 DEF PassOK, GroupOK
  <2>2. g \in GroupType
    BY <2>1 DEF GroupType
  <2>3. /\ g.there = r.g.there /\ g.terminating = r.g.there /\ g.state = r.g.state /\ g.refs = r.g.refs
        /\ g.archived = r.g.archived /\ g.contentArchived = r.g.contentArchived /\ g.s3 = r.g.s3
    BY <2>1 DEF GroupType
  <2>4. y2 = [r EXCEPT !.g = g]
    BY <2>1 DEF PassType
  <2> HIDE DEF g, y2
  <2>5. GroupOK(g)
    BY <2>1, <2>2, <2>3 DEF GroupOK
  <2> QED
    BY <1>6, <2>3, <2>4, <2>5, PassSet
<1> HIDE DEF y1, y2, b
<1> DEFINE y3 == [y1 EXCEPT !.again = b]
<1>10. Releases(a, y1, y3) /\ y3.g = d.w /\ y3.again = b
  <2>1. b \in BOOLEAN
    BY DEF b
  <2> QED
    BY <1>8, <2>1, PassSet
<1>11. \/ r.again /\ x = r
       \/ gscene.global /\ ~isGlobalDeleteInConsensus(a) /\ x = r
       \/ x = y3
       \/ x = y2
  <2>1. x = IF r.again THEN r ELSE IF gscene.global THEN deleteGlobalVGR(a, r, f) ELSE y2
    BY <1>1 DEF GroupDeleted, With, y2
  <2>2. deleteGlobalVGR(a, r, f) = IF ~isGlobalDeleteInConsensus(a) THEN r ELSE [r EXCEPT !.g = d.w, !.again = b]
    BY DEF deleteGlobalVGR, With, d, b
  <2>3. [r EXCEPT !.g = d.w, !.again = b] = y3
    BY <1>6 DEF y1, PassOK, PassType
  <2> HIDE DEF x, y3
  <2> QED
    BY <2>1, <2>2, <2>3
<1> HIDE DEF x, y3
<1>12. Demotes(a, s, {}, x)
  <2>1. Releases(a, r, y3)
    BY <1>8, <1>10, PassesCompose
  <2>2. {} \in SUBSET MemberSet
    OBVIOUS
  <2>3. Demotes(a, s, {}, y3) /\ Demotes(a, s, {}, y2)
    BY <1>6, <1>9, <2>1, <2>2, DemotionsCompose
  <2> QED
    BY <1>6, <1>11, <2>3
<1>13. ~x.again /\ Siblings(a) = {} => ~x.g.there \/ x.g.terminating
  <2>1. Siblings(a) = {} => isGlobalDeleteInConsensus(a)
    BY DEF isGlobalDeleteInConsensus
  <2> QED
    BY <1>7, <1>9, <1>10, <1>11, <2>1 DEF b
<1> QED
  BY <1>12, <1>13 DEF x, s

-----------------------------------------------------------------------------
(* The passes.                                                              *)

\* A pass of any kind leaves alone what is not the VRG's; one as Secondary only
\* lets claims go.
LEMMA PassDone ==
    ASSUME WellFormed, NEW a \in Apps, NEW f, NEW q
    PROVE  LET x == processVRGOfGroup(a, f, q) IN
           /\ PassOK(x)
           /\ \A p \in MemberSet : /\ Keeps(members[p], x.ws[p])
                                   /\ p \notin PVCsOf(a) => x.ws[p] = members[p]
                                   /\ vrgs[a].state = "Secondary" => Frees(members[p], x.ws[p])
           /\ ~x.again /\ vrgs[a].deleted /\ Siblings(a) = {} => ~x.g.there \/ x.g.terminating
           /\ vrgs[a].state # "Secondary" /\ ~vrgs[a].deleted => x.unused # "True"
<1> DEFINE F == GroupAt(f, q)
           s == Start(a)
           x == processVRGOfGroup(a, f, q)
<1>1. vrgs[a] \in VRGType
  BY DEF WellFormed
<1>2. vrgs[a].deleted \in BOOLEAN /\ vrgs[a].state \in {"Primary", "Secondary"}
  BY <1>1 DEF VRGType, Roles
<1>3. \A p \in MemberSet : Frees(members[p], s.ws[p]) /\ (p \notin PVCsOf(a) => s.ws[p] = members[p])
  BY PassStarts
<1>4. ASSUME NEW y, NEW ps, Demotes(a, s, ps, y)
      PROVE  /\ PassOK(y)
             /\ \A p \in MemberSet : /\ Keeps(members[p], y.ws[p]) /\ Frees(members[p], y.ws[p])
                                     /\ p \notin PVCsOf(a) => y.ws[p] = members[p]
  <2> HIDE DEF s
  <2>1. ASSUME NEW p \in MemberSet
        PROVE  /\ Keeps(members[p], y.ws[p]) /\ Frees(members[p], y.ws[p])
               /\ p \notin PVCsOf(a) => y.ws[p] = members[p]
    <3>1. Frees(members[p], s.ws[p]) /\ Frees(s.ws[p], y.ws[p])
      BY <1>3, <1>4 DEF Demotes
    <3>2. Frees(members[p], y.ws[p])
      BY <3>1, StepsCompose
    <3>3. Keeps(members[p], y.ws[p])
      BY <3>2 DEF Frees
    <3>4. p \notin PVCsOf(a) => y.ws[p] = members[p]
      BY <1>3, <1>4 DEF Demotes
    <3> QED
      BY <3>2, <3>3, <3>4
  <2> QED
    BY <1>4, <2>1 DEF Demotes
<1>5. CASE vrgs[a].deleted
  <2> DEFINE y == GroupDeleted(a, f, F)
  <2>1. x = y
    BY <1>5 DEF processVRGOfGroup
  <2>2. Demotes(a, s, {}, y) /\ (~y.again /\ Siblings(a) = {} => ~y.g.there \/ y.g.terminating)
    BY <1>1, DeletionPass
  <2> HIDE DEF y, s
  <2> QED
    BY <1>4, <1>5, <2>1, <2>2
<1>6. CASE ~vrgs[a].deleted /\ vrgs[a].state = "Primary"
  <2> DEFINE y == GroupAsPrimary(a, f, F)
  <2>1. x = y
    BY <1>6 DEF processVRGOfGroup
  <2>2. /\ PassOK(y) /\ y.unused \in {"Keep", "Primary"}
        /\ \A p \in MemberSet : Keeps(members[p], y.ws[p]) /\ (p \notin PVCsOf(a) => y.ws[p] = members[p])
    BY <1>1, PrimaryPass
  <2> HIDE DEF y
  <2> QED
    BY <1>6, <2>1, <2>2
<1>7. CASE ~vrgs[a].deleted /\ vrgs[a].state = "Secondary"
  <2> DEFINE y == GroupAsSecondary(a, f, F)
  <2>1. x = y
    BY <1>7 DEF processVRGOfGroup
  <2>2. PICK ps \in SUBSET PVCsOf(a) : Demotes(a, s, ps, y)
    BY <1>1, SecondaryPass
  <2> HIDE DEF y, s
  <2> QED
    BY <1>4, <1>7, <2>1, <2>2
<1> QED
  BY <1>2, <1>5, <1>6, <1>7

\* The claims of the other VRGs are unused when those have said so, and where
\* the group is not shared there are none.
LEMMA OthersUnused ==
    ASSUME GroupInv, OrderlyInv, OrderlyScene(gscene), NEW a \in Apps, NEW p \in MemberSet,
           gscene.owner[p] # a, members[p].pvc.finalizer, ~vrgs[gscene.owner[p]].deleted,
           gscene.global => areSiblingVRGsReadyForGlobalSecondary(a)
    PROVE  ~members[p].inUse
<1> DEFINE b == gscene.owner[p]
<1>1. b \in Apps /\ p \in PVCsOf(b)
  BY DEF Apps, PVCsOf
<1>2. PICK q \in MemberSet : a = gscene.owner[q]
  BY DEF Apps
<1>3. gscene.global
  BY <1>2, GroupAssumption DEF GroupInv, WellFormed, MemberSet
<1>4. vrgs[b].there
  BY <1>1 DEF GroupInv
<1>5. vrgs[b].unused = "True" /\ vrgs[b].fresh
  BY <1>1, <1>3, <1>4 DEF areSiblingVRGsReadyForGlobalSecondary, isSiblingReadyForGlobalSecondary, Siblings
<1>6. Told(b)
  BY <1>1 DEF OrderlyInv
<1>7. Idle(members[p])
  BY <1>1, <1>5, <1>6 DEF Told
<1> QED
  BY <1>7 DEF Idle

\* A pass in an orderly scene demotes the group only when no held claim in it is
\* in use, and says so only of its own claims that are not.
LEMMA OrderlyPass ==
    ASSUME GroupInv, OrderlyInv, OrderlyScene(gscene), NEW a \in Apps, NEW f, NEW q,
           f = NoFault \/ f.call \in gscene.calls
    PROVE  LET x == processVRGOfGroup(a, f, q) IN
           /\ x.g.state \notin {group.state, "Primary"} =>
                 \A p \in MemberSet :
                    members[p].pvc.finalizer /\ members[p].label = "member" /\ ~vrgs[gscene.owner[p]].deleted
                    => ~members[p].inUse
           /\ x.unused = "True" /\ ~vrgs[a].deleted => \A p \in PVCsOf(a) : Idle(members[p])
<1> DEFINE F == GroupAt(f, q)
           s == Start(a)
           x == processVRGOfGroup(a, f, q)
           C == \A p \in MemberSet :
                    members[p].pvc.finalizer /\ members[p].label = "member" /\ ~vrgs[gscene.owner[p]].deleted
                    => ~members[p].inUse
<1>1. WellFormed /\ vrgs[a] \in VRGType
  BY DEF GroupInv, WellFormed
<1>2. vrgs[a].deleted \in BOOLEAN /\ vrgs[a].state \in {"Primary", "Secondary"}
  BY <1>1 DEF VRGType, Roles
<1>3. s.g = group /\ s.unused = "Keep" /\ \A p \in MemberSet : Frees(members[p], s.ws[p])
  BY <1>1, PassStarts
<1>4. CASE vrgs[a].deleted
  <2> DEFINE y == GroupDeleted(a, f, F)
  <2>1. x = y
    BY <1>4 DEF processVRGOfGroup
  <2>2. Demotes(a, s, {}, y)
    BY <1>1, DeletionPass
  <2> HIDE DEF y, s, x
  <2>3. x.g.state \notin {group.state, "Primary"} => (gscene.global => areSiblingVRGsReadyForGlobalSecondary(a))
    BY <1>3, <2>1, <2>2 DEF Demotes
  <2>4. x.g.state \notin {group.state, "Primary"} => C
    BY <1>4, <2>3, OthersUnused
  <2> QED
    BY <1>4, <2>4 DEF x
<1>5. CASE ~vrgs[a].deleted /\ vrgs[a].state = "Primary"
  <2> DEFINE y == GroupAsPrimary(a, f, F)
  <2>1. x = y
    BY <1>5 DEF processVRGOfGroup
  <2>2. y.unused \in {"Keep", "Primary"} /\ y.g.state \in {group.state, "Primary"}
    BY <1>1, PrimaryPass
  <2> HIDE DEF y
  <2> QED
    BY <2>1, <2>2
<1>6. CASE ~vrgs[a].deleted /\ vrgs[a].state = "Secondary"
  <2> DEFINE y == GroupAsSecondary(a, f, F)
  <2>1. x = y
    BY <1>6 DEF processVRGOfGroup
  <2>2. PICK ps \in SUBSET PVCsOf(a) :
           /\ Demotes(a, s, ps, y)
           /\ (\A p \in MemberSet : F[p].call \notin {"class", "retainPV", "annotatePVC"}) =>
                 \A p \in PVCsOf(a) :
                    /\ members[p].pvc.selected /\ members[p].pvc.finalizer
                    /\ gscene.global \/ members[p].label = "member"
                    => p \in ps
    BY <1>1, SecondaryPass
  <2> HIDE DEF y, s, x
  <2>3. GroupMay("failover") \/ GroupMay("relocate")
    BY <1>6 DEF OrderlyInv
  <2>4. ~GroupMay("deselect") /\ f.call \notin {"class", "retainPV", "annotatePVC"}
    BY <2>3 DEF OrderlyScene, GroupMay, NoFault
  <2>5. \A p \in MemberSet : F[p].call \notin {"class", "retainPV", "annotatePVC"}
    BY <2>4 DEF GroupAt, NoFault
  <2>6. ASSUME NEW p \in PVCsOf(a), members[p].pvc.finalizer, gscene.global \/ members[p].label = "member"
        PROVE  p \in ps
    <3>1. p \in MemberSet /\ members[p].pvc.there
      BY <1>1, <2>6 DEF PVCsOf, WellFormed, ClaimOK
    <3>2. members[p].pvc.selected
      BY <2>4, <3>1 DEF OrderlyInv
    <3> QED
      BY <2>2, <2>5, <2>6, <3>2
  <2>7. ASSUME Unused(a, s, ps), NEW p \in ps
        PROVE  ~members[p].inUse /\ (vrgs[a].action = "Failover" \/ members[p].pvc.terminating)
    <3>1. p \in MemberSet
      BY DEF PVCsOf
    <3>2. s.ws[p].inUse = members[p].inUse /\ s.ws[p].pvc.terminating = members[p].pvc.terminating
      BY <1>3, <3>1 DEF Frees, Keeps
    <3> QED
      BY <2>7, <3>2 DEF Unused, isPVCReadyForSecondary
  <2>8. ASSUME x.g.state \notin {group.state, "Primary"} PROVE C
    <3>1. Unused(a, s, ps) /\ (gscene.global => areSiblingVRGsReadyForGlobalSecondary(a))
      BY <1>3, <2>1, <2>2, <2>8 DEF Demotes
    <3> SUFFICES ASSUME NEW p \in MemberSet, members[p].pvc.finalizer, members[p].label = "member",
                        ~vrgs[gscene.owner[p]].deleted
                 PROVE  ~members[p].inUse
      OBVIOUS
    <3>2. CASE gscene.owner[p] = a
      BY <2>6, <2>7, <3>1, <3>2 DEF PVCsOf
    <3>3. CASE gscene.owner[p] # a
      BY <3>1, <3>3, OthersUnused
    <3> QED
      BY <3>2, <3>3
  <2>9. ASSUME x.unused = "True", NEW p \in PVCsOf(a) PROVE Idle(members[p])
    <3>1. gscene.global /\ Unused(a, s, ps)
      BY <1>3, <2>1, <2>2, <2>9 DEF Demotes
    <3>2. members[p].pvc.finalizer =>
             ~members[p].inUse /\ (vrgs[a].action = "Failover" \/ members[p].pvc.terminating)
      BY <2>6, <2>7, <3>1
    <3>3. GroupMay("pods") => vrgs[a].action # "Failover"
      BY <2>3 DEF OrderlyInv, OrderlyScene, GroupMay
    <3> QED
      BY <3>2, <3>3 DEF Idle
  <2> QED
    BY <2>8, <2>9 DEF x
<1> QED
  BY <1>2, <1>4, <1>5, <1>6

-----------------------------------------------------------------------------
(* The invariants.                                                          *)

\* What a step has to show.
LEMMA InvariantKept ==
    ASSUME gscene \in GroupScenes, gscene' = gscene,
           vrgs' \in [Apps -> VRGType],
           members' \in [MemberSet -> MemberType], \A p \in MemberSet : ClaimOK(members'[p]),
           GroupOK(group'),
           gchanges' \in 0..gscene.changes, gfaults' \in 0..gscene.faults,
           \A a \in Apps : ~vrgs'[a].there => vrgs'[a].deleted,
           (\A a \in Apps : ~vrgs'[a].there) => ~group'.there \/ group'.terminating
    PROVE  GroupInv'
<1>1. Apps' = Apps
  BY DEF Apps
<1> QED
  BY <1>1 DEF GroupInv, WellFormed

\* The same in an orderly scene.
LEMMA OrderKept ==
    ASSUME gscene' = gscene,
           OrderlyScene(gscene) =>
             /\ ~GroupMay("failover") => \A a \in Apps : vrgs'[a].action # "Failover"
             /\ ~(GroupMay("failover") \/ GroupMay("relocate")) => \A a \in Apps : vrgs'[a].state = "Primary"
             /\ ~GroupMay("deselect") => \A p \in MemberSet : members'[p].pvc.there => members'[p].pvc.selected
             /\ \A a \in Apps : vrgs'[a].unused = "True" /\ vrgs'[a].fresh /\ ~vrgs'[a].deleted =>
                   vrgs'[a].state = "Secondary" /\ \A p \in PVCsOf(a) : Idle(members'[p])
    PROVE  OrderlyInv'
<1>1. Apps' = Apps /\ (\A a : PVCsOf(a)' = PVCsOf(a)) /\ (\A act : GroupMay(act)' = GroupMay(act))
  BY DEF Apps, PVCsOf, GroupMay
<1> QED
  BY <1>1 DEF OrderlyInv, Told, Idle

\* The status is not saved.
LEMMA StatusLost ==
    ASSUME WellFormed, NEW a, NEW x, PassOK(x)
    PROVE  LET ws == Unstored(a, x.ws) IN
           /\ ws \in [MemberSet -> MemberType]
           /\ \A p \in MemberSet : /\ Same(x.ws[p], ws[p])
                                   /\ p \notin PVCsOf(a) => ws[p] = x.ws[p]
<1> DEFINE ws == Unstored(a, x.ws)
<1>1. x.ws \in [MemberSet -> MemberType] /\ \A p \in MemberSet : ClaimOK(x.ws[p])
  BY DEF PassOK, PassType
<1>2. \A p \in MemberSet : Same(x.ws[p], x.ws[p])
  BY <1>1, StepsCompose
<1>3. ASSUME NEW p \in MemberSet PROVE Same(x.ws[p], [x.ws[p] EXCEPT !.st = members[p].st])
  <2> DEFINE w == x.ws[p]
             y == [w EXCEPT !.st = members[p].st]
  <2>1. w \in MemberType /\ ClaimOK(w)
    BY <1>1
  <2>2. members[p].st \in StatusType
    BY DEF WellFormed, MemberType
  <2> HIDE DEF w
  <2>3. y \in MemberType /\ y.pvc = w.pvc /\ y.label = w.label /\ y.inUse = w.inUse
    BY <2>1, <2>2, FieldsSet
  <2> HIDE DEF y
  <2>4. Same(w, y)
    BY <2>1, <2>3, OthersSame
  <2> QED
    BY <2>4 DEF w, y
<1>4. \A p \in MemberSet : Same(x.ws[p], ws[p]) /\ (p \notin PVCsOf(a) => ws[p] = x.ws[p])
  BY <1>2, <1>3 DEF Unstored
<1>5. ws = [p \in MemberSet |-> ws[p]]
  BY DEF Unstored
<1> HIDE DEF ws
<1>6. ws \in [MemberSet -> MemberType]
  BY <1>4, <1>5 DEF Same, Holds, Keeps, ClaimOK
<1> QED
  BY <1>4, <1>6 DEF ws

\* A pass keeps both invariants.
LEMMA PassKeeps ==
    ASSUME GroupInv, OrderlyInv, NEW a \in Apps, NEW f \in GroupFaults, NEW q \in MemberSet, GroupPass(a, f, q)
    PROVE  GroupInv' /\ OrderlyInv'
<1> DEFINE x == processVRGOfGroup(a, f, q)
           lost == vrgs[a].deleted \/ f.call = "saveStatus"
           ws == IF lost THEN Unstored(a, x.ws) ELSE x.ws
           told == ~lost /\ x.unused # "Keep"
<1>1. WellFormed /\ vrgs \in [Apps -> VRGType] /\ vrgs[a] \in VRGType
  BY DEF GroupInv, WellFormed
<1>2. lost \in BOOLEAN /\ vrgs[a].there /\ gscene' = gscene /\ gchanges' = gchanges
  BY <1>1 DEF GroupPass, VRGType
<1>3. members' = ws /\ group' = x.g
  BY DEF GroupPass
<1>4. vrgs' = [vrgs EXCEPT ![a].there = ~vrgs[a].deleted \/ x.again,
                           ![a].unused = IF told THEN x.unused ELSE @,
                           ![a].fresh = @ \/ told]
  BY DEF GroupPass
<1>5. /\ PassOK(x)
      /\ \A p \in MemberSet : /\ Keeps(members[p], x.ws[p])
                              /\ p \notin PVCsOf(a) => x.ws[p] = members[p]
                              /\ vrgs[a].state = "Secondary" => Frees(members[p], x.ws[p])
      /\ ~x.again /\ vrgs[a].deleted /\ Siblings(a) = {} => ~x.g.there \/ x.g.terminating
      /\ vrgs[a].state # "Secondary" /\ ~vrgs[a].deleted => x.unused # "True"
  BY <1>1, PassDone
<1>6. OrderlyScene(gscene) => (x.unused = "True" /\ ~vrgs[a].deleted => \A p \in PVCsOf(a) : Idle(members[p]))
  <2>1. f = NoFault \/ f.call \in gscene.calls
    BY DEF GroupPass
  <2> QED
    BY <2>1, OrderlyPass
<1> HIDE DEF x
<1>7. /\ ws \in [MemberSet -> MemberType]
      /\ \A p \in MemberSet : Same(x.ws[p], ws[p]) /\ (p \notin PVCsOf(a) => ws[p] = x.ws[p])
  <2> DEFINE us == Unstored(a, x.ws)
  <2>1. PassOK(x)
    BY <1>5
  <2>2. WellFormed
    BY <1>1
  <2>3. /\ us \in [MemberSet -> MemberType]
        /\ \A p \in MemberSet : Same(x.ws[p], us[p]) /\ (p \notin PVCsOf(a) => us[p] = x.ws[p])
    BY <2>1, <2>2, StatusLost
  <2>4. x.ws \in [MemberSet -> MemberType] /\ \A p \in MemberSet : Same(x.ws[p], x.ws[p])
    BY <2>1, StepsCompose DEF PassOK, PassType
  <2>5. ws = IF lost THEN us ELSE x.ws
    OBVIOUS
  <2> HIDE DEF us, ws, lost
  <2> QED
    BY <2>3, <2>4, <2>5
<1> HIDE DEF ws, lost
<1>8. /\ x.unused \in Tellings \cup {"Keep"} /\ x.again \in BOOLEAN /\ GroupOK(x.g)
  BY <1>5 DEF PassOK, PassType
<1>9. /\ vrgs' \in [Apps -> VRGType]
      /\ \A b \in Apps : b # a => vrgs'[b] = vrgs[b]
      /\ vrgs'[a].there = (~vrgs[a].deleted \/ x.again) /\ vrgs'[a].deleted = vrgs[a].deleted
      /\ vrgs'[a].state = vrgs[a].state /\ vrgs'[a].action = vrgs[a].action
      /\ vrgs'[a].unused = (IF told THEN x.unused ELSE vrgs[a].unused)
      /\ vrgs'[a].fresh = (vrgs[a].fresh \/ told)
  <2> DEFINE v == [vrgs[a] EXCEPT !.there = ~vrgs[a].deleted \/ x.again,
                                  !.unused = IF told THEN x.unused ELSE @,
                                  !.fresh = @ \/ told]
  <2>1. vrgs' = [vrgs EXCEPT ![a] = v]
    BY <1>1, <1>4 DEF VRGType
  <2>2. v \in VRGType
    <3> DEFINE t == ~vrgs[a].deleted \/ x.again
               u == IF told THEN x.unused ELSE vrgs[a].unused
               n == vrgs[a].fresh \/ told
    <3>1. v = [vrgs[a] EXCEPT !.there = t, !.unused = u, !.fresh = n]
      OBVIOUS
    <3>2. t \in BOOLEAN /\ n \in BOOLEAN
      OBVIOUS
    <3>3. u \in Tellings
      BY <1>1, <1>8 DEF VRGType
    <3> HIDE DEF t, u, n, v
    <3> QED
      BY <1>1, <3>1, <3>2, <3>3 DEF VRGType
  <2>3. /\ v.there = (~vrgs[a].deleted \/ x.again) /\ v.deleted = vrgs[a].deleted
        /\ v.state = vrgs[a].state /\ v.action = vrgs[a].action
        /\ v.unused = (IF told THEN x.unused ELSE vrgs[a].unused)
        /\ v.fresh = (vrgs[a].fresh \/ told)
    BY <1>1 DEF VRGType
  <2> HIDE DEF v
  <2> QED
    BY <1>1, <2>1, <2>2, <2>3
<1>10. ASSUME NEW p \in MemberSet
       PROVE  /\ Keeps(members[p], ws[p]) /\ (p \notin PVCsOf(a) => ws[p] = members[p])
              /\ vrgs[a].state = "Secondary" => Frees(members[p], ws[p])
  <2>1. Keeps(x.ws[p], ws[p]) /\ Frees(x.ws[p], ws[p]) /\ (p \notin PVCsOf(a) => ws[p] = x.ws[p])
    BY <1>7 DEF Same, Frees
  <2>2. Keeps(members[p], x.ws[p]) /\ (p \notin PVCsOf(a) => x.ws[p] = members[p])
    BY <1>5
  <2>3. Keeps(members[p], ws[p])
    BY <2>1, <2>2, StepsCompose
  <2>4. ASSUME vrgs[a].state = "Secondary" PROVE Frees(members[p], ws[p])
    <3>1. Frees(members[p], x.ws[p])
      BY <1>5, <2>4
    <3> QED
      BY <2>1, <3>1, StepsCompose
  <2> QED
    BY <2>1, <2>2, <2>3, <2>4
<1>11. GroupInv'
  <2>1. gfaults' \in 0..gscene.faults /\ gchanges \in 0..gscene.changes /\ gscene \in GroupScenes
    <3>1. gscene.faults \in Nat
      BY <1>1, GroupAssumption DEF WellFormed, GroupSceneType
    <3> QED
      BY <1>1, <3>1 DEF WellFormed, GroupPass
  <2>2. \A p \in MemberSet : ClaimOK(ws[p])
    BY <1>10 DEF Keeps
  <2>3. \A b \in Apps : ~vrgs'[b].there => vrgs'[b].deleted
    BY <1>9 DEF GroupInv
  <2>4. ASSUME \A b \in Apps : ~vrgs'[b].there PROVE ~x.g.there \/ x.g.terminating
    <3>1. vrgs[a].deleted /\ ~x.again
      BY <1>9, <2>4
    <3>2. Siblings(a) = {}
      BY <1>9, <2>4 DEF Siblings
    <3> QED
      BY <1>5, <3>1, <3>2
  <2> QED
    BY <1>2, <1>3, <1>7, <1>8, <1>9, <2>1, <2>2, <2>3, <2>4, InvariantKept
<1>12. OrderlyInv'
  <2> SUFFICES ASSUME OrderlyScene(gscene)
               PROVE  /\ ~GroupMay("failover") => \A b \in Apps : vrgs'[b].action # "Failover"
                      /\ ~(GroupMay("failover") \/ GroupMay("relocate")) => \A b \in Apps : vrgs'[b].state = "Primary"
                      /\ ~GroupMay("deselect") => \A p \in MemberSet : members'[p].pvc.there => members'[p].pvc.selected
                      /\ \A b \in Apps : vrgs'[b].unused = "True" /\ vrgs'[b].fresh /\ ~vrgs'[b].deleted =>
                            vrgs'[b].state = "Secondary" /\ \A p \in PVCsOf(b) : Idle(members'[p])
    BY <1>2, OrderKept
  <2>1. /\ ~GroupMay("failover") => \A b \in Apps : vrgs'[b].action # "Failover"
        /\ ~(GroupMay("failover") \/ GroupMay("relocate")) => \A b \in Apps : vrgs'[b].state = "Primary"
    BY <1>9 DEF OrderlyInv
  <2>2. ~GroupMay("deselect") => \A p \in MemberSet : members'[p].pvc.there => members'[p].pvc.selected
    BY <1>3, <1>10 DEF OrderlyInv, Keeps
  <2>3. ASSUME NEW b \in Apps, vrgs'[b].unused = "True", vrgs'[b].fresh, ~vrgs'[b].deleted
        PROVE  vrgs'[b].state = "Secondary" /\ \A p \in PVCsOf(b) : Idle(members'[p])
    <3>1. CASE b = a
      <4>1. vrgs[a].state = "Secondary" /\ \A p \in PVCsOf(a) : Idle(members[p])
        <5>1. CASE told
          BY <1>5, <1>6, <1>9, <2>3, <3>1, <5>1
        <5>2. CASE ~told
          <6>1. vrgs'[a].unused = vrgs[a].unused /\ (vrgs'[a].fresh => vrgs[a].fresh)
                /\ vrgs'[a].deleted = vrgs[a].deleted
            BY <1>9, <5>2
          <6>2. vrgs[a].unused = "True" /\ vrgs[a].fresh /\ ~vrgs[a].deleted
            BY <2>3, <3>1, <6>1
          <6> QED
            BY <6>2 DEF OrderlyInv, Told
        <5> QED
          BY <5>1, <5>2
      <4>2. ASSUME NEW p \in PVCsOf(a) PROVE Idle(ws[p])
        <5>1. Frees(members[p], ws[p])
          BY <1>10, <4>1 DEF PVCsOf
        <5> QED
          BY <4>1, <5>1 DEF Idle, Frees, Keeps
      <4> QED
        BY <1>3, <1>9, <3>1, <4>1, <4>2
    <3>2. CASE b # a
      <4>1. vrgs[b].state = "Secondary" /\ \A p \in PVCsOf(b) : Idle(members[p])
        BY <1>9, <2>3, <3>2 DEF OrderlyInv, Told
      <4>2. \A p \in PVCsOf(b) : ws[p] = members[p]
        BY <1>10, <3>2 DEF PVCsOf
      <4> QED
        BY <1>3, <1>9, <3>2, <4>1, <4>2
    <3> QED
      BY <3>1, <3>2
  <2> QED
    BY <2>1, <2>2, <2>3
<1> QED
  BY <1>11, <1>12

\* The hub changes one VRG, whose condition is then about an older generation.
LEMMA VRGChanged ==
    ASSUME GroupInv, OrderlyInv, NEW a \in Apps, NEW v \in VRGType, ChangeVRG(a, v), v.there,
           v.action = "Failover" => vrgs[a].action = "Failover" \/ GroupMay("failover"),
           v.state = "Secondary" => vrgs[a].state = "Secondary" \/ GroupMay("failover") \/ GroupMay("relocate")
    PROVE  GroupInv' /\ OrderlyInv'
<1> DEFINE u == [v EXCEPT !.fresh = FALSE]
<1>1. /\ vrgs \in [Apps -> VRGType] /\ vrgs' = [vrgs EXCEPT ![a] = u]
      /\ gscene' = gscene /\ members' = members /\ group' = group /\ gfaults' = gfaults
  BY DEF GroupInv, WellFormed, ChangeVRG
<1>2. u \in VRGType /\ u.there /\ ~u.fresh /\ u.action = v.action /\ u.state = v.state
  BY DEF VRGType
<1> HIDE DEF u
<1>3. vrgs' \in [Apps -> VRGType] /\ vrgs'[a] = u /\ \A b \in Apps : b # a => vrgs'[b] = vrgs[b]
  BY <1>1, <1>2
<1>4. GroupInv'
  <2>1. gchanges' \in 0..gscene.changes
    <3>1. gscene.changes \in Nat
      BY GroupAssumption DEF GroupInv, WellFormed, GroupSceneType
    <3> QED
      BY <3>1 DEF GroupInv, WellFormed, ChangeVRG
  <2>2. \A b \in Apps : ~vrgs'[b].there => vrgs'[b].deleted
    BY <1>2, <1>3 DEF GroupInv
  <2>3. ~ \A b \in Apps : ~vrgs'[b].there
    BY <1>2, <1>3
  <2> QED
    BY <1>1, <1>3, <2>1, <2>2, <2>3, InvariantKept DEF GroupInv, WellFormed
<1>5. OrderlyInv'
  <2>1. v.state \in {"Primary", "Secondary"}
    BY DEF VRGType, Roles
  <2>2. ASSUME OrderlyScene(gscene)
        PROVE  /\ ~GroupMay("failover") => \A b \in Apps : vrgs'[b].action # "Failover"
               /\ ~(GroupMay("failover") \/ GroupMay("relocate")) => \A b \in Apps : vrgs'[b].state = "Primary"
    BY <1>2, <1>3, <2>1, <2>2 DEF OrderlyInv
  <2>3. ASSUME OrderlyScene(gscene), NEW b \in Apps, vrgs'[b].unused = "True", vrgs'[b].fresh, ~vrgs'[b].deleted
        PROVE  vrgs'[b].state = "Secondary" /\ \A p \in PVCsOf(b) : Idle(members'[p])
    <3>1. b # a
      BY <1>2, <1>3, <2>3
    <3> QED
      BY <1>1, <1>3, <2>3, <3>1 DEF OrderlyInv, Told
  <2>4. OrderlyScene(gscene) /\ ~GroupMay("deselect") =>
           \A p \in MemberSet : members'[p].pvc.there => members'[p].pvc.selected
    BY <1>1 DEF OrderlyInv
  <2> QED
    BY <1>1, <2>2, <2>3, <2>4, OrderKept
<1> QED
  BY <1>4, <1>5

\* Promotion, deletion and demotion.
LEMMA HubKeeps ==
    ASSUME GroupInv, OrderlyInv, NEW a \in Apps, HubChanges(a)
    PROVE  GroupInv' /\ OrderlyInv'
<1>1. vrgs[a] \in VRGType
  BY DEF GroupInv, WellFormed
<1>2. ASSUME NEW action \in {"Failover", "Relocate"}, HubDemotesVRG(a, action) PROVE GroupInv' /\ OrderlyInv'
  <2> DEFINE v == [vrgs[a] EXCEPT !.state = "Secondary", !.action = action]
  <2>1. v \in VRGType /\ v.there = vrgs[a].there /\ v.state = "Secondary" /\ v.action = action
    BY <1>1 DEF VRGType, Roles
  <2>2. ChangeVRG(a, v) /\ vrgs[a].there /\ GroupMay(IF action = "Failover" THEN "failover" ELSE "relocate")
    BY <1>2 DEF HubDemotesVRG, ChangeVRG
  <2> HIDE DEF v
  <2> QED
    BY <2>1, <2>2, VRGChanged
<1>3. ASSUME HubPromotesVRG(a) PROVE GroupInv' /\ OrderlyInv'
  <2> DEFINE v == [vrgs[a] EXCEPT !.state = "Primary"]
  <2>1. v \in VRGType /\ v.there = vrgs[a].there /\ v.state = "Primary" /\ v.action = vrgs[a].action
    BY <1>1 DEF VRGType, Roles
  <2>2. ChangeVRG(a, v) /\ vrgs[a].there
    BY <1>3 DEF HubPromotesVRG, ChangeVRG
  <2> HIDE DEF v
  <2> QED
    BY <2>1, <2>2, VRGChanged
<1>4. ASSUME HubDeletesVRG(a) PROVE GroupInv' /\ OrderlyInv'
  <2> DEFINE v == [vrgs[a] EXCEPT !.deleted = TRUE]
  <2>1. v \in VRGType /\ v.there = vrgs[a].there /\ v.state = vrgs[a].state /\ v.action = vrgs[a].action
    BY <1>1 DEF VRGType
  <2>2. ChangeVRG(a, v) /\ vrgs[a].there
    BY <1>4 DEF HubDeletesVRG, ChangeVRG
  <2> HIDE DEF v
  <2> QED
    BY <2>1, <2>2, VRGChanged
<1> QED
  BY <1>2, <1>3, <1>4 DEF HubChanges

\* One claim changes, or is used by a pod.
LEMMA MemberChanged ==
    ASSUME GroupInv, OrderlyInv, NEW p \in MemberSet, NEW w, Member(p, w), ClaimOK(w),
           ~GroupMay("deselect") /\ (members[p].pvc.there => members[p].pvc.selected)
              => (w.pvc.there => w.pvc.selected),
           Idle(members[p]) => Idle(w)
    PROVE  GroupInv' /\ OrderlyInv'
<1>1. /\ members \in [MemberSet -> MemberType] /\ members' = [members EXCEPT ![p] = w]
      /\ gscene' = gscene /\ vrgs' = vrgs /\ group' = group /\ gchanges' = gchanges /\ gfaults' = gfaults
  BY DEF GroupInv, WellFormed, Member
<1>2. /\ members' \in [MemberSet -> MemberType] /\ members'[p] = w
      /\ \A q \in MemberSet : q # p => members'[q] = members[q]
  BY <1>1 DEF ClaimOK
<1>3. GroupInv'
  <2>1. \A q \in MemberSet : ClaimOK(members'[q])
    BY <1>2 DEF GroupInv, WellFormed
  <2> QED
    BY <1>1, <1>2, <2>1, InvariantKept DEF GroupInv, WellFormed
<1>4. OrderlyInv'
  <2>1. OrderlyScene(gscene) /\ ~GroupMay("deselect") =>
           \A q \in MemberSet : members'[q].pvc.there => members'[q].pvc.selected
    BY <1>2 DEF OrderlyInv
  <2>2. \A q \in MemberSet : Idle(members[q]) => Idle(members'[q])
    BY <1>2
  <2>3. ASSUME OrderlyScene(gscene), NEW b \in Apps, vrgs'[b].unused = "True", vrgs'[b].fresh, ~vrgs'[b].deleted
        PROVE  vrgs'[b].state = "Secondary" /\ \A q \in PVCsOf(b) : Idle(members'[q])
    BY <1>1, <2>2, <2>3 DEF OrderlyInv, Told, PVCsOf
  <2>4. OrderlyScene(gscene) =>
           /\ ~GroupMay("failover") => \A b \in Apps : vrgs'[b].action # "Failover"
           /\ ~(GroupMay("failover") \/ GroupMay("relocate")) => \A b \in Apps : vrgs'[b].state = "Primary"
    BY <1>1 DEF OrderlyInv
  <2> QED
    BY <1>1, <2>1, <2>3, <2>4, OrderKept
<1> QED
  BY <1>3, <1>4

\* The driver changes the group, in all but its role.
LEMMA GroupChanged ==
    ASSUME GroupInv, OrderlyInv, NEW g, Group(g), GroupOK(g),
           ~group.there \/ group.terminating => ~g.there \/ g.terminating
    PROVE  GroupInv' /\ OrderlyInv'
<1>1. /\ gscene' = gscene /\ vrgs' = vrgs /\ members' = members /\ group' = g
      /\ gchanges' = gchanges /\ gfaults' = gfaults
  BY DEF Group
<1>2. GroupInv'
  BY <1>1, InvariantKept DEF GroupInv, WellFormed
<1>3. OrderlyInv'
  BY <1>1, OrderKept DEF OrderlyInv, Told
<1> QED
  BY <1>2, <1>3

\* The user, the pods and Kubernetes.
LEMMA MembersKeep ==
    ASSUME GroupInv, OrderlyInv, NEW p \in MemberSet,
           \/ UserDeletesMember(p) \/ UserDeselectsMember(p)
           \/ MemberPodStarts(p) \/ MemberPodStops(p) \/ MemberRemoved(p)
    PROVE  GroupInv' /\ OrderlyInv' /\ group' = group
<1> DEFINE w == members[p]
<1>1. ClaimOK(w) /\ w \in MemberType /\ w.pvc \in PVCType /\ w.pv \in MemberPVType
  BY DEF GroupInv, WellFormed, MemberType
<1> HIDE DEF w
<1>2. CASE UserDeletesMember(p)
  <2> DEFINE c == [w.pvc EXCEPT !.terminating = TRUE]
             x == [w EXCEPT !.pvc = c]
  <2>1. c \in PVCType /\ c.there = w.pvc.there /\ c.selected = w.pvc.selected /\ c.finalizer = w.pvc.finalizer
        /\ c.bound = w.pvc.bound /\ c.owner = w.pvc.owner /\ c.terminating
    BY <1>1 DEF PVCType
  <2>2. Member(p, x)
    <3>1. x = [w EXCEPT !.pvc.terminating = TRUE]
      BY <1>1 DEF MemberType
    <3> QED
      BY <1>2, <3>1 DEF UserDeletesMember, w
  <2> HIDE DEF c
  <2>3. x \in MemberType /\ x.pvc = c /\ x.inUse = w.inUse
    BY <1>1, <2>1, FieldsSet
  <2> HIDE DEF x
  <2>4. ClaimOK(x) /\ (Idle(w) => Idle(x)) /\ x.pvc.there = w.pvc.there /\ x.pvc.selected = w.pvc.selected
    BY <1>1, <2>1, <2>3 DEF ClaimOK, Idle
  <2> QED
    BY <2>2, <2>4, MemberChanged DEF w, Member
<1>3. CASE UserDeselectsMember(p)
  <2> DEFINE c == [w.pvc EXCEPT !.selected = FALSE]
             x == [w EXCEPT !.pvc = c]
  <2>1. c \in PVCType /\ c.there = w.pvc.there /\ c.finalizer = w.pvc.finalizer
        /\ c.bound = w.pvc.bound /\ c.owner = w.pvc.owner /\ c.terminating = w.pvc.terminating
    BY <1>1 DEF PVCType
  <2>2. Member(p, x) /\ GroupMay("deselect")
    <3>1. x = [w EXCEPT !.pvc.selected = FALSE]
      BY <1>1 DEF MemberType
    <3> QED
      BY <1>3, <3>1 DEF UserDeselectsMember, w
  <2> HIDE DEF c
  <2>3. x \in MemberType /\ x.pvc = c /\ x.inUse = w.inUse
    BY <1>1, <2>1, FieldsSet
  <2> HIDE DEF x
  <2>4. ClaimOK(x) /\ (Idle(w) => Idle(x))
    BY <1>1, <2>1, <2>3 DEF ClaimOK, Idle
  <2> QED
    BY <2>2, <2>4, MemberChanged DEF w, Member
<1>4. CASE MemberPodStarts(p)
  <2> DEFINE x == [w EXCEPT !.inUse = TRUE]
  <2>1. Member(p, x) /\ GroupMay("pods") /\ ~w.pvc.terminating
    BY <1>4 DEF MemberPodStarts, w
  <2>2. x \in MemberType /\ x.pvc = w.pvc
    BY <1>1 DEF MemberType
  <2> HIDE DEF x
  <2>3. ClaimOK(x)
    BY <1>1, <2>2 DEF ClaimOK
  <2>4. Idle(w) => ~w.pvc.finalizer
    BY <2>1 DEF Idle
  <2>5. Idle(w) => Idle(x)
    BY <2>2, <2>4 DEF Idle
  <2> QED
    BY <2>1, <2>2, <2>3, <2>5, MemberChanged DEF w, Member
<1>5. CASE MemberPodStops(p)
  <2> DEFINE x == [w EXCEPT !.inUse = FALSE]
  <2>1. Member(p, x)
    BY <1>5 DEF MemberPodStops, w
  <2>2. x \in MemberType /\ x.pvc = w.pvc /\ ~x.inUse
    BY <1>1 DEF MemberType
  <2> HIDE DEF x
  <2>3. ClaimOK(x) /\ (Idle(w) => Idle(x))
    BY <1>1, <2>2 DEF ClaimOK, Idle
  <2> QED
    BY <2>1, <2>2, <2>3, MemberChanged DEF w, Member
<1>6. CASE MemberRemoved(p)
  <2> DEFINE v == [w.pv EXCEPT !.phase = IF w.pv.retain THEN "Released" ELSE "None"]
             x == [w EXCEPT !.pvc = NoClaim, !.label = "none", !.pv = v]
  <2>1. v \in MemberPVType
    BY <1>1 DEF MemberPVType
  <2>2. NoClaim \in PVCType /\ ~NoClaim.there /\ ~NoClaim.finalizer /\ ~NoClaim.bound /\ NoClaim.owner = "none"
    BY DEF NoClaim, PVCType
  <2>3. Member(p, x)
    <3>1. x = [w EXCEPT !.pvc = NoClaim, !.label = "none",
                        !.pv.phase = IF w.pv.retain THEN "Released" ELSE "None"]
      BY <1>1 DEF MemberType
    <3> QED
      BY <1>6, <3>1 DEF MemberRemoved, w
  <2> HIDE DEF v
  <2>4. x \in MemberType /\ x.pvc = NoClaim
    BY <1>1, <2>1, <2>2 DEF MemberType
  <2> HIDE DEF x
  <2>5. ClaimOK(x) /\ Idle(x) /\ ~x.pvc.there
    BY <2>2, <2>4 DEF ClaimOK, Idle
  <2> QED
    BY <2>3, <2>5, MemberChanged DEF Member
<1> QED
  BY <1>2, <1>3, <1>4, <1>5, <1>6

\* The storage driver.
LEMMA DriverKeeps ==
    ASSUME GroupInv, OrderlyInv,
           DriverGathers \/ DriverAnswers \/ DriverNamesDestination \/ DriverReleasesVGR
    PROVE  GroupInv' /\ OrderlyInv' /\ group'.state = group.state
<1> DEFINE g == group
<1>1. GroupOK(g) /\ g \in GroupType
  BY DEF GroupInv, WellFormed, GroupOK
<1> HIDE DEF g
<1>2. CASE DriverGathers
  <2> DEFINE x == [g EXCEPT !.refs = InGroup]
  <2>1. Group(x) /\ g.there /\ ~g.terminating
    BY <1>2 DEF DriverGathers, g
  <2>2. InGroup \in SUBSET MemberSet
    BY DEF InGroup
  <2>3. /\ x \in GroupType /\ x.there = g.there /\ x.terminating = g.terminating /\ x.state = g.state
        /\ x.archived = g.archived /\ x.contentArchived = g.contentArchived /\ x.s3 = g.s3
    BY <1>1, <2>2 DEF GroupType
  <2> HIDE DEF x
  <2>4. GroupOK(x)
    BY <1>1, <2>1, <2>3 DEF GroupOK
  <2> QED
    BY <2>1, <2>3, <2>4, GroupChanged DEF g, Group
<1>3. CASE DriverAnswers
  <2> DEFINE y == IF g.content THEN g ELSE OutdatedGroup(g)
             x == [y EXCEPT !.content = TRUE, !.observed = TRUE, !.role = g.state, !.cond = GroupReport(g.state)]
  <2>1. Group(x) /\ g.there /\ ~g.terminating
    BY <1>3 DEF DriverAnswers, g
  <2>2. GroupOK(y) /\ y.state = g.state /\ y.there = g.there
    BY <1>1, GroupOutdated
  <2>3. GroupReport(g.state) \in [DOMAIN NoConditions -> Readings] /\ g.state \in Roles \cup {"None"}
    BY <1>1 DEF GroupReport, NoConditions, Readings, GroupType
  <2> HIDE DEF y
  <2>4. /\ x \in GroupType /\ x.there = y.there /\ x.terminating = y.terminating /\ x.state = y.state
        /\ x.refs = y.refs /\ x.archived = y.archived /\ x.contentArchived = y.contentArchived /\ x.s3 = y.s3
    BY <2>2, <2>3 DEF GroupType, GroupOK
  <2> HIDE DEF x
  <2>5. GroupOK(x)
    BY <2>2, <2>4 DEF GroupOK
  <2> QED
    BY <2>1, <2>2, <2>4, <2>5, GroupChanged DEF g, Group
<1>4. CASE DriverNamesDestination
  <2> DEFINE x == [g EXCEPT !.destination = IF g.destination = "Missing" THEN "False" ELSE "True"]
  <2>1. Group(x)
    BY <1>4 DEF DriverNamesDestination, g
  <2>2. /\ x \in GroupType /\ x.there = g.there /\ x.terminating = g.terminating /\ x.state = g.state
        /\ x.refs = g.refs /\ x.archived = g.archived /\ x.contentArchived = g.contentArchived /\ x.s3 = g.s3
    BY <1>1 DEF GroupType
  <2> HIDE DEF x
  <2>3. GroupOK(x)
    BY <1>1, <2>2 DEF GroupOK
  <2> QED
    BY <2>1, <2>2, <2>3, GroupChanged DEF g, Group
<1>5. CASE DriverReleasesVGR
  <2> DEFINE x == [g EXCEPT !.there = FALSE, !.terminating = FALSE, !.refs = {}]
  <2>1. Group(x)
    BY <1>5 DEF DriverReleasesVGR, g
  <2>2. /\ x \in GroupType /\ ~x.there /\ ~x.terminating /\ x.state = g.state
        /\ x.refs = {} /\ x.archived = g.archived /\ x.contentArchived = g.contentArchived /\ x.s3 = g.s3
    BY <1>1 DEF GroupType
  <2> HIDE DEF x
  <2>3. GroupOK(x)
    BY <1>1, <2>2 DEF GroupOK
  <2> QED
    BY <2>1, <2>2, <2>3, GroupChanged DEF g, Group
<1> QED
  BY <1>2, <1>3, <1>4, <1>5

\* At first the applications run and nothing is protected.
LEMMA GroupInitially == ASSUME InitGroup PROVE GroupInv /\ OrderlyInv
<1>1. gscene \in GroupScenes /\ gscene.changes \in Nat /\ gscene.faults \in Nat
  BY GroupAssumption DEF InitGroup, GroupSceneType
<1>2. \A a \in Apps : vrgs[a] = InitVRG
  BY DEF InitGroup
<1>3. /\ InitVRG \in VRGType /\ InitVRG.there /\ InitVRG.state = "Primary" /\ InitVRG.action = "None"
      /\ InitVRG.unused = "None"
  BY DEF InitVRG, VRGType, Roles, Tellings
<1>4. \A p \in MemberSet : members[p] = InitMember
  BY DEF InitGroup
<1>5. ClaimOK(InitMember) /\ InitMember.pvc.selected /\ InitMember \in MemberType
  <2> DEFINE c == [NoClaim EXCEPT !.there = TRUE, !.bound = TRUE, !.selected = TRUE]
             v == [phase |-> "Bound", retain |-> FALSE, retained |-> FALSE, archived |-> FALSE,
                   leftBehind |-> FALSE, handle |-> FALSE]
  <2>1. c \in PVCType /\ c.there /\ c.selected /\ ~c.finalizer /\ c.owner = "none"
    BY DEF NoClaim, PVCType
  <2>2. v \in MemberPVType /\ NoStatus \in StatusType /\ Emptied \in S3Type
    BY StoresType DEF MemberPVType, NoStatus, StatusType
  <2>3. InitMember = [pvc |-> c, pv |-> v, st |-> NoStatus, inUse |-> TRUE, label |-> "none", s3 |-> Emptied]
    BY DEF InitMember
  <2> HIDE DEF c, v
  <2>4. InitMember \in MemberType /\ InitMember.pvc = c
    BY <2>1, <2>2, <2>3 DEF MemberType
  <2> QED
    BY <2>1, <2>4 DEF ClaimOK
<1>6. GroupOK(group) /\ ~group.there
  <2>1. group \in GroupType
    BY DEF InitGroup, GroupType, NoConditions, Readings, Objects
  <2>2. ~group.there /\ group.refs = {} /\ ~group.terminating /\ ~group.archived /\ ~group.contentArchived
    BY DEF InitGroup
  <2> QED
    BY <2>1, <2>2 DEF GroupOK
<1>7. vrgs \in [Apps -> VRGType] /\ members \in [MemberSet -> MemberType]
  BY <1>3, <1>5 DEF InitGroup
<1>8. gchanges \in 0..gscene.changes /\ gfaults \in 0..gscene.faults
  BY <1>1 DEF InitGroup
<1>9. GroupInv
  BY <1>1, <1>2, <1>3, <1>4, <1>5, <1>6, <1>7, <1>8 DEF GroupInv, WellFormed
<1>10. OrderlyInv
  BY <1>2, <1>3, <1>4, <1>5 DEF OrderlyInv, Told
<1> QED
  BY <1>9, <1>10

\* Every step keeps the invariants, and the role of the group changes only in a pass.
LEMMA GroupStep ==
    ASSUME GroupInv, OrderlyInv, [NextGroup]_groupVars
    PROVE  /\ GroupInv' /\ OrderlyInv'
           /\ \/ group'.state = group.state
              \/ \E a \in Apps, f \in GroupFaults, q \in MemberSet : GroupPass(a, f, q)
<1>1. ASSUME NEW a \in Apps, NEW f \in GroupFaults, NEW q \in MemberSet, GroupPass(a, f, q)
      PROVE  GroupInv' /\ OrderlyInv'
  BY <1>1, PassKeeps
<1>2. ASSUME NEW a \in Apps, HubChanges(a) PROVE GroupInv' /\ OrderlyInv' /\ group' = group
  <2>1. group' = group
    BY <1>2 DEF HubChanges, HubPromotesVRG, HubDeletesVRG, HubDemotesVRG, ChangeVRG
  <2> QED
    BY <1>2, <2>1, HubKeeps
<1>3. CASE Surroundings
  BY <1>3, MembersKeep, DriverKeeps DEF Surroundings
<1>4. CASE UNCHANGED groupVars
  <2>1. /\ gscene' = gscene /\ vrgs' = vrgs /\ members' = members /\ group' = group
        /\ gchanges' = gchanges /\ gfaults' = gfaults
    BY <1>4 DEF groupVars
  <2>2. GroupInv'
    BY <2>1, InvariantKept DEF GroupInv, WellFormed
  <2>3. OrderlyInv'
    BY <2>1, OrderKept DEF OrderlyInv, Told
  <2> QED
    BY <2>1, <2>2, <2>3
<1> QED
  BY <1>1, <1>2, <1>3, <1>4 DEF NextGroup

-----------------------------------------------------------------------------
(* The theorems.                                                            *)

\* The inductive invariant: each archived annotation stands for its own object in
\* every store, a VRG that has gone was deleted, and what a VRG has told the
\* others of its claims still holds.
THEOREM GroupInvariant == SpecGroup => [](GroupInv /\ OrderlyInv)
<1>1. InitGroup => GroupInv /\ OrderlyInv
  BY GroupInitially
<1>2. (GroupInv /\ OrderlyInv) /\ [NextGroup]_groupVars => (GroupInv /\ OrderlyInv)'
  BY GroupStep
<1> QED
  BY <1>1, <1>2, PTL DEF SpecGroup

\* Whatever uploads and annotations fail (UploadVGRandVGRCtoS3Stores,
\* addArchivedAnnotationForVGRandVGRC) and however the VGR and its content change
\* afterwards, a pass that skips the upload finds both objects as they are now in
\* every store.
THEOREM GroupArchiveIsCurrent == SpecGroup => []GroupArchivedIsStored
<1>1. GroupInv => GroupArchivedIsStored
  <2> SUFFICES ASSUME GroupInv, isVGRandVGRCArchivedAlready(group), NEW i \in 1..Stores
               PROVE  group.s3[i] = [vgrc |-> "current", vgr |-> "current"]
    BY DEF GroupArchivedIsStored
  <2>1. /\ group.s3[i].vgr = "current" /\ group.s3[i].vgrc = "current"
        /\ group.s3[i] \in [vgrc : Objects, vgr : Objects]
    BY DEF GroupInv, WellFormed, GroupOK, GroupType, isVGRandVGRCArchivedAlready
  <2> QED
    BY <2>1
<1> QED
  BY <1>1, GroupInvariant, PTL

\* In whatever order the VRGs that share a group are deleted, and whatever calls
\* fail meanwhile, the last one does not go before the group (deleteGlobalVGR).
THEOREM GroupGoesWithLast == SpecGroup => []NoGroupLeftBehind
<1>1. GroupInv => NoGroupLeftBehind
  <2> SUFFICES ASSUME GroupInv PROVE NoGroupLeftBehind
    OBVIOUS
  <2>1. gscene \in GroupSceneType
    BY GroupAssumption DEF GroupInv, WellFormed
  <2>2. /\ group.refs \subseteq MemberSet /\ group.state \in Roles \cup {"None"}
        /\ ~group.there => group.refs = {} /\ ~group.terminating
    BY DEF GroupInv, WellFormed, GroupOK, GroupType
  <2>3. \A p \in MemberSet : members[p].label \in {"none", "member", "reset"}
    BY DEF GroupInv, WellFormed, MemberType
  <2>4. \A a \in Apps : vrgs[a].unused \in {"None", "Primary", "True", "False"}
    BY DEF GroupInv, WellFormed, VRGType, Tellings
  <2> QED
    BY <2>1, <2>2, <2>3, <2>4 DEF NoGroupLeftBehind, GroupTypeOK, GroupInv, WellFormed
<1> QED
  BY <1>1, GroupInvariant, PTL

\* The VRGs that share a group see each other's claims only through conditions
\* saved earlier (isSiblingReadyForGlobalSecondary), and still no pass turns the
\* group Secondary while a pod uses a held claim of a VRG that is not being torn
\* down.  The premise names what the code leaves to others: where VRGs are demoted
\* no claim leaves the selection, a held claim can be prepared, and a pod comes
\* back only where a relocation waits for the claims to be deleted.
THEOREM DemotedWhenUnused ==
    ASSUME \A s \in GroupScenes : OrderlyScene(s)
    PROVE  SpecGroup => GroupDemotedUnused
<1> DEFINE C == \A p \in MemberSet :
                    members[p].pvc.finalizer /\ members[p].label = "member" /\ ~vrgs[gscene.owner[p]].deleted
                    => ~members[p].inUse
<1>1. ASSUME GroupInv, OrderlyInv, [NextGroup]_groupVars, group.state = "Primary", group'.state = "Secondary"
      PROVE  C
  <2>1. OrderlyScene(gscene)
    BY <1>1 DEF GroupInv, WellFormed
  <2>2. PICK a \in Apps, f \in GroupFaults, q \in MemberSet : GroupPass(a, f, q)
    BY <1>1, GroupStep
  <2>3. (f = NoFault \/ f.call \in gscene.calls) /\ group' = processVRGOfGroup(a, f, q).g
    BY <2>2 DEF GroupPass
  <2> QED
    BY <1>1, <2>1, <2>3, OrderlyPass
<1>2. (GroupInv /\ OrderlyInv) /\ [NextGroup]_groupVars =>
         [group.state = "Primary" /\ group'.state = "Secondary" => C]_groupVars
  BY <1>1
<1> QED
  BY <1>2, GroupInvariant, PTL DEF SpecGroup, GroupDemotedUnused
=============================================================================
