---------------------------- MODULE MCOperations ----------------------------
(* The operations that a user asks for, in the courses that matter.        *)
EXTENDS MCDRSystem, Sequences

CONSTANT Courses

VARIABLE course   \* what the user asks for in this behavior, and how

courseVars == <<vars, course>>

(* One set of actions for each change of the spec.                         *)
Course(actions, nf, patient) ==
  [actions |-> actions, faults |-> nf, patient |-> patient]

(* A relocation, and an operation of the operator that fails.              *)
Interrupted == Course(<<{"Relocate"}>>, 1, TRUE)

(* The user relocates the workload back while it is being relocated.       *)
BackAtOnce == Course(<<{"Relocate"}, {"Relocate"}>>, 0, FALSE)

(* After a completed failover, the user fails over again or relocates.     *)
InTurn == Course(<<{"Failover"}, {"Failover", "Relocate"}>>, 0, TRUE)

(* The user withdraws a failover under way.                                *)
ChangeOfMind == Course(<<{"Failover"}, {""}>>, 0, FALSE)

EveryCourse == {Interrupted, BackAtOnce, InTurn, ChangeOfMind}

Hasty == {BackAtOnce}

InitCourse ==
  /\ course \in Courses
  /\ \E c \in Clusters : DeployedOn(c)

(* The user follows the course.                                            *)
Follows ==
  /\ faults' <= course.faults
  /\ spec' # spec => /\ spec'.generation <= Len(course.actions)
                     /\ spec'.action \in course.actions[spec'.generation]
                     /\ course.patient => PatientUser

NextCourse == Next /\ Follows /\ UNCHANGED course

SpecCourses == InitCourse /\ [][NextCourse]_courseVars
-----------------------------------------------------------------------------
(* One relocation, with the operator interrupted anywhere or the user      *)
(* turning it round once at any time, never has the workload running on    *)
(* both clusters: RunRelocate takes the placement from one cluster before  *)
(* it gives it to the other.  Turned round twice it may: the placement is  *)
(* then given by the view of a Primary that has been demoted since.        *)
RelocatedNotCopied == course.actions[1] = {"Relocate"} => AtMostOneRunning

(* The user never changes a relocation that is under way.                  *)
Orderly == course # BackAtOnce

(* A relocation that is left to complete never promotes a VRG whose peer   *)
(* has not been demoted, whatever the views that setupRelocation read.     *)
DemotedBeforePromotionInTurn == [][Orderly => DemotesFirst]_courseVars
=============================================================================
