-------------------------- MODULE MissionLifecycle --------------------------
(***************************************************************************)
(* What the mission API promises its clients: a mission that moves along   *)
(* the edges of the state machine through its gates, one call at a time,   *)
(* and a count of rejections that escalates it at the fourth.  There are   *)
(* no sessions, locks or snapshots here: Missions implements this module.  *)
(***************************************************************************)
EXTENDS StateMachine

CONSTANT
  PlanningWritable    \* clients also set planning_complete, at any time

VARIABLES
  status,             \* a Status, or "deleted"
  planned,            \* the planning gate is open
  approvedToMerge,    \* the merge gate is open
  count               \* rejections so far

lifecycle == <<status, planned, approvedToMerge, count>>

Init ==
  /\ status = "created"
  /\ planned \in {FALSE, PlanningWritable}
  /\ approvedToMerge = FALSE
  /\ count = 0

Move(to) ==
  /\ status \in Status
  /\ CanTransition(status, to)
  /\ to = "execution" => planned
  /\ to = "merged" => approvedToMerge
  /\ status' = to
  /\ UNCHANGED <<planned, approvedToMerge, count>>

RejectTo(to) ==
  /\ status \in Status
  /\ CanTransition(status, "rejected")
  /\ count' = count + 1
  /\ status' = IF ShouldEscalate(count + 1) THEN "escalated" ELSE to
  /\ UNCHANGED <<planned, approvedToMerge>>

SetPlanned(value) ==
  /\ status \in Status
  /\ value \/ PlanningWritable
  /\ planned' = value
  /\ UNCHANGED <<status, approvedToMerge, count>>

ApproveMerge ==
  /\ status \in Status
  /\ approvedToMerge' = TRUE
  /\ UNCHANGED <<status, planned, count>>

Remove ==
  /\ status \in Status
  /\ status' = "deleted"
  /\ planned' = FALSE
  /\ approvedToMerge' = FALSE
  /\ UNCHANGED count

Next ==
  \/ \E to \in Status : Move(to)
  \/ \E to \in {"planning", "escalated"} : RejectTo(to)
  \/ \E value \in BOOLEAN : SetPlanned(value)
  \/ ApproveMerge
  \/ Remove

Spec == Init /\ [][Next]_lifecycle

=============================================================================
