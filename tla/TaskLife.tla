------------------------------ MODULE TaskLife ------------------------------
(***************************************************************************)
(* What the worker promises of one task: attempts one at a time, each on   *)
(* record with its outcome unless it is lost, a budget that recorded and   *)
(* lost attempts spend alike, and an end that is final.  There are no      *)
(* runs, sessions, loop index or copies of the row here: TaskRetry         *)
(* implements this module when its runs follow each other.                 *)
(***************************************************************************)
EXTENDS Naturals, Sequences

CONSTANT
  MaxAttempts

VARIABLES
  outcome,        \* "open", "completed", "escalated" or "deleted"
  phase,          \* the attempt: "none", "underway", or "last", to be escalated
  record,         \* the outcomes on record, in order
  lost,           \* attempts of an open task that have left no record
  told,           \* the outcomes announced
  active          \* the parent mission is neither merged nor escalated

life == <<outcome, phase, record, lost, told, active>>

Init ==
  /\ outcome = "open"
  /\ phase = "none"
  /\ record = <<>>
  /\ lost = 0
  /\ told = {}
  /\ active = TRUE

(* With the present attempt, or the one that would begin, the budget is    *)
(* spent.                                                                  *)
Exhausted == Len(record) + lost + 1 >= MaxAttempts

Begin ==
  /\ outcome = "open" /\ phase = "none"
  /\ phase' = "underway"
  /\ UNCHANGED <<outcome, record, lost, told, active>>

(* An attempt fails, at once when there is no agent, and another may       *)
(* follow.                                                                 *)
Fail ==
  /\ outcome = "open" /\ phase \in {"none", "underway"}
  /\ ~Exhausted
  /\ record' = Append(record, "failed")
  /\ phase' = "none"
  /\ UNCHANGED <<outcome, lost, told, active>>

(* The escalation is announced before it is made.                          *)
GiveUp ==
  /\ phase = "underway"
  /\ Exhausted
  /\ phase' = "last"
  /\ told' = told \cup {"escalated"}
  /\ UNCHANGED <<outcome, record, lost, active>>

(* The end of an open task, with what it leaves on record.                 *)
End(how, last) ==
  /\ outcome = "open"
  /\ outcome' = how
  /\ record' = Append(record, last)
  /\ phase' = "none"
  /\ lost' = 0

(* The task takes its mission along.                                       *)
Escalate ==
  /\ \/ phase = "last" /\ UNCHANGED told
     \/ phase = "none" /\ Exhausted /\ told' = told \cup {"escalated"}
  /\ End("escalated", "failed")
  /\ active' = FALSE

Complete ==
  /\ phase = "underway"
  /\ End("completed", "completed")
  /\ UNCHANGED <<told, active>>

Announce ==
  /\ outcome = "completed"
  /\ told' = told \cup {"completed"}
  /\ UNCHANGED <<outcome, phase, record, lost, active>>

Lose ==
  /\ phase # "none"
  /\ phase' = "none"
  /\ lost' = lost + 1
  /\ UNCHANGED <<outcome, record, told, active>>

Remove ==
  /\ outcome # "deleted"
  /\ outcome' = "deleted"
  /\ phase' = "none" /\ record' = <<>> /\ lost' = 0
  /\ UNCHANGED <<told, active>>

EndMission ==
  /\ active' = FALSE
  /\ UNCHANGED <<outcome, phase, record, lost, told>>

Next ==
  \/ Begin \/ Fail \/ GiveUp \/ Escalate \/ Complete \/ Announce
  \/ Lose \/ Remove \/ EndMission

Spec == Init /\ [][Next]_life

=============================================================================
