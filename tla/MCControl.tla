------------------------------ MODULE MCControl ------------------------------
(* Instances of Control for TLC.                                           *)
EXTENDS Control, TLC

CONSTANTS p1, p2

NoKeys == {}

Locking == {"transition", "reject", "approve", "update", "delete"}

Unlocked == {"refine", "research", "verify", "review_plan", "commit_changes",
             "record_git", "start_execution", "create_branch", "merge_branch",
             "auto_run", "escalate"}

(* One request that locks, or dispatches an agent, and one for any         *)
(* endpoint that does not lock: a race of one that locks with one that     *)
(* does not, or of two that do not.                                        *)
LockingAndUnlocked == (p1 :> Locking \cup {"research"}) @@ (p2 :> Unlocked)

(* A reject and an agent endpoint, beside the transitions that lead back.  *)
RejectPaths == {"transition", "reject", "refine"}

AnyRejectPath == [p \in Requests |-> RejectPaths]

=============================================================================
