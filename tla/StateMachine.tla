---------------------------- MODULE StateMachine ----------------------------
(***************************************************************************)
(* The mission lifecycle of state_machine.py: eight statuses, the edges    *)
(* between them and the escalation rule.  The program keeps it as a        *)
(* stateless object every handler consults; so this module has operators   *)
(* and no variables.                                                       *)
(***************************************************************************)
EXTENDS Naturals

Status == {"created", "planning", "approved", "execution",
           "reviewed", "merged", "rejected", "escalated"}

(* Whether a status is left by some edge is what "terminal" means here.    *)
AllowedTransitions ==
  [s \in Status |->
     CASE s = "created"   -> {"planning"}
       [] s = "planning"  -> {"approved", "rejected", "execution"}
       [] s = "approved"  -> {"execution"}
       [] s = "execution" -> {"reviewed", "rejected", "escalated"}
       [] s = "reviewed"  -> {"merged", "rejected", "escalated"}
       [] s = "rejected"  -> {"planning", "escalated"}
       [] OTHER           -> {}]

Terminal == {s \in Status : AllowedTransitions[s] = {}}

(* A move to the current status is refused as a no-op.                     *)
CanTransition(current, target) ==
  /\ current # target
  /\ target \in AllowedTransitions[current]

EscalationRejectionThreshold == 4

(* Asked after the counter is incremented: true from the fourth rejection. *)
ShouldEscalate(count) == count >= EscalationRejectionThreshold

=============================================================================
