----------------------------- MODULE MCEventBus -----------------------------
(* Instances of EventBus for TLC.                                          *)
EXTENDS EventBus, TLC

CONSTANTS c1, m1   \* the subscriber and the mission

ToWildcard == [c \in {c1} |-> Wildcard]

=============================================================================
