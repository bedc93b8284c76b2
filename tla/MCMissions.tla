----------------------------- MODULE MCMissions -----------------------------
(* Instances of Missions for TLC: two or three interchangeable requests.   *)
EXTENDS Missions, TLC

RequestSymmetry == Permutations(Requests)

PlanningKey == {"planning_complete"}

=============================================================================
