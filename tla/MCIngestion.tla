---------------------------- MODULE MCIngestion ----------------------------
(* Instances of Ingestion for TLC.                                         *)
EXTENDS Ingestion, TLC

CONSTANTS issue, branchA, branchB

RequestSymmetry == Permutations(Webhooks) \cup Permutations(Requests \ Webhooks)

(* Issues of one number in two repositories, and missions without a source *)
(* on a branch and on none.                                                *)
Deliveries == {[key |-> issue, place |-> branchA], [key |-> issue, place |-> branchB],
               [key |-> None, place |-> branchA], [key |-> None, place |-> None]}

TwoBranches == {branchA, branchB}

=============================================================================
