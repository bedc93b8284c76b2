------------------------------ MODULE MCGitWork ------------------------------
(* Instances of GitWork for TLC.                                           *)
EXTENDS GitWork, TLC

WorkSymmetry == Permutations(Calls) \cup Permutations(Tasks) \cup Permutations(Names \ {"main"})

=============================================================================
