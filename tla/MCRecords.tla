------------------------------ MODULE MCRecords ------------------------------
(* A small instance of Records for TLC.                                      *)
EXTENDS Records, TLC

Symmetry == Permutations(Parents) \cup Permutations(Children) \cup Permutations(Requests)

=============================================================================
