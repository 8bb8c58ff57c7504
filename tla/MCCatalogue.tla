----------------------------- MODULE MCCatalogue -----------------------------
(* A small instance of Catalogue for TLC.                                     *)
EXTENDS Catalogue, TLC

Symmetry == Permutations(Units) \cup Permutations(Requests)

=============================================================================
