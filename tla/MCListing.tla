------------------------------ MODULE MCListing ------------------------------
(* Symmetry for the runs of Listing. *)
EXTENDS Listing, TLC

\* Used with safety properties only.
MCSymmetry == Permutations(Runs)
=============================================================================
