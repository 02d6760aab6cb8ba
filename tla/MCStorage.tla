------------------------------- MODULE MCStorage -------------------------------
(* A small instance of Storage: one or two disks. *)
EXTENDS Storage, TLC

CONSTANTS g1, g2

TwoDirs == {g1, g2}
Symmetry == Permutations(TwoDirs)
================================================================================
