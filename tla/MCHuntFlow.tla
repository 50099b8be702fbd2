------------------------------ MODULE MCHuntFlow ------------------------------
(* A small instance of HuntFlow for TLC. *)
EXTENDS HuntFlow, TLC

NameSymmetry == Permutations(Names)

===============================================================================
