---------------------------- MODULE MCHuntVariables ----------------------------
(* Small instances of HuntVariables for TLC. *)
EXTENDS HuntVariables, TLC

CONSTANTS x, y

TwoNames == {<<x>>, <<y>>}

NameSymmetry == Permutations({x, y})

===============================================================================
