--------------------------- MODULE MCShifterPipeline ---------------------------
(***************************************************************************)
(* Instances of ShifterPipeline for TLC.                                   *)
(***************************************************************************)
EXTENDS ShifterPipeline, TLC

CONSTANTS q1, q2

TwoQueries == {q1, q2}

OneQuery == {q1}

NoneDies == {}

\* Any one transmitter and any one translator.
OneOfEachDies == {q1, 1}

QuerySymmetry == Permutations(TwoQueries)

===============================================================================
