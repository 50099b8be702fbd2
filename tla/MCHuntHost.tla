----------------------------- MODULE MCHuntHost -----------------------------
(* Three sessions; a local bundle of one file, a remote one of two, the     *)
(* first of which changes and can be converted although its end is missing. *)
EXTENDS HuntHost, TLC

Both == {"p", "r"}
Observed(id, matches) == [id |-> id, matches |-> matches]

MCScheme == [local |-> "file", remote |-> "http"]
MCDataPaths == [local |-> <<"l">>, remote |-> <<"a", "b">>]
MCObjects ==
  [l |-> <<<<Observed(1, {"p"}), Observed(2, Both)>>, <<Observed(3, {"p"})>>>>,
   a |-> <<<<Observed(4, Both), Observed(5, {"p"})>>, <<Observed(6, Both), Observed(4, {"p"})>>>>,
   b |-> <<<<Observed(7, Both)>>, <<Observed(8, {"r"})>>>>]
MCExited0 == <<"t2">>

SessionSymmetry == Permutations(Sessions)
=============================================================================
