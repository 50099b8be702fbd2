----------------------------- MODULE MCHuntSession -----------------------------
(* Small instances of HuntSession for TLC. *)
EXTENDS HuntSession

\* One data source for each of two interfaces.
TwoSources == {<<"opensearch", "a">>, <<"other", "c">>}

===============================================================================
