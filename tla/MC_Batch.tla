------------------------------ MODULE MC_Batch ------------------------------
(* Two processes; a dataset of two items and an edit that drops the first.   *)
EXTENDS Batch

CONSTANTS r1, r2

TwoItems  == <<"a", "b">>
OneLeft   == {<<"b">>}
Processes == Permutations({r1, r2})
=============================================================================
