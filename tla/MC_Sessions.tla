---------------------------- MODULE MC_Sessions ----------------------------
(* Two consoles for the runs of Sessions.                                  *)
EXTENDS Sessions, TLC

CONSTANTS left, right

Swapped == Permutations(Consoles)
=============================================================================
