----------------------------- MODULE MC_Prompts -----------------------------
(* Two processes, hermesd with a turn and a writer, a console with a turn.   *)
EXTENDS Prompts

CONSTANTS d1, c1, m1, hermesd, console

Homes == [w \in {d1, c1, m1} |-> IF w = c1 THEN console ELSE hermesd]

OneOfEach == {<<"add", 2, 2>>, <<"replace", 2, 1>>, <<"remove", 1, 1>>}
OneNote   == <<1>>
=============================================================================
