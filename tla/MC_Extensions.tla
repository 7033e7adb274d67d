---------------------------- MODULE MC_Extensions ----------------------------
(* Extensions, servers and profiles for the runs of Extensions.  The skill's *)
(* tool has the name of a built-in.                                          *)
EXTENDS Extensions

CONSTANTS plug, skill, srv, web, health, execp, tool, call, fetch, deploy, undo, d1, c1, hermesd, hermesctl

Extensions2 == <<plug, skill>>
Tools2      == [e \in {plug, skill} |-> IF e = plug THEN tool ELSE health]
Hooks2      == [e \in {plug, skill} |-> [ph \in {"validate", "on_enable", "on_disable"} |->
                  IF e = plug THEN 1 ELSE 0]]
Edits2      == {<<plug, "broken">>, <<skill, "gone">>}
DaemonOnly  == [p \in {hermesd} |-> <<srv, web>>]
DaemonCalls == [p \in {hermesd} |-> {tool, call, execp}]
NoServers   == [p \in Procs |-> <<>>]
NoCalls     == [p \in Procs |-> {}]
Transports2 == [s \in {srv, web} |-> IF s = srv THEN "stdio" ELSE "http"]
Served2     == [s \in {srv, web} |-> IF s = srv THEN <<call>> ELSE <<fetch>>]
Alone       == [w \in {d1, c1} |-> IF w = c1 THEN hermesctl ELSE hermesd]
Single      == [w \in {d1} |-> hermesd]
Lengths     == [p \in {deploy, undo} |-> IF p = deploy THEN 2 ELSE 1]
Rollbacks   == [p \in {deploy, undo} |-> IF p = deploy THEN undo ELSE NoProfile]
=============================================================================
