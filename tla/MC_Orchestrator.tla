--------------------------- MODULE MC_Orchestrator ---------------------------
(* Plans for the runs of Orchestrator.                                     *)
EXTENDS Orchestrator

CONSTANTS t1, t2, t3, s1, goal, toolA, exec

Task(id, tools, scopes) ==
  [id |-> id, goal |-> goal, tools |-> tools, scopes |-> scopes]

Plan(mode, max, tasks) ==
  [mode |-> mode, max |-> max, objective |-> goal, tasks |-> tasks]

Read(id) == Task(id, {toolA}, {})
Write(id) == Task(id, {toolA}, {s1})

TwoReads == << Read(t1), Read(t2) >>
ThreeReads == << Read(t1), Read(t2), Read(t3) >>

\* Plans Validate refuses, each for one reason.
Refused == {
  Plan("parallel", 3, TwoReads),
  Plan("fanout", 1, TwoReads),
  Plan("parallel", 1, << >>),
  Plan("parallel", 2, << Read(t1), Read(t1) >>),
  Plan("parallel", 2, << Read(Blank), Read(t2) >>),
  Plan("parallel", 2, << Write(t1), Write(t2) >>),
  Plan("sequential", 1, << Task(t1, {toolA, exec}, {}) >>) }

\* What the planner makes of task lists, and plans posted by hand.
Built == {Build(goal, ts) : ts \in {TwoReads, << Write(t1), Read(t2) >>}}

Posted == {
  Plan("parallel", 2, << Write(t1), Read(t2) >>),
  Plan("parallel", 1, TwoReads),
  Plan("sequential", 0, TwoReads),
  Plan("parallel", -1, TwoReads) }

\* Two tokens for three tasks, and three tasks in sequence.
Three == {Plan("parallel", 2, ThreeReads), Plan("sequential", 1, ThreeReads)}

SmallPlans == Refused \union Built \union Posted
AllPlans == SmallPlans \union Three
UnsetMax == {Plan("parallel", 0, TwoReads)}
=============================================================================
