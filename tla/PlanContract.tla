---------------------------- MODULE PlanContract ----------------------------
(***************************************************************************)
(* What a plan run promises its caller, without goroutines or channels: at *)
(* most Limit tasks are busy at a time, a task is started once and answers *)
(* once, and a successful report holds exactly the answers of the tasks.   *)
(* A run may be aborted at any time; tasks it started still come to an end.*)
(***************************************************************************)
EXTENDS Naturals, FiniteSets

CONSTANTS Slot, Limit

VARIABLES
  busy,     \* tasks being executed
  answer,   \* what each task answered
  report    \* [status, answers]: what the caller was told

contractVars == <<busy, answer, report>>

Init ==
  /\ busy = {}
  /\ answer = [s \in Slot |-> "none"]
  /\ report = [status |-> "open", answers |-> << >>]

Start(s) ==
  /\ s \notin busy
  /\ answer[s] = "none"
  /\ Cardinality(busy) < Limit
  /\ busy' = busy \union {s}
  /\ UNCHANGED <<answer, report>>

End(s, a) ==
  /\ s \in busy
  /\ busy' = busy \ {s}
  /\ answer' = [answer EXCEPT ![s] = a]
  /\ UNCHANGED report

Answered == {s \in Slot : answer[s] # "none"}

Succeed ==
  /\ report.status = "open"
  /\ busy = {}
  /\ report' = [status |-> "ok", answers |-> [s \in Answered |-> answer[s]]]
  /\ UNCHANGED <<busy, answer>>

Abort ==
  /\ report.status = "open"
  /\ report' = [report EXCEPT !.status = "aborted"]
  /\ UNCHANGED <<busy, answer>>

Next ==
  \/ Succeed \/ Abort
  \/ \E s \in Slot : Start(s) \/ \E a \in {"completed", "failed"} : End(s, a)

Spec == Init /\ [][Next]_contractVars
=============================================================================
