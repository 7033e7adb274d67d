---------------------------- MODULE Orchestrator ----------------------------
(***************************************************************************)
(* One run of a multi-agent plan: App.RunMultiAgentPlan and, inside it,    *)
(* Orchestrator.Run with its goroutines, its semaphore channel `sem', its  *)
(* result channel `ch' and the caller's context.  A child task is seen     *)
(* from the outside: the rows it adds to the parent session and the result *)
(* it returns (its loop is module ChildTask).                              *)
(***************************************************************************)
EXTENDS Policy

CONSTANT Submitted    \* the plans callers submit

ASSUME SubmittedAssumption ==
  \A p \in Submitted :
    /\ p.max \in Int
    /\ Len(p.tasks) \in Nat
    /\ DOMAIN p.tasks = 1..Len(p.tasks)

VARIABLES
  plan,       \* the plan of this run
  phase,      \* where RunMultiAgentPlan is
  outcome,    \* what it returned: "none" until it has
  ctxDone,    \* the caller's context is cancelled
  sem,        \* tokens in the semaphore channel
  ch,         \* result channel: sequence of [slot, verdict]
  received,   \* results Run has taken, from the channel or from a call
  results,    \* the slice Run fills
  aggregate,  \* Aggregate(results), once computed
  child,      \* control state of the goroutine (or inline call) of each slot
  verdict,    \* the result runner(ctx, task) returned for a slot
  parentLog   \* rows of the parent session: sequence of [kind, slot]

callVars  == <<plan, phase, outcome>>
takenVars == <<received, results, aggregate>>
vars == <<callVars, ctxDone, sem, ch, takenVars, child, verdict, parentLog>>

Tasks == Slots(plan)

\* Slot 0 marks the rows RunMultiAgentPlan writes itself.
Row(kind, slot) == [kind |-> kind, slot |-> slot]

Init ==
  /\ plan \in Submitted
  /\ phase = "submitted"
  /\ outcome = "none"
  /\ ctxDone = FALSE
  /\ sem = 0
  /\ ch = << >>
  /\ received = 0
  /\ results = [i \in Slots(plan) |-> "none"]
  /\ aggregate = [completed |-> 0, failed |-> 0]
  /\ child = [i \in Slots(plan) |-> "idle"]
  /\ verdict = [i \in Slots(plan) |-> "none"]
  /\ parentLog = << >>

-----------------------------------------------------------------------------
(* RunMultiAgentPlan and Run.                                              *)

Goto(p) == phase' = p /\ UNCHANGED <<plan, outcome>>

Return(how) == phase' = "returned" /\ outcome' = how /\ UNCHANGED plan

\* CreateSessionWithOptions and the objective row, before the plan has been
\* validated; a store error ends the call.
CreateParent ==
  /\ phase = "submitted"
  /\ \/ /\ ~ctxDone
        /\ parentLog' = << Row("objective", 0) >>
        /\ Goto("validating")
     \/ Goto("validating") /\ UNCHANGED parentLog    \* parent_session_id is given
     \/ Return("storeError") /\ UNCHANGED parentLog
  /\ UNCHANGED <<ctxDone, sem, ch, takenVars, child, verdict>>

Reject ==
  /\ phase = "validating"
  /\ ~Validate(plan)
  /\ Return("rejected")
  /\ UNCHANGED <<ctxDone, sem, ch, takenVars, child, verdict, parentLog>>

\* The two channels are made and one goroutine per task is started.  A
\* channel of negative capacity is a run-time panic.
StartParallel ==
  /\ phase = "validating"
  /\ Validate(plan)
  /\ plan.mode = "parallel"
  /\ \/ plan.max < 0 /\ Return("panicked") /\ UNCHANGED child
     \/ /\ plan.max >= 0
        /\ Goto("collecting")
        /\ child' = [i \in Tasks |-> "waiting"]
  /\ UNCHANGED <<ctxDone, sem, ch, takenVars, verdict, parentLog>>

StartSequential ==
  /\ phase = "validating"
  /\ Validate(plan)
  /\ plan.mode = "sequential"
  /\ Goto("sequencing")
  /\ UNCHANGED <<ctxDone, sem, ch, takenVars, child, verdict, parentLog>>

\* Variant, not the code: results are stored in the order they arrive.
TakeInArrivalOrder(i, v) ==
  /\ results' = [results EXCEPT ![received + 1] = v]
  /\ received' = received + 1
  /\ UNCHANGED aggregate
  /\ IF received + 1 = Len(plan.tasks) THEN Goto("aggregating")
                                       ELSE UNCHANGED callVars

\* Variant, not the code: the loop over the tasks ends one too early.
TakeStopsEarly(i, v) ==
  /\ results' = [results EXCEPT ![i] = v]
  /\ received' = received + 1
  /\ UNCHANGED aggregate
  /\ IF received + 1 >= Len(plan.tasks) - 1 THEN Goto("aggregating")
                                            ELSE UNCHANGED callVars

\* results[i] = v, and the loop over the tasks moves on.
Take(i, v) ==
  /\ results' = [results EXCEPT ![i] = v]
  /\ received' = received + 1
  /\ UNCHANGED aggregate
  /\ IF received + 1 = Len(plan.tasks) THEN Goto("aggregating")
                                       ELSE UNCHANGED callVars

\* select: a receive from ch or ctx.Done(), either one when both are ready.
CollectResult ==
  /\ phase = "collecting"
  /\ ch # << >>
  /\ Take(Head(ch).slot, Head(ch).verdict)
  /\ ch' = Tail(ch)
  /\ UNCHANGED <<ctxDone, sem, child, verdict, parentLog>>

\* Variant, not the code: a cancelled run also writes an aggregate row.
CancelledStillAggregates ==
  /\ phase = "collecting"
  /\ ctxDone
  /\ Return("cancelled")
  /\ parentLog' = Append(parentLog, Row("aggregate", 0))
  /\ UNCHANGED <<ctxDone, sem, ch, takenVars, child, verdict>>

CollectCancelled ==
  /\ phase = "collecting"
  /\ ctxDone
  /\ Return("cancelled")
  /\ UNCHANGED <<ctxDone, sem, ch, takenVars, child, verdict, parentLog>>

\* Variant, not the code: a sequential task starts before its turn.
StartsAhead(i) ==
  /\ phase = "sequencing"
  /\ child[i] = "idle"
  /\ \/ ctxDone /\ Return("cancelled") /\ UNCHANGED child
     \/ /\ ~ctxDone
        /\ child' = [child EXCEPT ![i] = "starting"]
        /\ UNCHANGED callVars
  /\ UNCHANGED <<ctxDone, sem, ch, takenVars, verdict, parentLog>>

\* The sequential loop, at the next task: ctx.Done() wins when it is ready.
SequenceNext(i) ==
  /\ phase = "sequencing"
  /\ i = received + 1
  /\ child[i] = "idle"
  /\ \/ ctxDone /\ Return("cancelled") /\ UNCHANGED child
     \/ /\ ~ctxDone
        /\ child' = [child EXCEPT ![i] = "starting"]
        /\ UNCHANGED callVars
  /\ UNCHANGED <<ctxDone, sem, ch, takenVars, verdict, parentLog>>

\* append(results, runner(ctx, task))
SequenceAppend(i) ==
  /\ phase = "sequencing"
  /\ child[i] = "sending"
  /\ child' = [child EXCEPT ![i] = "done"]
  /\ Take(i, verdict[i])
  /\ UNCHANGED <<ctxDone, sem, ch, verdict, parentLog>>

\* Aggregate, then the aggregate row of the parent session.
Conclude ==
  /\ phase = "aggregating"
  /\ aggregate' = Aggregate(results)
  /\ \/ /\ ~ctxDone
        /\ parentLog' = Append(parentLog, Row("aggregate", 0))
        /\ Return("ok")
     \/ Return("storeError") /\ UNCHANGED parentLog
  /\ UNCHANGED <<ctxDone, sem, ch, received, results, child, verdict>>

-----------------------------------------------------------------------------
(* The goroutine of slot i, and runner(ctx, task) inside it.               *)

Move(i, from, to) ==
  /\ child[i] = from
  /\ child' = [child EXCEPT ![i] = to]
  /\ UNCHANGED <<callVars, ctxDone, takenVars>>

\* Variant, not the code: a goroutine does not wait for the semaphore.
AcquireUnbounded(i) ==
  /\ sem' = sem + 1
  /\ Move(i, "waiting", "starting")
  /\ UNCHANGED <<ch, verdict, parentLog>>

\* sem <- struct{}{}: with capacity 0 nobody ever receives first.
Acquire(i) ==
  /\ sem < plan.max
  /\ sem' = sem + 1
  /\ Move(i, "waiting", "starting")
  /\ UNCHANGED <<ch, verdict, parentLog>>

\* Variant, not the code: the row is written under a context of its own.
RecordsDetached(i) ==
  /\ Move(i, "starting", "recording")
  /\ UNCHANGED <<sem, ch, verdict, parentLog>>

\* A store call looks at the context before it starts, so it is two steps:
\* the check, and the row (which a cancellation in between may still stop).
BeginRecord(i) ==
  /\ ~ctxDone
  /\ Move(i, "starting", "recording")
  /\ UNCHANGED <<sem, ch, verdict, parentLog>>

\* recordMultiAgentChildSession's row in the parent session.
Record(i) ==
  /\ Move(i, "recording", "working")
  /\ parentLog' = Append(parentLog, Row("child", i))
  /\ UNCHANGED <<sem, ch, verdict>>

\* The child loop, or the stub, has a summary to store.
BeginFinalize(i) ==
  /\ ~ctxDone
  /\ Move(i, "working", "finalizing")
  /\ UNCHANGED <<sem, ch, verdict, parentLog>>

\* finalizeMultiAgentChildSession's row; a trace error later is only a risk.
Finalize(i) ==
  /\ Move(i, "finalizing", "sending")
  /\ parentLog' = Append(parentLog, Row("result", i))
  /\ verdict' = [verdict EXCEPT ![i] = "completed"]
  /\ UNCHANGED <<sem, ch>>

\* A store call of the child fails: a failed result, and no row.
Fail(i) ==
  /\ \E s \in {"starting", "recording", "working", "finalizing"} :
       Move(i, s, "sending")
  /\ verdict' = [verdict EXCEPT ![i] = "failed"]
  /\ UNCHANGED <<sem, ch, parentLog>>

\* Variant, not the code: a failed task sends no result.
SendOnlySuccess(i) ==
  /\ plan.mode = "parallel"
  /\ Move(i, "sending", "releasing")
  /\ ch' = IF verdict[i] = "completed"
             THEN Append(ch, [slot |-> i, verdict |-> verdict[i]]) ELSE ch
  /\ UNCHANGED <<sem, verdict, parentLog>>

\* ch <- item{...}: the channel has room for every task.
Send(i) ==
  /\ plan.mode = "parallel"
  /\ Len(ch) < Len(plan.tasks)
  /\ Move(i, "sending", "releasing")
  /\ ch' = Append(ch, [slot |-> i, verdict |-> verdict[i]])
  /\ UNCHANGED <<sem, verdict, parentLog>>

\* Variant, not the code: the release is not deferred, and skipped after an error.
ReleaseOnlyOnSuccess(i) ==
  /\ Move(i, "releasing", "done")
  /\ sem' = IF verdict[i] = "completed" THEN sem - 1 ELSE sem
  /\ UNCHANGED <<ch, verdict, parentLog>>

\* Variant, not the code: an explicit release and a deferred one.
ReleaseTwice(i) ==
  /\ Move(i, "releasing", "done")
  /\ sem' = sem - 2
  /\ UNCHANGED <<ch, verdict, parentLog>>

\* defer func() { <-sem }()
Release(i) ==
  /\ Move(i, "releasing", "done")
  /\ sem' = sem - 1
  /\ UNCHANGED <<ch, verdict, parentLog>>

-----------------------------------------------------------------------------
\* The client disconnects, or the process is told to stop.
Cancel ==
  /\ ~ctxDone
  /\ phase # "returned"
  /\ ctxDone' = TRUE
  /\ UNCHANGED <<callVars, sem, ch, takenVars, child, verdict, parentLog>>

Run ==
  \/ CreateParent \/ Reject \/ StartParallel \/ StartSequential
  \/ CollectResult \/ CollectCancelled \/ Conclude
  \/ \E i \in Tasks : SequenceNext(i) \/ SequenceAppend(i)

Goroutine(i) ==
  \/ Acquire(i) \/ BeginRecord(i) \/ Record(i) \/ BeginFinalize(i)
  \/ Finalize(i) \/ Fail(i) \/ Send(i) \/ Release(i)

Next == Run \/ Cancel \/ \E i \in Tasks : Goroutine(i)

Spec == Init /\ [][Next]_vars

\* The scheduler runs every goroutine that can run, a child's loop is bounded
\* and its calls time out.  Nothing forces anybody to cancel.
Fairness ==
  /\ WF_vars(Run)
  /\ \A i \in UNION {Slots(p) : p \in Submitted} :
       WF_vars(i \in Tasks /\ Goroutine(i))

FairSpec == Spec /\ Fairness

-----------------------------------------------------------------------------
(* Properties.                                                             *)

Verdicts == {"none", "completed", "failed"}
Working == {"starting", "recording", "working", "finalizing"}
ChildStates == {"idle", "waiting", "sending", "releasing", "done"} \union Working

\* The runner is executing for these slots / they hold a semaphore token.
Active  == {i \in Tasks : child[i] \in Working}
Holding == {i \in Tasks : child[i] \in Working \union {"sending", "releasing"}}

RowsOf(kind) == {k \in DOMAIN parentLog : parentLog[k].kind = kind}

Items == [slot : Tasks, verdict : Verdicts]
LogRows == [kind : {"objective", "child", "result", "aggregate"},
            slot : {0} \union Tasks]

\* Types of the variables.
TypeOK ==
  /\ plan \in Submitted
  /\ phase \in {"submitted", "validating", "collecting", "sequencing",
                "aggregating", "returned"}
  /\ outcome \in {"none", "rejected", "panicked", "cancelled", "storeError", "ok"}
  /\ ctxDone \in BOOLEAN
  /\ sem \in Nat
  /\ ch \in Seq(Items)
  /\ received \in Nat
  /\ results \in [Tasks -> Verdicts]
  /\ aggregate \in [completed : Nat, failed : Nat]
  /\ child \in [Tasks -> ChildStates]
  /\ verdict \in [Tasks -> Verdicts]
  /\ parentLog \in Seq(LogRows)

\* The channel `sem' holds one token per child between its acquire and its
\* deferred release, and a child only moves under an accepted plan.
TokensMatchHolders ==
  /\ \A i \in Tasks : child[i] # "idle" => Validate(plan)
  /\ plan.mode = "parallel" =>
       /\ sem = Cardinality(Holding)
       /\ sem # 0 => sem <= plan.max

\* A sequential run executes its tasks in plan order, one at a time.
SequentialOrder ==
  plan.mode = "sequential" =>
    \A i \in Tasks :
      /\ child[i] \in Working \union {"idle", "sending", "done"}
      /\ i <= received => child[i] = "done"
      /\ i > received + 1 => child[i] = "idle"

\* However the goroutines interleave, and also after Run has given up on a
\* cancelled context, no more runners execute at once than the policy allows
\* (policy.go: max_concurrent; orchestrator.go: the semaphore).
ConcurrencyLimited == Cardinality(Active) <= EffectiveLimit

\* Two tasks that execute at the same time never own the same write scope.
WriteScopesExclusive ==
  \A i, j \in Active : i # j => ~SharesScope(plan, i, j)

\* A run that reports success reports, at every index, the result of the task
\* at that index, whatever order the children ended in, and its counters
\* agree with the rows the children left in the parent session.
ResultsComplete ==
  outcome = "ok" =>
    /\ \A i \in Tasks : results[i] = verdict[i] /\ verdict[i] # "none"
    /\ aggregate.completed + aggregate.failed = Len(plan.tasks)
    /\ aggregate.completed = Cardinality(RowsOf("result"))

\* The parent session reads as a history: each task is announced at most once,
\* its result comes later and at most once, and the aggregate closes the log.
ParentLogOrdered ==
  /\ \A k, l \in DOMAIN parentLog : parentLog[k] = parentLog[l] => k = l
  /\ \A l \in RowsOf("result") : \E k \in RowsOf("child") :
       k < l /\ parentLog[k].slot = parentLog[l].slot
  /\ RowsOf("aggregate") \subseteq {Len(parentLog)}

\* Once the context is cancelled no further task is announced: a goroutine
\* that still gets its token only fails (Run does not stop them itself).
CancelStopsDelegation ==
  [][ctxDone => \A i \in Tasks :
       child[i] \in {"idle", "waiting", "starting"} => child'[i] \notin {"recording", "working"}]_vars

\* An accepted or refused plan is answered: Run neither waits for a result
\* nobody sends nor loses one.
RunReturns == phase = "validating" ~> phase = "returned"

\* No goroutine outlives its work: also after an early return every started
\* child ends and gives its token back.
GoroutinesDrain ==
  \A i \in UNION {Slots(p) : p \in Submitted} :
    (i \in Tasks /\ child[i] = "waiting") ~> (i \in Tasks /\ child[i] = "done")

\* The run keeps the promise of PlanContract: goroutines, semaphore, result
\* channel and cancellation are an implementation of it.
Contract == INSTANCE PlanContract WITH
  Slot   <- UNION {Slots(p) : p \in Submitted},
  Limit  <- EffectiveLimit,
  busy   <- Active,
  answer <- [s \in UNION {Slots(p) : p \in Submitted} |->
               IF s \in Tasks THEN verdict[s] ELSE "none"],
  report <- [status  |-> IF outcome = "none" THEN "open"
                         ELSE IF outcome = "ok" THEN "ok" ELSE "aborted",
             answers |-> IF outcome = "ok" THEN results ELSE << >>]

ImplementsContract == Contract!Spec
=============================================================================
