------------------------- MODULE OrchestratorProofs -------------------------
(***************************************************************************)
(* Of a plan run, for every policy limit and every set of submitted plans: *)
(* type correctness and the concurrency limit, then the parent session's   *)
(* log and the results, then the refinement of PlanContract.               *)
(***************************************************************************)
EXTENDS Orchestrator, FiniteSetTheorems, TLAPS

\* Where the run is determines how it treats its children.
PhaseInv ==
  /\ phase \in {"submitted", "validating"} => \A i \in Tasks : child[i] = "idle"
  /\ phase = "collecting" => plan.mode = "parallel"
  /\ phase = "sequencing" => plan.mode = "sequential" /\ Validate(plan)

\* The inductive invariant.
IInv == TypeOK /\ PhaseInv /\ TokensMatchHolders /\ SequentialOrder

LEMMA SeqFacts ==
  ASSUME NEW S, NEW s \in Seq(S), NEW e \in S
  PROVE  /\ Append(s, e) \in Seq(S)
         /\ << e >> \in Seq(S)
OBVIOUS

LEMMA HeadTailFacts ==
  ASSUME NEW S, NEW s \in Seq(S), s # << >>
  PROVE  Head(s) \in S /\ Tail(s) \in Seq(S)
OBVIOUS

\* Messages and rows have the fields their senders give them.
LEMMA RecordFacts ==
  /\ \A i \in Tasks, v \in Verdicts : [slot |-> i, verdict |-> v] \in Items
  /\ \A m \in Items : m.slot \in Tasks /\ m.verdict \in Verdicts
  /\ \A i \in Tasks : Row("child", i) \in LogRows /\ Row("result", i) \in LogRows
  /\ Row("objective", 0) \in LogRows /\ Row("aggregate", 0) \in LogRows
BY DEF Items, LogRows, Row

LEMMA TasksFinite ==
  ASSUME plan \in Submitted
  PROVE  /\ IsFiniteSet(Tasks)
         /\ Tasks = 1..Len(plan.tasks)
         /\ Len(plan.tasks) \in Nat
         /\ plan.max \in Int
<1>1. Tasks = 1..Len(plan.tasks) /\ Len(plan.tasks) \in Nat /\ plan.max \in Int
  BY SubmittedAssumption DEF Tasks, Slots
<1>2. IsFiniteSet(1..Len(plan.tasks))
  BY <1>1, FS_Interval
<1>. QED  BY <1>1, <1>2

\* Moving one slot into, out of or within the set of token holders.
LEMMA HoldingMoves ==
  ASSUME TypeOK, NEW i \in Tasks, NEW to \in ChildStates, plan' = plan,
         child' = [child EXCEPT ![i] = to]
  PROVE  LET in == Working \union {"sending", "releasing"} IN
         /\ IsFiniteSet(Holding) /\ Cardinality(Holding) \in Nat
         /\ IsFiniteSet(Holding') /\ Cardinality(Holding') \in Nat
         /\ (child[i] \in in <=> to \in in) =>
              Cardinality(Holding') = Cardinality(Holding)
         /\ child[i] \notin in /\ to \in in =>
              Cardinality(Holding') = Cardinality(Holding) + 1
         /\ child[i] \in in /\ to \notin in =>
              /\ Cardinality(Holding') = Cardinality(Holding) - 1
              /\ Cardinality(Holding) > 0
<1> DEFINE in == Working \union {"sending", "releasing"}
<1>1. plan \in Submitted /\ child \in [Tasks -> ChildStates] /\ Tasks' = Tasks
  BY DEF TypeOK, Tasks
<1>2. IsFiniteSet(Tasks)
  BY <1>1, TasksFinite
<1>3. Holding \subseteq Tasks /\ Holding' \subseteq Tasks
  BY <1>1 DEF Holding
<1>4. /\ IsFiniteSet(Holding) /\ Cardinality(Holding) \in Nat
      /\ IsFiniteSet(Holding') /\ Cardinality(Holding') \in Nat
  BY <1>2, <1>3, FS_Subset, FS_CardinalityType
<1>5. child'[i] = to /\ \A j \in Tasks : j # i => child'[j] = child[j]
  BY <1>1
<1>6. ASSUME child[i] \in in <=> to \in in
      PROVE  Cardinality(Holding') = Cardinality(Holding)
  <2>1. Holding' = Holding
    BY <1>1, <1>5, <1>6 DEF Holding
  <2>. QED  BY <2>1
<1>7. ASSUME child[i] \notin in, to \in in
      PROVE  Cardinality(Holding') = Cardinality(Holding) + 1
  <2>1. i \notin Holding /\ Holding' = Holding \union {i}
    BY <1>1, <1>5, <1>7 DEF Holding
  <2>. QED  BY <2>1, <1>4, FS_AddElement
<1>8. ASSUME child[i] \in in, to \notin in
      PROVE  /\ Cardinality(Holding') = Cardinality(Holding) - 1
             /\ Cardinality(Holding) > 0
  <2>1. i \in Holding /\ Holding' = Holding \ {i}
    BY <1>1, <1>5, <1>8 DEF Holding
  <2>2. Cardinality(Holding') = Cardinality(Holding) - 1
    BY <2>1, <1>4, FS_RemoveElement
  <2>. QED  BY <2>2, <1>4
<1>. QED  BY <1>4, <1>6, <1>7, <1>8
LEMMA InitInv == Init => IInv
<1> SUFFICES ASSUME Init PROVE IInv
  OBVIOUS
<1>1. plan \in Submitted /\ Holding = {} /\ Cardinality(Holding) = 0
  <2>1. plan \in Submitted /\ Holding = {}
    BY DEF Init, Holding, Working, Tasks
  <2>. QED  BY <2>1, FS_EmptySet
<1>2. TypeOK
  <2>1. << >> \in Seq(Items) /\ << >> \in Seq(LogRows)
    OBVIOUS
  <2>. QED  BY <1>1, <2>1 DEF Init, TypeOK, Tasks, Verdicts, ChildStates, Working
<1>3. PhaseInv
  BY DEF Init, PhaseInv, Tasks
<1>4. TokensMatchHolders
  BY <1>1 DEF Init, TokensMatchHolders, Tasks
<1>5. SequentialOrder
  BY <1>1, TasksFinite DEF Init, SequentialOrder, Tasks
<1>. QED  BY <1>2, <1>3, <1>4, <1>5 DEF IInv

-----------------------------------------------------------------------------
(* Steps of RunMultiAgentPlan that leave the children alone.               *)

LEMMA QuietRunStep ==
  ASSUME IInv,
         CreateParent \/ Reject \/ StartSequential \/ CollectCancelled
           \/ CollectResult \/ Conclude
  PROVE  IInv'
<1>1. UNCHANGED <<plan, sem, child>> /\ Tasks' = Tasks /\ Holding' = Holding
  BY DEF CreateParent, Reject, StartSequential, CollectCancelled, CollectResult,
         Conclude, Goto, Return, Take, callVars, takenVars, Tasks, Holding
<1>2. /\ IsFiniteSet(Tasks) /\ Tasks = 1..Len(plan.tasks) /\ Len(plan.tasks) \in Nat
      /\ plan.max \in Int
  BY TasksFinite DEF IInv, TypeOK
<1>0. Items' = Items /\ LogRows' = LogRows
  BY <1>1 DEF Items, LogRows
<1>3. Aggregate(results) \in [completed : Nat, failed : Nat]
  <2>1. DOMAIN results = Tasks
    BY DEF IInv, TypeOK
  <2>2. \A v : Cardinality({i \in Tasks : results[i] = v}) \in Nat
    BY <1>2, FS_Subset, FS_CardinalityType
  <2>. QED  BY <2>1, <2>2 DEF Aggregate
<1>4. TypeOK'
  <2>1. CASE CreateParent
    <3>1. << Row("objective", 0) >> \in Seq(LogRows)
      BY RecordFacts, SeqFacts
    <3>. QED
      BY <2>1, <3>1, <1>1, <1>0 DEF IInv, TypeOK, CreateParent, Goto, Return, takenVars
  <2>2. CASE Reject \/ StartSequential \/ CollectCancelled
    BY <2>2, <1>1, <1>0 DEF IInv, TypeOK, Reject, StartSequential, CollectCancelled,
                      Goto, Return, takenVars
  <2>3. CASE CollectResult
    <3>1. Head(ch) \in Items /\ Tail(ch) \in Seq(Items)
      BY <2>3, HeadTailFacts DEF IInv, TypeOK, CollectResult
    <3>2. Head(ch).slot \in Tasks /\ Head(ch).verdict \in Verdicts
      BY <3>1, RecordFacts
    <3>. QED
      BY <2>3, <3>1, <3>2, <1>1, <1>0
      DEF IInv, TypeOK, CollectResult, Take, Goto, callVars
  <2>4. CASE Conclude
    <3>1. Append(parentLog, Row("aggregate", 0)) \in Seq(LogRows)
      BY RecordFacts, SeqFacts DEF IInv, TypeOK
    <3>. QED  BY <2>4, <3>1, <1>1, <1>3, <1>0 DEF IInv, TypeOK, Conclude, Return
  <2>. QED  BY <2>1, <2>2, <2>3, <2>4
<1>5. PhaseInv'
  BY <1>1 DEF IInv, PhaseInv, CreateParent, Reject, StartSequential,
       CollectCancelled, CollectResult, Conclude, Goto, Return, Take, callVars
<1>6. TokensMatchHolders'
  BY <1>1 DEF IInv, TokensMatchHolders
<1>7. SequentialOrder'
  <2>1. CASE CollectResult
    BY <2>1, <1>1, <1>2 DEF IInv, PhaseInv, CollectResult, SequentialOrder
  <2>2. CASE ~CollectResult
    <3>1. UNCHANGED received
      BY <2>2 DEF CreateParent, Reject, StartSequential, CollectCancelled,
                  Conclude, takenVars
    <3>. QED  BY <3>1, <1>1 DEF IInv, SequentialOrder
  <2>. QED  BY <2>1, <2>2
<1>. QED  BY <1>4, <1>5, <1>6, <1>7 DEF IInv

LEMMA CancelStep == IInv /\ Cancel => IInv'
<1> SUFFICES ASSUME IInv, Cancel PROVE IInv'
  OBVIOUS
<1>1. /\ UNCHANGED <<callVars, sem, ch, takenVars, child, verdict, parentLog>>
      /\ ctxDone' = TRUE
  BY DEF Cancel
<1>2. Tasks' = Tasks /\ Holding' = Holding /\ Items' = Items /\ LogRows' = LogRows
  BY <1>1 DEF Tasks, Holding, Items, LogRows, callVars
<1>. QED
  BY <1>1, <1>2 DEF IInv, TypeOK, PhaseInv, TokensMatchHolders, SequentialOrder,
                    callVars, takenVars

LEMMA StartParallelStep == IInv /\ StartParallel => IInv'
<1> SUFFICES ASSUME IInv, StartParallel PROVE IInv'
  OBVIOUS
<1>1. /\ UNCHANGED <<plan, ctxDone, sem, ch, received, results, aggregate,
                     verdict, parentLog>>
      /\ child' = child \/ child' = [j \in Tasks |-> "waiting"]
      /\ phase = "validating" /\ phase' \in {"collecting", "returned"}
      /\ outcome' \in {outcome, "panicked"}
      /\ Validate(plan) /\ plan.mode = "parallel"
  BY DEF StartParallel, Goto, Return, takenVars
<1>2. Tasks' = Tasks /\ Items' = Items /\ LogRows' = LogRows
  BY <1>1 DEF Tasks, Items, LogRows
<1>3. Holding = {} /\ Holding' = {}
  BY <1>1, <1>2 DEF IInv, PhaseInv, TypeOK, Holding, Working
<1>4. TypeOK'
  BY <1>1, <1>2 DEF IInv, TypeOK, ChildStates
<1>5. PhaseInv' /\ TokensMatchHolders' /\ SequentialOrder'
  BY <1>1, <1>2, <1>3 DEF IInv, PhaseInv, TokensMatchHolders, SequentialOrder
<1>. QED  BY <1>4, <1>5 DEF IInv

-----------------------------------------------------------------------------
(* Steps of the sequential loop.                                           *)

LEMMA SequenceNextStep ==
  ASSUME IInv, NEW i \in Tasks, SequenceNext(i)
  PROVE  IInv'
<1>1. /\ UNCHANGED <<plan, ctxDone, sem, ch, received, results, aggregate,
                     verdict, parentLog>>
      /\ phase = "sequencing" /\ phase' \in {"sequencing", "returned"}
      /\ outcome' \in {outcome, "cancelled"}
      /\ i = received + 1 /\ child[i] = "idle"
      /\ child' = child \/ child' = [child EXCEPT ![i] = "starting"]
  BY DEF SequenceNext, Return, callVars, takenVars
<1>2. Tasks' = Tasks /\ Items' = Items /\ LogRows' = LogRows
  BY <1>1 DEF Tasks, Items, LogRows
<1>3. plan.mode = "sequential" /\ Validate(plan)
  BY <1>1 DEF IInv, PhaseInv
<1>4. Tasks = 1..Len(plan.tasks) /\ Len(plan.tasks) \in Nat
  BY TasksFinite DEF IInv, TypeOK
<1>5. TypeOK'
  BY <1>1, <1>2 DEF IInv, TypeOK, ChildStates, Working
<1>6. PhaseInv' /\ TokensMatchHolders'
  BY <1>1, <1>2, <1>3 DEF IInv, PhaseInv, TokensMatchHolders
<1>7. SequentialOrder'
  BY <1>1, <1>2, <1>3, <1>4 DEF IInv, TypeOK, SequentialOrder, Working
<1>. QED  BY <1>5, <1>6, <1>7 DEF IInv

LEMMA SequenceAppendStep ==
  ASSUME IInv, NEW i \in Tasks, SequenceAppend(i)
  PROVE  IInv'
<1>1. /\ UNCHANGED <<plan, ctxDone, sem, ch, outcome, aggregate, verdict, parentLog>>
      /\ phase = "sequencing" /\ phase' \in {"sequencing", "aggregating"}
      /\ child[i] = "sending" /\ child' = [child EXCEPT ![i] = "done"]
      /\ received' = received + 1
      /\ results' = [results EXCEPT ![i] = verdict[i]]
  BY DEF SequenceAppend, Take, Goto, callVars
<1>2. Tasks' = Tasks /\ Items' = Items /\ LogRows' = LogRows
  BY <1>1 DEF Tasks, Items, LogRows
<1>3. plan.mode = "sequential" /\ Validate(plan)
  BY <1>1 DEF IInv, PhaseInv
<1>4. Tasks = 1..Len(plan.tasks) /\ Len(plan.tasks) \in Nat
  BY TasksFinite DEF IInv, TypeOK
<1>5. i = received + 1
  BY <1>1, <1>3, <1>4 DEF IInv, TypeOK, SequentialOrder
<1>6. TypeOK'
  BY <1>1, <1>2 DEF IInv, TypeOK, ChildStates
<1>7. PhaseInv' /\ TokensMatchHolders'
  BY <1>1, <1>2, <1>3 DEF IInv, PhaseInv, TokensMatchHolders
<1>8. SequentialOrder'
  BY <1>1, <1>2, <1>3, <1>4, <1>5 DEF IInv, TypeOK, SequentialOrder
<1>. QED  BY <1>6, <1>7, <1>8 DEF IInv

-----------------------------------------------------------------------------
(* Steps of the goroutines.                                                *)

\* What every step of goroutine i has in common.
LEMMA MoveFacts ==
  ASSUME IInv, NEW i \in Tasks, NEW from \in ChildStates \ {"idle"},
         NEW to \in ChildStates \ {"idle"}, Move(i, from, to),
         plan.mode = "sequential" => from \in Working /\ to \in Working \union {"sending"}
  PROVE  /\ UNCHANGED <<plan, phase, outcome, ctxDone, received, results, aggregate>>
         /\ Tasks' = Tasks /\ Items' = Items /\ LogRows' = LogRows
         /\ child' \in [Tasks -> ChildStates]
         /\ Validate(plan)
         /\ PhaseInv' /\ SequentialOrder'
<1>1. /\ UNCHANGED <<plan, phase, outcome, ctxDone, received, results, aggregate>>
      /\ child[i] = from /\ child' = [child EXCEPT ![i] = to]
  BY DEF Move, callVars, takenVars
<1>2. Tasks' = Tasks /\ Items' = Items /\ LogRows' = LogRows
  BY <1>1 DEF Tasks, Items, LogRows
<1>3. child' \in [Tasks -> ChildStates] /\ Validate(plan)
  BY <1>1 DEF IInv, TypeOK, TokensMatchHolders
<1>4. PhaseInv'
  BY <1>1, <1>2 DEF IInv, PhaseInv
<1>5. SequentialOrder'
  <2>1. Tasks = 1..Len(plan.tasks) /\ Len(plan.tasks) \in Nat /\ received \in Nat
    BY TasksFinite DEF IInv, TypeOK
  <2>2. ASSUME plan.mode = "sequential" PROVE i = received + 1
    BY <1>1, <2>1, <2>2 DEF IInv, SequentialOrder, Working
  <2>. QED  BY <1>1, <1>2, <2>1, <2>2 DEF IInv, TypeOK, SequentialOrder
<1>. QED  BY <1>1, <1>2, <1>3, <1>4, <1>5

LEMMA AcquireStep ==
  ASSUME IInv, NEW i \in Tasks, Acquire(i)
  PROVE  IInv'
<1>1. /\ Move(i, "waiting", "starting") /\ child' = [child EXCEPT ![i] = "starting"]
      /\ child[i] = "waiting"
      /\ sem < plan.max /\ sem' = sem + 1 /\ UNCHANGED <<ch, verdict, parentLog>>
  BY DEF Acquire, Move
<1>2. plan.mode # "sequential"
  BY <1>1 DEF IInv, SequentialOrder, Working
<1>3. /\ UNCHANGED <<plan, phase, outcome, ctxDone, received, results, aggregate>>
      /\ Tasks' = Tasks /\ Items' = Items /\ LogRows' = LogRows
      /\ child' \in [Tasks -> ChildStates]
      /\ Validate(plan) /\ PhaseInv' /\ SequentialOrder'
  BY <1>1, <1>2, MoveFacts DEF ChildStates, Working
<1>4. Cardinality(Holding') = Cardinality(Holding) + 1
  BY <1>1, <1>3, HoldingMoves DEF IInv, ChildStates, Working
<1>5. TypeOK'
  BY <1>1, <1>3 DEF IInv, TypeOK
<1>6. plan.max \in Int
  BY TasksFinite DEF IInv, TypeOK
<1>7. TokensMatchHolders'
  BY <1>1, <1>3, <1>4, <1>6 DEF IInv, TypeOK, TokensMatchHolders
<1>. QED  BY <1>3, <1>5, <1>7 DEF IInv

\* The steps of a running child keep its token.
LEMMA RunningStep ==
  ASSUME IInv, NEW i \in Tasks,
         BeginRecord(i) \/ Record(i) \/ BeginFinalize(i) \/ Finalize(i)
           \/ Fail(i) \/ Send(i)
  PROVE  IInv'
<1>1. PICK from \in Working \union {"sending"}, to \in Working \union {"sending", "releasing"} :
        /\ Move(i, from, to)
        /\ child[i] = from /\ child' = [child EXCEPT ![i] = to]
        /\ plan.mode = "sequential" => from \in Working /\ to # "releasing"
  BY DEF BeginRecord, Record, BeginFinalize, Finalize, Fail, Send, Move, Working
<1>2. /\ UNCHANGED <<plan, phase, outcome, ctxDone, received, results, aggregate>>
      /\ Tasks' = Tasks /\ Items' = Items /\ LogRows' = LogRows
      /\ child' \in [Tasks -> ChildStates]
      /\ Validate(plan) /\ PhaseInv' /\ SequentialOrder'
  BY <1>1, MoveFacts DEF ChildStates, Working
<1>3. Cardinality(Holding') = Cardinality(Holding)
  BY <1>1, <1>2, HoldingMoves DEF IInv, ChildStates, Working
<1>4. UNCHANGED sem
  BY DEF BeginRecord, Record, BeginFinalize, Finalize, Fail, Send
<1>5. verdict' \in [Tasks -> Verdicts]
  <2>1. verdict' \in {verdict, [verdict EXCEPT ![i] = "completed"],
                      [verdict EXCEPT ![i] = "failed"]}
    BY DEF BeginRecord, Record, BeginFinalize, Finalize, Fail, Send
  <2>. QED  BY <2>1 DEF IInv, TypeOK, Verdicts
<1>6. parentLog' \in Seq(LogRows)
  <2>1. parentLog' \in {parentLog, Append(parentLog, Row("child", i)),
                        Append(parentLog, Row("result", i))}
    BY DEF BeginRecord, Record, BeginFinalize, Finalize, Fail, Send
  <2>2. parentLog \in Seq(LogRows) /\ Row("child", i) \in LogRows /\ Row("result", i) \in LogRows
    BY RecordFacts DEF IInv, TypeOK
  <2>3. /\ Append(parentLog, Row("child", i)) \in Seq(LogRows)
        /\ Append(parentLog, Row("result", i)) \in Seq(LogRows)
    BY <2>2, SeqFacts
  <2>. QED  BY <2>1, <2>2, <2>3
<1>7. ch' \in Seq(Items)
  <2>1. ch' \in {ch, Append(ch, [slot |-> i, verdict |-> verdict[i]])}
    BY DEF BeginRecord, Record, BeginFinalize, Finalize, Fail, Send
  <2>2. [slot |-> i, verdict |-> verdict[i]] \in Items
    BY RecordFacts DEF IInv, TypeOK
  <2>3. ch \in Seq(Items) /\ Append(ch, [slot |-> i, verdict |-> verdict[i]]) \in Seq(Items)
    BY <2>2, SeqFacts DEF IInv, TypeOK
  <2>. QED  BY <2>1, <2>3
<1>8. TypeOK'
  BY <1>2, <1>4, <1>5, <1>6, <1>7 DEF IInv, TypeOK
<1>9. TokensMatchHolders'
  BY <1>2, <1>3, <1>4 DEF IInv, TokensMatchHolders
<1>. QED  BY <1>2, <1>8, <1>9 DEF IInv

LEMMA ReleaseStep ==
  ASSUME IInv, NEW i \in Tasks, Release(i)
  PROVE  IInv'
<1>1. /\ Move(i, "releasing", "done") /\ child' = [child EXCEPT ![i] = "done"]
      /\ child[i] = "releasing"
      /\ sem' = sem - 1 /\ UNCHANGED <<ch, verdict, parentLog>>
  BY DEF Release, Move
<1>2. plan.mode # "sequential"
  BY <1>1 DEF IInv, SequentialOrder, Working
<1>3. /\ UNCHANGED <<plan, phase, outcome, ctxDone, received, results, aggregate>>
      /\ Tasks' = Tasks /\ Items' = Items /\ LogRows' = LogRows
      /\ child' \in [Tasks -> ChildStates]
      /\ Validate(plan) /\ PhaseInv' /\ SequentialOrder'
  BY <1>1, <1>2, MoveFacts DEF ChildStates, Working
<1>4. plan.mode = "parallel"
  BY <1>2, <1>3 DEF Validate, Modes
<1>5. /\ Cardinality(Holding') = Cardinality(Holding) - 1
      /\ Cardinality(Holding) > 0 /\ Cardinality(Holding) \in Nat
  BY <1>1, <1>3, HoldingMoves DEF IInv, ChildStates, Working
<1>6. sem' = Cardinality(Holding') /\ sem' \in Nat /\ sem' < sem /\ sem <= plan.max
  BY <1>1, <1>4, <1>5 DEF IInv, TokensMatchHolders
<1>7. plan.max \in Int
  BY TasksFinite DEF IInv, TypeOK
<1>8. TypeOK'
  BY <1>1, <1>3, <1>6 DEF IInv, TypeOK
<1>9. TokensMatchHolders'
  BY <1>3, <1>6, <1>7 DEF IInv, TypeOK, TokensMatchHolders
<1>. QED  BY <1>3, <1>8, <1>9 DEF IInv

-----------------------------------------------------------------------------

LEMMA NextInv == IInv /\ [Next]_vars => IInv'
<1> SUFFICES ASSUME IInv, [Next]_vars PROVE IInv'
  OBVIOUS
<1>1. CASE Run
  <2>1. ASSUME NEW i \in Tasks, SequenceNext(i) \/ SequenceAppend(i)
        PROVE  IInv'
    BY <2>1, SequenceNextStep, SequenceAppendStep
  <2>. QED  BY <1>1, <2>1, QuietRunStep, StartParallelStep DEF Run
<1>2. CASE Cancel
  BY <1>2, CancelStep
<1>3. ASSUME NEW i \in Tasks, Goroutine(i)
      PROVE  IInv'
  BY <1>3, AcquireStep, RunningStep, ReleaseStep DEF Goroutine
<1>4. CASE UNCHANGED vars
  <2>1. Tasks' = Tasks /\ Holding' = Holding /\ Items' = Items /\ LogRows' = LogRows
    BY <1>4 DEF vars, callVars, Tasks, Holding, Items, LogRows
  <2>. QED
    BY <1>4, <2>1 DEF vars, callVars, takenVars, IInv, TypeOK, PhaseInv,
                      TokensMatchHolders, SequentialOrder
<1>. QED  BY <1>1, <1>2, <1>3, <1>4 DEF Next

LEMMA Invariance == Spec => []IInv
BY InitInv, NextInv, PTL DEF Spec

\* Every variable of a plan run keeps its type; that a release never takes a
\* token that is not there needs the token count.
THEOREM TypeCorrect == Spec => []TypeOK
<1>1. IInv => TypeOK
  BY DEF IInv
<1>. QED  BY <1>1, Invariance, PTL

\* One token per running child, in every interleaving.
THEOREM TokensAlwaysMatch == Spec => []TokensMatchHolders
<1>1. IInv => TokensMatchHolders
  BY DEF IInv
<1>. QED  BY <1>1, Invariance, PTL

\* A sequential plan runs its tasks in order, one at a time.
THEOREM SequentialRunsInOrder == Spec => []SequentialOrder
<1>1. IInv => SequentialOrder
  BY DEF IInv
<1>. QED  BY <1>1, Invariance, PTL

LEMMA InvImpliesLimit == IInv => ConcurrencyLimited
<1> SUFFICES ASSUME IInv PROVE ConcurrencyLimited
  OBVIOUS
<1>1. IsFiniteSet(Tasks) /\ Tasks = 1..Len(plan.tasks) /\ plan.max \in Int
  BY TasksFinite DEF IInv, TypeOK
<1>2. Active \subseteq Holding /\ Holding \subseteq Tasks
  BY DEF Active, Holding
<1>3. /\ IsFiniteSet(Holding) /\ Cardinality(Holding) \in Nat
      /\ Cardinality(Active) \in Nat /\ Cardinality(Active) <= Cardinality(Holding)
  <2>1. IsFiniteSet(Holding)
    BY <1>1, <1>2, FS_Subset
  <2>. QED  BY <2>1, <1>2, FS_Subset, FS_CardinalityType
<1>4. EffectiveLimit \in Nat /\ EffectiveLimit >= 1
  BY PolicyLimitAssumption DEF EffectiveLimit
<1>5. CASE Active = {}
  BY <1>5, <1>4, FS_EmptySet DEF ConcurrencyLimited
<1>6. CASE Active # {}
  <2>1. Validate(plan)
    BY <1>6 DEF Active, Working, IInv, TokensMatchHolders
  <2>2. CASE plan.mode = "parallel"
    <3>1. Cardinality(Active) # 0
      BY <1>6, <1>3, <1>2, FS_Subset, FS_EmptySet
    <3>2. Cardinality(Holding) <= plan.max /\ plan.max > 0
      BY <2>2, <3>1, <1>3, <1>1 DEF IInv, TypeOK, TokensMatchHolders
    <3>3. plan.max <= EffectiveLimit
      BY <2>1, <3>2, <1>1 DEF Validate, NormalizedMax
    <3>. QED  BY <1>3, <1>4, <1>1, <3>2, <3>3 DEF ConcurrencyLimited
  <2>3. CASE plan.mode = "sequential"
    <3>1. Holding \subseteq {received + 1} /\ received \in Nat
      BY <2>3, <1>1 DEF IInv, TypeOK, SequentialOrder, Holding, Working
    <3>2. IsFiniteSet({received + 1}) /\ Cardinality({received + 1}) = 1
      BY FS_Singleton
    <3>3. Cardinality(Holding) <= 1
      BY <3>1, <3>2, FS_Subset
    <3>. QED  BY <1>3, <1>4, <3>3 DEF ConcurrencyLimited
  <2>. QED  BY <2>1, <2>2, <2>3 DEF Validate, Modes
<1>. QED  BY <1>5, <1>6

\* However the goroutines interleave and whenever the caller cancels, the
\* runners at work never outnumber the policy's limit.
THEOREM ConcurrencyAlwaysLimited == Spec => []ConcurrencyLimited
BY Invariance, InvImpliesLimit, PTL

\* Tasks at work at the same time own different write scopes: Validate compares
\* all pairs of a plan before the first child moves.
THEOREM ScopesStayExclusive == Spec => []WriteScopesExclusive
<1>1. IInv => WriteScopesExclusive
  BY DEF IInv, TokensMatchHolders, WriteScopesExclusive, Active, Working,
         Validate, Tasks
<1>. QED  BY <1>1, Invariance, PTL

\* A cancelled context announces no further task to the parent session, in
\* either mode.
THEOREM CancelAlwaysStops == Spec => CancelStopsDelegation
<1> DEFINE ahead == {"idle", "waiting", "starting"}
           Stops == ctxDone => \A i \in Tasks :
                      child[i] \in ahead => child'[i] \notin {"recording", "working"}
<1>1. IInv /\ [Next]_vars => Stops
  <2> SUFFICES ASSUME IInv, [Next]_vars, ctxDone, NEW i \in Tasks, child[i] \in ahead
               PROVE  child'[i] \notin {"recording", "working"}
    OBVIOUS
  <2>0. child \in [Tasks -> ChildStates]
    BY DEF IInv, TypeOK
  <2>1. CASE \E j \in Tasks : Goroutine(j)
    <3>1. PICK j \in Tasks : Goroutine(j)
      BY <2>1
    <3>2. CASE j = i
      BY <2>0, <3>1, <3>2 DEF Goroutine, Acquire, BeginRecord, Record, BeginFinalize,
            Finalize, Fail, Send, Release, Move
    <3>3. CASE j # i
      <4>1. child'[i] = child[i]
        BY <2>0, <3>1, <3>3 DEF Goroutine, Acquire, BeginRecord, Record, BeginFinalize,
              Finalize, Fail, Send, Release, Move
      <4>. QED  BY <4>1
    <3>. QED  BY <3>2, <3>3
  <2>2. CASE StartParallel
    BY <2>2 DEF StartParallel
  <2>3. ASSUME NEW j \in Tasks, SequenceNext(j) \/ SequenceAppend(j)
        PROVE  child'[i] \notin {"recording", "working"}
    BY <2>0, <2>3 DEF SequenceNext, SequenceAppend
  <2>4. CASE \/ CreateParent \/ Reject \/ StartSequential \/ CollectResult
             \/ CollectCancelled \/ Conclude \/ Cancel \/ UNCHANGED vars
    BY <2>4 DEF CreateParent, Reject, StartSequential, CollectResult,
          CollectCancelled, Conclude, Cancel, vars
  <2>. QED  BY <2>1, <2>2, <2>3, <2>4 DEF Next, Run
<1>. QED  BY <1>1, Invariance, PTL DEF Spec, CancelStopsDelegation

-----------------------------------------------------------------------------
(* The parent session and the results: what a child has told, where its    *)
(* result is, and what remains to be told.                                 *)

\* Where a child is by what it has told: after its own row, after its answer,
\* after its result was handed to Run.
Announced == {"working", "finalizing"}
Answering == {"sending", "releasing", "done"}
Sent      == {"releasing", "done"}

\* The results Run has taken.
Taken == {i \in Tasks : results[i] # "none"}

\* A child that has ended has a verdict and, when it completed, a result row;
\* its rows in the parent session are those of the steps it has taken.
ChildRowsInv ==
  /\ \A i \in Tasks : verdict[i] # "none" <=> child[i] \in Answering
  /\ \A i \in Tasks : child[i] \in Announced => \E k \in RowsOf("child") : parentLog[k].slot = i
  /\ \A i \in Tasks : verdict[i] = "completed" => \E k \in RowsOf("result") : parentLog[k].slot = i
  /\ \A k \in RowsOf("child") :
       parentLog[k].slot \in Tasks /\ child[parentLog[k].slot] \in Announced \union Answering
  /\ \A k \in RowsOf("result") :
       parentLog[k].slot \in Tasks /\ verdict[parentLog[k].slot] = "completed"

\* The rows RunMultiAgentPlan writes itself: first, or last when all is told.
OwnRowsInv ==
  /\ phase = "submitted" => parentLog = << >>
  /\ \A k \in RowsOf("objective") \union RowsOf("aggregate") : parentLog[k].slot = 0
  /\ RowsOf("aggregate") # {} => outcome = "ok"
  /\ outcome = "none" <=> phase # "returned"

\* A result is in the channel or in Run's slice, once, and it is the verdict.
ResultsInv ==
  /\ \A k \in DOMAIN ch :
       /\ ch[k].verdict = verdict[ch[k].slot]
       /\ child[ch[k].slot] \in Sent /\ results[ch[k].slot] = "none"
  /\ \A k, l \in DOMAIN ch : ch[k].slot = ch[l].slot => k = l
  /\ \A i \in Taken : results[i] = verdict[i] /\ child[i] \in Sent
  /\ received = Cardinality(Taken)
  /\ phase = "aggregating" \/ outcome = "ok" => received = Len(plan.tasks)
  /\ outcome = "ok" => aggregate = Aggregate(results)

LogInv == ChildRowsInv /\ OwnRowsInv /\ ResultsInv /\ ParentLogOrdered

-----------------------------------------------------------------------------
(* What single changes do to the log, the channel and the slice.           *)

LEMMA RowAppended ==
  ASSUME TypeOK, NEW row \in LogRows, parentLog' = Append(parentLog, row)
  PROVE  LET n == Len(parentLog) + 1 IN
         /\ n \in Nat \ {0} /\ DOMAIN parentLog = 1..(n - 1) /\ DOMAIN parentLog' = 1..n
         /\ Len(parentLog') = n
         /\ parentLog'[n] = row
         /\ \A k \in 1..(n - 1) : parentLog'[k] = parentLog[k]
         /\ \A kind : RowsOf(kind)' = IF row.kind = kind THEN RowsOf(kind) \union {n} ELSE RowsOf(kind)
         /\ \A kind : RowsOf(kind) \subseteq 1..(n - 1)
<1>1. parentLog \in Seq(LogRows) /\ Len(parentLog) \in Nat
  BY DEF TypeOK
<1>2. /\ DOMAIN parentLog = 1..Len(parentLog) /\ DOMAIN parentLog' = 1..(Len(parentLog) + 1)
      /\ Len(parentLog') = Len(parentLog) + 1
      /\ parentLog'[Len(parentLog) + 1] = row
      /\ \A k \in 1..Len(parentLog) : parentLog'[k] = parentLog[k]
  BY <1>1
<1>. QED  BY <1>1, <1>2 DEF RowsOf

\* One slot more is taken.
LEMMA TakenGrows ==
  ASSUME TypeOK, NEW i \in Tasks, NEW v \in Verdicts \ {"none"}, results[i] = "none",
         plan' = plan, results' = [results EXCEPT ![i] = v]
  PROVE  /\ Taken' = Taken \union {i} /\ IsFiniteSet(Taken)
         /\ Cardinality(Taken') = Cardinality(Taken) + 1
<1>1. plan \in Submitted /\ results \in [Tasks -> Verdicts] /\ Tasks' = Tasks
  BY DEF TypeOK, Tasks
<1>2. IsFiniteSet(Taken)
  <2>1. Taken \subseteq Tasks
    BY DEF Taken
  <2>. QED  BY <1>1, <2>1, TasksFinite, FS_Subset
<1>3. Taken' = Taken \union {i} /\ i \notin Taken
  BY <1>1 DEF Taken
<1>. QED  BY <1>2, <1>3, FS_AddElement

\* When as many results are taken as there are tasks, every task has answered.
LEMMA AllTaken ==
  ASSUME TypeOK, ResultsInv, received = Len(plan.tasks)
  PROVE  /\ Taken = Tasks
         /\ \A i \in Tasks : results[i] = verdict[i] /\ results[i] # "none" /\ child[i] \in Sent
<1>1. /\ IsFiniteSet(Tasks) /\ Tasks = 1..Len(plan.tasks) /\ Len(plan.tasks) \in Nat
  BY TasksFinite DEF TypeOK
<1>2. Cardinality(Tasks) = Len(plan.tasks)
  <2>1. 1 \in Int /\ Len(plan.tasks) \in Int
    BY <1>1
  <2>2. Cardinality(1..Len(plan.tasks)) = IF 1 > Len(plan.tasks) THEN 0 ELSE Len(plan.tasks) - 1 + 1
    BY <2>1, FS_Interval
  <2>. QED  BY <1>1, <2>2
<1>3. Taken = Tasks
  <2>1. Taken \subseteq Tasks
    BY DEF Taken
  <2>. QED  BY <1>1, <1>2, <2>1, FS_Subset DEF ResultsInv
<1>. QED  BY <1>3 DEF ResultsInv, Taken

\* The child's own row: the first row of its task.
LEMMA RecordLog ==
  ASSUME IInv, LogInv, NEW i \in Tasks, Record(i)
  PROVE  LogInv'
<1> DEFINE n == Len(parentLog) + 1
<1>1. /\ UNCHANGED <<plan, phase, outcome, ch, received, results, aggregate, verdict>>
      /\ Tasks' = Tasks /\ child \in [Tasks -> ChildStates]
      /\ child[i] = "recording" /\ child' = [child EXCEPT ![i] = "working"]
  BY DEF Record, Move, callVars, takenVars, Tasks, IInv, TypeOK
<1>2. /\ n \in Nat \ {0} /\ DOMAIN parentLog = 1..(n - 1) /\ DOMAIN parentLog' = 1..n
      /\ Len(parentLog') = n
      /\ parentLog'[n] = Row("child", i) /\ \A k \in 1..(n - 1) : parentLog'[k] = parentLog[k]
      /\ \A kind : RowsOf(kind) \subseteq 1..(n - 1)
      /\ RowsOf("child")' = RowsOf("child") \union {n}
      /\ \A kind \in {"objective", "result", "aggregate"} : RowsOf(kind)' = RowsOf(kind)
  BY RowAppended, RecordFacts DEF Record, Row, IInv
<1>3. parentLog'[n].slot = i /\ parentLog'[n].kind = "child"
  BY <1>2 DEF Row
<1>4. \A k \in 1..(n - 1) : ~(parentLog[k].kind = "child" /\ parentLog[k].slot = i)
  BY <1>1, <1>2 DEF LogInv, ChildRowsInv, RowsOf, Announced, Answering
<1>5. outcome # "ok" /\ phase \notin {"submitted", "aggregating"} /\ RowsOf("aggregate") = {}
  <2>1. received # Len(plan.tasks)
    BY <1>1, AllTaken DEF IInv, LogInv, Sent
  <2>. QED  BY <1>1, <2>1 DEF IInv, PhaseInv, LogInv, ResultsInv, OwnRowsInv
<1>6. ChildRowsInv'
  BY <1>1, <1>2, <1>3 DEF LogInv, ChildRowsInv, Announced, Answering
<1>7. OwnRowsInv'
  BY <1>1, <1>2, <1>5 DEF LogInv, OwnRowsInv
<1>8. ResultsInv'
  BY <1>1 DEF LogInv, ResultsInv, Taken, Sent, Items, IInv, TypeOK
<1>9. ParentLogOrdered'
  BY <1>2, <1>3, <1>4, <1>5 DEF LogInv, ParentLogOrdered
<1>. QED  BY <1>6, <1>7, <1>8, <1>9 DEF LogInv

\* The result row comes after the child's own.
LEMMA FinalizeLog ==
  ASSUME IInv, LogInv, NEW i \in Tasks, Finalize(i)
  PROVE  LogInv'
<1> DEFINE n == Len(parentLog) + 1
<1>1. /\ UNCHANGED <<plan, phase, outcome, ch, received, results, aggregate>>
      /\ Tasks' = Tasks /\ child \in [Tasks -> ChildStates] /\ verdict \in [Tasks -> Verdicts]
      /\ child[i] = "finalizing" /\ child' = [child EXCEPT ![i] = "sending"]
      /\ verdict' = [verdict EXCEPT ![i] = "completed"]
  BY DEF Finalize, Move, callVars, takenVars, Tasks, IInv, TypeOK
<1>2. /\ n \in Nat \ {0} /\ DOMAIN parentLog = 1..(n - 1) /\ DOMAIN parentLog' = 1..n
      /\ Len(parentLog') = n
      /\ parentLog'[n] = Row("result", i) /\ \A k \in 1..(n - 1) : parentLog'[k] = parentLog[k]
      /\ \A kind : RowsOf(kind) \subseteq 1..(n - 1)
      /\ RowsOf("result")' = RowsOf("result") \union {n}
      /\ \A kind \in {"objective", "child", "aggregate"} : RowsOf(kind)' = RowsOf(kind)
  BY RowAppended, RecordFacts DEF Finalize, Row, IInv
<1>3. parentLog'[n].slot = i /\ parentLog'[n].kind = "result"
  BY <1>2 DEF Row
<1>4. verdict[i] = "none"
  BY <1>1 DEF LogInv, ChildRowsInv, Answering
<1>5. \A k \in 1..(n - 1) : ~(parentLog[k].kind = "result" /\ parentLog[k].slot = i)
  BY <1>2, <1>4 DEF LogInv, ChildRowsInv, RowsOf
<1>6. outcome # "ok" /\ phase \notin {"submitted", "aggregating"} /\ RowsOf("aggregate") = {}
  <2>1. received # Len(plan.tasks)
    BY <1>1, AllTaken DEF IInv, LogInv, Sent
  <2>. QED  BY <1>1, <2>1 DEF IInv, PhaseInv, LogInv, ResultsInv, OwnRowsInv
<1>7. ChildRowsInv'
  BY <1>1, <1>2, <1>3 DEF LogInv, ChildRowsInv, Announced, Answering, Verdicts
<1>8. OwnRowsInv'
  BY <1>1, <1>2, <1>6 DEF LogInv, OwnRowsInv
<1>9. ResultsInv'
  BY <1>1 DEF LogInv, ResultsInv, Taken, Sent, Items, IInv, TypeOK
<1>10. ParentLogOrdered'
  <2>1. PICK k \in RowsOf("child") : parentLog[k].slot = i
    BY <1>1 DEF LogInv, ChildRowsInv, Announced
  <2>. QED  BY <2>1, <1>2, <1>3, <1>5, <1>6 DEF LogInv, ParentLogOrdered
<1>. QED  BY <1>7, <1>8, <1>9, <1>10 DEF LogInv

\* The aggregate row is written when every result is there, and ends the log.
LEMMA ConcludeLog ==
  ASSUME IInv, LogInv, Conclude
  PROVE  LogInv'
<1> DEFINE n == Len(parentLog) + 1
<1>1. /\ UNCHANGED <<plan, ch, received, results, child, verdict>> /\ Tasks' = Tasks
      /\ phase = "aggregating" /\ phase' = "returned" /\ aggregate' = Aggregate(results)
      /\ outcome = "none" /\ RowsOf("aggregate") = {}
  BY DEF Conclude, Return, Tasks, LogInv, OwnRowsInv
<1>2. CASE outcome' = "storeError" /\ UNCHANGED parentLog
  BY <1>1, <1>2 DEF LogInv, ChildRowsInv, OwnRowsInv, ResultsInv, ParentLogOrdered, Taken, RowsOf
<1>3. CASE outcome' = "ok" /\ parentLog' = Append(parentLog, Row("aggregate", 0))
  <2>1. /\ n \in Nat \ {0} /\ DOMAIN parentLog = 1..(n - 1) /\ DOMAIN parentLog' = 1..n
        /\ Len(parentLog') = n
        /\ parentLog'[n] = Row("aggregate", 0) /\ \A k \in 1..(n - 1) : parentLog'[k] = parentLog[k]
        /\ \A kind : RowsOf(kind) \subseteq 1..(n - 1)
        /\ RowsOf("aggregate")' = {n}
        /\ \A kind \in {"objective", "child", "result"} : RowsOf(kind)' = RowsOf(kind)
    BY <1>1, <1>3, RowAppended, RecordFacts DEF Row, IInv
  <2>2. parentLog'[n].slot = 0 /\ parentLog'[n].kind = "aggregate"
    BY <2>1 DEF Row
  <2>3. ChildRowsInv'
    BY <1>1, <2>1 DEF LogInv, ChildRowsInv
  <2>4. OwnRowsInv'
    BY <1>1, <1>3, <2>1, <2>2 DEF LogInv, OwnRowsInv
  <2>5. ResultsInv'
    BY <1>1 DEF LogInv, ResultsInv, Taken
  <2>6. ParentLogOrdered'
    BY <1>1, <2>1, <2>2 DEF LogInv, ParentLogOrdered, RowsOf
  <2>. QED  BY <2>3, <2>4, <2>5, <2>6 DEF LogInv
<1>. QED  BY <1>2, <1>3 DEF Conclude, Return

\* A result moves from the channel to its place in the slice.
LEMMA CollectLog ==
  ASSUME IInv, LogInv, CollectResult
  PROVE  LogInv'
<1> DEFINE i == Head(ch).slot
           v == Head(ch).verdict
<1>1. /\ UNCHANGED <<plan, outcome, aggregate, child, verdict, parentLog>> /\ Tasks' = Tasks
      /\ phase = "collecting" /\ outcome = "none"
      /\ received' = received + 1 /\ results' = [results EXCEPT ![i] = v]
      /\ phase' \in {"collecting", "aggregating"}
      /\ phase' = "aggregating" => received' = Len(plan.tasks)
  BY DEF CollectResult, Take, Goto, callVars, Tasks, LogInv, OwnRowsInv
<1>2. /\ ch \in Seq(Items) /\ ch # << >> /\ ch' = Tail(ch) /\ Len(ch) \in Nat \ {0}
      /\ Head(ch) = ch[1] /\ DOMAIN ch = 1..Len(ch) /\ 1 \in DOMAIN ch
      /\ DOMAIN ch' = 1..(Len(ch) - 1) /\ \A k \in DOMAIN ch' : ch'[k] = ch[k + 1] /\ k + 1 \in DOMAIN ch
  BY DEF CollectResult, IInv, TypeOK
<1>3. i \in Tasks /\ v \in Verdicts /\ results[i] = "none" /\ child[i] \in Sent /\ v = verdict[i]
  BY <1>2, HeadTailFacts, RecordFacts DEF LogInv, ResultsInv
<1>4. v # "none"
  BY <1>3 DEF LogInv, ChildRowsInv, Sent, Answering
<1>5. Taken' = Taken \union {i} /\ Cardinality(Taken') = Cardinality(Taken) + 1
  BY <1>1, <1>3, <1>4, TakenGrows DEF IInv
<1>6. \A k \in DOMAIN ch' : ch[k + 1].slot # i /\ ch[k + 1].slot \in Tasks
  BY <1>2, RecordFacts DEF LogInv, ResultsInv
<1>7. ResultsInv'
  <2>1. results \in [Tasks -> Verdicts]
    BY DEF IInv, TypeOK
  <2>2. \A k \in DOMAIN ch' : /\ ch'[k].verdict = verdict'[ch'[k].slot]
                              /\ child'[ch'[k].slot] \in Sent /\ results'[ch'[k].slot] = "none"
    BY <1>1, <1>2, <1>6, <2>1 DEF LogInv, ResultsInv
  <2>3. \A k, l \in DOMAIN ch' : ch'[k].slot = ch'[l].slot => k = l
    BY <1>2 DEF LogInv, ResultsInv
  <2>4. \A j \in Taken' : results'[j] = verdict'[j] /\ child'[j] \in Sent
    BY <1>1, <1>3, <1>5, <2>1 DEF LogInv, ResultsInv, Taken
  <2>. QED  BY <1>1, <1>5, <2>2, <2>3, <2>4 DEF LogInv, ResultsInv
<1>8. ChildRowsInv' /\ OwnRowsInv' /\ ParentLogOrdered'
  BY <1>1 DEF LogInv, ChildRowsInv, OwnRowsInv, ParentLogOrdered, RowsOf
<1>. QED  BY <1>7, <1>8 DEF LogInv

\* The sequential loop takes the result of its task itself.
LEMMA SequenceAppendLog ==
  ASSUME IInv, LogInv, NEW i \in Tasks, SequenceAppend(i)
  PROVE  LogInv'
<1>1. /\ UNCHANGED <<plan, outcome, ch, aggregate, verdict, parentLog>> /\ Tasks' = Tasks
      /\ phase = "sequencing" /\ outcome = "none"
      /\ child[i] = "sending" /\ child' = [child EXCEPT ![i] = "done"]
      /\ child \in [Tasks -> ChildStates] /\ results \in [Tasks -> Verdicts] /\ ch \in Seq(Items)
      /\ received' = received + 1 /\ results' = [results EXCEPT ![i] = verdict[i]]
      /\ phase' \in {"sequencing", "aggregating"}
      /\ phase' = "aggregating" => received' = Len(plan.tasks)
  BY DEF SequenceAppend, Take, Goto, callVars, Tasks, LogInv, OwnRowsInv, IInv, TypeOK
<1>2. results[i] = "none" /\ verdict[i] # "none" /\ verdict[i] \in Verdicts
  BY <1>1 DEF LogInv, ResultsInv, ChildRowsInv, Taken, Sent, Answering, IInv, TypeOK
<1>3. Taken' = Taken \union {i} /\ Cardinality(Taken') = Cardinality(Taken) + 1
  BY <1>1, <1>2, TakenGrows DEF IInv
<1>4. ResultsInv'
  <2>1. \A k \in DOMAIN ch : ch[k].slot \in Tasks
    BY <1>1, RecordFacts
  <2>2. \A k \in DOMAIN ch : ch[k].slot # i
    BY <1>1 DEF LogInv, ResultsInv, Sent
  <2>. QED  BY <1>1, <1>2, <1>3, <2>1, <2>2 DEF LogInv, ResultsInv, Taken, Sent
<1>5. ChildRowsInv'
  BY <1>1 DEF LogInv, ChildRowsInv, RowsOf, Announced, Answering
<1>6. OwnRowsInv' /\ ParentLogOrdered'
  BY <1>1 DEF LogInv, OwnRowsInv, ParentLogOrdered, RowsOf
<1>. QED  BY <1>4, <1>5, <1>6 DEF LogInv

\* A result enters the channel.
LEMMA SendLog ==
  ASSUME IInv, LogInv, NEW i \in Tasks, Send(i)
  PROVE  LogInv'
<1>1. /\ UNCHANGED <<plan, phase, outcome, received, results, aggregate, verdict, parentLog>>
      /\ Tasks' = Tasks
      /\ child[i] = "sending" /\ child' = [child EXCEPT ![i] = "releasing"]
      /\ child \in [Tasks -> ChildStates] /\ results \in [Tasks -> Verdicts]
  BY DEF Send, Move, callVars, takenVars, Tasks, IInv, TypeOK
<1>2. /\ ch \in Seq(Items) /\ Len(ch) \in Nat /\ DOMAIN ch = 1..Len(ch)
      /\ DOMAIN ch' = 1..(Len(ch) + 1) /\ \A k \in DOMAIN ch : ch'[k] = ch[k]
      /\ ch'[Len(ch) + 1] = [slot |-> i, verdict |-> verdict[i]]
  BY DEF Send, IInv, TypeOK
<1>3. results[i] = "none" /\ \A k \in DOMAIN ch : ch[k].slot # i /\ ch[k].slot \in Tasks
  BY <1>1, <1>2, RecordFacts DEF LogInv, ResultsInv, Taken, Sent
<1>4. ResultsInv'
  BY <1>1, <1>2, <1>3 DEF LogInv, ResultsInv, Taken, Sent
<1>5. ChildRowsInv'
  BY <1>1 DEF LogInv, ChildRowsInv, RowsOf, Announced, Answering
<1>6. OwnRowsInv' /\ ParentLogOrdered'
  BY <1>1 DEF LogInv, OwnRowsInv, ParentLogOrdered, RowsOf
<1>. QED  BY <1>4, <1>5, <1>6 DEF LogInv

\* The steps of a child or of Run between two rows.
LEMMA MovesLog ==
  ASSUME IInv, LogInv, NEW i \in Tasks,
         \/ Acquire(i) \/ BeginRecord(i) \/ BeginFinalize(i) \/ Fail(i) \/ Release(i)
         \/ SequenceNext(i)
  PROVE  LogInv'
<1>1. /\ UNCHANGED <<plan, received, results, aggregate, parentLog>> /\ Tasks' = Tasks
      /\ \/ phase' = phase /\ outcome' = outcome
         \/ phase = "sequencing" /\ phase' = "returned" /\ outcome' = "cancelled"
  BY DEF Acquire, BeginRecord, BeginFinalize, Fail, Release, SequenceNext, Return, Move,
         callVars, takenVars, Tasks
<1>0. /\ UNCHANGED ch /\ ch \in Seq(Items)
      /\ child \in [Tasks -> ChildStates] /\ verdict \in [Tasks -> Verdicts]
  BY DEF Acquire, BeginRecord, BeginFinalize, Fail, Release, SequenceNext, IInv, TypeOK
<1>2. PICK to \in ChildStates :
        /\ child' = [child EXCEPT ![i] = to]
        /\ to \in Announced => child[i] \in Announced
        /\ to \in Answering /\ child[i] \notin Answering => verdict' = [verdict EXCEPT ![i] = "failed"]
        /\ to \notin Answering \/ child[i] \in Answering => UNCHANGED verdict
        /\ child[i] \in Announced \union Answering => to \in Announced \union Answering
        /\ child[i] \in Answering => to \in Answering
        /\ child[i] \in Sent => to \in Sent
  BY <1>0, <1>1 DEF Acquire, BeginRecord, BeginFinalize, Fail, Release, SequenceNext, Move, Announced,
          Answering, Sent, ChildStates, Working
<1>3. ChildRowsInv'
  BY <1>0, <1>1, <1>2 DEF LogInv, ChildRowsInv, RowsOf, Answering, Verdicts
<1>4. OwnRowsInv' /\ ParentLogOrdered'
  BY <1>0, <1>1 DEF LogInv, OwnRowsInv, ParentLogOrdered, RowsOf
<1>5. ResultsInv'
  <2>1. \A k \in DOMAIN ch : ch[k].slot \in Tasks
    BY <1>0, <1>1, RecordFacts
  <2>2. \A j \in Tasks : verdict[j] # "none" => verdict'[j] = verdict[j]
    BY <1>0, <1>1, <1>2 DEF LogInv, ChildRowsInv, Answering
  <2>3. \A j \in Tasks : child[j] \in Sent => child'[j] \in Sent /\ verdict'[j] = verdict[j]
    BY <1>0, <1>1, <1>2, <2>2 DEF LogInv, ChildRowsInv, Sent, Answering
  <2>. QED  BY <1>0, <1>1, <2>1, <2>3 DEF LogInv, ResultsInv, Taken
<1>. QED  BY <1>3, <1>4, <1>5 DEF LogInv

\* The steps of RunMultiAgentPlan that take no result, and a cancellation.
LEMMA QuietLog ==
  ASSUME IInv, LogInv,
         \/ CreateParent \/ Reject \/ StartParallel \/ StartSequential \/ CollectCancelled
         \/ Cancel \/ UNCHANGED vars
  PROVE  LogInv'
<1>1. UNCHANGED <<plan, ch, received, results, aggregate, verdict>> /\ Tasks' = Tasks
  BY DEF CreateParent, Reject, StartParallel, StartSequential, CollectCancelled, Cancel, vars,
         Goto, Return, callVars, takenVars, Tasks
<1>0. /\ outcome' = "ok" <=> outcome = "ok"
      /\ phase' = "aggregating" => phase = "aggregating"
      /\ outcome' = "none" <=> phase' # "returned"
      /\ phase' = "submitted" => phase = "submitted" /\ UNCHANGED parentLog
      /\ \/ UNCHANGED parentLog
         \/ phase = "submitted" /\ parentLog' = << Row("objective", 0) >>
  BY DEF CreateParent, Reject, StartParallel, StartSequential, CollectCancelled, Cancel, vars,
         Goto, Return, callVars, LogInv, OwnRowsInv
<1>2. \/ UNCHANGED child
      \/ /\ \A i \in Tasks : child[i] = "idle"
         /\ child' = [i \in Tasks |-> "waiting"]
  BY DEF CreateParent, Reject, StartParallel, StartSequential, CollectCancelled, Cancel, vars,
         callVars, IInv, PhaseInv
<1>3. \A i \in Tasks : /\ child'[i] \in Announced <=> child[i] \in Announced
                       /\ child'[i] \in Answering <=> child[i] \in Answering
                       /\ child'[i] \in Sent <=> child[i] \in Sent
  BY <1>2 DEF Announced, Answering, Sent
<1>4. ResultsInv'
  <2>1. \A k \in DOMAIN ch : ch[k].slot \in Tasks
    BY RecordFacts DEF IInv, TypeOK
  <2>. QED  BY <1>0, <1>1, <1>3, <2>1 DEF LogInv, ResultsInv, Taken
<1>5. CASE UNCHANGED parentLog
  BY <1>0, <1>1, <1>3, <1>4, <1>5 DEF LogInv, ChildRowsInv, OwnRowsInv, ParentLogOrdered, RowsOf
<1>6. CASE phase = "submitted" /\ parentLog' = << Row("objective", 0) >>
  <2>1. parentLog = << >>
    BY <1>6 DEF LogInv, OwnRowsInv
  <2>2. /\ DOMAIN parentLog' = {1} /\ parentLog'[1].kind = "objective" /\ parentLog'[1].slot = 0
        /\ RowsOf("objective")' = {1}
        /\ \A kind \in {"child", "result", "aggregate"} : RowsOf(kind) = {} /\ RowsOf(kind)' = {}
    BY <1>6, <2>1 DEF RowsOf, Row
  <2>. QED  BY <1>0, <1>1, <1>3, <1>4, <1>6, <2>2 DEF LogInv, ChildRowsInv, OwnRowsInv, ParentLogOrdered
<1>. QED  BY <1>0, <1>1, <1>5, <1>6

LEMMA InitLog == Init => LogInv
<1> SUFFICES ASSUME Init PROVE LogInv
  OBVIOUS
<1>1. Taken = {} /\ RowsOf("child") = {} /\ RowsOf("result") = {} /\ RowsOf("objective") = {}
      /\ RowsOf("aggregate") = {}
  BY DEF Init, Taken, RowsOf, Tasks
<1>2. Cardinality(Taken) = 0
  BY <1>1, FS_EmptySet
<1>. QED
  BY <1>1, <1>2 DEF Init, LogInv, ChildRowsInv, OwnRowsInv, ResultsInv, ParentLogOrdered, Tasks,
     Answering, Announced

\* Every step preserves the invariant of log and results.
LEMMA NextLog == IInv /\ LogInv /\ [Next]_vars => LogInv'
<1> SUFFICES ASSUME IInv, LogInv, [Next]_vars PROVE LogInv'
  OBVIOUS
<1>1. CASE Run
  <2>1. ASSUME NEW i \in Tasks, SequenceNext(i) \/ SequenceAppend(i)
        PROVE  LogInv'
    BY <2>1, MovesLog, SequenceAppendLog
  <2>. QED  BY <1>1, <2>1, QuietLog, CollectLog, ConcludeLog DEF Run
<1>2. CASE Cancel
  BY <1>2, QuietLog
<1>3. ASSUME NEW i \in Tasks, Goroutine(i)
      PROVE  LogInv'
  BY <1>3, MovesLog, RecordLog, FinalizeLog, SendLog DEF Goroutine
<1>4. CASE UNCHANGED vars
  BY <1>4, QuietLog
<1>. QED  BY <1>1, <1>2, <1>3, <1>4 DEF Next

LEMMA LogInvariance == Spec => [](IInv /\ LogInv)
<1>1. Init => IInv /\ LogInv
  BY InitInv, InitLog
<1>2. IInv /\ LogInv /\ [Next]_vars => IInv' /\ LogInv'
  BY NextInv, NextLog
<1>. QED  BY <1>1, <1>2, PTL DEF Spec

\* The parent session of every run reads as a history: each task is announced
\* at most once, its result row comes later and at most once, the aggregate row
\* is the last (recordMultiAgentChildSession, finalizeMultiAgentChildSession).
THEOREM ParentLogAlwaysOrdered == Spec => []ParentLogOrdered
<1>1. LogInv => ParentLogOrdered
  BY DEF LogInv
<1>. QED  BY <1>1, LogInvariance, PTL

\* A successful run holds each task's own answer, and its counters are those of
\* the answers and of the result rows.
LEMMA LogImpliesComplete ==
  ASSUME IInv, LogInv
  PROVE  ResultsComplete
<1> SUFFICES ASSUME outcome = "ok"
             PROVE  /\ \A i \in Tasks : results[i] = verdict[i] /\ verdict[i] # "none"
                    /\ aggregate.completed + aggregate.failed = Len(plan.tasks)
                    /\ aggregate.completed = Cardinality(RowsOf("result"))
  BY DEF ResultsComplete
<1> DEFINE C == {i \in Tasks : results[i] = "completed"}
           F == {i \in Tasks : results[i] = "failed"}
<1>1. \A i \in Tasks : results[i] = verdict[i] /\ verdict[i] # "none"
  BY AllTaken DEF IInv, LogInv, ResultsInv
<1>2. /\ IsFiniteSet(Tasks) /\ Tasks = 1..Len(plan.tasks) /\ Len(plan.tasks) \in Nat
      /\ results \in [Tasks -> Verdicts]
  BY TasksFinite DEF IInv, TypeOK
<1>3. aggregate.completed = Cardinality(C) /\ aggregate.failed = Cardinality(F)
  BY <1>2 DEF LogInv, ResultsInv, Aggregate
<1>4. /\ IsFiniteSet(C) /\ IsFiniteSet(F)
      /\ Cardinality(C) \in Nat /\ Cardinality(F) \in Nat
  BY <1>2, FS_Subset, FS_CardinalityType
<1>5. Cardinality(C) + Cardinality(F) = Len(plan.tasks)
  <2>1. C \union F = Tasks /\ C \intersect F = {}
    BY <1>1, <1>2 DEF Verdicts
  <2>2. Cardinality(Tasks) = Len(plan.tasks)
    BY <1>2, FS_Interval
  <2>3. Cardinality(Tasks) = Cardinality(C) + Cardinality(F) - Cardinality(C \intersect F)
    BY <1>4, <2>1, FS_Union
  <2>. QED  BY <1>4, <2>1, <2>2, <2>3, FS_EmptySet
<1>6. Cardinality(C) = Cardinality(RowsOf("result"))
  <2> DEFINE f == [k \in RowsOf("result") |-> parentLog[k].slot]
  <2>1. \A k \in RowsOf("result") : parentLog[k] \in LogRows /\ parentLog[k].kind = "result"
    BY DEF RowsOf, IInv, TypeOK
  <2>2. \A k, l \in RowsOf("result") : parentLog[k].slot = parentLog[l].slot => k = l
    BY <2>1 DEF LogInv, ParentLogOrdered, LogRows, RowsOf
  <2>3. \A k \in RowsOf("result") : parentLog[k].slot \in C
    BY <1>1 DEF LogInv, ChildRowsInv
  <2>4. \A i \in C : \E k \in RowsOf("result") : parentLog[k].slot = i
    BY <1>1 DEF LogInv, ChildRowsInv
  <2>5. f \in [RowsOf("result") -> C]
    BY <2>3
  <2>6. f \in Injection(RowsOf("result"), C)
    BY <2>2, <2>5 DEF Injection, IsInjective
  <2>7. f \in Surjection(RowsOf("result"), C)
    BY <2>4, <2>5 DEF Surjection
  <2>. HIDE DEF f
  <2>. QED  BY <1>4, <2>6, <2>7, FS_Injection
<1>. QED  BY <1>1, <1>3, <1>5, <1>6

\* A run that reports success has every task's own result at its index, and its
\* counters are those of the rows in the parent session, however the goroutines
\* ended (Run's select loop, Aggregate).
THEOREM ResultsAlwaysComplete == Spec => []ResultsComplete
<1>1. IInv /\ LogInv => ResultsComplete
  BY LogImpliesComplete
<1>. QED  BY <1>1, LogInvariance, PTL

-----------------------------------------------------------------------------
(* The run implements PlanContract: every step starts one task, ends one,  *)
(* reports, or changes nothing the caller can see.                         *)

AllSlots == UNION {Slots(p) : p \in Submitted}
AnswerOf == [s \in AllSlots |-> IF s \in Tasks THEN verdict[s] ELSE "none"]
ReportOf == [status  |-> IF outcome = "none" THEN "open"
                         ELSE IF outcome = "ok" THEN "ok" ELSE "aborted",
             answers |-> IF outcome = "ok" THEN results ELSE << >>]

LEMMA TasksAreSlots ==
  ASSUME plan \in Submitted
  PROVE  Tasks \subseteq AllSlots
BY DEF Tasks, AllSlots

\* The contract's variables, as this module writes them.
LEMMA ContractVars ==
  Contract!contractVars = << Active, AnswerOf, ReportOf >>
BY DEF Contract!contractVars, AnswerOf, ReportOf, AllSlots

\* The contract counts as this module does.
LEMMA ContractCardinality == \A S : Contract!Cardinality(S) = Cardinality(S)
BY DEF Cardinality, Contract!Cardinality

\* One task begins to work: it has not answered, and the limit leaves room.
LEMMA BeginRefines ==
  ASSUME IInv, IInv', LogInv, NEW i \in Tasks, plan' = plan,
         child[i] \in {"idle", "waiting"}, child' = [child EXCEPT ![i] = "starting"],
         UNCHANGED <<verdict, outcome, results>>
  PROVE  Contract!Start(i)
<1>1. /\ Tasks' = Tasks /\ plan \in Submitted /\ child \in [Tasks -> ChildStates]
      /\ IsFiniteSet(Tasks)
  BY TasksFinite DEF Tasks, IInv, TypeOK
<1>2. i \notin Active /\ Active' = Active \union {i}
  BY <1>1 DEF Active, Working
<1>3. AnswerOf[i] = "none"
  BY <1>1, TasksAreSlots DEF AnswerOf, LogInv, ChildRowsInv, Answering
<1>4. Cardinality(Active) < EffectiveLimit
  <2>1. ConcurrencyLimited'
    BY InvImpliesLimit, PTL
  <2>2. IsFiniteSet(Active) /\ Cardinality(Active) \in Nat
    BY <1>1, FS_Subset, FS_CardinalityType DEF Active
  <2>3. Cardinality(Active') = Cardinality(Active) + 1
    BY <1>2, <2>2, FS_AddElement
  <2>4. EffectiveLimit \in Nat
    BY PolicyLimitAssumption DEF EffectiveLimit
  <2>. QED  BY <2>1, <2>2, <2>3, <2>4 DEF ConcurrencyLimited
<1>5. UNCHANGED <<AnswerOf, ReportOf>>
  BY <1>1 DEF AnswerOf, ReportOf
<1>. QED
  BY <1>2, <1>3, <1>4, <1>5, ContractCardinality DEF Contract!Start, AnswerOf, ReportOf, AllSlots

\* One task ends, with the answer a.
LEMMA EndRefines ==
  ASSUME IInv, NEW i \in Tasks, NEW a \in {"completed", "failed"}, plan' = plan,
         child[i] \in Working, child' = [child EXCEPT ![i] = "sending"],
         verdict' = [verdict EXCEPT ![i] = a], UNCHANGED <<outcome, results>>
  PROVE  Contract!End(i, a)
<1>1. /\ Tasks' = Tasks /\ plan \in Submitted /\ child \in [Tasks -> ChildStates]
      /\ verdict \in [Tasks -> Verdicts]
  BY DEF Tasks, IInv, TypeOK
<1>2. i \in Active /\ Active' = Active \ {i}
  BY <1>1 DEF Active, Working
<1>3. AnswerOf' = [AnswerOf EXCEPT ![i] = a]
  BY <1>1, TasksAreSlots DEF AnswerOf
<1>4. UNCHANGED ReportOf
  BY DEF ReportOf
<1>. QED
  BY <1>2, <1>3, <1>4 DEF Contract!End, AnswerOf, ReportOf, AllSlots

\* A success: every task has answered, nobody works, the report is the answers.
LEMMA SucceedRefines ==
  ASSUME IInv, LogInv, Conclude, outcome' = "ok"
  PROVE  Contract!Succeed
<1>1. /\ UNCHANGED <<plan, child, verdict, results>> /\ Tasks' = Tasks
      /\ phase = "aggregating" /\ outcome = "none" /\ plan \in Submitted
      /\ results \in [Tasks -> Verdicts] /\ verdict \in [Tasks -> Verdicts]
  BY DEF Conclude, Return, Tasks, IInv, TypeOK, LogInv, OwnRowsInv
<1>2. \A j \in Tasks : results[j] = verdict[j] /\ results[j] # "none" /\ child[j] \in Sent
  BY <1>1, AllTaken DEF IInv, LogInv, ResultsInv
<1>3. Active = {} /\ UNCHANGED <<Active, AnswerOf>>
  BY <1>1, <1>2 DEF Active, Working, Sent, AnswerOf
<1>4. {s \in AllSlots : AnswerOf[s] # "none"} = Tasks
  BY <1>1, <1>2, TasksAreSlots DEF AnswerOf
<1>5. results = [s \in {s \in AllSlots : AnswerOf[s] # "none"} |-> AnswerOf[s]]
  <2>1. \A s \in Tasks : AnswerOf[s] = results[s]
    BY <1>1, <1>2, TasksAreSlots DEF AnswerOf
  <2>. QED  BY <1>1, <1>4, <2>1
<1>6. ReportOf.status = "open"
      /\ ReportOf' = [status |-> "ok", answers |-> results]
  BY <1>1 DEF ReportOf
<1>. QED
  BY <1>3, <1>5, <1>6 DEF Contract!Succeed, Contract!Answered, AnswerOf, ReportOf, AllSlots

\* Any other return aborts, whatever the children do.
LEMMA AbortRefines ==
  ASSUME IInv, NEW how \in {"rejected", "panicked", "cancelled", "storeError"},
         outcome = "none", outcome' = how, UNCHANGED <<plan, child, verdict>>
  PROVE  Contract!Abort
<1>1. UNCHANGED <<Active, AnswerOf>>
  BY DEF Active, AnswerOf, Tasks
<1>2. ReportOf.status = "open" /\ ReportOf' = [ReportOf EXCEPT !.status = "aborted"]
  BY DEF ReportOf
<1>. QED
  BY <1>1, <1>2 DEF Contract!Abort, AnswerOf, ReportOf, AllSlots

\* The rest is invisible: the children at work, their answers and the report stay.
LEMMA StutterRefines ==
  ASSUME UNCHANGED <<plan, outcome, verdict>>, Active' = Active,
         outcome = "none" \/ UNCHANGED results
  PROVE  UNCHANGED Contract!contractVars
<1>1. UNCHANGED <<AnswerOf, ReportOf>>
  BY DEF AnswerOf, ReportOf, Tasks
<1>. QED  BY <1>1, ContractVars DEF Contract!contractVars, AnswerOf, ReportOf, AllSlots

LEMMA StepRefines ==
  ASSUME IInv, IInv', LogInv, [Next]_vars
  PROVE  [Contract!Next]_(Contract!contractVars)
<1>1. \A i \in Tasks : i \in AllSlots
  BY TasksAreSlots DEF IInv, TypeOK
<1>2. outcome = "none" <=> phase # "returned"
  BY DEF LogInv, OwnRowsInv
<1>3. child \in [Tasks -> ChildStates]
  BY DEF IInv, TypeOK
<1>4. ASSUME NEW i \in Tasks, Acquire(i) \/ (SequenceNext(i) /\ outcome' = outcome)
      PROVE  Contract!Next
  <2>1. /\ child[i] \in {"idle", "waiting"} /\ child' = [child EXCEPT ![i] = "starting"]
        /\ UNCHANGED <<plan, verdict, outcome, results>>
    BY <1>2, <1>4 DEF Acquire, SequenceNext, Move, Return, callVars, takenVars
  <2>. QED  BY <1>1, <2>1, BeginRefines DEF Contract!Next, AllSlots
<1>5. ASSUME NEW i \in Tasks, Finalize(i) \/ Fail(i)
      PROVE  Contract!Next
  <2>1. PICK a \in {"completed", "failed"} : verdict' = [verdict EXCEPT ![i] = a]
    BY <1>5 DEF Finalize, Fail
  <2>2. /\ child[i] \in Working /\ child' = [child EXCEPT ![i] = "sending"]
        /\ UNCHANGED <<plan, outcome, results>>
    BY <1>5 DEF Finalize, Fail, Move, Working, callVars, takenVars
  <2>. QED  BY <1>1, <2>1, <2>2, EndRefines DEF Contract!Next, AllSlots
<1>6. ASSUME NEW i \in Tasks, BeginRecord(i) \/ Record(i) \/ BeginFinalize(i) \/ Send(i) \/ Release(i)
      PROVE  UNCHANGED Contract!contractVars
  <2>1. /\ UNCHANGED <<plan, outcome, verdict, results>>
        /\ \E to \in ChildStates : child' = [child EXCEPT ![i] = to] /\ (to \in Working <=> child[i] \in Working)
    BY <1>6 DEF BeginRecord, Record, BeginFinalize, Send, Release, Move, callVars, takenVars,
          Working, ChildStates
  <2>2. Active' = Active
    BY <1>3, <2>1 DEF Active, Tasks
  <2>. QED  BY <2>1, <2>2, StutterRefines
<1>7. ASSUME NEW i \in Tasks, SequenceAppend(i)
      PROVE  UNCHANGED Contract!contractVars
  <2>1. /\ UNCHANGED <<plan, outcome, verdict>> /\ outcome = "none"
        /\ child[i] = "sending" /\ child' = [child EXCEPT ![i] = "done"]
    BY <1>2, <1>7 DEF SequenceAppend, Take, Goto, callVars
  <2>2. Active' = Active
    BY <1>3, <2>1 DEF Active, Tasks, Working
  <2>. QED  BY <2>1, <2>2, StutterRefines
<1>8. ASSUME Conclude, outcome' = "ok" PROVE Contract!Next
  BY <1>8, SucceedRefines DEF Contract!Next
<1>9. ASSUME NEW how \in {"rejected", "panicked", "cancelled", "storeError"}, outcome' = how,
             \/ CreateParent \/ Reject \/ StartParallel \/ CollectCancelled \/ Conclude
             \/ \E i \in Tasks : SequenceNext(i)
      PROVE  Contract!Next
  <2>1. UNCHANGED <<plan, verdict>> /\ outcome = "none"
    BY <1>2, <1>9 DEF CreateParent, Reject, StartParallel, CollectCancelled, Conclude,
          SequenceNext, Goto, Return, callVars
  <2>2. UNCHANGED child
    BY <1>9, <2>1 DEF CreateParent, Reject, StartParallel, CollectCancelled, Conclude,
          SequenceNext, Goto, Return, callVars
  <2>. QED  BY <1>9, <2>1, <2>2, AbortRefines DEF Contract!Next
<1>10. ASSUME outcome' = outcome,
              \/ CreateParent \/ StartParallel \/ StartSequential \/ CollectResult \/ Cancel
              \/ UNCHANGED vars
       PROVE  UNCHANGED Contract!contractVars
  <2>1. /\ UNCHANGED <<plan, verdict>>
        /\ outcome = "none" \/ UNCHANGED results
    BY <1>2, <1>10 DEF CreateParent, StartParallel, StartSequential, CollectResult, Cancel, vars,
          Goto, Return, Take, callVars, takenVars
  <2>2. Active' = Active
    <3>1. \/ UNCHANGED child
          \/ /\ \A i \in Tasks : child[i] = "idle"
             /\ child' = [i \in Tasks |-> "waiting"]
      BY <1>10 DEF CreateParent, StartParallel, StartSequential, CollectResult, Cancel, vars,
            IInv, PhaseInv
    <3>. QED  BY <2>1, <3>1 DEF Active, Tasks, Working
  <2>. QED  BY <1>10, <2>1, <2>2, StutterRefines
<1>11. outcome' \in {"none", "rejected", "panicked", "cancelled", "storeError", "ok"}
  BY DEF IInv, TypeOK
<1>12. CASE Run
  <2>1. CASE \E i \in Tasks : SequenceNext(i) \/ SequenceAppend(i)
    <3>1. PICK i \in Tasks : SequenceNext(i) \/ SequenceAppend(i)
      BY <2>1
    <3>2. SequenceNext(i) => outcome' \in {outcome, "cancelled"}
      BY DEF SequenceNext, Return, callVars
    <3>. QED  BY <1>4, <1>7, <1>9, <3>1, <3>2
  <2>2. CASE ~(\E i \in Tasks : SequenceNext(i) \/ SequenceAppend(i))
    <3>1. StartSequential \/ CollectResult => outcome' = outcome
      BY DEF StartSequential, CollectResult, Take, Goto, callVars
    <3>2. Reject \/ CollectCancelled \/ Conclude => outcome' # "none"
      BY DEF Reject, CollectCancelled, Conclude, Return
    <3>3. CreateParent \/ StartParallel => outcome' \in {outcome, "storeError", "panicked"}
      BY DEF CreateParent, StartParallel, Goto, Return
    <3>4. Reject \/ CollectCancelled => outcome' # "ok"
      BY DEF Reject, CollectCancelled, Return
    <3>. QED  BY <1>8, <1>9, <1>10, <1>11, <1>12, <2>2, <3>1, <3>2, <3>3, <3>4 DEF Run
  <2>. QED  BY <2>1, <2>2
<1>13. CASE \E i \in Tasks : Goroutine(i)
  <2>1. PICK i \in Tasks : Goroutine(i)
    BY <1>13
  <2>. QED  BY <1>4, <1>5, <1>6, <2>1 DEF Goroutine
<1>. QED  BY <1>10, <1>12, <1>13 DEF Next, Cancel, callVars, vars

LEMMA InitRefines == Init => Contract!Init
<1> SUFFICES ASSUME Init PROVE Contract!Init
  OBVIOUS
<1>1. Active = {}
  BY DEF Init, Active, Working, Tasks
<1>2. \A s \in Tasks : verdict[s] = "none"
  BY DEF Init, Tasks
<1>. QED  BY <1>1, <1>2 DEF Init, Contract!Init

\* Goroutines, semaphore, result channel and cancellation implement the plan
\* contract: at most Limit tasks busy, each started once and answering once,
\* and a success that reports exactly the answers (Orchestrator.Run).
THEOREM RefinesContract == Spec => ImplementsContract
<1>1. Spec => [](IInv /\ LogInv)
  BY LogInvariance
<1>2. IInv /\ LogInv /\ IInv' /\ [Next]_vars => [Contract!Next]_(Contract!contractVars)
  BY StepRefines
<1>. QED  BY <1>1, <1>2, InitRefines, PTL DEF Spec, ImplementsContract, Contract!Spec
=============================================================================
