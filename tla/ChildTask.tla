----------------------------- MODULE ChildTask -----------------------------
(***************************************************************************)
(* One delegated task of internal/app/app.go, from its child session to    *)
(* its persisted trace, and the resumes made from that trace:              *)
(* runMultiAgentChildTaskWithSeedAndState, the tool-calling and the JSON   *)
(* loop, the stub fallback, and ResumeMultiAgentChild.  The process may    *)
(* crash at any step; what is not in SQLite is then lost.                  *)
(*                                                                         *)
(* A resume always writes to a new session, so session number n is the     *)
(* n-th execution of the task: 1 is the original one.                      *)
(***************************************************************************)
EXTENDS Naturals, Sequences, FiniteSets

CONSTANTS
  Tools,          \* tool names a model may ask for
  Registry,       \* those that exist in the tool registry
  Granted,        \* allowed_tools of the original task
  DefaultTools,   \* what a resume falls back to
  IterationCap,   \* 4 in the code
  MaxCalls,       \* bound: tool calls in one model reply
  MaxSessions     \* bound: executions of the task

ASSUME ChildAssumption ==
  /\ Registry \subseteq Tools /\ Granted \subseteq Tools /\ DefaultTools \subseteq Tools
  /\ IterationCap \in Nat \ {0} /\ MaxCalls \in Nat \ {0} /\ MaxSessions \in Nat \ {0}

Sessions == 1..MaxSessions
Runtimes == {"llm", "llm-toolcalls"}
NoTool == "none"

VARIABLES
  \* the running execution, lost in a crash
  pc, run, runtime, iter, pending, trace, seed,
  \* SQLite, per session
  status,     \* "absent", "open", "answered" (response set), "closed" (all rows)
  stored,     \* rows of multiagent_traces
  \* what callers and tools saw, per session
  result, allowed, origin

memory == <<pc, run, runtime, iter, pending, trace, seed>>
history == <<result, allowed, origin>>
vars == <<memory, status, stored, history>>

Step(type, tool, ok) ==
  [iter |-> iter, type |-> type, tool |-> tool, ok |-> ok, runtime |-> runtime]

\* childLoopSeed: where a loop starts, and with which runtime.
NoSeed == [next |-> 0, runtime |-> "any"]

Init ==
  /\ pc = "idle" /\ run = 0 /\ runtime = "llm" /\ iter = 0
  /\ pending = << >> /\ trace = << >> /\ seed = NoSeed
  /\ status = [s \in Sessions |-> "absent"]
  /\ stored = [s \in Sessions |-> << >>]
  /\ result = [s \in Sessions |-> "none"]
  /\ allowed = [s \in Sessions |-> {}]
  /\ origin = [s \in Sessions |-> 0]

-----------------------------------------------------------------------------
(* What a resume reads back (deriveResumeBasis, rebuildTask...).           *)

Snapshots(rows) == {k \in DOMAIN rows : rows[k].type = "snapshot"}

LastSnapshot(rows) ==
  rows[CHOOSE k \in Snapshots(rows) : \A l \in Snapshots(rows) : l <= k]

LastIteration(rows) ==
  IF rows = << >> THEN 0
  ELSE CHOOSE n \in {rows[k].iter : k \in DOMAIN rows} :
         \A k \in DOMAIN rows : rows[k].iter <= n

\* Variant, not the code: a resume starts at the snapshot, not after it.
RepeatsSnapshot(rows) ==
  IF Snapshots(rows) # {}
    THEN [next |-> LastSnapshot(rows).iter, runtime |-> LastSnapshot(rows).runtime]
    ELSE [next |-> LastIteration(rows) + 1, runtime |-> "any"]

ResumeSeed(rows) ==
  IF Snapshots(rows) # {}
    THEN [next    |-> LastSnapshot(rows).iter + 1,
          runtime |-> LastSnapshot(rows).runtime]
    ELSE [next |-> LastIteration(rows) + 1, runtime |-> "any"]

\* Every tool named by a trace row, whether or not its step succeeded.
TracedTools(rows) == {rows[k].tool : k \in DOMAIN rows} \ {NoTool}

RebuiltTools(requested, rows) ==
  IF requested # {} THEN requested
  ELSE IF TracedTools(rows) # {} THEN TracedTools(rows) ELSE DefaultTools

\* ReplayMultiAgentChild's recovery hint.
RecoveryHint(rows) ==
  IF rows = << >> THEN "rerun"
  ELSE LET last == rows[Len(rows)] IN
       IF last.type = "tool" /\ ~last.ok THEN "inspect"
       ELSE IF last.type = "final" THEN "finished" ELSE "continue"

-----------------------------------------------------------------------------
(* Starting an execution.                                                  *)

Launch(from, tools, s) ==
  /\ pc = "idle"
  /\ run < MaxSessions
  /\ run' = run + 1
  /\ pc' = "record"
  /\ seed' = s
  /\ allowed' = [allowed EXCEPT ![run + 1] = tools \intersect Registry]
  /\ origin' = [origin EXCEPT ![run + 1] = from]
  /\ UNCHANGED <<runtime, iter, pending, trace, status, stored, result>>

StartTask == run = 0 /\ Launch(0, Granted, NoSeed)

\* A resume of any existing session, with the tools named in the request or,
\* when the request names none, with those rebuilt from the trace.
ResumeChild ==
  \E from \in 1..run, requested \in {{}, Granted} :
    /\ status[from] # "absent"
    /\ Launch(from, RebuiltTools(requested, stored[from]), ResumeSeed(stored[from]))

StartIteration == IF seed.next > 1 THEN seed.next ELSE 1

EnterLoop(rt) ==
  /\ runtime' = rt
  /\ iter' = StartIteration
  /\ trace' = << >>
  /\ pending' = << >>
  /\ pc' = "iterate"

\* An execution ends: its caller gets the result, or nobody is left to get it.
Finish(r) ==
  /\ pc' = "idle"
  /\ result' = [result EXCEPT ![run] = r]
  /\ trace' = << >>
  /\ pending' = << >>
  /\ seed' = NoSeed
  /\ runtime' = "llm"
  /\ iter' = 0
  /\ UNCHANGED <<run, allowed, origin>>

StubFallback ==
  /\ trace' = << [iter |-> 1, type |-> "final", tool |-> NoTool, ok |-> TRUE,
                  runtime |-> "stub"] >>
  /\ pending' = << >>
  /\ pc' = "answer"
  /\ UNCHANGED <<runtime, iter>>

\* tryRunMultiAgentLLMTaskWithState: an error of the tool-calling loop starts
\* the JSON loop afresh, an error of the JSON loop leaves the stub.
LoopFails == IF runtime = "llm-toolcalls" THEN EnterLoop("llm") ELSE StubFallback

\* recordMultiAgentChildSession, then the choice of the runtime.
RecordSession ==
  /\ pc = "record"
  /\ status' = [status EXCEPT ![run] = "open"]
  /\ \/ StubFallback                              \* no model configured
     \/ EnterLoop(IF seed.runtime # "llm" /\ allowed[run] # {}
                    THEN "llm-toolcalls" ELSE "llm")
  /\ UNCHANGED <<run, seed, stored, history>>

\* The session row may exist when one of the message rows fails.
RecordFails ==
  /\ pc = "record"
  /\ \E st \in {"absent", "open"} : status' = [status EXCEPT ![run] = st]
  /\ Finish("failed")
  /\ UNCHANGED stored

-----------------------------------------------------------------------------
(* The loop.                                                               *)

Snapshot ==
  /\ pc = "iterate"
  /\ iter <= IterationCap
  /\ trace' = Append(trace, Step("snapshot", NoTool, TRUE))
  /\ pc' = "call"
  /\ UNCHANGED <<run, runtime, iter, pending, seed, status, stored, history>>

\* Variant, not the code: the loop and its exit disagree about the cap.
CapOffByOne ==
  /\ pc = "iterate"
  /\ iter > IterationCap + 1
  /\ pc' = "answer"
  /\ UNCHANGED <<run, runtime, iter, pending, trace, seed, status, stored, history>>

\* "Child loop reached iteration cap.": an answer like any other.
CapReached ==
  /\ pc = "iterate"
  /\ iter > IterationCap
  /\ pc' = "answer"
  /\ UNCHANGED <<run, runtime, iter, pending, trace, seed, status, stored, history>>

CallModel ==
  /\ pc = "call"
  /\ UNCHANGED <<run, seed, status, stored, result, allowed, origin>>

\* The call fails, its reply cannot be stored, or (JSON) its type is unknown.
CallFails == CallModel /\ LoopFails

\* The reply asks for tools: several in a native reply, one in a JSON reply.
AskTools ==
  /\ CallModel
  /\ \E n \in 1..(IF runtime = "llm" THEN 1 ELSE MaxCalls) :
       pending' \in [1..n -> Tools]
  /\ pc' = "tools"
  /\ UNCHANGED <<runtime, iter, trace>>

\* A final action, or any text that is not an action.
AnswerFinal ==
  /\ CallModel
  /\ trace' = Append(trace, Step("final", NoTool, TRUE))
  /\ pc' = "answer"
  /\ UNCHANGED <<runtime, iter, pending>>

\* An error skips the remaining calls of the reply.
AfterTool(ok) ==
  LET rest == IF ok THEN Tail(pending) ELSE << >> IN
  /\ pc = "tools"
  /\ trace' = Append(trace, Step("tool", Head(pending), ok))
  /\ pending' = rest
  /\ IF rest = << >> THEN pc' = "iterate" /\ iter' = iter + 1
                     ELSE UNCHANGED <<pc, iter>>
  /\ UNCHANGED <<run, runtime, seed, status, stored, result, allowed, origin>>

\* executeChildAction past its allowlist check; the tool may still fail.
ExecuteTool ==
  /\ pending # << >>
  /\ Head(pending) \in allowed[run]
  /\ \E ok \in BOOLEAN : AfterTool(ok)

\* "tool not allowed", or arguments of a native call that do not parse.
RefuseTool ==
  /\ pending # << >>
  /\ Head(pending) \notin allowed[run] \/ runtime = "llm-toolcalls"
  /\ AfterTool(FALSE)

-----------------------------------------------------------------------------
(* finalizeMultiAgentChildSession and persistMultiAgentTrace.              *)

\* Variant, not the code: the parent row of the result is not written.
SkipsResultRow ==
  /\ pc = "answer"
  /\ status' = [status EXCEPT ![run] = "answered"]
  /\ pc' = "persist"
  /\ UNCHANGED <<run, runtime, iter, pending, trace, seed, stored, history>>

StoreResponse ==
  /\ pc = "answer"
  /\ status' = [status EXCEPT ![run] = "answered"]
  /\ pc' = "publish"
  /\ UNCHANGED <<run, runtime, iter, pending, trace, seed, stored, history>>

PublishResult ==
  /\ pc = "publish"
  /\ status' = [status EXCEPT ![run] = "closed"]
  /\ pc' = "persist"
  /\ UNCHANGED <<run, runtime, iter, pending, trace, seed, stored, history>>

FinalizeFails ==
  /\ pc \in {"answer", "publish"}
  /\ Finish("failed")
  /\ UNCHANGED <<status, stored>>

\* Variant, not the code: trace rows are stored last to first.
PersistsBackwards ==
  /\ pc = "persist"
  /\ Len(stored[run]) < Len(trace)
  /\ stored' = [stored EXCEPT ![run] = Append(@, trace[Len(trace) - Len(@)])]
  /\ UNCHANGED <<memory, status, history>>

PersistRow ==
  /\ pc = "persist"
  /\ Len(stored[run]) < Len(trace)
  /\ stored' = [stored EXCEPT ![run] = Append(@, trace[Len(@) + 1])]
  /\ UNCHANGED <<memory, status, history>>

\* All rows are stored, or one failed: the latter is only a risk.
\* The summary tells the caller which runtime produced it.
ReturnCompleted ==
  /\ pc = "persist"
  /\ Finish(IF \E k \in DOMAIN trace : trace[k].runtime = "stub"
              THEN "stubbed" ELSE "completed")
  /\ UNCHANGED <<status, stored>>

-----------------------------------------------------------------------------
Crash ==
  /\ pc # "idle"
  /\ Finish("none")
  /\ UNCHANGED <<status, stored>>

Progress ==
  \/ RecordSession \/ RecordFails \/ Snapshot \/ CapReached \/ CallFails
  \/ AskTools \/ AnswerFinal \/ ExecuteTool \/ RefuseTool \/ StoreResponse
  \/ PublishResult \/ FinalizeFails \/ PersistRow \/ ReturnCompleted

Next == StartTask \/ ResumeChild \/ Progress \/ Crash

Spec == Init /\ [][Next]_vars

\* Every call of the loop is bounded by a timeout; crashes are not owed.
FairSpec == Spec /\ WF_vars(Progress)

-----------------------------------------------------------------------------
(* Properties.                                                             *)

Rows == [iter : Nat, type : {"snapshot", "tool", "final"}, tool : Tools \union {NoTool},
         ok : BOOLEAN, runtime : Runtimes \union {"stub"}]

\* Types of the variables.
TypeOK ==
  /\ pc \in {"idle", "record", "iterate", "call", "tools", "answer", "publish", "persist"}
  /\ run \in {0} \union Sessions /\ runtime \in Runtimes /\ iter \in Nat
  /\ pending \in Seq(Tools) /\ trace \in Seq(Rows)
  /\ seed \in [next : Nat, runtime : Runtimes \union {"any", "stub"}]
  /\ status \in [Sessions -> {"absent", "open", "answered", "closed"}]
  /\ stored \in [Sessions -> Seq(Rows)]
  /\ result \in [Sessions -> {"none", "failed", "completed", "stubbed"}]
  /\ allowed \in [Sessions -> SUBSET Tools]
  /\ origin \in [Sessions -> {0} \union Sessions]

\* What the caller was told agrees with what a later reader finds, whichever
\* store call failed and wherever the process stopped: a completed child has
\* all its rows, a failed one is not closed, and only closed ones have traces.
ResultMatchesStore ==
  \A s \in Sessions :
    /\ result[s] \in {"completed", "stubbed"} => status[s] = "closed"
    /\ result[s] = "failed" => status[s] # "closed"
    /\ stored[s] # << >> => status[s] = "closed"

\* Any stored prefix of a trace can be replayed: the loop's own steps follow
\* the snapshot of their iteration and runtime, and iterations never go back.
StoredTraceReplayable ==
  \A s \in Sessions : \A k \in DOMAIN stored[s] :
    LET row == stored[s][k] IN
    /\ row.type # "snapshot" /\ row.runtime # "stub" =>
         \E l \in Snapshots(stored[s]) :
           /\ l < k
           /\ stored[s][l].iter = row.iter /\ stored[s][l].runtime = row.runtime
    /\ \A l \in 1..k : stored[s][l].iter <= row.iter

\* A resume continues after the last snapshot it found; it never repeats an
\* iteration of the execution it resumes.
ResumeMovesOn ==
  \A s \in 1..run : origin[s] # 0 =>
    \A k \in Snapshots(stored[s]), l \in Snapshots(stored[origin[s]]) :
      stored[s][k].iter > stored[origin[s]][l].iter

\* Every execution ends, through the cap, the fallbacks and store errors.
ExecutionEnds == pc # "idle" ~> pc = "idle"
=============================================================================
