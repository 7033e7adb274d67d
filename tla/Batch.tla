------------------------------- MODULE Batch -------------------------------
(***************************************************************************)
(* internal/batch and internal/trajectory: batch runs of one user under    *)
(* one run name.  A run chats the items of its dataset in order, appends   *)
(* the session of every success to the user's trajectory file and writes   *)
(* its checkpoint, the whole of it and in place, after every item.  A      *)
(* resumed run takes over what the checkpoint it can read holds.  Errors   *)
(* of the trajectory and of the checkpoint are ignored.                    *)
(*                                                                         *)
(* Every run is a process of its own and may be killed.  The dataset may   *)
(* be edited between runs.  A chat turn is one step here.                  *)
(***************************************************************************)
EXTENDS Naturals, FiniteSets, SequencesExt

CONSTANTS
  Runners,        \* processes running the batch
  Prompts,        \* prompts of the items
  Dataset, Edits, \* the dataset, a sequence of prompts; what edits make of it
  MaxRuns, MaxFaults \* bounds; a fault is a crash, an edit or a failing write

ASSUME BatchAssumption ==
  /\ MaxRuns \in Nat /\ MaxFaults \in Nat
  /\ Dataset \in Seq(Prompts) /\ Edits \subseteq Seq(Prompts)

VARIABLES
  data,           \* the dataset file
  checkpoint,     \* the checkpoint file
  lines,          \* the trajectory file, the unfinished last line included
  run,            \* per process: its run
  sessions,       \* sessions the chats have created: the prompt of each
  durable,        \* indices a readable checkpoint keeps for every resume
  edited,         \* the dataset has been changed
  lost,           \* trajectories that went into an unfinished line
  runs, faults

vars == <<data, checkpoint, lines, run, sessions, durable, edited, lost, runs, faults>>

Missing   == [readable |-> FALSE, done |-> <<>>]
NoResult  == [prompt |-> "none", ok |-> FALSE, session |-> 0, trajectory |-> 0]
NoCount   == [total |-> 0, succeeded |-> 0, failed |-> 0, trajectories |-> 0]

NotRunning ==
  [step |-> "idle", items |-> <<>>, resume |-> FALSE, completed |-> <<>>, result |-> NoResult,
   index |-> 0, count |-> NoCount, alone |-> TRUE]

Init ==
  /\ data = Dataset
  /\ checkpoint = Missing /\ lines = <<>>
  /\ run = [w \in Runners |-> NotRunning]
  /\ sessions = <<>> /\ durable = {} /\ edited = FALSE /\ lost = {}
  /\ runs = 0 /\ faults = 0

-----------------------------------------------------------------------------
Running(w)   == run[w].step # "idle"
At(w, step)  == run[w].step = step
Set(w, r)    == run' = [run EXCEPT ![w] = r]
Todo(r)      == DOMAIN r.items \ DOMAIN r.completed
With(f, i, x) == [j \in DOMAIN f \union {i} |-> IF j = i THEN x ELSE f[j]]

\* The next index the run has no result for, or the end.
Advance(r) ==
  IF Todo(r) = {} THEN [r EXCEPT !.step = "report"]
  ELSE [r EXCEPT !.step = "chat", !.result = NoResult,
                 !.index = CHOOSE i \in Todo(r) : \A j \in Todo(r) : i <= j]

\* Variant, not the code: the failures of a checkpoint are not counted.
CountsSuccesses(n, done) ==
  [NoCount EXCEPT !.total = n,
     !.succeeded    = Quantify(DOMAIN done, LAMBDA i : done[i].ok),
     !.trajectories = Quantify(DOMAIN done, LAMBDA i : done[i].ok /\ done[i].trajectory # 0)]

\* The summary of what a checkpoint holds, for a dataset of n items.
Counted(n, done) ==
  [total        |-> n,
   succeeded    |-> Quantify(DOMAIN done, LAMBDA i : done[i].ok),
   failed       |-> Quantify(DOMAIN done, LAMBDA i : ~done[i].ok),
   trajectories |-> Quantify(DOMAIN done, LAMBDA i : done[i].ok /\ done[i].trajectory # 0)]

\* Variant, not the code: the results of a checkpoint count, their items run again.
TakesCountsOnly(w, resume) ==
  LET loaded == IF resume /\ checkpoint.readable THEN checkpoint.done ELSE <<>>
      others == {v \in Runners : Running(v)} IN
  /\ ~Running(w) /\ runs < MaxRuns
  /\ runs' = runs + 1
  /\ run' = [v \in Runners |-> IF v = w
       THEN Advance([NotRunning EXCEPT !.items = data, !.resume = resume, !.alone = (others = {}),
                     !.count = Counted(Len(data), loaded)])
       ELSE [run[v] EXCEPT !.alone = @ /\ ~Running(v)]]
  /\ durable' = IF resume /\ checkpoint.readable /\ others = {} THEN durable ELSE {}
  /\ UNCHANGED <<data, checkpoint, lines, sessions, edited, lost, faults>>

\* runBatchRun, LoadJSONL, LoadCheckpoint: without a readable checkpoint a
\* resumed run starts from nothing, as one that does not resume.
Start(w, resume) ==
  LET loaded == IF resume /\ checkpoint.readable THEN checkpoint.done ELSE <<>>
      others == {v \in Runners : Running(v)} IN
  /\ ~Running(w) /\ runs < MaxRuns
  /\ runs' = runs + 1
  /\ run' = [v \in Runners |-> IF v = w
       THEN Advance([NotRunning EXCEPT !.items = data, !.resume = resume, !.completed = loaded,
                     !.alone = (others = {}), !.count = Counted(Len(data), loaded)])
       ELSE [run[v] EXCEPT !.alone = @ /\ ~Running(v)]]
  /\ durable' = IF resume /\ checkpoint.readable /\ others = {} THEN durable ELSE {}
  /\ UNCHANGED <<data, checkpoint, lines, sessions, edited, lost, faults>>

-----------------------------------------------------------------------------
(* One item.                                                               *)

\* The result joins the run's own and is written out.
Complete(r, result, count) ==
  [r EXCEPT !.step = "open", !.completed = With(@, r.index, result), !.count = count, !.result = NoResult]

ChatFails(w) ==
  LET r == run[w] IN
  /\ At(w, "chat")
  /\ Set(w, Complete(r, [NoResult EXCEPT !.prompt = r.items[r.index]], [r.count EXCEPT !.failed = @ + 1]))
  /\ UNCHANGED <<data, checkpoint, lines, sessions, durable, edited, lost, runs, faults>>

\* ChatDetailed has created a session and stored the turn.
Chat(w) ==
  LET r == run[w]
      prompt == r.items[r.index] IN
  /\ At(w, "chat")
  /\ sessions' = Append(sessions, prompt)
  /\ Set(w, [r EXCEPT !.step = "save",
               !.result = [prompt |-> prompt, ok |-> TRUE, session |-> Len(sessions'), trajectory |-> 0]])
  /\ UNCHANGED <<data, checkpoint, lines, durable, edited, lost, runs, faults>>

Succeeded(r, trajectory) ==
  Complete(r, [r.result EXCEPT !.trajectory = trajectory],
    [r.count EXCEPT !.succeeded = @ + 1, !.trajectories = IF trajectory = 0 THEN @ ELSE @ + 1])

Unfinished == lines # <<>> /\ Last(lines).end = "none"

\* The file with a record appended, the whole of it or its beginning only.
Appended(session, end) ==
  LET line == [session |-> session, good |-> end = "newline" /\ ~Unfinished, end |-> end] IN
  IF Unfinished THEN Append(Front(lines), line) ELSE Append(lines, line)

\* Variant, not the code: the file is begun again when it is opened.
BeginsFile(w) ==
  LET s == run[w].result.session IN
  /\ At(w, "save")
  /\ lines' = <<[session |-> s, good |-> TRUE, end |-> "newline"]>>
  /\ lost' = lost
  /\ Set(w, Succeeded(run[w], s))
  /\ UNCHANGED <<data, checkpoint, sessions, durable, edited, runs, faults>>

\* Save appends one line; a line left unfinished before takes it in.
SaveTrajectory(w) ==
  LET s == run[w].result.session IN
  /\ At(w, "save")
  /\ lines' = Appended(s, "newline")
  /\ lost' = IF Unfinished THEN lost \union {s} ELSE lost
  /\ Set(w, Succeeded(run[w], s))
  /\ UNCHANGED <<data, checkpoint, sessions, durable, edited, runs, faults>>

\* The session cannot be read back, or the append fails half way.
SaveFails(w) ==
  /\ At(w, "save") /\ faults < MaxFaults
  /\ faults' = faults + 1
  /\ \/ UNCHANGED lines
     \/ lines' = Appended(run[w].result.session, "none")
  /\ Set(w, Succeeded(run[w], 0))
  /\ UNCHANGED <<data, checkpoint, sessions, durable, edited, lost, runs>>

\* SaveCheckpoint empties the file ...
OpenCheckpoint(w) ==
  /\ At(w, "open")
  /\ checkpoint' = Missing
  /\ durable' = IF run[w].alone THEN durable ELSE {}
  /\ Set(w, [run[w] EXCEPT !.step = "write"])
  /\ UNCHANGED <<data, lines, sessions, edited, lost, runs, faults>>

\* ... and writes it; over what another run has put there meanwhile it may
\* leave a text that cannot be parsed.
WriteCheckpoint(w) ==
  LET r == run[w]
      whole == [readable |-> TRUE, done |-> r.completed] IN
  /\ At(w, "write")
  /\ checkpoint' \in IF checkpoint.readable THEN {whole, Missing} ELSE {whole}
  /\ durable' = IF r.alone THEN DOMAIN r.completed ELSE {}
  /\ Set(w, Advance(r))
  /\ UNCHANGED <<data, lines, sessions, edited, lost, runs, faults>>

\* The file cannot be opened, or it stays empty; the run goes on.
CheckpointFails(w) ==
  /\ run[w].step \in {"open", "write"} /\ faults < MaxFaults
  /\ faults' = faults + 1
  /\ durable' = IF At(w, "write") THEN {} ELSE durable
  /\ Set(w, Advance(run[w]))
  /\ UNCHANGED <<data, checkpoint, lines, sessions, edited, lost, runs>>

\* The results and the summary are written to the terminal.
Report(w) ==
  /\ At(w, "report")
  /\ Set(w, NotRunning)
  /\ UNCHANGED <<data, checkpoint, lines, sessions, durable, edited, lost, runs, faults>>

-----------------------------------------------------------------------------
\* The process is killed; an append may have been written half.
Crash(w) ==
  /\ Running(w) /\ faults < MaxFaults
  /\ faults' = faults + 1
  /\ \/ UNCHANGED lines
     \/ At(w, "save") /\ lines' = Appended(run[w].result.session, "none")
  /\ durable' = IF At(w, "write") THEN {} ELSE durable
  /\ Set(w, NotRunning)
  /\ UNCHANGED <<data, checkpoint, sessions, edited, lost, runs>>

\* Somebody edits the dataset (external).
Edit(d) ==
  /\ faults < MaxFaults /\ d # data
  /\ faults' = faults + 1
  /\ data' = d /\ edited' = TRUE
  /\ UNCHANGED <<checkpoint, lines, run, sessions, durable, lost, runs>>

Handle(w) ==
  \/ ChatFails(w) \/ Chat(w) \/ SaveTrajectory(w) \/ SaveFails(w)
  \/ OpenCheckpoint(w) \/ WriteCheckpoint(w) \/ CheckpointFails(w) \/ Report(w)

Next ==
  \/ \E w \in Runners : Handle(w) \/ Crash(w) \/ \E resume \in BOOLEAN : Start(w, resume)
  \/ \E d \in Edits : Edit(d)

Spec == Init /\ [][Next]_vars

-----------------------------------------------------------------------------
\* ListFiltered skips the lines it cannot parse.
Listed == {lines[i].session : i \in {j \in DOMAIN lines : lines[j].good}}

\* The report of a run accounts for every item of its dataset exactly once,
\* also when it has taken over the results of runs before it: the counts add
\* up and every result is that of its prompt, unless the dataset was edited
\* (runner.go:130, indices are all a checkpoint knows of the items).
ReportAddsUp ==
  \A w \in Runners : LET r == run[w] IN
    At(w, "report") /\ ~edited =>
      /\ DOMAIN r.completed = DOMAIN r.items
      /\ r.count.succeeded + r.count.failed = Len(r.items)
      /\ r.count.succeeded = Quantify(DOMAIN r.completed, LAMBDA i : r.completed[i].ok)
      /\ r.count.trajectories = Quantify(DOMAIN r.completed, LAMBDA i : r.completed[i].trajectory # 0)
      /\ \A i \in DOMAIN r.items : r.completed[i].prompt = r.items[i]

\* What a checkpoint holds is not chatted again by a run that resumes it,
\* unless the checkpoint was emptied and not written or another run shared
\* it (runner.go:150).
ResumeSkipsDone ==
  [][\A w \in Runners :
       At(w, "chat")' /\ run[w]' # run[w] /\ run'[w].resume => run'[w].index \notin durable']_vars

\* Every trajectory a result names can be listed, and with the prompt of the
\* result, unless an append before it was cut off (manager.go:126).
TrajectoriesListed ==
  \A w \in Runners : \A i \in DOMAIN run[w].completed :
    LET x == run[w].completed[i] IN
    x.trajectory # 0 /\ x.trajectory \notin lost =>
      x.trajectory \in Listed /\ sessions[x.trajectory] = x.prompt
=============================================================================
