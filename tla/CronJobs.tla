------------------------------ MODULE CronJobs ------------------------------
(***************************************************************************)
(* internal/cron: the job table in jobs.json, edited and executed by       *)
(* processes that share the data directory (the hermesd scheduler and each *)
(* hermesctl command or console).  A Manager's mutex orders the calls of   *)
(* one process; nothing orders the processes.  A process is therefore one  *)
(* sequential thread here; Procs = {p} means that hermesd and hermesctl    *)
(* never run at the same time.                                             *)
(*                                                                         *)
(* The unit of time is a minute.  Times of the code are RFC3339 strings.   *)
(***************************************************************************)
EXTENDS Integers, FiniteSets, SequencesExt

CONSTANTS
  Procs,          \* processes that use the data directory
  Editors,        \* the hermesctl ones: hermesd only ticks
  JobIds,         \* ids AddJob can hand out (bound: jobs ever added)
  Expressions,    \* schedule expressions callers pass, as [form, n]
  DurationRange,  \* time.Duration holds less than this many minutes
  MaxTime,        \* bound: the clock
  MaxMishaps,     \* bound: crashes and failing writes
  MaxAttempts     \* bound: executions of one job

ASSUME CronAssumption ==
  /\ Editors \subseteq Procs
  /\ DurationRange \in Nat \ {0}
  /\ MaxTime \in Nat /\ MaxMishaps \in Nat /\ MaxAttempts \in Nat
  /\ \A e \in Expressions : e.form \in {"every", "in", "at"} /\ e.n \in Int

Never == -(DurationRange + 1)         \* next_run_at is empty

\* What a file holds.
Text(jobs) == [form |-> "table", jobs |-> jobs]
Torn   == [form |-> "torn", jobs |-> << >>]       \* not a JSON array
Absent == [form |-> "absent", jobs |-> << >>]

VARIABLES
  clock,
  file,      \* jobs.json; a missing or an empty file is a table without jobs
  tmp,       \* jobs.json.tmp
  pc, call,  \* where each process is, and in which call: [op, id]
  buf,       \* the jobs it has in memory
  at, since, \* index of the tick's loop, and the `now' the tick took
  fd,        \* what the descriptor of its os.WriteFile refers to
  \* observations
  issued, added,     \* ids created; those whose add returned nil
  doomed, deleted,   \* ids whose delete was begun; those where it returned nil
  attempts, lastAt,         \* executions per job, and the tick of the last one
  mishaps

disk  == <<file, tmp, fd>>
proc  == <<pc, call, buf, at, since>>
acks  == <<issued, added, doomed, deleted>>
tries == <<attempts, lastAt>>
vars  == <<clock, disk, proc, acks, tries, mishaps>>

NoCall == [op |-> "none", id |-> "none"]

Init ==
  /\ clock = 0 /\ file = Text(<< >>) /\ tmp = Absent
  /\ pc = [p \in Procs |-> "idle"] /\ call = [p \in Procs |-> NoCall]
  /\ buf = [p \in Procs |-> << >>]
  /\ at = [p \in Procs |-> 1] /\ since = [p \in Procs |-> 0]
  /\ fd = [p \in Procs |-> "none"]
  /\ issued = {} /\ added = {} /\ doomed = {} /\ deleted = {}
  /\ attempts = [i \in JobIds |-> 0] /\ lastAt = [i \in JobIds |-> Never]
  /\ mishaps = 0

-----------------------------------------------------------------------------
(* Schedules.                                                              *)

\* time.Duration(minutes) * time.Minute, a 64-bit product.
Span(minutes) ==
  ((minutes + DurationRange) % (2 * DurationRange)) - DurationRange

ValidExpression(e) == e.form = "at" \/ e.n > 0

ParseSchedule(e, now) ==
  IF e.form = "every"
    THEN [kind |-> "interval", every |-> e.n, runAt |-> Never]
    ELSE [kind |-> "once", every |-> 0,
          runAt |-> IF e.form = "at" THEN e.n ELSE now + Span(e.n)]

FirstNextRun(s, now) ==
  IF s.kind = "once" THEN s.runAt ELSE now + Span(s.every)

NewJob(id, e, now) ==
  LET s == ParseSchedule(e, now) IN
  [ id |-> id, kind |-> s.kind, every |-> s.every, enabled |-> TRUE,
    next |-> FirstNextRun(s, now), runs |-> 0 ]

JobDue(job, now) == job.enabled /\ job.next # Never /\ job.next <= now

\* Variant, not the code: the next run counts from the last due time.
MissedRunsAreCaughtUp(job, now) ==
  [ job EXCEPT !.runs = @ + 1, !.enabled = job.kind # "once",
               !.next = IF job.kind = "interval" THEN @ + Span(job.every) ELSE Never ]

\* Variant, not the code: a once job is not disabled.
OnceStaysEnabled(job, now) ==
  [ job EXCEPT !.runs = @ + 1,
               !.next = IF job.kind = "interval" THEN now + Span(job.every) ELSE @ ]

\* A job after its execution, whether the chat failed, its output could not be
\* written, or all went well.
AfterRun(job, now) ==
  [ job EXCEPT !.runs = @ + 1, !.enabled = job.kind # "once",
               !.next = IF job.kind = "interval" THEN now + Span(job.every) ELSE Never ]

-----------------------------------------------------------------------------
(* Calls.  Each starts by reading the whole table and ends by writing it.  *)
(* A table that cannot be parsed ends the call at once with an error.      *)

Begin(p, op, id, jobs, next) ==
  /\ pc[p] = "idle"
  /\ file # Torn
  /\ pc' = [pc EXCEPT ![p] = next]
  /\ call' = [call EXCEPT ![p] = [op |-> op, id |-> id]]
  /\ buf' = [buf EXCEPT ![p] = jobs]
  /\ since' = [since EXCEPT ![p] = clock]
  /\ at' = [at EXCEPT ![p] = 1]
  /\ UNCHANGED <<clock, disk, added, deleted, tries, mishaps>>

\* Variant, not the code: an add saves the new job only.
ForgetsTable(p) ==
  \E id \in JobIds \ issued, e \in Expressions :
    /\ ValidExpression(e)
    /\ Begin(p, "add", id, << NewJob(id, e, clock) >>, "open")
    /\ issued' = issued \union {id}
    /\ UNCHANGED doomed

AddJob(p) ==
  \E id \in JobIds \ issued, e \in Expressions :
    /\ ValidExpression(e)
    /\ Begin(p, "add", id, Append(file.jobs, NewJob(id, e, clock)), "open")
    /\ issued' = issued \union {id}
    /\ UNCHANGED doomed

\* An id that is not in the table is an error and leaves it alone; no two jobs
\* of a table have the same one.
DeleteJob(p) ==
  \E k \in DOMAIN file.jobs :
    LET id == file.jobs[k].id IN
    /\ Begin(p, "delete", id, RemoveAt(file.jobs, k), "open")
    /\ doomed' = doomed \union {id}
    /\ UNCHANGED issued

BeginTick(p) ==
  Begin(p, "tick", "none", file.jobs, "tick") /\ UNCHANGED <<issued, doomed>>

\* The next job the loop of TickWith executes.
DueIndexes(p) == {i \in at[p]..Len(buf[p]) : JobDue(buf[p][i], since[p])}

RunJob(p) ==
  /\ pc[p] = "tick"
  /\ \E i \in DueIndexes(p) :
       LET id == buf[p][i].id IN
       /\ \A k \in DueIndexes(p) : i <= k
       /\ attempts[id] < MaxAttempts
       /\ at' = [at EXCEPT ![p] = i]
       /\ attempts' = [attempts EXCEPT ![id] = @ + 1]
       /\ lastAt' = [lastAt EXCEPT ![id] = since[p]]
  /\ pc' = [pc EXCEPT ![p] = "chat"]
  /\ UNCHANGED <<clock, disk, call, buf, since, acks, mishaps>>

\* The chat turn has ended, well or badly.
EndChat(p) ==
  /\ pc[p] = "chat"
  /\ buf' = [buf EXCEPT ![p][at[p]] = AfterRun(@, since[p])]
  /\ at' = [at EXCEPT ![p] = @ + 1]
  /\ pc' = [pc EXCEPT ![p] = "tick"]
  /\ UNCHANGED <<clock, disk, call, since, acks, tries, mishaps>>

\* Variant, not the code: a tick does not save.
UnsavedTick(p) ==
  /\ pc[p] = "tick"
  /\ DueIndexes(p) = {}
  /\ pc' = [pc EXCEPT ![p] = "idle"]
  /\ UNCHANGED <<clock, disk, call, buf, at, since, acks, tries, mishaps>>

\* The tick saves the table it read, also when no job was due.
EndTick(p) ==
  /\ pc[p] = "tick"
  /\ DueIndexes(p) = {}
  /\ pc' = [pc EXCEPT ![p] = "open"]
  /\ UNCHANGED <<clock, disk, call, buf, at, since, acks, tries, mishaps>>

-----------------------------------------------------------------------------
(* saveJobs: WriteFile(jobs.json.tmp), which opens, truncates and writes,  *)
(* then Rename.  A descriptor stays with its file when the file is renamed.*)

Advance(p, from, to) ==
  /\ pc[p] = from
  /\ pc' = [pc EXCEPT ![p] = to]
  /\ UNCHANGED <<clock, call, buf, at, since, acks, tries, mishaps>>

\* Variant, not the code: jobs.json is truncated and written directly.
WritesInPlace(p) ==
  /\ Advance(p, "open", "write")
  /\ file' = Text(<< >>)
  /\ fd' = [fd EXCEPT ![p] = "file"]
  /\ UNCHANGED tmp

OpenTmp(p) ==
  /\ Advance(p, "open", "write")
  /\ tmp' = Text(<< >>)
  /\ fd' = [fd EXCEPT ![p] = "tmp"]
  /\ UNCHANGED file

\* Written over what another process put there since the truncation: when the
\* new text is the shorter one, the end of the other is left behind it.
Written(old, new) == IF old \in {Text(<< >>), new} THEN {new} ELSE {new, Torn}

WriteTmp(p) ==
  /\ Advance(p, "write", "rename")
  /\ \/ fd[p] = "tmp"  /\ tmp' \in Written(tmp, Text(buf[p])) /\ UNCHANGED file
     \/ fd[p] = "file" /\ file' \in Written(file, Text(buf[p])) /\ UNCHANGED tmp
     \/ fd[p] = "gone" /\ UNCHANGED <<file, tmp>>
  /\ fd' = [fd EXCEPT ![p] = "none"]

Moved(f) == CASE f = "tmp" -> "file" [] f = "file" -> "gone" [] OTHER -> f

\* The process forgets what it held: the call has returned, or has died.
Leave(p) ==
  /\ pc' = [pc EXCEPT ![p] = "idle"]
  /\ call' = [call EXCEPT ![p] = NoCall]
  /\ buf' = [buf EXCEPT ![p] = << >>]
  /\ at' = [at EXCEPT ![p] = 1]
  /\ since' = [since EXCEPT ![p] = 0]
  /\ UNCHANGED <<clock, tries>>

RenameTmp(p) ==
  /\ tmp # Absent
  /\ Advance(p, "rename", "reply")
  /\ file' = tmp
  /\ tmp' = Absent
  /\ fd' = [q \in Procs |-> Moved(fd[q])]

\* Another process has renamed the jobs.json.tmp of this one: an error.
NothingToRename(p) ==
  /\ pc[p] = "rename"
  /\ tmp = Absent
  /\ Leave(p)
  /\ UNCHANGED <<disk, acks, mishaps>>

\* The call returns without an error.
Reply(p) ==
  /\ pc[p] = "reply"
  /\ added' = IF call[p].op = "add" THEN added \union {call[p].id} ELSE added
  /\ deleted' = IF call[p].op = "delete" THEN deleted \union {call[p].id} ELSE deleted
  /\ Leave(p)
  /\ UNCHANGED <<disk, issued, doomed, mishaps>>

-----------------------------------------------------------------------------
Mishap(p) ==
  /\ mishaps < MaxMishaps
  /\ mishaps' = mishaps + 1
  /\ fd' = [fd EXCEPT ![p] = "none"]
  /\ Leave(p)
  /\ UNCHANGED <<file, tmp, acks>>

\* A file operation of saveJobs fails (a full disk).
SaveFails(p) == pc[p] \in {"open", "write", "rename"} /\ Mishap(p)

\* The process dies.  hermesd does not wait for a tick when it is stopped.
Crash(p) == pc[p] # "idle" /\ Mishap(p)

PassTime ==
  /\ clock < MaxTime
  /\ clock' = clock + 1
  /\ UNCHANGED <<disk, proc, acks, tries, mishaps>>

Work(p) ==
  \/ RunJob(p) \/ EndChat(p) \/ EndTick(p)
  \/ OpenTmp(p) \/ WriteTmp(p) \/ RenameTmp(p) \/ NothingToRename(p) \/ Reply(p)

Next ==
  \/ PassTime
  \/ \E p \in Editors : AddJob(p) \/ DeleteJob(p)
  \/ \E p \in Procs : BeginTick(p) \/ Work(p) \/ SaveFails(p) \/ Crash(p)

Spec == Init /\ [][Next]_vars

\* The ticker keeps firing, and a chat turn ends (its model call times out).
FairSpec == Spec /\ \A p \in Procs : WF_vars(BeginTick(p)) /\ WF_vars(Work(p))

-----------------------------------------------------------------------------
(* Properties.                                                             *)

Jobs == [id : JobIds, kind : {"once", "interval"}, every : Nat,
         enabled : BOOLEAN, next : Int, runs : Nat]

IsTable(t) ==
  /\ t \in Seq(Jobs)
  /\ \A k, l \in DOMAIN t : t[k].id = t[l].id => k = l

JobsIn(t) == {t[k] : k \in DOMAIN t}

HasJob(jobs, id) == \E k \in DOMAIN jobs : jobs[k].id = id

\* Types of the variables.
TypeOK ==
  /\ clock \in Nat /\ mishaps \in Nat
  /\ file.form \in {"table", "torn"} /\ IsTable(file.jobs)
  /\ tmp.form \in {"table", "torn", "absent"} /\ IsTable(tmp.jobs)
  /\ pc \in [Procs -> {"idle", "tick", "chat", "open", "write", "rename", "reply"}]
  /\ call \in [Procs -> [op : {"none", "add", "delete", "tick"},
                         id : JobIds \union {"none"}]]
  /\ \A p \in Procs : IsTable(buf[p]) /\ at[p] \in 1..(Len(buf[p]) + 1)
  /\ since \in [Procs -> Nat]
  /\ fd \in [Procs -> {"none", "tmp", "file", "gone"}]
  /\ issued \subseteq JobIds /\ added \subseteq issued
  /\ doomed \subseteq issued /\ deleted \subseteq doomed
  /\ attempts \in [JobIds -> Nat] /\ lastAt \in [JobIds -> Int]

\* Whoever wrote it, and however the writers interleaved, a table that can be
\* read is one that some sequence of calls produces: a once job has been
\* disabled exactly when it has run, and no job counts a run that never began.
TableConsistent ==
  \A j \in JobsIn(file.jobs) :
    /\ j.kind = "once" => (j.enabled <=> j.runs = 0)
    /\ j.runs <= attempts[j.id]
    /\ j.id \in issued

\* An add that returned nil is in the table until a delete is asked for, and
\* a delete that returned nil is final, across crashes and failed writes
\* (AddJob, DeleteJob and the rename in saveJobs).
AcknowledgedEditsKept ==
  \A i \in JobIds :
    /\ i \in added \ doomed => HasJob(file.jobs, i)
    /\ i \in deleted => ~HasJob(file.jobs, i)

\* A once job is executed again only when the tick that executed it did not
\* reach its save: one more attempt for each mishap, and none without.
RepeatsExplained ==
  \A j \in JobsIn(file.jobs) : j.kind = "once" => attempts[j.id] <= 1 + mishaps

\* As long as no tick was lost, two executions of an interval job are at least
\* its interval apart, measured at the ticks (nextRunAfterSuccess/Failure).
IntervalSpaced ==
  [][\A p \in Procs : RunJob(p) =>
       LET j == buf[p][at'[p]] IN
       j.kind = "interval" /\ mishaps = 0 /\ lastAt[j.id] # Never
         => since[p] - lastAt[j.id] >= j.every]_vars

\* One process at a time changes jobs.json by whole calls: a job is added,
\* or one is removed, or due jobs have one more run; nothing else moves.
WholeCallsOnly ==
  [][file' # file =>
       LET old == file.jobs
           new == file'.jobs
       IN  \/ \E j \in JobsIn(new) : new = Append(old, j)
           \/ \E k \in DOMAIN old : new = RemoveAt(old, k)
           \/ /\ Len(new) = Len(old)
              /\ \A k \in DOMAIN old :
                   \/ new[k] = old[k]
                   \/ /\ JobDue(old[k], clock)
                      /\ new[k].id = old[k].id
                      /\ new[k].runs = old[k].runs + 1]_vars

IsDue(i) == \E j \in JobsIn(file.jobs) : j.id = i /\ JobDue(j, clock)

\* A due job does not stay due: some tick executes it and says so in the table.
DueJobsRun == \A i \in JobIds : IsDue(i) ~> ~IsDue(i)
=============================================================================
