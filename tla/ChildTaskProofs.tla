--------------------------- MODULE ChildTaskProofs ---------------------------
(***************************************************************************)
(* Of a delegated task, for every set of tools, every iteration cap and    *)
(* any number of resumes: what callers were told agrees with the store, a  *)
(* stored trace can be replayed, and a resume repeats no iteration.        *)
(***************************************************************************)
EXTENDS ChildTask, WellFoundedInduction, TLAPS

-----------------------------------------------------------------------------
(* The inductive invariant.                                                *)

\* The steps of a loop follow the snapshot of their iteration and runtime, and
\* iterations never go back.
Replayable(rows) ==
  /\ \A k \in DOMAIN rows : rows[k].type # "snapshot" /\ rows[k].runtime # "stub" =>
       \E l \in Snapshots(rows) :
         l < k /\ rows[l].iter = rows[k].iter /\ rows[l].runtime = rows[k].runtime
  /\ \A k, l \in DOMAIN rows : l <= k => rows[l].iter <= rows[k].iter

\* The running execution and its rows in SQLite: the session is only closed
\* when the trace is about to be stored, and sessions to come are untouched.
ExecutionInv ==
  /\ pc # "idle" => run # 0 /\ result[run] = "none"
  /\ pc = "record" => status[run] = "absent"
  /\ pc \in {"iterate", "call", "tools", "answer"} => status[run] = "open"
  /\ pc = "publish" => status[run] = "answered"
  /\ pc = "persist" => status[run] = "closed"
  /\ pc \notin {"idle", "persist"} => stored[run] = << >>
  /\ \A s \in Sessions : s > run =>
       result[s] = "none" /\ status[s] = "absent" /\ stored[s] = << >> /\ origin[s] = 0

\* The trace in memory: it begins at the iteration the seed names, and a step
\* of the current iteration finds its snapshot there.
TraceInv ==
  /\ Replayable(trace)
  /\ pc \in {"idle", "record"} => trace = << >>
  /\ pc \in {"iterate", "call", "tools"} => iter >= StartIteration
  /\ pc = "iterate" => \A k \in DOMAIN trace : trace[k].iter < iter
  /\ pc \in {"call", "tools"} =>
       /\ \A k \in DOMAIN trace : trace[k].iter <= iter
       /\ \E l \in Snapshots(trace) : trace[l].iter = iter /\ trace[l].runtime = runtime
  /\ \A k \in Snapshots(trace) : trace[k].iter >= StartIteration

\* What is stored of the running execution is the beginning of its trace.
StoredInv ==
  /\ pc = "persist" =>
       /\ Len(stored[run]) <= Len(trace)
       /\ \A k \in DOMAIN stored[run] : stored[run][k] = trace[k]
  /\ \A s \in Sessions : Replayable(stored[s])

\* A resume starts after every snapshot its origin has stored, and an origin,
\* an earlier execution, gets no rows any more.
SeedInv ==
  /\ \A s \in Sessions : origin[s] < s
  /\ pc # "idle" /\ origin[run] # 0 =>
       \A l \in Snapshots(stored[origin[run]]) : stored[origin[run]][l].iter < seed.next
  /\ ResumeMovesOn

IInv == TypeOK /\ ExecutionInv /\ TraceInv /\ StoredInv /\ SeedInv /\ ResultMatchesStore

-----------------------------------------------------------------------------
(* Rows, snapshots and seeds.                                              *)

LEMMA RowFacts ==
  /\ \A row \in Rows : /\ row.iter \in Nat /\ row.type \in {"snapshot", "tool", "final"}
                       /\ row.runtime \in Runtimes \union {"stub"}
  /\ \A n \in Nat, t \in {"snapshot", "tool", "final"}, tool \in Tools \union {NoTool},
        ok \in BOOLEAN, rt \in Runtimes \union {"stub"} :
       [iter |-> n, type |-> t, tool |-> tool, ok |-> ok, runtime |-> rt] \in Rows
BY DEF Rows

LEMMA StepFacts ==
  ASSUME TypeOK, NEW type \in {"snapshot", "tool", "final"}, NEW tool \in Tools \union {NoTool},
         NEW ok \in BOOLEAN
  PROVE  /\ Step(type, tool, ok) \in Rows
         /\ Step(type, tool, ok).iter = iter /\ Step(type, tool, ok).type = type
         /\ Step(type, tool, ok).runtime = runtime
BY RowFacts DEF Step, TypeOK

LEMMA EmptyFacts ==
  << >> \in Seq(Rows) /\ Snapshots(<< >>) = {} /\ Replayable(<< >>) /\ << >> \in Seq(Tools)
BY DEF Snapshots, Replayable

\* Lists, by index.
LEMMA AppendFacts ==
  ASSUME NEW rows \in Seq(Rows), NEW row \in Rows
  PROVE  LET n == Len(rows) + 1 IN
         /\ n \in Nat \ {0} /\ DOMAIN rows = 1..(n - 1)
         /\ Append(rows, row) \in Seq(Rows) /\ DOMAIN Append(rows, row) = 1..n
         /\ Len(Append(rows, row)) = n
         /\ Append(rows, row)[n] = row
         /\ \A k \in 1..(n - 1) : Append(rows, row)[k] = rows[k]
         /\ Snapshots(rows) \subseteq 1..(n - 1)
         /\ Snapshots(Append(rows, row)) =
              IF row.type = "snapshot" THEN Snapshots(rows) \union {n} ELSE Snapshots(rows)
<1>1. /\ Len(rows) \in Nat /\ DOMAIN rows = 1..Len(rows)
      /\ Append(rows, row) \in Seq(Rows) /\ DOMAIN Append(rows, row) = 1..(Len(rows) + 1)
      /\ Len(Append(rows, row)) = Len(rows) + 1
      /\ Append(rows, row)[Len(rows) + 1] = row
      /\ \A k \in 1..Len(rows) : Append(rows, row)[k] = rows[k]
  OBVIOUS
<1>. QED  BY <1>1 DEF Snapshots

\* A row that is not older than the others, and follows its snapshot, keeps a
\* trace replayable.
LEMMA AppendReplayable ==
  ASSUME NEW rows \in Seq(Rows), NEW row \in Rows, Replayable(rows),
         \A k \in DOMAIN rows : rows[k].iter <= row.iter,
         row.type # "snapshot" /\ row.runtime # "stub" =>
           \E l \in Snapshots(rows) : rows[l].iter = row.iter /\ rows[l].runtime = row.runtime
  PROVE  Replayable(Append(rows, row))
<1> DEFINE n == Len(rows) + 1
           new == Append(rows, row)
<1>1. /\ n \in Nat \ {0} /\ DOMAIN rows = 1..(n - 1) /\ DOMAIN new = 1..n
      /\ new[n] = row /\ \A k \in 1..(n - 1) : new[k] = rows[k]
      /\ Snapshots(rows) \subseteq 1..(n - 1) /\ Snapshots(rows) \subseteq Snapshots(new)
  BY AppendFacts
<1>2. row.iter \in Nat
  BY RowFacts
<1> HIDE DEF n, new
<1>3. \A k, l \in DOMAIN new : l <= k => new[l].iter <= new[k].iter
  BY <1>1, <1>2 DEF Replayable
<1>4. ASSUME NEW k \in DOMAIN new, new[k].type # "snapshot", new[k].runtime # "stub"
      PROVE  \E l \in Snapshots(new) :
               l < k /\ new[l].iter = new[k].iter /\ new[l].runtime = new[k].runtime
  <2>1. CASE k = n
    BY <1>1, <1>4, <2>1
  <2>2. CASE k # n
    BY <1>1, <1>4, <2>2 DEF Replayable
  <2>. QED  BY <2>1, <2>2
<1>. QED  BY <1>3, <1>4 DEF Replayable, new

\* A beginning of a replayable trace is replayable.
LEMMA PrefixReplayable ==
  ASSUME NEW rows \in Seq(Rows), NEW all \in Seq(Rows), Replayable(all),
         Len(rows) <= Len(all), \A k \in DOMAIN rows : rows[k] = all[k]
  PROVE  Replayable(rows)
<1>1. /\ Len(rows) \in Nat /\ Len(all) \in Nat
      /\ DOMAIN rows = 1..Len(rows) /\ DOMAIN all = 1..Len(all)
  OBVIOUS
<1>2. \A k, l \in DOMAIN rows : l <= k => rows[l].iter <= rows[k].iter
  BY <1>1 DEF Replayable
<1>3. ASSUME NEW k \in DOMAIN rows, rows[k].type # "snapshot", rows[k].runtime # "stub"
      PROVE  \E l \in Snapshots(rows) :
               l < k /\ rows[l].iter = rows[k].iter /\ rows[l].runtime = rows[k].runtime
  <2>1. PICK l \in Snapshots(all) :
          l < k /\ all[l].iter = all[k].iter /\ all[l].runtime = all[k].runtime
    BY <1>1, <1>3 DEF Replayable
  <2>2. l \in DOMAIN rows
    BY <1>1, <2>1 DEF Snapshots
  <2>. QED  BY <2>1, <2>2 DEF Snapshots
<1>. QED  BY <1>2, <1>3 DEF Replayable

\* The last snapshot of a trace exists, and is the one of the highest iteration.
LEMMA LastSnapshotFacts ==
  ASSUME NEW rows \in Seq(Rows), Replayable(rows), Snapshots(rows) # {}
  PROVE  /\ LastSnapshot(rows) \in Rows
         /\ \A l \in Snapshots(rows) : rows[l].iter <= LastSnapshot(rows).iter
<1> DEFINE R == {ss \in Nat \X Nat : ss[1] < ss[2]}
           T == {Len(rows) - k : k \in Snapshots(rows)}
           last == CHOOSE k \in Snapshots(rows) : \A l \in Snapshots(rows) : l <= k
<1>1. Len(rows) \in Nat /\ Snapshots(rows) \subseteq 1..Len(rows) /\ DOMAIN rows = 1..Len(rows)
  BY DEF Snapshots
<1>2. T \subseteq Nat /\ T # {}
  BY <1>1
<1>3. IsWellFoundedOn(R, Nat)
  BY NatLessThanWellFounded DEF OpToRel
<1>4. PICK m \in T : \A t \in T : <<t, m>> \notin R
  <2> HIDE DEF R, T
  <2>. QED  BY <1>2, <1>3, WFMin
<1>5. PICK k \in Snapshots(rows) : m = Len(rows) - k
  BY <1>4
<1>6. \A l \in Snapshots(rows) : l <= k
  <2> TAKE l \in Snapshots(rows)
  <2>1. Len(rows) - l \in T /\ Len(rows) - l \in Nat /\ m \in Nat
    BY <1>2, <1>4
  <2>2. ~(Len(rows) - l < m)
    BY <1>4, <2>1
  <2>. QED  BY <1>1, <1>5, <2>2
<1>7. last \in Snapshots(rows) /\ \A l \in Snapshots(rows) : l <= last
  BY <1>6
<1>8. LastSnapshot(rows) = rows[last]
  BY DEF LastSnapshot
<1> HIDE DEF last
<1>. QED  BY <1>1, <1>7, <1>8 DEF Replayable

LEMMA LastIterationFacts ==
  ASSUME NEW rows \in Seq(Rows), Replayable(rows)
  PROVE  LastIteration(rows) \in Nat
<1>1. CASE rows = << >>
  BY <1>1 DEF LastIteration
<1>2. CASE rows # << >>
  <2> DEFINE n == rows[Len(rows)].iter
             S == {rows[k].iter : k \in DOMAIN rows}
  <2>1. /\ Len(rows) \in Nat \ {0} /\ DOMAIN rows = 1..Len(rows) /\ Len(rows) \in DOMAIN rows
        /\ \A k \in DOMAIN rows : rows[k] \in Rows
    BY <1>2
  <2>2. n \in S /\ \A k \in DOMAIN rows : rows[k].iter <= n
    BY <2>1 DEF Replayable
  <2>3. S \subseteq Nat
    BY <2>1, RowFacts
  <2>4. LastIteration(rows) = CHOOSE m \in S : \A k \in DOMAIN rows : rows[k].iter <= m
    BY <1>2 DEF LastIteration
  <2> HIDE DEF n, S
  <2>. QED  BY <2>2, <2>3, <2>4
<1>. QED  BY <1>1, <1>2

\* The seed of a resume starts after every snapshot of the trace it is made of.
LEMMA ResumeSeedFacts ==
  ASSUME NEW rows \in Seq(Rows), Replayable(rows)
  PROVE  /\ ResumeSeed(rows) \in [next : Nat, runtime : Runtimes \union {"any", "stub"}]
         /\ \A l \in Snapshots(rows) : rows[l].iter < ResumeSeed(rows).next
<1>1. CASE Snapshots(rows) # {}
  <2>1. /\ LastSnapshot(rows) \in Rows /\ LastSnapshot(rows).iter \in Nat
        /\ LastSnapshot(rows).runtime \in Runtimes \union {"stub"}
        /\ \A l \in Snapshots(rows) : rows[l].iter <= LastSnapshot(rows).iter
    BY <1>1, LastSnapshotFacts, RowFacts
  <2>2. \A l \in Snapshots(rows) : rows[l].iter \in Nat
    BY RowFacts DEF Snapshots
  <2>. QED  BY <1>1, <2>1, <2>2 DEF ResumeSeed
<1>2. CASE Snapshots(rows) = {}
  BY <1>2, LastIterationFacts DEF ResumeSeed
<1>. QED  BY <1>1, <1>2

LEMMA RebuiltFacts ==
  ASSUME NEW rows \in Seq(Rows), NEW requested \in {{}, Granted}
  PROVE  RebuiltTools(requested, rows) \subseteq Tools
<1>1. TracedTools(rows) \subseteq Tools
  <2>1. \A k \in DOMAIN rows : rows[k] \in Rows
    OBVIOUS
  <2>. QED  BY <2>1 DEF TracedTools, Rows
<1>. QED  BY <1>1, ChildAssumption DEF RebuiltTools

-----------------------------------------------------------------------------
(* The steps.                                                              *)

SeedType == [next : Nat, runtime : Runtimes \union {"any", "stub"}]

LEMMA RunFacts ==
  ASSUME TypeOK
  PROVE  /\ MaxSessions \in Nat \ {0} /\ Sessions \subseteq Nat \ {0}
         /\ run \in Nat /\ (run # 0 => run \in Sessions)
         /\ (run < MaxSessions => run + 1 \in Sessions)
         /\ \A s \in 1..run : s \in Sessions
         /\ seed.next \in Nat /\ StartIteration \in Nat
         /\ StartIteration >= seed.next /\ StartIteration >= 1
<1>1. run \in {0} \union Sessions /\ seed \in SeedType
  BY DEF TypeOK, SeedType
<1>2. seed.next \in Nat
  BY <1>1 DEF SeedType
<1>. QED  BY <1>1, <1>2, ChildAssumption DEF Sessions, StartIteration

\* What the steps of a running execution leave alone.
LEMMA FrameFacts ==
  ASSUME IInv, pc # "idle", UNCHANGED <<run, seed, stored, allowed, origin>>
  PROVE  /\ SeedInv' /\ StartIteration' = StartIteration
         /\ \A s \in Sessions : Replayable(stored'[s])
<1>1. SeedInv'
  BY DEF IInv, SeedInv, ResumeMovesOn
<1>. QED  BY <1>1 DEF IInv, StoredInv, StartIteration

\* An execution begins: its session and its origin's rows are as they were.
LEMMA LaunchStep ==
  ASSUME IInv, NEW from \in 0..run, NEW tools \in SUBSET Tools, NEW s \in SeedType,
         from # 0 => \A l \in Snapshots(stored[from]) : stored[from][l].iter < s.next,
         Launch(from, tools, s)
  PROVE  IInv'
<1>1. /\ pc = "idle" /\ pc' = "record" /\ run' = run + 1 /\ seed' = s
      /\ allowed' = [allowed EXCEPT ![run + 1] = tools \intersect Registry]
      /\ origin' = [origin EXCEPT ![run + 1] = from]
      /\ UNCHANGED <<runtime, iter, pending, trace, status, stored, result>>
      /\ run < MaxSessions
  BY DEF Launch
<1>2. /\ run \in Nat /\ run + 1 \in Sessions /\ Sessions \subseteq Nat
      /\ \A n \in 1..run : n \in Sessions
  BY <1>1, RunFacts DEF IInv
<1>3. /\ origin \in [Sessions -> {0} \union Sessions] /\ allowed \in [Sessions -> SUBSET Tools]
      /\ from \in {0} \union Sessions
  BY <1>2 DEF IInv, TypeOK
<1>4. TypeOK'
  BY <1>1, <1>2, <1>3 DEF IInv, TypeOK, SeedType
<1>5. ExecutionInv'
  BY <1>1, <1>2, <1>3 DEF IInv, ExecutionInv
<1>6. TraceInv'
  BY <1>1, EmptyFacts DEF IInv, TraceInv
<1>7. StoredInv'
  BY <1>1 DEF IInv, StoredInv
<1>8. SeedInv'
  <2>1. stored[run + 1] = << >> /\ origin'[run + 1] = from
        /\ \A n \in 1..run : origin'[n] = origin[n]
    BY <1>1, <1>2, <1>3 DEF IInv, ExecutionInv
  <2>2. ResumeMovesOn'
    BY <1>1, <1>2, <2>1, EmptyFacts DEF IInv, SeedInv, ResumeMovesOn
  <2>. QED  BY <1>1, <1>2, <1>3, <2>1, <2>2 DEF IInv, SeedInv
<1>9. ResultMatchesStore'
  BY <1>1 DEF IInv, ResultMatchesStore
<1>. QED  BY <1>4, <1>5, <1>6, <1>7, <1>8, <1>9 DEF IInv

LEMMA StartTaskStep == IInv /\ StartTask => IInv'
<1> SUFFICES ASSUME IInv, StartTask PROVE IInv'
  OBVIOUS
<1>1. Granted \in SUBSET Tools /\ NoSeed \in SeedType /\ 0 \in 0..run
  BY RunFacts, ChildAssumption DEF IInv, NoSeed, SeedType
<1>. QED  BY <1>1, LaunchStep DEF StartTask

LEMMA ResumeChildStep == IInv /\ ResumeChild => IInv'
<1> SUFFICES ASSUME IInv, ResumeChild PROVE IInv'
  OBVIOUS
<1>1. PICK from \in 1..run, requested \in {{}, Granted} :
        Launch(from, RebuiltTools(requested, stored[from]), ResumeSeed(stored[from]))
  BY DEF ResumeChild
<1>2. from \in Sessions /\ from \in 0..run
  BY RunFacts DEF IInv
<1>3. stored[from] \in Seq(Rows) /\ Replayable(stored[from])
  BY <1>2 DEF IInv, TypeOK, StoredInv
<1>4. RebuiltTools(requested, stored[from]) \in SUBSET Tools
  BY <1>3, RebuiltFacts
<1>5. /\ ResumeSeed(stored[from]) \in SeedType
      /\ \A l \in Snapshots(stored[from]) : stored[from][l].iter < ResumeSeed(stored[from]).next
  BY <1>3, ResumeSeedFacts DEF SeedType
<1>. QED  BY <1>1, <1>2, <1>4, <1>5, LaunchStep

\* A loop begins afresh, or the stub answers.
LEMMA BeginStep ==
  ASSUME IInv, pc \in {"record", "call"},
         StubFallback \/ \E rt \in Runtimes : EnterLoop(rt),
         status' = [status EXCEPT ![run] = "open"],
         UNCHANGED <<run, seed, stored, history>>
  PROVE  IInv'
<1>1. /\ run \in Sessions /\ StartIteration \in Nat
      /\ UNCHANGED <<run, seed, stored, result, allowed, origin>>
  BY RunFacts DEF IInv, ExecutionInv, history
<1>2. SeedInv' /\ StartIteration' = StartIteration /\ \A s \in Sessions : Replayable(stored'[s])
  BY <1>1, FrameFacts
<1>3. status'[run] = "open" /\ \A s \in Sessions : s # run => status'[s] = status[s]
  BY <1>1 DEF IInv, TypeOK
<1>4. CASE StubFallback
  <2> DEFINE row == [iter |-> 1, type |-> "final", tool |-> NoTool, ok |-> TRUE, runtime |-> "stub"]
  <2>1. /\ trace' = << row >> /\ pending' = << >> /\ pc' = "answer" /\ UNCHANGED <<runtime, iter>>
    BY <1>4 DEF StubFallback
  <2>2. row \in Rows /\ << row >> \in Seq(Rows)
    BY DEF Rows
  <2>3. Replayable(<< row >>) /\ Snapshots(<< row >>) = {}
    BY DEF Replayable, Snapshots
  <2> HIDE DEF row
  <2>4. TypeOK'
    BY <1>1, <2>1, <2>2, EmptyFacts DEF IInv, TypeOK
  <2>5. ExecutionInv'
    BY <1>1, <1>3, <2>1 DEF IInv, ExecutionInv
  <2>6. TraceInv'
    BY <2>1, <2>3 DEF TraceInv
  <2>7. StoredInv'
    BY <1>1, <1>2, <2>1 DEF StoredInv
  <2>8. ResultMatchesStore'
    BY <1>1, <1>3 DEF IInv, ExecutionInv, ResultMatchesStore
  <2>. QED  BY <1>2, <2>4, <2>5, <2>6, <2>7, <2>8 DEF IInv
<1>5. ASSUME NEW rt \in Runtimes, EnterLoop(rt)
      PROVE  IInv'
  <2>1. /\ runtime' = rt /\ iter' = StartIteration /\ trace' = << >> /\ pending' = << >>
        /\ pc' = "iterate"
    BY <1>5 DEF EnterLoop
  <2>4. TypeOK'
    BY <1>1, <2>1, EmptyFacts DEF IInv, TypeOK
  <2>5. ExecutionInv'
    BY <1>1, <1>3, <2>1 DEF IInv, ExecutionInv
  <2>6. TraceInv'
    BY <1>1, <1>2, <2>1, EmptyFacts DEF TraceInv
  <2>7. StoredInv'
    BY <1>1, <1>2, <2>1 DEF StoredInv
  <2>8. ResultMatchesStore'
    BY <1>1, <1>3 DEF IInv, ExecutionInv, ResultMatchesStore
  <2>. QED  BY <1>2, <2>4, <2>5, <2>6, <2>7, <2>8 DEF IInv
<1>. QED  BY <1>4, <1>5

\* An execution ends with a result that agrees with the status of its session.
LEMMA FinishStep ==
  ASSUME IInv, pc # "idle", NEW r \in {"none", "failed", "completed", "stubbed"}, Finish(r),
         NEW st \in {"absent", "open", "answered", "closed"},
         status' = [status EXCEPT ![run] = st], UNCHANGED stored,
         r \in {"completed", "stubbed"} \/ stored[run] # << >> => st = "closed",
         r = "failed" => st # "closed"
  PROVE  IInv'
<1>1. /\ run \in Sessions
      /\ pc' = "idle" /\ result' = [result EXCEPT ![run] = r] /\ trace' = << >> /\ pending' = << >>
      /\ seed' = NoSeed /\ runtime' = "llm" /\ iter' = 0 /\ UNCHANGED <<run, allowed, origin>>
  BY RunFacts DEF IInv, ExecutionInv, Finish
<1>2. TypeOK'
  BY <1>1, EmptyFacts DEF IInv, TypeOK, NoSeed, Runtimes
<1>3. ExecutionInv'
  BY <1>1 DEF IInv, TypeOK, ExecutionInv
<1>4. TraceInv'
  BY <1>1, EmptyFacts DEF TraceInv
<1>5. StoredInv'
  BY <1>1 DEF IInv, StoredInv
<1>6. SeedInv'
  BY <1>1 DEF IInv, SeedInv, ResumeMovesOn
<1>7. ResultMatchesStore'
  BY <1>1 DEF IInv, TypeOK, ResultMatchesStore
<1>. QED  BY <1>2, <1>3, <1>4, <1>5, <1>6, <1>7 DEF IInv

\* The loop appends a row of its own: not older than the others, after its
\* snapshot, and not before the iteration the seed names.
LEMMA AppendStep ==
  ASSUME IInv, pc \in {"iterate", "call", "tools"},
         NEW type \in {"snapshot", "tool", "final"}, NEW tool \in Tools \union {NoTool},
         NEW ok \in BOOLEAN, pc = "iterate" <=> type = "snapshot",
         trace' = Append(trace, Step(type, tool, ok)), UNCHANGED seed
  PROVE  /\ trace' \in Seq(Rows) /\ Replayable(trace')
         /\ \A k \in DOMAIN trace' : trace'[k].iter <= iter
         /\ \E l \in Snapshots(trace') : trace'[l].iter = iter /\ trace'[l].runtime = runtime
         /\ \A k \in Snapshots(trace') : trace'[k].iter >= StartIteration'
<1> DEFINE row == Step(type, tool, ok)
           n == Len(trace) + 1
<1>1. /\ row \in Rows /\ row.iter = iter /\ row.type = type /\ row.runtime = runtime
      /\ trace \in Seq(Rows) /\ iter \in Nat /\ runtime \in Runtimes
  <2>1. TypeOK
    BY DEF IInv
  <2>2. row \in Rows /\ row.iter = iter /\ row.type = type /\ row.runtime = runtime
    BY <2>1, StepFacts
  <2>. QED  BY <2>1, <2>2 DEF TypeOK
<1>2. /\ n \in Nat \ {0} /\ DOMAIN trace = 1..(n - 1) /\ DOMAIN trace' = 1..n
      /\ trace' \in Seq(Rows) /\ trace'[n] = row /\ \A k \in 1..(n - 1) : trace'[k] = trace[k]
      /\ Snapshots(trace) \subseteq 1..(n - 1)
      /\ Snapshots(trace') = IF type = "snapshot" THEN Snapshots(trace) \union {n} ELSE Snapshots(trace)
  BY <1>1, AppendFacts
<1>3. \A k \in DOMAIN trace : trace[k].iter \in Nat
  BY <1>1, RowFacts
<1>4. /\ \A k \in DOMAIN trace : trace[k].iter <= iter
      /\ type # "snapshot" => \E l \in Snapshots(trace) : trace[l].iter = iter /\ trace[l].runtime = runtime
      /\ iter >= StartIteration /\ StartIteration' = StartIteration
      /\ \A k \in Snapshots(trace) : trace[k].iter >= StartIteration
  BY <1>1, <1>3 DEF IInv, TraceInv, StartIteration
<1> HIDE DEF row, n
<1>5. Replayable(trace')
  BY <1>1, <1>4, AppendReplayable DEF IInv, TraceInv, row
<1>. QED  BY <1>1, <1>2, <1>4, <1>5

\* What follows for the invariant, whatever the loop does next.
LEMMA LoopStep ==
  ASSUME IInv, pc \in {"iterate", "call", "tools"}, pc' \in {"iterate", "call", "tools", "answer"},
         TypeOK', TraceInv', UNCHANGED <<run, seed, status, stored, history>>
  PROVE  IInv'
<1>1. UNCHANGED <<run, seed, stored, result, allowed, origin>>
  BY DEF history
<1>2. SeedInv' /\ \A s \in Sessions : Replayable(stored'[s])
  BY <1>1, FrameFacts
<1>3. ExecutionInv' /\ StoredInv' /\ ResultMatchesStore'
  BY <1>1, <1>2 DEF IInv, ExecutionInv, StoredInv, ResultMatchesStore
<1>. QED  BY <1>2, <1>3 DEF IInv

LEMMA SnapshotStep == IInv /\ Snapshot => IInv'
<1> SUFFICES ASSUME IInv, Snapshot PROVE IInv'
  OBVIOUS
<1>1. /\ pc = "iterate" /\ pc' = "call" /\ trace' = Append(trace, Step("snapshot", NoTool, TRUE))
      /\ UNCHANGED <<run, runtime, iter, pending, seed, status, stored, history>>
  BY DEF Snapshot
<1>2. /\ trace' \in Seq(Rows) /\ Replayable(trace')
      /\ \A k \in DOMAIN trace' : trace'[k].iter <= iter
      /\ \E l \in Snapshots(trace') : trace'[l].iter = iter /\ trace'[l].runtime = runtime
      /\ \A k \in Snapshots(trace') : trace'[k].iter >= StartIteration'
  BY <1>1, AppendStep
<1>3. TypeOK'
  BY <1>1, <1>2 DEF IInv, TypeOK, history
<1>4. TraceInv'
  BY <1>1, <1>2 DEF IInv, TraceInv, StartIteration
<1>. QED  BY <1>1, <1>3, <1>4, LoopStep

LEMMA CapReachedStep == IInv /\ CapReached => IInv'
<1> SUFFICES ASSUME IInv, CapReached PROVE IInv'
  OBVIOUS
<1>1. /\ pc = "iterate" /\ pc' = "answer"
      /\ UNCHANGED <<run, runtime, iter, pending, trace, seed, status, stored, history>>
  BY DEF CapReached
<1>2. TypeOK'
  BY <1>1 DEF IInv, TypeOK, history
<1>3. TraceInv'
  BY <1>1 DEF IInv, TraceInv, StartIteration
<1>. QED  BY <1>1, <1>2, <1>3, LoopStep

LEMMA AskToolsStep == IInv /\ AskTools => IInv'
<1> SUFFICES ASSUME IInv, AskTools PROVE IInv'
  OBVIOUS
<1>1. /\ pc = "call" /\ pc' = "tools" /\ UNCHANGED <<runtime, iter, trace>>
      /\ UNCHANGED <<run, seed, status, stored, history>>
  BY DEF AskTools, CallModel, history
<1>2. pending' \in Seq(Tools)
  <2>1. PICK n \in 1..(IF runtime = "llm" THEN 1 ELSE MaxCalls) : pending' \in [1..n -> Tools]
    BY DEF AskTools
  <2>2. n \in Nat
    BY <2>1, ChildAssumption
  <2>. QED  BY <2>1, <2>2
<1>3. TypeOK'
  BY <1>1, <1>2 DEF IInv, TypeOK, history
<1>4. TraceInv'
  BY <1>1 DEF IInv, TraceInv, StartIteration
<1>. QED  BY <1>1, <1>3, <1>4, LoopStep

LEMMA AnswerFinalStep == IInv /\ AnswerFinal => IInv'
<1> SUFFICES ASSUME IInv, AnswerFinal PROVE IInv'
  OBVIOUS
<1>1. /\ pc = "call" /\ pc' = "answer" /\ trace' = Append(trace, Step("final", NoTool, TRUE))
      /\ UNCHANGED <<run, runtime, iter, pending, seed, status, stored, history>>
  BY DEF AnswerFinal, CallModel, history
<1>2. /\ trace' \in Seq(Rows) /\ Replayable(trace')
      /\ \A k \in Snapshots(trace') : trace'[k].iter >= StartIteration'
  BY <1>1, AppendStep
<1>3. TypeOK'
  BY <1>1, <1>2 DEF IInv, TypeOK, history
<1>4. TraceInv'
  BY <1>1, <1>2 DEF IInv, TraceInv
<1>. QED  BY <1>1, <1>3, <1>4, LoopStep

\* A tool call of a reply: the next one follows, or the next iteration.
LEMMA ToolStep ==
  ASSUME IInv, NEW ok \in BOOLEAN, pending # << >>, AfterTool(ok)
  PROVE  IInv'
<1>1. /\ pc = "tools" /\ trace' = Append(trace, Step("tool", Head(pending), ok))
      /\ pending' = (IF ok THEN Tail(pending) ELSE << >>)
      /\ \/ pc' = "iterate" /\ iter' = iter + 1
         \/ pc' = "tools" /\ iter' = iter
      /\ UNCHANGED <<run, runtime, seed, status, stored, history>>
  BY DEF AfterTool, history
<1>2. Head(pending) \in Tools /\ Tail(pending) \in Seq(Tools) /\ << >> \in Seq(Tools) /\ iter \in Nat
  BY DEF IInv, TypeOK
<1>3. /\ trace' \in Seq(Rows) /\ Replayable(trace')
      /\ \A k \in DOMAIN trace' : trace'[k].iter <= iter
      /\ \E l \in Snapshots(trace') : trace'[l].iter = iter /\ trace'[l].runtime = runtime
      /\ \A k \in Snapshots(trace') : trace'[k].iter >= StartIteration'
  BY <1>1, <1>2, AppendStep
<1>4. TypeOK'
  BY <1>1, <1>2, <1>3 DEF IInv, TypeOK, history
<1>5. \A k \in DOMAIN trace' : trace'[k].iter < iter + 1
  BY <1>2, <1>3, RowFacts
<1>6. StartIteration' = StartIteration /\ StartIteration \in Nat /\ iter >= StartIteration
  BY <1>1, RunFacts DEF IInv, TraceInv, StartIteration
<1>7. TraceInv'
  <2>1. CASE pc' = "iterate" /\ iter' = iter + 1
    BY <1>2, <1>3, <1>5, <1>6, <2>1 DEF TraceInv
  <2>2. CASE pc' = "tools" /\ iter' = iter
    BY <1>1, <1>3, <1>6, <2>2 DEF TraceInv
  <2>. QED  BY <1>1, <2>1, <2>2
<1>. QED  BY <1>1, <1>4, <1>7, LoopStep

\* The response, then the rows that close the session.
LEMMA CloseStep == IInv /\ (StoreResponse \/ PublishResult) => IInv'
<1> SUFFICES ASSUME IInv, StoreResponse \/ PublishResult PROVE IInv'
  OBVIOUS
<1>1. /\ \/ pc = "answer" /\ pc' = "publish" /\ status' = [status EXCEPT ![run] = "answered"]
         \/ pc = "publish" /\ pc' = "persist" /\ status' = [status EXCEPT ![run] = "closed"]
      /\ UNCHANGED <<run, runtime, iter, pending, trace, seed, stored, result, allowed, origin>>
  BY DEF StoreResponse, PublishResult, history
<1>2. run \in Sessions /\ Len(trace) \in Nat
  BY <1>1, RunFacts DEF IInv, ExecutionInv, TypeOK
<1>3. SeedInv' /\ StartIteration' = StartIteration /\ \A s \in Sessions : Replayable(stored'[s])
  BY <1>1, FrameFacts
<1>4. TypeOK'
  BY <1>1, <1>2 DEF IInv, TypeOK
<1>5. ExecutionInv'
  BY <1>1, <1>2 DEF IInv, TypeOK, ExecutionInv
<1>6. TraceInv'
  BY <1>1, <1>3 DEF IInv, TraceInv
<1>7. StoredInv'
  <2>1. stored[run] = << >>
    BY <1>1 DEF IInv, ExecutionInv
  <2>. QED  BY <1>1, <1>2, <1>3, <2>1 DEF StoredInv
<1>8. ResultMatchesStore'
  BY <1>1, <1>2 DEF IInv, TypeOK, ExecutionInv, ResultMatchesStore
<1>. QED  BY <1>3, <1>4, <1>5, <1>6, <1>7, <1>8 DEF IInv

\* One more row of the trace is stored; no origin changes.
LEMMA PersistRowStep == IInv /\ PersistRow => IInv'
<1> SUFFICES ASSUME IInv, PersistRow PROVE IInv'
  OBVIOUS
<1> DEFINE n == Len(stored[run]) + 1
           rows == Append(stored[run], trace[n])
<1>1. /\ pc = "persist" /\ Len(stored[run]) < Len(trace)
      /\ stored' = [stored EXCEPT ![run] = rows]
      /\ UNCHANGED <<pc, run, runtime, iter, pending, trace, seed, status, result, allowed, origin>>
  BY DEF PersistRow, memory, history
<1>2. /\ run \in Sessions /\ run # 0 /\ run \in Nat /\ status[run] = "closed" /\ result[run] = "none"
      /\ stored \in [Sessions -> Seq(Rows)] /\ trace \in Seq(Rows)
  BY <1>1, RunFacts DEF IInv, ExecutionInv, TypeOK
<1>3. /\ n \in 1..Len(trace) /\ trace[n] \in Rows /\ stored[run] \in Seq(Rows)
      /\ DOMAIN trace = 1..Len(trace) /\ Len(trace) \in Nat
  BY <1>1, <1>2
<1>4. /\ rows \in Seq(Rows) /\ Len(rows) = n /\ DOMAIN rows = 1..n
      /\ rows[n] = trace[n] /\ \A k \in 1..(n - 1) : rows[k] = stored[run][k]
      /\ DOMAIN stored[run] = 1..(n - 1)
  BY <1>3, AppendFacts
<1>5. stored'[run] = rows /\ \A s \in Sessions : s # run => stored'[s] = stored[s]
  BY <1>1, <1>2
<1> HIDE DEF n, rows
<1>6. \A k \in DOMAIN rows : rows[k] = trace[k]
  BY <1>1, <1>3, <1>4 DEF IInv, StoredInv
<1>7. TypeOK'
  BY <1>1, <1>2, <1>4 DEF IInv, TypeOK
<1>8. ExecutionInv'
  BY <1>1, <1>2, <1>5 DEF IInv, ExecutionInv, Sessions
<1>9. TraceInv'
  BY <1>1 DEF IInv, TraceInv, StartIteration
<1>10. StoredInv'
  <2>1. Replayable(rows)
    <3>1. Replayable(trace) /\ Len(rows) <= Len(trace)
      BY <1>3, <1>4 DEF IInv, TraceInv
    <3>. QED  BY <1>2, <1>4, <1>6, <3>1, PrefixReplayable
  <2>. QED  BY <1>1, <1>3, <1>4, <1>5, <1>6, <2>1 DEF IInv, StoredInv
<1>11. SeedInv'
  <2>1. origin[run] # run /\ origin[run] \in {0} \union Sessions /\ \A s \in 1..run : origin[s] # run
    BY <1>2, RunFacts DEF IInv, SeedInv, TypeOK
  <2>2. \A k \in Snapshots(rows) : rows[k].iter >= StartIteration /\ rows[k].iter \in Nat
    BY <1>2, <1>3, <1>4, <1>6, RowFacts DEF IInv, TraceInv, Snapshots
  <2>3. ASSUME origin[run] # 0
        PROVE  \A k \in Snapshots(rows), l \in Snapshots(stored[origin[run]]) :
                 rows[k].iter > stored[origin[run]][l].iter
    <3>1. \A l \in Snapshots(stored[origin[run]]) :
            stored[origin[run]][l].iter < seed.next /\ stored[origin[run]][l].iter \in Nat
      <4>1. stored[origin[run]] \in Seq(Rows)
        BY <1>2, <2>1, <2>3
      <4>2. \A l \in Snapshots(stored[origin[run]]) : stored[origin[run]][l] \in Rows
        BY <4>1 DEF Snapshots
      <4>. QED  BY <1>1, <2>3, <4>2, RowFacts DEF IInv, SeedInv
    <3>2. seed.next \in Nat /\ StartIteration \in Nat /\ StartIteration >= seed.next
      BY RunFacts DEF IInv
    <3>. QED  BY <2>2, <3>1, <3>2
  <2>4. ResumeMovesOn'
    <3> SUFFICES ASSUME NEW s \in 1..run, origin[s] # 0
                 PROVE  \A k \in Snapshots(stored'[s]), l \in Snapshots(stored'[origin[s]]) :
                          stored'[s][k].iter > stored'[origin[s]][l].iter
      BY <1>1 DEF ResumeMovesOn
    <3>1. s \in Sessions /\ origin[s] \in Sessions /\ stored'[origin[s]] = stored[origin[s]]
      BY <1>2, <1>5, <2>1, RunFacts DEF IInv, TypeOK
    <3>2. CASE s = run
      BY <1>5, <2>3, <3>1, <3>2
    <3>3. CASE s # run
      BY <1>5, <3>1, <3>3 DEF IInv, SeedInv, ResumeMovesOn
    <3>. QED  BY <3>2, <3>3
  <2>. QED  BY <1>1, <1>2, <1>5, <2>1, <2>4 DEF IInv, SeedInv
<1>12. ResultMatchesStore'
  BY <1>1, <1>2, <1>5 DEF IInv, ResultMatchesStore
<1>. QED  BY <1>7, <1>8, <1>9, <1>10, <1>11, <1>12 DEF IInv

-----------------------------------------------------------------------------

LEMMA InitInv == Init => IInv
<1> SUFFICES ASSUME Init PROVE IInv
  OBVIOUS
<1>1. TypeOK
  BY EmptyFacts DEF Init, TypeOK, NoSeed, Runtimes
<1>2. ExecutionInv /\ ResultMatchesStore
  BY DEF Init, ExecutionInv, ResultMatchesStore
<1>3. TraceInv /\ StoredInv
  BY EmptyFacts DEF Init, TraceInv, StoredInv
<1>4. SeedInv
  BY ChildAssumption DEF Init, SeedInv, ResumeMovesOn, Sessions
<1>. QED  BY <1>1, <1>2, <1>3, <1>4 DEF IInv

LEMMA NextInv == IInv /\ [Next]_vars => IInv'
<1> SUFFICES ASSUME IInv, [Next]_vars PROVE IInv'
  OBVIOUS
<1>0. /\ pc # "idle" => run \in Sessions /\ status[run] \in {"absent", "open", "answered", "closed"}
      /\ status \in [Sessions -> {"absent", "open", "answered", "closed"}]
  BY RunFacts DEF IInv, ExecutionInv, TypeOK
<1>1. CASE StartTask \/ ResumeChild
  BY <1>1, StartTaskStep, ResumeChildStep
<1>2. CASE RecordSession
  <2>1. /\ UNCHANGED <<run, seed, stored, history>> /\ pc = "record"
        /\ status' = [status EXCEPT ![run] = "open"]
        /\ StubFallback \/ \E rt \in Runtimes : EnterLoop(rt)
    BY <1>2 DEF RecordSession, Runtimes
  <2>. QED  BY <2>1, BeginStep
<1>3. CASE CallFails
  <2>1. /\ UNCHANGED <<run, seed, stored, history>> /\ pc = "call" /\ status' = status
        /\ StubFallback \/ \E rt \in Runtimes : EnterLoop(rt)
    BY <1>3 DEF CallFails, CallModel, LoopFails, Runtimes, history
  <2>2. status[run] = "open"
    BY <2>1 DEF IInv, ExecutionInv
  <2>3. status' = [status EXCEPT ![run] = "open"]
    BY <1>0, <2>1, <2>2
  <2>. QED  BY <2>1, <2>3, BeginStep
<1>4. CASE RecordFails
  <2>1. PICK st \in {"absent", "open"} : status' = [status EXCEPT ![run] = st]
    BY <1>4 DEF RecordFails
  <2>2. pc = "record" /\ Finish("failed") /\ UNCHANGED stored /\ stored[run] = << >>
    BY <1>4 DEF RecordFails, IInv, ExecutionInv
  <2>. QED  BY <2>1, <2>2, FinishStep
<1>5. CASE FinalizeFails \/ Crash \/ ReturnCompleted
  <2>1. PICK r \in {"none", "failed", "completed", "stubbed"} :
          /\ Finish(r) /\ UNCHANGED <<status, stored>> /\ pc # "idle"
          /\ r = "failed" => pc \in {"answer", "publish"}
          /\ r \in {"completed", "stubbed"} => pc = "persist"
    BY <1>5 DEF FinalizeFails, Crash, ReturnCompleted
  <2>2. status' = [status EXCEPT ![run] = status[run]]
    BY <1>0, <2>1
  <2>3. /\ r \in {"completed", "stubbed"} \/ stored[run] # << >> => status[run] = "closed"
        /\ r = "failed" => status[run] # "closed"
    BY <1>0, <2>1 DEF IInv, ExecutionInv, ResultMatchesStore
  <2>. QED  BY <1>0, <2>1, <2>2, <2>3, FinishStep
<1>6. CASE ExecuteTool \/ RefuseTool
  BY <1>6, ToolStep DEF ExecuteTool, RefuseTool
<1>7. CASE UNCHANGED vars
  BY <1>7 DEF vars, memory, history, IInv, TypeOK, ExecutionInv, TraceInv, StartIteration,
       StoredInv, SeedInv, ResumeMovesOn, ResultMatchesStore
<1>. QED
  BY <1>1, <1>2, <1>3, <1>4, <1>5, <1>6, <1>7, SnapshotStep, CapReachedStep, AskToolsStep,
     AnswerFinalStep, CloseStep, PersistRowStep DEF Next, Progress

LEMMA Invariance == Spec => []IInv
BY InitInv, NextInv, PTL DEF Spec

\* Every variable of the child runtime keeps its type: the seed of a resume is
\* well defined, whatever prefix of a trace it is made of.
THEOREM TypeCorrect == Spec => []TypeOK
<1>1. IInv => TypeOK
  BY DEF IInv
<1>. QED  BY <1>1, Invariance, PTL

\* What a caller was told of a child agrees with the rows a later reader finds,
\* whichever store call failed and wherever the process stopped
\* (finalizeMultiAgentChildSession, persistMultiAgentTrace).
THEOREM ResultAlwaysMatches == Spec => []ResultMatchesStore
<1>1. IInv => ResultMatchesStore
  BY DEF IInv
<1>. QED  BY <1>1, Invariance, PTL

\* Whatever part of a trace was stored before a crash or a failed row, each of
\* its steps follows its snapshot, and iterations never go back.
THEOREM TraceAlwaysReplayable == Spec => []StoredTraceReplayable
<1>1. IInv => StoredTraceReplayable
  <2> SUFFICES ASSUME IInv, NEW s \in Sessions
               PROVE  LET rows == stored[s] IN \A k \in DOMAIN rows :
                        /\ rows[k].type # "snapshot" /\ rows[k].runtime # "stub" =>
                             \E l \in Snapshots(rows) :
                               l < k /\ rows[l].iter = rows[k].iter /\ rows[l].runtime = rows[k].runtime
                        /\ \A l \in 1..k : rows[l].iter <= rows[k].iter
    BY DEF StoredTraceReplayable
  <2>1. stored[s] \in Seq(Rows) /\ Replayable(stored[s])
    BY DEF IInv, TypeOK, StoredInv
  <2>2. Len(stored[s]) \in Nat /\ DOMAIN stored[s] = 1..Len(stored[s])
    BY <2>1
  <2>3. \A k \in DOMAIN stored[s] : 1..k \subseteq DOMAIN stored[s] /\ \A l \in 1..k : l <= k
    BY <2>2
  <2>. QED  BY <2>1, <2>3 DEF Replayable
<1>. QED  BY <1>1, Invariance, PTL

\* A resume never repeats an iteration that the execution it resumes has
\* stored (deriveResumeBasis: the iteration after the last snapshot).
THEOREM ResumeAlwaysMovesOn == Spec => []ResumeMovesOn
<1>1. IInv => ResumeMovesOn
  BY DEF IInv, SeedInv
<1>. QED  BY <1>1, Invariance, PTL
=============================================================================
