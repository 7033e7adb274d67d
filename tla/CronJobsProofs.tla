--------------------------- MODULE CronJobsProofs ---------------------------
(***************************************************************************)
(* The job table, for any number of jobs, ticks, crashes and failing       *)
(* writes.  Whatever the processes do to each other's temporary file, every*)
(* table in it and in jobs.json is one that calls could have made; that no *)
(* acknowledged edit is lost, that runs repeat only after a mishap, keep   *)
(* their interval and change the file by whole calls is proved of one      *)
(* process at a time.                                                      *)
(***************************************************************************)
EXTENDS CronJobs, SequenceTheorems, TLAPS

-----------------------------------------------------------------------------
(* Any number of processes.                                                *)

\* A job as calls leave it: a once job is disabled by its only run, and a run
\* that is counted has begun.
SoundJob(j, ids, begun) ==
  /\ j.kind = "once" => j.runs = IF j.enabled THEN 0 ELSE 1
  /\ j.kind = "interval" => \E e \in Expressions : e.form = "every" /\ e.n = j.every
  /\ j.runs <= begun[j.id]
  /\ j.id \in ids

Sound(t, ids, begun) == IsTable(t) /\ \A k \in DOMAIN t : SoundJob(t[k], ids, begun)

\* A call answers for an id that it has created or is about to delete, and the
\* job a tick is chatting is due.
CallInv(p) ==
  /\ call[p].op = "add" => call[p].id \in issued
  /\ call[p].op = "delete" => call[p].id \in doomed
  /\ pc[p] = "chat" =>
       /\ at[p] \in DOMAIN buf[p] /\ JobDue(buf[p][at[p]], since[p])
       /\ buf[p][at[p]].runs < attempts[buf[p][at[p]].id]

File == [form : {"table", "torn"}, jobs : Seq(Jobs)]

Files == file \in File /\ tmp \in File \union {Absent}

Loops == buf \in [Procs -> Seq(Jobs)] /\ at \in [Procs -> Nat]

\* The types of what is no table.
Scalars ==
  /\ clock \in Nat /\ mishaps \in Nat
  /\ pc \in [Procs -> {"idle", "tick", "chat", "open", "write", "rename", "reply"}]
  /\ call \in [Procs -> [op : {"none", "add", "delete", "tick"}, id : JobIds \union {"none"}]]
  /\ since \in [Procs -> Nat]
  /\ fd \in [Procs -> {"none", "tmp", "file", "gone"}]
  /\ issued \subseteq JobIds /\ added \subseteq issued
  /\ doomed \subseteq issued /\ deleted \subseteq doomed
  /\ attempts \in [JobIds -> Nat] /\ lastAt \in [JobIds -> Int]

Unissued == \A i \in JobIds \ issued : attempts[i] = 0 /\ lastAt[i] = Never

TableInv ==
  /\ Scalars /\ Files /\ Loops /\ Unissued
  /\ Sound(file.jobs, issued, attempts) /\ Sound(tmp.jobs, issued, attempts)
  /\ \A p \in Procs :
       Sound(buf[p], issued, attempts) /\ at[p] \in 1..(Len(buf[p]) + 1) /\ CallInv(p)

-----------------------------------------------------------------------------
(* One process at a time.                                                  *)

\* What a tick has made of a job of the table it read.
Ticked(j, old, now) == j = old \/ (JobDue(old, now) /\ j = AfterRun(old, now))

InTick(p) == call[p].op = "tick" /\ pc[p] \in {"tick", "chat", "open", "write", "rename"}

\* The table in memory is the one in jobs.json with the call's own change.
CallOf(p) ==
  LET old == file.jobs
      new == buf[p] IN
  /\ call[p].op = "add" =>
       /\ new # << >> /\ new = Append(old, Last(new)) /\ Last(new).id = call[p].id
       /\ attempts[call[p].id] = 0 /\ lastAt[call[p].id] = Never
  /\ call[p].op = "delete" =>
       \E k \in DOMAIN old : new = RemoveAt(old, k) /\ old[k].id = call[p].id
  /\ call[p].op = "tick" =>
       /\ Len(new) = Len(old)
       /\ \A k \in DOMAIN new : Ticked(new[k], old[k], since[p])
       /\ pc[p] \in {"tick", "chat"} => \A k \in DOMAIN new : k >= at[p] => new[k] = old[k]

\* Where the call is, what it has done to the files and whose jobs it holds.
LoneCall(p) ==
  /\ file.form = "table" /\ since[p] <= clock
  /\ pc[p] = "idle" <=> call[p].op = "none"
  /\ pc[p] \in {"tick", "chat"} => call[p].op = "tick"
  /\ pc[p] \notin {"idle", "reply"} => CallOf(p)
  /\ pc[p] = "write" => fd[p] = "tmp" /\ tmp = Text(<< >>)
  /\ pc[p] = "rename" => tmp = Text(buf[p])
  /\ pc[p] = "reply" =>
       /\ call[p].op = "add" => HasJob(file.jobs, call[p].id)
       /\ call[p].op = "delete" => ~HasJob(file.jobs, call[p].id)
  /\ call[p].op = "add" => call[p].id \notin doomed

\* The runs of a job are those begun but for one per mishap, and without one
\* its next run is an interval after the last.
Accounted(j, begun, last, n) ==
  /\ begun[j.id] <= j.runs + n
  /\ n = 0 /\ j.kind = "interval" /\ last[j.id] # Never => j.next = last[j.id] + Span(j.every)

\* The table that accounts for the runs: a tick's own until it has saved it.
RunsInv(p) ==
  /\ InTick(p) => \A k \in DOMAIN buf[p] :
       IF pc[p] = "chat" /\ k = at[p]
         THEN /\ attempts[buf[p][k].id] <= buf[p][k].runs + 1 + mishaps
              /\ lastAt[buf[p][k].id] = since[p]
         ELSE Accounted(buf[p][k], attempts, lastAt, mishaps)
  /\ ~InTick(p) => \A k \in DOMAIN file.jobs : Accounted(file.jobs[k], attempts, lastAt, mishaps)

LoneInv(p) == LoneCall(p) /\ RunsInv(p) /\ AcknowledgedEditsKept

-----------------------------------------------------------------------------
(* Times and jobs.                                                         *)

LEMMA ConstantFacts ==
  /\ DurationRange \in Nat /\ DurationRange > 0 /\ Never \in Int /\ Editors \subseteq Procs
  /\ \A e \in Expressions : e.form \in {"every", "in", "at"} /\ e.n \in Int
BY CronAssumption DEF CronAssumption, Never

LEMMA SpanType == ASSUME NEW m \in Int PROVE Span(m) \in Int
<1>1. 2 * DurationRange \in Nat /\ 2 * DurationRange > 0 /\ m + DurationRange \in Int
  BY ConstantFacts
<1>2. (m + DurationRange) % (2 * DurationRange) \in Int
  BY <1>1
<1>. QED  BY <1>2, ConstantFacts DEF Span

\* Without an overflow a span is its minutes.
LEMMA SpanExact ==
  ASSUME NEW m \in Int, 0 <= m, m < DurationRange
  PROVE  Span(m) = m
<1>1. /\ 2 * DurationRange \in Nat /\ 2 * DurationRange > 0
      /\ m + DurationRange \in 0..(2 * DurationRange - 1)
  BY ConstantFacts
<1>2. (m + DurationRange) % (2 * DurationRange) = m + DurationRange
  BY <1>1
<1>. QED  BY <1>2, ConstantFacts DEF Span

LEMMA NewJobFacts ==
  ASSUME NEW id \in JobIds, NEW e \in Expressions, ValidExpression(e), NEW now \in Nat
  PROVE  LET j == NewJob(id, e, now) IN
         /\ j \in Jobs /\ j.id = id /\ j.runs = 0 /\ j.enabled
         /\ j.kind = "interval" => \E x \in Expressions : x.form = "every" /\ x.n = j.every
<1>1. /\ e.form \in {"every", "in", "at"} /\ e.n \in Int /\ Span(e.n) \in Int
      /\ e.form # "at" => e.n > 0 /\ e.n \in Nat
  BY ConstantFacts, SpanType DEF ValidExpression
<1>2. CASE e.form = "every"
  <2>1. NewJob(id, e, now) = [id |-> id, kind |-> "interval", every |-> e.n, enabled |-> TRUE,
                              next |-> now + Span(e.n), runs |-> 0]
    BY <1>2 DEF NewJob, ParseSchedule, FirstNextRun
  <2>. QED  BY <1>1, <1>2, <2>1 DEF Jobs
<1>3. CASE e.form # "every"
  <2> DEFINE run == IF e.form = "at" THEN e.n ELSE now + Span(e.n)
  <2>1. NewJob(id, e, now) = [id |-> id, kind |-> "once", every |-> 0, enabled |-> TRUE,
                              next |-> run, runs |-> 0]
    BY <1>3 DEF NewJob, ParseSchedule, FirstNextRun
  <2>2. run \in Int
    BY <1>1
  <2> HIDE DEF run
  <2>. QED  BY <1>1, <1>3, <2>1, <2>2 DEF Jobs
<1>. QED  BY <1>2, <1>3

LEMMA AfterRunFacts ==
  ASSUME NEW j \in Jobs, NEW now \in Nat
  PROVE  LET k == AfterRun(j, now) IN
         /\ k \in Jobs /\ k.id = j.id /\ k.kind = j.kind /\ k.every = j.every
         /\ k.runs = j.runs + 1 /\ (k.enabled <=> j.kind # "once")
         /\ j.kind = "interval" => k.next = now + Span(j.every)
<1> DEFINE next == IF j.kind = "interval" THEN now + Span(j.every) ELSE Never
<1>1. j.kind \in {"once", "interval"} /\ j.every \in Nat /\ j.runs \in Nat
  BY DEF Jobs
<1>2. next \in Int
  BY <1>1, SpanType, ConstantFacts
<1>3. AfterRun(j, now) = [j EXCEPT !.runs = @ + 1, !.enabled = j.kind # "once", !.next = next]
  BY DEF AfterRun
<1>4. j.kind = "interval" => next = now + Span(j.every)
  OBVIOUS
<1> DEFINE on == j.kind # "once"
<1>5. on \in BOOLEAN
  OBVIOUS
<1> HIDE DEF next, on
<1> DEFINE k == [j EXCEPT !.runs = @ + 1, !.enabled = on, !.next = next]
<1>8. j.runs + 1 \in Nat
  BY <1>1
<1>9. k \in Jobs
  BY <1>2, <1>5, <1>8 DEF Jobs
<1>10. k.id = j.id /\ k.kind = j.kind /\ k.every = j.every
  BY DEF Jobs
<1>11. k.enabled = on
  BY <1>5 DEF Jobs
<1>12. k.runs = j.runs + 1 /\ k.next = next
  BY DEF Jobs
<1> HIDE DEF k
<1>. QED  BY <1>3, <1>4, <1>9, <1>10, <1>11, <1>12 DEF k, on

-----------------------------------------------------------------------------
(* Tables.                                                                 *)

LEMMA RemovedFacts ==
  ASSUME NEW S, NEW s \in Seq(S), NEW i \in 1..Len(s)
  PROVE  /\ RemoveAt(s, i) \in Seq(S) /\ Len(RemoveAt(s, i)) = Len(s) - 1
         /\ \A k \in 1..(Len(s) - 1) :
              RemoveAt(s, i)[k] = IF k < i THEN s[k] ELSE s[k + 1]
<1> DEFINE a == SubSeq(s, 1, i - 1)
           b == SubSeq(s, i + 1, Len(s))
<1>1. /\ a \in Seq(S) /\ Len(a) = i - 1 /\ \A k \in 1..(i - 1) : a[k] = s[k]
      /\ b \in Seq(S) /\ Len(b) = Len(s) - i /\ \A k \in 1..(Len(s) - i) : b[k] = s[i + k]
  OBVIOUS
<1>2. i \in Nat /\ i >= 1 /\ i <= Len(s) /\ Len(s) \in Nat
  OBVIOUS
<1>3. RemoveAt(s, i) = a \o b
  BY DEF RemoveAt
<1> HIDE DEF a, b
<1>4. /\ a \o b \in Seq(S) /\ Len(a \o b) = Len(a) + Len(b)
      /\ \A k \in 1..(Len(a) + Len(b)) : (a \o b)[k] = IF k <= Len(a) THEN a[k] ELSE b[k - Len(a)]
  BY <1>1, ConcatProperties
<1>5. Len(a) + Len(b) = Len(s) - 1
  BY <1>1, <1>2
<1>6. ASSUME NEW k \in 1..(Len(s) - 1)
      PROVE  (a \o b)[k] = IF k < i THEN s[k] ELSE s[k + 1]
  <2>1. (a \o b)[k] = IF k <= Len(a) THEN a[k] ELSE b[k - Len(a)]
    BY <1>4, <1>5
  <2>2. CASE k < i
    <3>1. k \in 1..(i - 1) /\ k <= Len(a)
      BY <2>2, <1>1, <1>2
    <3>. QED  BY <2>1, <2>2, <3>1, <1>1
  <2>3. CASE k >= i
    <3>1. ~(k <= Len(a)) /\ k - Len(a) \in 1..(Len(s) - i) /\ i + (k - Len(a)) = k + 1
      BY <2>3, <1>1, <1>2
    <3>. QED  BY <2>1, <2>3, <3>1, <1>1, <1>2
  <2>4. k < i \/ k >= i
    BY <1>2
  <2>. QED  BY <2>2, <2>3, <2>4
<1>. QED  BY <1>3, <1>4, <1>5, <1>6

\* The jobs that stay are the others.
LEMMA RemovedTable ==
  ASSUME NEW t, IsTable(t), NEW i \in DOMAIN t
  PROVE  /\ IsTable(RemoveAt(t, i)) /\ ~HasJob(RemoveAt(t, i), t[i].id)
         /\ \A k \in DOMAIN RemoveAt(t, i) : \E l \in DOMAIN t : l # i /\ RemoveAt(t, i)[k] = t[l]
         /\ \A l \in DOMAIN t : l # i => \E k \in DOMAIN RemoveAt(t, i) : RemoveAt(t, i)[k] = t[l]
<1> DEFINE r == RemoveAt(t, i)
           From(k) == IF k < i THEN k ELSE k + 1
<1>1. t \in Seq(Jobs) /\ Len(t) \in Nat /\ DOMAIN t = 1..Len(t) /\ i \in 1..Len(t)
  BY DEF IsTable
<1>2. /\ r \in Seq(Jobs) /\ Len(r) = Len(t) - 1
      /\ \A k \in 1..(Len(t) - 1) : r[k] = IF k < i THEN t[k] ELSE t[k + 1]
  BY <1>1, RemovedFacts
<1>3. DOMAIN r = 1..(Len(t) - 1)
  BY <1>2
<1> HIDE DEF r
<1>4. ASSUME NEW k \in DOMAIN r
      PROVE  From(k) \in DOMAIN t /\ From(k) # i /\ r[k] = t[From(k)]
  BY <1>1, <1>2, <1>3
<1>5. \A k, l \in DOMAIN r : From(k) = From(l) => k = l
  BY <1>1, <1>3
<1>6. ASSUME NEW l \in DOMAIN t, l # i
      PROVE  \E k \in DOMAIN r : r[k] = t[l]
  <2>1. CASE l < i
    <3>1. l \in 1..(Len(t) - 1)
      BY <2>1, <1>1
    <3>. QED  BY <2>1, <3>1, <1>2, <1>3
  <2>2. CASE l > i
    <3>1. l - 1 \in 1..(Len(t) - 1) /\ ~(l - 1 < i) /\ (l - 1) + 1 = l
      BY <2>2, <1>1
    <3>. QED  BY <3>1, <1>2, <1>3
  <2>. QED  BY <1>1, <1>6, <2>1, <2>2
<1> HIDE DEF From
<1>7. IsTable(r)
  BY <1>2, <1>4, <1>5 DEF IsTable
<1>8. ~HasJob(r, t[i].id)
  BY <1>4 DEF HasJob, IsTable
<1>. QED  BY <1>4, <1>6, <1>7, <1>8 DEF r

LEMMA AppendedTable ==
  ASSUME NEW t, IsTable(t), NEW j \in Jobs, ~HasJob(t, j.id)
  PROVE  /\ IsTable(Append(t, j)) /\ HasJob(Append(t, j), j.id)
         /\ Append(t, j) # << >> /\ Last(Append(t, j)) = j
         /\ Len(Append(t, j)) = Len(t) + 1 /\ Append(t, j)[Len(t) + 1] = j
         /\ \A k \in DOMAIN t : k \in DOMAIN Append(t, j) /\ Append(t, j)[k] = t[k]
         /\ \A k \in DOMAIN Append(t, j) : k \in DOMAIN t \/ k = Len(t) + 1
<1> DEFINE a == Append(t, j)
<1>1. t \in Seq(Jobs) /\ Len(t) \in Nat /\ DOMAIN t = 1..Len(t)
  BY DEF IsTable
<1>2. /\ a \in Seq(Jobs) /\ Len(a) = Len(t) + 1 /\ a[Len(t) + 1] = j
      /\ \A k \in 1..Len(t) : a[k] = t[k]
  BY <1>1
<1>3. DOMAIN a = 1..(Len(t) + 1)
  BY <1>2
<1> HIDE DEF a
<1>4. Last(a) = j /\ a # << >>
  BY <1>1, <1>2, EmptySeq DEF Last
<1>5. IsTable(a)
  <2> SUFFICES ASSUME NEW k \in DOMAIN a, NEW l \in DOMAIN a, a[k].id = a[l].id PROVE k = l
    BY <1>2 DEF IsTable
  <2>. QED  BY <1>1, <1>2, <1>3 DEF IsTable, HasJob
<1>6. HasJob(a, j.id)
  BY <1>1, <1>2, <1>3 DEF HasJob
<1>. QED  BY <1>1, <1>2, <1>3, <1>4, <1>5, <1>6 DEF a

\* A table stays sound while ids are issued and runs begin.
LEMMA SoundGrows ==
  ASSUME NEW t, NEW ids, NEW more, NEW begun \in [JobIds -> Nat], NEW later \in [JobIds -> Nat],
         Sound(t, ids, begun), ids \subseteq more, \A i \in JobIds : begun[i] <= later[i]
  PROVE  Sound(t, more, later)
<1> SUFFICES ASSUME NEW k \in DOMAIN t PROVE SoundJob(t[k], more, later)
  BY DEF Sound
<1>1. t[k] \in Jobs /\ SoundJob(t[k], ids, begun)
  BY DEF Sound, IsTable
<1>2. t[k].id \in JobIds /\ t[k].runs \in Nat
  BY <1>1 DEF Jobs
<1>. QED  BY <1>1, <1>2 DEF SoundJob

\* A table with one sound job in place of another of the same id.
LEMMA SoundChanged ==
  ASSUME NEW t, NEW ids, NEW begun, Sound(t, ids, begun), NEW k \in DOMAIN t, NEW j \in Jobs,
         j.id = t[k].id, SoundJob(j, ids, begun)
  PROVE  LET u == [t EXCEPT ![k] = j] IN
         /\ Sound(u, ids, begun) /\ Len(u) = Len(t) /\ DOMAIN u = DOMAIN t
         /\ u[k] = j /\ \A l \in DOMAIN t : l # k => u[l] = t[l]
<1> DEFINE u == [t EXCEPT ![k] = j]
<1>1. t \in Seq(Jobs) /\ DOMAIN t = 1..Len(t)
  BY DEF Sound, IsTable
<1>2. /\ u \in Seq(Jobs) /\ Len(u) = Len(t) /\ DOMAIN u = DOMAIN t
      /\ u[k] = j /\ \A l \in DOMAIN t : l # k => u[l] = t[l]
  BY <1>1
<1> HIDE DEF u
<1>3. \A l \in DOMAIN t : u[l].id = t[l].id
  BY <1>2
<1>. QED  BY <1>2, <1>3 DEF u, Sound, IsTable

LEMMA EmptyTable == IsTable(<< >>) /\ \A ids, begun : Sound(<< >>, ids, begun)
<1>1. << >> \in Seq(Jobs) /\ DOMAIN << >> = {}
  OBVIOUS
<1>. QED  BY <1>1 DEF IsTable, Sound

-----------------------------------------------------------------------------
(* Every table is sound.                                                   *)

Grows ==
  /\ issued \subseteq issued' /\ doomed \subseteq doomed'
  /\ \A i \in JobIds : attempts[i] <= attempts'[i]

\* Only p moves.
Moves(p) == \A q \in Procs : q # p =>
  /\ pc'[q] = pc[q] /\ call'[q] = call[q] /\ buf'[q] = buf[q]
  /\ at'[q] = at[q] /\ since'[q] = since[q]

LEMMA TableKept ==
  ASSUME TableInv, Scalars', Grows, NEW t, Sound(t, issued, attempts)
  PROVE  Sound(t, issued', attempts')
BY SoundGrows DEF TableInv, Scalars, Grows

\* What the step of one process has to keep: the other processes and, if they
\* are left alone, the files follow.
LEMMA OthersKept ==
  ASSUME TableInv, Scalars', Grows, NEW p \in Procs, Moves(p), NEW q \in Procs, q # p
  PROVE  /\ Sound(buf'[q], issued', attempts') /\ CallInv(q)'
         /\ at'[q] \in 1..(Len(buf'[q]) + 1)
<1>1. Sound(buf'[q], issued', attempts') /\ at'[q] \in 1..(Len(buf'[q]) + 1)
  BY TableKept DEF TableInv, Moves
<1>2. CallInv(q)'
  <2>1. CallInv(q) /\ buf[q] \in Seq(Jobs)
    BY DEF TableInv, Sound, IsTable
  <2>2. ASSUME pc[q] = "chat"
        PROVE  buf[q][at[q]].runs < attempts'[buf[q][at[q]].id]
    <3>1. buf[q][at[q]] \in Jobs /\ buf[q][at[q]].runs < attempts[buf[q][at[q]].id]
      BY <2>1, <2>2 DEF CallInv
    <3>2. buf[q][at[q]].id \in JobIds /\ buf[q][at[q]].runs \in Nat
      BY <3>1 DEF Jobs
    <3> DEFINE i == buf[q][at[q]].id
    <3>3. attempts[i] \in Nat /\ attempts'[i] \in Nat /\ attempts[i] <= attempts'[i]
      BY <3>2 DEF Grows, TableInv, Scalars
    <3>. QED  BY <3>1, <3>2, <3>3
  <2>. QED  BY <2>1, <2>2 DEF CallInv, Grows, Moves
<1>. QED  BY <1>1, <1>2

LEMMA StepInv ==
  ASSUME TableInv, NEW p \in Procs, Moves(p), Grows, Scalars', Files', Loops', Unissued',
         UNCHANGED file \/ Sound(file'.jobs, issued', attempts'),
         UNCHANGED tmp \/ Sound(tmp'.jobs, issued', attempts'),
         Sound(buf'[p], issued', attempts'), at'[p] \in 1..(Len(buf'[p]) + 1), CallInv(p)'
  PROVE  TableInv'
<1>1. Sound(file'.jobs, issued', attempts') /\ Sound(tmp'.jobs, issued', attempts')
  BY TableKept DEF TableInv
<1>2. \A q \in Procs : /\ Sound(buf'[q], issued', attempts') /\ CallInv(q)'
                       /\ at'[q] \in 1..(Len(buf'[q]) + 1)
  BY OthersKept
<1>. QED  BY <1>1, <1>2 DEF TableInv

LEMMA BeginInv ==
  ASSUME TableInv, NEW p \in Procs, NEW op \in {"add", "delete", "tick"},
         NEW id \in JobIds \union {"none"}, NEW jobs, NEW next \in {"open", "tick"},
         Begin(p, op, id, jobs, next),
         issued \subseteq issued', issued' \subseteq JobIds, doomed \subseteq doomed',
         doomed' \subseteq issued', Sound(jobs, issued', attempts'),
         op = "add" => id \in issued', op = "delete" => id \in doomed'
  PROVE  TableInv'
<1>1. /\ pc' = [pc EXCEPT ![p] = next] /\ call' = [call EXCEPT ![p] = [op |-> op, id |-> id]]
      /\ buf' = [buf EXCEPT ![p] = jobs] /\ since' = [since EXCEPT ![p] = clock]
      /\ at' = [at EXCEPT ![p] = 1]
      /\ UNCHANGED <<clock, file, tmp, fd, added, deleted, attempts, lastAt, mishaps>>
  BY DEF Begin, disk, tries
<1>2. Grows /\ Moves(p) /\ Scalars' /\ Unissued'
  BY <1>1 DEF Grows, Moves, TableInv, Scalars, Loops, Unissued
<1>3. jobs \in Seq(Jobs)
  BY DEF Sound, IsTable
<1>4. Files' /\ Loops'
  BY <1>1, <1>3 DEF TableInv, Files, Loops
<1>5. pc'[p] = next /\ call'[p] = [op |-> op, id |-> id] /\ buf'[p] = jobs /\ at'[p] = 1
  BY <1>1 DEF TableInv, Scalars, Loops
<1>6. CallInv(p)' /\ at'[p] \in 1..(Len(buf'[p]) + 1)
  BY <1>3, <1>5 DEF CallInv
<1>. QED  BY <1>1, <1>2, <1>4, <1>5, <1>6, StepInv

LEMMA AddInv ==
  ASSUME TableInv, NEW p \in Procs, AddJob(p)
  PROVE  TableInv'
<1>1. PICK id \in JobIds \ issued, e \in Expressions :
        /\ ValidExpression(e)
        /\ Begin(p, "add", id, Append(file.jobs, NewJob(id, e, clock)), "open")
        /\ issued' = issued \union {id} /\ doomed' = doomed
  BY DEF AddJob
<1> DEFINE j == NewJob(id, e, clock)
           t == Append(file.jobs, j)
<1>2. /\ j \in Jobs /\ j.id = id /\ j.runs = 0 /\ j.enabled
      /\ j.kind = "interval" => \E x \in Expressions : x.form = "every" /\ x.n = j.every
  BY <1>1, NewJobFacts DEF TableInv, Scalars
<1>3. IsTable(file.jobs) /\ ~HasJob(file.jobs, id)
  BY DEF TableInv, Sound, SoundJob, HasJob
<1>4. /\ IsTable(t) /\ t[Len(file.jobs) + 1] = j
      /\ \A k \in DOMAIN file.jobs : k \in DOMAIN t /\ t[k] = file.jobs[k]
      /\ \A k \in DOMAIN t : k \in DOMAIN file.jobs \/ k = Len(file.jobs) + 1
  BY <1>2, <1>3, AppendedTable
<1>5. attempts' = attempts /\ attempts \in [JobIds -> Nat]
  BY <1>1 DEF Begin, tries, TableInv, Scalars
<1>6. SoundJob(j, issued', attempts')
  BY <1>1, <1>2, <1>5 DEF SoundJob
<1> HIDE DEF j, t
<1>7. \A k \in DOMAIN file.jobs : SoundJob(file.jobs[k], issued', attempts')
  BY <1>1, <1>5 DEF TableInv, Sound, SoundJob
<1>8. Sound(t, issued', attempts')
  BY <1>4, <1>6, <1>7 DEF Sound
<1>9. Begin(p, "add", id, t, "open") /\ issued' \subseteq JobIds /\ doomed \subseteq issued
  BY <1>1 DEF t, j, TableInv, Scalars
<1>. QED  BY <1>1, <1>8, <1>9, BeginInv

LEMMA DeleteInv ==
  ASSUME TableInv, NEW p \in Procs, DeleteJob(p)
  PROVE  TableInv'
<1>1. PICK k \in DOMAIN file.jobs :
        /\ Begin(p, "delete", file.jobs[k].id, RemoveAt(file.jobs, k), "open")
        /\ doomed' = doomed \union {file.jobs[k].id} /\ issued' = issued
  BY DEF DeleteJob
<1> DEFINE t == RemoveAt(file.jobs, k)
           id == file.jobs[k].id
<1>2. Sound(file.jobs, issued, attempts) /\ id \in issued /\ id \in JobIds
  BY DEF TableInv, Sound, SoundJob, Scalars
<1>3. /\ IsTable(t)
      /\ \A l \in DOMAIN t : \E m \in DOMAIN file.jobs : t[l] = file.jobs[m]
  BY <1>2, RemovedTable DEF Sound
<1>4. attempts' = attempts
  BY <1>1 DEF Begin, tries
<1>5. Sound(t, issued', attempts')
  BY <1>1, <1>2, <1>3, <1>4 DEF Sound
<1> HIDE DEF t, id
<1>6. /\ Begin(p, "delete", id, t, "open") /\ issued' \subseteq JobIds
      /\ doomed \subseteq doomed' /\ doomed' \subseteq issued' /\ id \in doomed'
  BY <1>1, <1>2 DEF t, id, TableInv, Scalars
<1>. QED  BY <1>1, <1>2, <1>5, <1>6, BeginInv

LEMMA BeginTickInv ==
  ASSUME TableInv, NEW p \in Procs, BeginTick(p)
  PROVE  TableInv'
<1>1. /\ Begin(p, "tick", "none", file.jobs, "tick") /\ issued' = issued /\ doomed' = doomed
      /\ attempts' = attempts
  BY DEF BeginTick, Begin, tries
<1>. QED  BY <1>1, BeginInv DEF TableInv, Scalars

LEMMA RunJobInv ==
  ASSUME TableInv, NEW p \in Procs, RunJob(p)
  PROVE  TableInv'
<1>1. PICK i \in DueIndexes(p) :
        /\ at' = [at EXCEPT ![p] = i]
        /\ attempts' = [attempts EXCEPT ![buf[p][i].id] = @ + 1]
        /\ lastAt' = [lastAt EXCEPT ![buf[p][i].id] = since[p]]
  BY DEF RunJob
<1> DEFINE id == buf[p][i].id
<1>2. /\ Sound(buf[p], issued, attempts) /\ buf[p] \in Seq(Jobs) /\ i \in DOMAIN buf[p]
      /\ JobDue(buf[p][i], since[p]) /\ i \in 1..(Len(buf[p]) + 1) /\ i \in Nat
  BY DEF DueIndexes, TableInv, Sound, IsTable
<1>3. SoundJob(buf[p][i], issued, attempts) /\ id \in issued /\ id \in JobIds
  BY <1>2 DEF Sound, SoundJob, TableInv, Scalars
<1>4. buf[p][i].runs \in Nat /\ attempts[id] \in Nat
  <2>1. buf[p][i] \in Jobs
    BY <1>2
  <2>. QED  BY <2>1, <1>3 DEF Jobs, TableInv, Scalars
<1>5. /\ pc' = [pc EXCEPT ![p] = "chat"]
      /\ UNCHANGED <<clock, file, tmp, fd, call, buf, since, issued, added, doomed, deleted, mishaps>>
  BY DEF RunJob, disk, acks
<1>6. attempts'[id] = attempts[id] + 1
  BY <1>1, <1>3 DEF TableInv, Scalars
<1>7. ASSUME NEW k \in JobIds PROVE attempts[k] <= attempts'[k]
  <2>1. attempts[k] \in Nat /\ (attempts'[k] = attempts[k] \/ attempts'[k] = attempts[k] + 1)
    BY <1>1, <1>3 DEF TableInv, Scalars
  <2>. QED  BY <2>1
<1>8. Grows
  BY <1>5, <1>7 DEF Grows
<1>9. Moves(p)
  BY <1>1, <1>5 DEF Moves, TableInv, Scalars, Loops
<1>10. Scalars'
  <2>1. attempts' \in [JobIds -> Nat]
    BY <1>1, <1>3, <1>4 DEF TableInv, Scalars
  <2>2. lastAt' \in [JobIds -> Int] /\ pc' \in [Procs -> {"idle", "tick", "chat", "open", "write", "rename", "reply"}]
    BY <1>1, <1>3, <1>5 DEF TableInv, Scalars
  <2>. QED  BY <1>5, <2>1, <2>2 DEF TableInv, Scalars
<1>11. Files' /\ Loops'
  BY <1>1, <1>2, <1>5 DEF TableInv, Files, Loops
<1>12. Unissued'
  BY <1>1, <1>3, <1>5 DEF TableInv, Scalars, Unissued
<1>13. at'[p] = i
  BY <1>1 DEF TableInv, Loops
<1>14. CallInv(p)'
  BY <1>2, <1>3, <1>4, <1>5, <1>6, <1>13 DEF CallInv, SoundJob, TableInv
<1>15. Sound(buf'[p], issued', attempts') /\ at'[p] \in 1..(Len(buf'[p]) + 1)
  BY <1>2, <1>5, <1>8, <1>10, <1>13, TableKept
<1>. QED  BY <1>5, <1>8, <1>9, <1>10, <1>11, <1>12, <1>14, <1>15, StepInv

LEMMA EndChatInv ==
  ASSUME TableInv, NEW p \in Procs, EndChat(p)
  PROVE  TableInv'
<1> DEFINE i == at[p]
           old == buf[p][i]
           new == AfterRun(old, since[p])
           t == [buf[p] EXCEPT ![i] = new]
<1>1. /\ Sound(buf[p], issued, attempts) /\ buf[p] \in Seq(Jobs) /\ i \in DOMAIN buf[p]
      /\ old \in Jobs /\ JobDue(old, since[p]) /\ old.runs < attempts[old.id]
      /\ SoundJob(old, issued, attempts) /\ since[p] \in Nat
  BY DEF EndChat, TableInv, CallInv, Sound, IsTable, Scalars
<1>2. /\ new \in Jobs /\ new.id = old.id /\ new.kind = old.kind /\ new.every = old.every
      /\ new.runs = old.runs + 1 /\ (new.enabled <=> old.kind # "once")
  BY <1>1, AfterRunFacts
<1>3. /\ pc' = [pc EXCEPT ![p] = "tick"] /\ at' = [at EXCEPT ![p] = @ + 1]
      /\ UNCHANGED <<clock, file, tmp, fd, call, since, issued, added, doomed, deleted,
                     attempts, lastAt, mishaps>>
  BY DEF EndChat, disk, acks, tries
<1>4. buf' = [buf EXCEPT ![p] = t]
  BY DEF EndChat
<1>5. SoundJob(new, issued, attempts)
  <2>1. old.runs \in Nat /\ old.id \in JobIds /\ attempts[old.id] \in Nat
    BY <1>1 DEF Jobs, TableInv, Scalars
  <2>2. old.kind = "once" => old.runs = 0
    BY <1>1 DEF JobDue, SoundJob
  <2>. QED  BY <1>1, <1>2, <2>1, <2>2 DEF SoundJob
<1> HIDE DEF new
<1>6. Sound(t, issued, attempts) /\ Len(t) = Len(buf[p]) /\ t \in Seq(Jobs)
  BY <1>1, <1>2, <1>5, SoundChanged DEF Sound, IsTable
<1> HIDE DEF t
<1>7. /\ buf'[p] = t /\ at'[p] = i + 1 /\ pc'[p] = "tick"
      /\ i + 1 \in 1..(Len(t) + 1) /\ i + 1 \in Nat
  BY <1>1, <1>3, <1>4, <1>6 DEF TableInv, Loops, Scalars
<1>8. Grows /\ Moves(p) /\ Scalars' /\ Unissued'
  BY <1>3, <1>4 DEF Grows, Moves, TableInv, Scalars, Loops, Unissued
<1>9. Files' /\ Loops'
  BY <1>3, <1>4, <1>6, <1>7 DEF TableInv, Files, Loops
<1>10. CallInv(p)'
  BY <1>3, <1>7 DEF CallInv, TableInv
<1>11. Sound(buf'[p], issued', attempts')
  BY <1>3, <1>6, <1>7
<1>12. at'[p] \in 1..(Len(buf'[p]) + 1)
  BY <1>7
<1>. QED  BY <1>3, <1>8, <1>9, <1>10, <1>11, <1>12, StepInv

\* A step in which the process keeps its table and where it is in it.
LEMMA SaveInv ==
  ASSUME TableInv, NEW p \in Procs, NEW step \in {"open", "write", "rename", "reply"},
         pc' = [pc EXCEPT ![p] = step],
         UNCHANGED <<clock, call, buf, at, since, acks, tries, mishaps>>,
         fd' \in [Procs -> {"none", "tmp", "file", "gone"}], Files',
         UNCHANGED file \/ Sound(file'.jobs, issued, attempts),
         UNCHANGED tmp \/ Sound(tmp'.jobs, issued, attempts)
  PROVE  TableInv'
<1>1. UNCHANGED <<clock, call, buf, at, since, issued, added, doomed, deleted, attempts, lastAt, mishaps>>
  BY DEF acks, tries
<1>2. Grows /\ Moves(p) /\ Scalars' /\ Unissued' /\ Loops'
  <2>1. \A i \in JobIds : attempts[i] <= attempts[i]
    BY DEF TableInv, Scalars
  <2>2. Grows /\ Moves(p)
    BY <1>1, <2>1 DEF Grows, Moves, TableInv, Scalars
  <2>3. pc' \in [Procs -> {"idle", "tick", "chat", "open", "write", "rename", "reply"}]
    BY DEF TableInv, Scalars
  <2>4. Scalars' /\ Unissued' /\ Loops'
    BY <1>1, <2>3 DEF TableInv, Scalars, Loops, Unissued
  <2>. QED  BY <2>2, <2>4
<1>3. pc'[p] = step
  BY DEF TableInv, Scalars
<1>4. CallInv(p)'
  BY <1>1, <1>3 DEF CallInv, TableInv
<1>5. Sound(buf'[p], issued', attempts') /\ at'[p] \in 1..(Len(buf'[p]) + 1)
  BY <1>1 DEF TableInv
<1>. QED  BY <1>1, <1>2, <1>4, <1>5, StepInv

LEMMA EndTickInv ==
  ASSUME TableInv, NEW p \in Procs, EndTick(p)
  PROVE  TableInv'
BY SaveInv DEF EndTick, disk, TableInv, Scalars, Files

LEMMA OpenInv ==
  ASSUME TableInv, NEW p \in Procs, OpenTmp(p)
  PROVE  TableInv'
<1>1. Text(<< >>) \in File /\ Text(<< >>).jobs = << >>
  BY DEF Text, File
<1>2. Files' /\ fd' \in [Procs -> {"none", "tmp", "file", "gone"}]
  BY <1>1 DEF OpenTmp, TableInv, Scalars, Files
<1>3. Sound(tmp'.jobs, issued, attempts)
  BY <1>1, EmptyTable DEF OpenTmp
<1>. QED  BY <1>2, <1>3, SaveInv DEF OpenTmp, Advance

LEMMA WriteInv ==
  ASSUME TableInv, NEW p \in Procs, WriteTmp(p)
  PROVE  TableInv'
<1>1. Sound(buf[p], issued, attempts) /\ buf[p] \in Seq(Jobs)
  BY DEF TableInv, Sound, IsTable
<1>2. /\ Text(buf[p]) \in File /\ Text(buf[p]).jobs = buf[p]
      /\ Torn \in File /\ Torn.jobs = << >>
  BY <1>1 DEF Text, Torn, File
<1>3. \A old : \A f \in Written(old, Text(buf[p])) : f \in File /\ Sound(f.jobs, issued, attempts)
  BY <1>1, <1>2, EmptyTable DEF Written
<1>4. Files' /\ fd' \in [Procs -> {"none", "tmp", "file", "gone"}]
  BY <1>3 DEF WriteTmp, TableInv, Scalars, Files
<1>5. /\ UNCHANGED file \/ Sound(file'.jobs, issued, attempts)
      /\ UNCHANGED tmp \/ Sound(tmp'.jobs, issued, attempts)
  BY <1>3 DEF WriteTmp
<1>. QED  BY <1>4, <1>5, SaveInv DEF WriteTmp, Advance

LEMMA RenameInv ==
  ASSUME TableInv, NEW p \in Procs, RenameTmp(p)
  PROVE  TableInv'
<1>1. Absent.jobs = << >>
  BY DEF Absent
<1>2. Files' /\ fd' \in [Procs -> {"none", "tmp", "file", "gone"}]
  BY DEF RenameTmp, TableInv, Scalars, Files, Moved
<1>3. Sound(file'.jobs, issued, attempts) /\ Sound(tmp'.jobs, issued, attempts)
  BY <1>1, EmptyTable DEF RenameTmp, TableInv
<1>. QED  BY <1>2, <1>3, SaveInv DEF RenameTmp, Advance

\* A call has returned or its process has died.
LEMMA LeaveInv ==
  ASSUME TableInv, NEW p \in Procs, Leave(p), UNCHANGED <<file, tmp, issued, doomed>>,
         added' \subseteq issued, deleted' \subseteq doomed, mishaps' \in Nat,
         fd' \in [Procs -> {"none", "tmp", "file", "gone"}]
  PROVE  TableInv'
<1>1. /\ pc' = [pc EXCEPT ![p] = "idle"] /\ call' = [call EXCEPT ![p] = NoCall]
      /\ buf' = [buf EXCEPT ![p] = << >>] /\ at' = [at EXCEPT ![p] = 1]
      /\ since' = [since EXCEPT ![p] = 0] /\ UNCHANGED <<clock, attempts, lastAt>>
  BY DEF Leave, tries
<1>2. NoCall \in [op : {"none", "add", "delete", "tick"}, id : JobIds \union {"none"}] /\ NoCall.op = "none"
  BY DEF NoCall
<1>3. Grows /\ Moves(p) /\ Scalars' /\ Unissued'
  BY <1>1, <1>2 DEF Grows, Moves, TableInv, Scalars, Loops, Unissued
<1>4. Files' /\ Loops'
  BY <1>1 DEF TableInv, Files, Loops
<1>5. /\ pc'[p] = "idle" /\ call'[p] = NoCall /\ buf'[p] = << >> /\ at'[p] = 1
  BY <1>1 DEF TableInv, Scalars, Loops
<1>6. CallInv(p)'
  BY <1>2, <1>5 DEF CallInv
<1>7. Sound(buf'[p], issued', attempts') /\ at'[p] \in 1..(Len(buf'[p]) + 1)
  BY <1>5, EmptyTable
<1>. QED  BY <1>3, <1>4, <1>6, <1>7, StepInv

LEMMA ReturnInv ==
  ASSUME TableInv, NEW p \in Procs, NothingToRename(p) \/ Reply(p) \/ SaveFails(p) \/ Crash(p)
  PROVE  TableInv'
<1>1. CASE NothingToRename(p)
  BY <1>1, LeaveInv DEF NothingToRename, disk, acks, TableInv, Scalars
<1>2. CASE Reply(p)
  <2>1. added' \subseteq issued /\ deleted' \subseteq doomed
    BY <1>2 DEF Reply, TableInv, CallInv, Scalars
  <2>. QED  BY <1>2, <2>1, LeaveInv DEF Reply, disk, TableInv, Scalars
<1>3. CASE SaveFails(p) \/ Crash(p)
  <2>1. Mishap(p)
    BY <1>3 DEF SaveFails, Crash
  <2>2. mishaps' \in Nat /\ fd' \in [Procs -> {"none", "tmp", "file", "gone"}]
    BY <2>1 DEF Mishap, TableInv, Scalars
  <2>. QED  BY <2>1, <2>2, LeaveInv DEF Mishap, acks, TableInv, Scalars
<1>. QED  BY <1>1, <1>2, <1>3

LEMMA TableNext == TableInv /\ [Next]_vars => TableInv'
<1> SUFFICES ASSUME TableInv, [Next]_vars PROVE TableInv'
  OBVIOUS
<1>1. CASE UNCHANGED vars
  BY <1>1 DEF vars, disk, proc, acks, tries, TableInv, Scalars, Files, Loops, Unissued, CallInv
<1>2. CASE PassTime
  <2>1. clock' \in Nat /\ UNCHANGED <<disk, proc, acks, tries, mishaps>>
    BY <1>2 DEF PassTime, TableInv, Scalars
  <2>. QED  BY <2>1 DEF disk, proc, acks, tries, TableInv, Scalars, Files, Loops, Unissued, CallInv
<1>3. ASSUME NEW p \in Editors, AddJob(p) \/ DeleteJob(p) PROVE TableInv'
  BY <1>3, ConstantFacts, AddInv, DeleteInv
<1>4. ASSUME NEW p \in Procs, Work(p) PROVE TableInv'
  BY <1>4, RunJobInv, EndChatInv, EndTickInv, OpenInv, WriteInv, RenameInv, ReturnInv DEF Work
<1>. QED  BY <1>1, <1>2, <1>3, <1>4, BeginTickInv, ReturnInv DEF Next

LEMMA TableInvariance == Spec => []TableInv
<1>1. Init => TableInv
  <2> SUFFICES ASSUME Init PROVE TableInv
    OBVIOUS
  <2>1. /\ Text(<< >>) \in File /\ Text(<< >>).jobs = << >> /\ Absent.jobs = << >>
    BY DEF Text, File, Absent
  <2>2. NoCall \in [op : {"none", "add", "delete", "tick"}, id : JobIds \union {"none"}] /\ NoCall.op = "none"
    BY DEF NoCall
  <2>3. Scalars /\ Files /\ Loops /\ Unissued
    BY <2>1, <2>2, ConstantFacts DEF Init, Scalars, Files, Loops, Unissued
  <2>4. \A p \in Procs : Sound(buf[p], issued, attempts) /\ at[p] \in 1..(Len(buf[p]) + 1) /\ CallInv(p)
    BY <2>2, EmptyTable DEF Init, CallInv
  <2>. QED  BY <2>1, <2>3, <2>4, EmptyTable DEF Init, TableInv
<1>. QED  BY <1>1, TableNext, PTL DEF Spec

\* The files, the tables and the state of every call keep their types.
THEOREM TypeCorrect == Spec => []TypeOK
<1>1. TableInv => TypeOK
  <2> SUFFICES ASSUME TableInv PROVE TypeOK
    OBVIOUS
  <2>1. IsTable(file.jobs) /\ IsTable(tmp.jobs) /\ \A p \in Procs : IsTable(buf[p])
    BY DEF TableInv, Sound
  <2>2. file.form \in {"table", "torn"} /\ tmp.form \in {"table", "torn", "absent"}
    BY DEF TableInv, Files, File, Absent
  <2>. QED  BY <2>1, <2>2 DEF TableInv, Scalars, TypeOK
<1>. QED  BY <1>1, TableInvariance, PTL

\* Whoever wrote it, and however the writers of the shared jobs.json.tmp
\* interleaved, failed or died, a table in jobs.json is one that some sequence
\* of calls produces (manager.go:346, saveJobs).
THEOREM TableAlwaysConsistent == Spec => []TableConsistent
<1>1. TableInv => TableConsistent
  <2> SUFFICES ASSUME TableInv, NEW k \in DOMAIN file.jobs
               PROVE  LET j == file.jobs[k] IN
                      /\ j.kind = "once" => (j.enabled <=> j.runs = 0)
                      /\ j.runs <= attempts[j.id] /\ j.id \in issued
    BY DEF TableConsistent, JobsIn
  <2>. QED  BY DEF TableInv, Sound, SoundJob
<1>. QED  BY <1>1, TableInvariance, PTL

-----------------------------------------------------------------------------
(* The calls of the only process.                                          *)

LEMMA LoneBegin ==
  ASSUME TableInv, NEW p \in Procs, Procs = {p}, LoneInv(p), NEW op, NEW id, NEW jobs, NEW next,
         Begin(p, op, id, jobs, next)
  PROVE  /\ pc[p] = "idle" /\ pc'[p] = next /\ call'[p].op = op /\ call'[p].id = id
         /\ buf'[p] = jobs /\ at'[p] = 1 /\ since'[p] = clock
         /\ UNCHANGED <<clock, file, tmp, fd, added, deleted, attempts, lastAt, mishaps>>
         /\ \A k \in DOMAIN file.jobs : Accounted(file.jobs[k], attempts, lastAt, mishaps)
<1>1. /\ pc[p] = "idle" /\ pc'[p] = next /\ call'[p].op = op /\ call'[p].id = id
      /\ buf'[p] = jobs /\ at'[p] = 1 /\ since'[p] = clock
  BY DEF Begin, TableInv, Scalars, Loops
<1>2. UNCHANGED <<clock, file, tmp, fd, added, deleted, attempts, lastAt, mishaps>>
  BY DEF Begin, disk, tries
<1>3. ~InTick(p)
  BY <1>1 DEF InTick
<1>. QED  BY <1>1, <1>2, <1>3 DEF LoneInv, RunsInv

LEMMA LoneAdd ==
  ASSUME TableInv, NEW p \in Procs, Procs = {p}, LoneInv(p), AddJob(p)
  PROVE  LoneInv(p)'
<1>1. PICK id \in JobIds \ issued, e \in Expressions :
        /\ ValidExpression(e)
        /\ Begin(p, "add", id, Append(file.jobs, NewJob(id, e, clock)), "open")
        /\ doomed' = doomed
  BY DEF AddJob
<1> DEFINE j == NewJob(id, e, clock)
           t == Append(file.jobs, j)
<1>2. j \in Jobs /\ j.id = id
  BY <1>1, NewJobFacts DEF TableInv, Scalars
<1>3. IsTable(file.jobs) /\ ~HasJob(file.jobs, id)
  BY DEF TableInv, Sound, SoundJob, HasJob
<1>4. t # << >> /\ Last(t) = j
  BY <1>2, <1>3, AppendedTable
<1>5. attempts[id] = 0 /\ lastAt[id] = Never /\ id \notin doomed
  BY DEF TableInv, Unissued, Scalars
<1>6. t = Append(file.jobs, Last(t)) /\ Last(t).id = id
  BY <1>2, <1>4
<1> HIDE DEF t
<1>7. /\ pc'[p] = "open" /\ call'[p].op = "add" /\ call'[p].id = id
      /\ buf'[p] = t /\ since'[p] = clock
      /\ UNCHANGED <<clock, file, tmp, fd, added, deleted, attempts, lastAt, mishaps>>
      /\ \A k \in DOMAIN file.jobs : Accounted(file.jobs[k], attempts, lastAt, mishaps)
  <2>1. Begin(p, "add", id, t, "open")
    BY <1>1 DEF t
  <2>. QED  BY <2>1, LoneBegin
<1>8. CallOf(p)'
  BY <1>4, <1>5, <1>6, <1>7 DEF CallOf
<1>9. LoneCall(p)'
  BY <1>1, <1>5, <1>7, <1>8 DEF LoneCall, LoneInv, TableInv, Scalars
<1>10. RunsInv(p)'
  BY <1>7 DEF RunsInv, InTick
<1>11. AcknowledgedEditsKept'
  BY <1>1, <1>7 DEF LoneInv, AcknowledgedEditsKept
<1>. QED  BY <1>9, <1>10, <1>11 DEF LoneInv

LEMMA LoneDelete ==
  ASSUME TableInv, NEW p \in Procs, Procs = {p}, LoneInv(p), DeleteJob(p)
  PROVE  LoneInv(p)'
<1>1. PICK k \in DOMAIN file.jobs :
        /\ Begin(p, "delete", file.jobs[k].id, RemoveAt(file.jobs, k), "open")
        /\ doomed' = doomed \union {file.jobs[k].id}
  BY DEF DeleteJob
<1>2. /\ pc'[p] = "open" /\ call'[p].op = "delete" /\ call'[p].id = file.jobs[k].id
      /\ buf'[p] = RemoveAt(file.jobs, k) /\ since'[p] = clock
      /\ UNCHANGED <<clock, file, tmp, fd, added, deleted, attempts, lastAt, mishaps>>
      /\ \A l \in DOMAIN file.jobs : Accounted(file.jobs[l], attempts, lastAt, mishaps)
  BY <1>1, LoneBegin
<1>3. CallOf(p)'
  BY <1>2 DEF CallOf
<1>4. LoneCall(p)'
  BY <1>2, <1>3 DEF LoneCall, LoneInv, TableInv, Scalars
<1>5. RunsInv(p)'
  BY <1>2 DEF RunsInv, InTick
<1>6. AcknowledgedEditsKept'
  BY <1>1, <1>2 DEF LoneInv, AcknowledgedEditsKept
<1>. QED  BY <1>4, <1>5, <1>6 DEF LoneInv

LEMMA LoneBeginTick ==
  ASSUME TableInv, NEW p \in Procs, Procs = {p}, LoneInv(p), BeginTick(p)
  PROVE  LoneInv(p)'
<1>1. /\ pc'[p] = "tick" /\ call'[p].op = "tick"
      /\ buf'[p] = file.jobs /\ since'[p] = clock
      /\ UNCHANGED <<clock, file, tmp, fd, added, deleted, attempts, lastAt, mishaps>>
      /\ \A k \in DOMAIN file.jobs : Accounted(file.jobs[k], attempts, lastAt, mishaps)
  BY LoneBegin DEF BeginTick
<1>2. doomed' = doomed
  BY DEF BeginTick
<1>3. CallOf(p)'
  BY <1>1 DEF CallOf, Ticked
<1>4. LoneCall(p)'
  BY <1>1, <1>3 DEF LoneCall, LoneInv, TableInv, Scalars
<1>5. RunsInv(p)'
  BY <1>1 DEF RunsInv, InTick
<1>6. AcknowledgedEditsKept'
  BY <1>1, <1>2 DEF LoneInv, AcknowledgedEditsKept
<1>. QED  BY <1>4, <1>5, <1>6 DEF LoneInv

LEMMA LoneRunJob ==
  ASSUME TableInv, NEW p \in Procs, Procs = {p}, LoneInv(p), RunJob(p)
  PROVE  LoneInv(p)'
<1>1. PICK i \in DueIndexes(p) :
        /\ at' = [at EXCEPT ![p] = i]
        /\ attempts' = [attempts EXCEPT ![buf[p][i].id] = @ + 1]
        /\ lastAt' = [lastAt EXCEPT ![buf[p][i].id] = since[p]]
  BY DEF RunJob
<1> DEFINE id == buf[p][i].id
<1>2. /\ Sound(buf[p], issued, attempts) /\ buf[p] \in Seq(Jobs) /\ i \in DOMAIN buf[p]
      /\ i >= at[p] /\ i \in Nat /\ at[p] \in Nat
  BY DEF DueIndexes, TableInv, Sound, IsTable
<1>3. buf[p][i] \in Jobs
  BY <1>2
<1>4. buf[p][i].runs \in Nat /\ id \in JobIds /\ attempts[id] \in Nat /\ mishaps \in Nat
  BY <1>3 DEF Jobs, TableInv, Scalars
<1>5. /\ pc[p] = "tick" /\ pc'[p] = "chat" /\ at'[p] = i
      /\ UNCHANGED <<clock, file, tmp, fd, call, buf, since, issued, added, doomed, deleted, mishaps>>
  BY <1>1 DEF RunJob, disk, acks, TableInv, Scalars, Loops
<1>6. call[p].op = "tick" /\ InTick(p) /\ CallOf(p)
  BY <1>5 DEF LoneInv, LoneCall, InTick
<1>7. attempts'[id] = attempts[id] + 1 /\ lastAt'[id] = since[p]
  BY <1>1, <1>4 DEF TableInv, Scalars
<1>8. Accounted(buf[p][i], attempts, lastAt, mishaps)
  BY <1>2, <1>5, <1>6 DEF LoneInv, RunsInv
<1>9. ASSUME NEW k \in DOMAIN buf[p], k # i
      PROVE  Accounted(buf[p][k], attempts', lastAt', mishaps)
  <2>1. buf[p][k].id # id /\ buf[p][k] \in Jobs
    BY <1>2, <1>9 DEF Sound, IsTable
  <2>2. buf[p][k].id \in JobIds
    BY <2>1 DEF Jobs
  <2>3. attempts'[buf[p][k].id] = attempts[buf[p][k].id] /\ lastAt'[buf[p][k].id] = lastAt[buf[p][k].id]
    BY <1>1, <2>1, <2>2 DEF TableInv, Scalars
  <2>. QED  BY <2>3, <1>5, <1>6 DEF LoneInv, RunsInv, Accounted
<1>10. attempts'[id] <= buf[p][i].runs + 1 + mishaps
  BY <1>4, <1>7, <1>8 DEF Accounted
<1>11. RunsInv(p)'
  BY <1>5, <1>6, <1>7, <1>9, <1>10 DEF RunsInv, InTick
<1>12. CallOf(p)'
  <2>1. \A k \in DOMAIN buf[p] : k >= i => k >= at[p]
    BY <1>2
  <2>. QED  BY <1>5, <1>6, <2>1 DEF CallOf
<1>13. LoneCall(p)'
  BY <1>5, <1>6, <1>12 DEF LoneCall, LoneInv
<1>14. AcknowledgedEditsKept'
  BY <1>5 DEF LoneInv, AcknowledgedEditsKept
<1>. QED  BY <1>11, <1>13, <1>14 DEF LoneInv

LEMMA LoneEndChat ==
  ASSUME TableInv, NEW p \in Procs, Procs = {p}, LoneInv(p), EndChat(p)
  PROVE  LoneInv(p)'
<1> DEFINE i == at[p]
           old == buf[p][i]
           new == AfterRun(old, since[p])
<1>1. /\ Sound(buf[p], issued, attempts) /\ buf[p] \in Seq(Jobs) /\ i \in DOMAIN buf[p]
      /\ old \in Jobs /\ JobDue(old, since[p]) /\ since[p] \in Nat /\ i \in Nat
  BY DEF EndChat, TableInv, CallInv, Sound, IsTable, Scalars
<1>2. /\ new.id = old.id /\ new.kind = old.kind /\ new.every = old.every
      /\ new.runs = old.runs + 1
      /\ old.kind = "interval" => new.next = since[p] + Span(old.every)
  BY <1>1, AfterRunFacts
<1>3. /\ pc[p] = "chat" /\ pc'[p] = "tick" /\ at'[p] = i + 1
      /\ UNCHANGED <<clock, file, tmp, fd, call, since, issued, added, doomed, deleted,
                     attempts, lastAt, mishaps>>
  BY DEF EndChat, disk, acks, tries, TableInv, Scalars, Loops
<1>4. /\ Len(buf'[p]) = Len(buf[p]) /\ DOMAIN buf'[p] = DOMAIN buf[p]
      /\ buf'[p][i] = new /\ \A k \in DOMAIN buf[p] : k # i => buf'[p][k] = buf[p][k]
  <2>1. buf'[p] = [buf[p] EXCEPT ![i] = new]
    BY DEF EndChat, TableInv, Loops
  <2>. QED  BY <1>1, <2>1
<1> HIDE DEF new
<1>5. call[p].op = "tick" /\ InTick(p) /\ CallOf(p)
  BY <1>3 DEF LoneInv, LoneCall, InTick
<1>6. attempts[old.id] <= old.runs + 1 + mishaps /\ lastAt[old.id] = since[p]
  BY <1>1, <1>3, <1>5 DEF LoneInv, RunsInv
<1>7. Accounted(new, attempts, lastAt, mishaps)
  <2>1. old.runs \in Nat /\ old.id \in JobIds
    BY <1>1 DEF Jobs
  <2>2. attempts[old.id] \in Nat /\ mishaps \in Nat
    BY <2>1 DEF TableInv, Scalars
  <2> DEFINE n == attempts[old.id]
             m == lastAt[old.id]
  <2>3. n <= old.runs + 1 + mishaps /\ m = since[p]
    BY <1>6
  <2>4. attempts[new.id] = n /\ lastAt[new.id] = m
    BY <1>2
  <2> HIDE DEF n, m, old
  <2>5. n <= new.runs + mishaps
    BY <1>2, <2>3
  <2>6. new.kind = "interval" => new.next = m + Span(new.every)
    BY <1>2, <2>3
  <2>. QED  BY <2>4, <2>5, <2>6 DEF Accounted
<1>8. RunsInv(p)'
  BY <1>3, <1>4, <1>5, <1>7 DEF RunsInv, InTick, LoneInv
<1>9. CallOf(p)'
  <2>1. file.jobs[i] = old /\ Ticked(new, file.jobs[i], since[p])
    BY <1>1, <1>3, <1>5 DEF CallOf, Ticked, new
  <2>2. \A k \in DOMAIN buf[p] : k >= i + 1 => k >= i /\ k # i
    BY <1>1
  <2>. QED  BY <1>3, <1>4, <1>5, <2>1, <2>2 DEF CallOf
<1>10. LoneCall(p)'
  BY <1>3, <1>5, <1>9 DEF LoneCall, LoneInv
<1>11. AcknowledgedEditsKept'
  BY <1>3 DEF LoneInv, AcknowledgedEditsKept
<1>. QED  BY <1>8, <1>10, <1>11 DEF LoneInv


LEMMA LoneEndTick ==
  ASSUME TableInv, NEW p \in Procs, Procs = {p}, LoneInv(p), EndTick(p)
  PROVE  LoneInv(p)'
<1>1. /\ pc[p] = "tick" /\ pc'[p] = "open"
      /\ UNCHANGED <<clock, file, tmp, fd, call, buf, at, since, issued, added, doomed, deleted,
                     attempts, lastAt, mishaps>>
  BY DEF EndTick, disk, acks, tries, TableInv, Scalars
<1>2. LoneCall(p)'
  BY <1>1 DEF LoneCall, LoneInv, CallOf
<1>3. RunsInv(p)'
  BY <1>1 DEF RunsInv, InTick, LoneInv
<1>4. AcknowledgedEditsKept'
  BY <1>1 DEF LoneInv, AcknowledgedEditsKept
<1>. QED  BY <1>2, <1>3, <1>4 DEF LoneInv

LEMMA LoneOpen ==
  ASSUME TableInv, NEW p \in Procs, Procs = {p}, LoneInv(p), OpenTmp(p)
  PROVE  LoneInv(p)'
<1>1. /\ pc[p] = "open" /\ pc'[p] = "write" /\ tmp' = Text(<< >>) /\ fd'[p] = "tmp"
      /\ UNCHANGED <<clock, file, call, buf, at, since, issued, added, doomed, deleted,
                     attempts, lastAt, mishaps>>
  BY DEF OpenTmp, Advance, acks, tries, TableInv, Scalars
<1>2. LoneCall(p)'
  BY <1>1 DEF LoneCall, LoneInv, CallOf
<1>3. RunsInv(p)'
  BY <1>1 DEF RunsInv, InTick, LoneInv
<1>4. AcknowledgedEditsKept'
  BY <1>1 DEF LoneInv, AcknowledgedEditsKept
<1>. QED  BY <1>2, <1>3, <1>4 DEF LoneInv

\* Nobody has written to the temporary file since it was emptied.
LEMMA LoneWrite ==
  ASSUME TableInv, NEW p \in Procs, Procs = {p}, LoneInv(p), WriteTmp(p)
  PROVE  LoneInv(p)'
<1>1. /\ pc[p] = "write" /\ pc'[p] = "rename"
      /\ UNCHANGED <<clock, call, buf, at, since, issued, added, doomed, deleted,
                     attempts, lastAt, mishaps>>
  BY DEF WriteTmp, Advance, acks, tries, TableInv, Scalars
<1>2. fd[p] = "tmp" /\ tmp = Text(<< >>)
  BY <1>1 DEF LoneInv, LoneCall
<1>3. tmp' = Text(buf[p]) /\ file' = file
  BY <1>2 DEF WriteTmp, Written
<1>4. LoneCall(p)'
  BY <1>1, <1>3 DEF LoneCall, LoneInv, CallOf
<1>5. RunsInv(p)'
  BY <1>1, <1>3 DEF RunsInv, InTick, LoneInv
<1>6. AcknowledgedEditsKept'
  BY <1>1, <1>3 DEF LoneInv, AcknowledgedEditsKept
<1>. QED  BY <1>4, <1>5, <1>6 DEF LoneInv

\* What a call makes of the table: nothing but its own change.
LEMMA AddedTable ==
  ASSUME TableInv, NEW p \in Procs, CallOf(p), call[p].op = "add"
  PROVE  /\ HasJob(buf[p], call[p].id)
         /\ \A l \in DOMAIN file.jobs : \E k \in DOMAIN buf[p] : buf[p][k] = file.jobs[l]
         /\ \A k \in DOMAIN buf[p] :
              \/ buf[p][k].id = call[p].id
              \/ \E l \in DOMAIN file.jobs : buf[p][k] = file.jobs[l]
<1> DEFINE new == buf[p]
           old == file.jobs
           j == Last(new)
<1>1. /\ new \in Seq(Jobs) /\ old \in Seq(Jobs) /\ new # << >>
      /\ new = Append(old, j) /\ j.id = call[p].id
  BY DEF TableInv, Sound, IsTable, CallOf
<1>2. j = new[Len(new)] /\ Len(new) \in DOMAIN new
  BY <1>1, EmptySeq DEF Last
<1> HIDE DEF j
<1>3. j \in Jobs
  BY <1>1, <1>2
<1>4. /\ \A l \in DOMAIN old : l \in DOMAIN Append(old, j) /\ Append(old, j)[l] = old[l]
      /\ \A k \in DOMAIN Append(old, j) : k \in DOMAIN old \/ Append(old, j)[k] = j
  BY <1>1, <1>3
<1> HIDE DEF new, old
<1>5. HasJob(new, call[p].id)
  BY <1>1, <1>2 DEF HasJob
<1>6. /\ \A l \in DOMAIN old : \E k \in DOMAIN new : new[k] = old[l]
      /\ \A k \in DOMAIN new : new[k].id = call[p].id \/ \E l \in DOMAIN old : new[k] = old[l]
  BY <1>1, <1>4
<1>. QED  BY <1>5, <1>6 DEF new, old

LEMMA DeletedTable ==
  ASSUME TableInv, NEW p \in Procs, CallOf(p), call[p].op = "delete"
  PROVE  /\ ~HasJob(buf[p], call[p].id)
         /\ \A k \in DOMAIN buf[p] : \E l \in DOMAIN file.jobs : buf[p][k] = file.jobs[l]
         /\ \A l \in DOMAIN file.jobs :
              \/ file.jobs[l].id = call[p].id
              \/ \E k \in DOMAIN buf[p] : buf[p][k] = file.jobs[l]
<1>1. PICK i \in DOMAIN file.jobs : buf[p] = RemoveAt(file.jobs, i) /\ file.jobs[i].id = call[p].id
  BY DEF CallOf
<1>2. IsTable(file.jobs)
  BY DEF TableInv, Sound
<1>3. /\ ~HasJob(buf[p], call[p].id)
      /\ \A k \in DOMAIN buf[p] : \E l \in DOMAIN file.jobs : l # i /\ buf[p][k] = file.jobs[l]
      /\ \A l \in DOMAIN file.jobs : l # i => \E k \in DOMAIN buf[p] : buf[p][k] = file.jobs[l]
  BY <1>1, <1>2, RemovedTable
<1>. QED  BY <1>1, <1>3

LEMMA TickedTable ==
  ASSUME TableInv, NEW p \in Procs, CallOf(p), call[p].op = "tick"
  PROVE  /\ DOMAIN buf[p] = DOMAIN file.jobs
         /\ \A k \in DOMAIN buf[p] :
              LET new == buf[p][k]
                  old == file.jobs[k] IN
              /\ new \in Jobs /\ old \in Jobs /\ new.id = old.id
              /\ new = old \/ (JobDue(old, since[p]) /\ new.runs = old.runs + 1)
<1>1. /\ buf[p] \in Seq(Jobs) /\ file.jobs \in Seq(Jobs) /\ Len(buf[p]) = Len(file.jobs)
      /\ \A k \in DOMAIN buf[p] : Ticked(buf[p][k], file.jobs[k], since[p])
  BY DEF TableInv, Sound, IsTable, CallOf
<1>2. DOMAIN buf[p] = DOMAIN file.jobs
  BY <1>1
<1>3. ASSUME NEW k \in DOMAIN buf[p]
      PROVE  LET new == buf[p][k]
                 old == file.jobs[k] IN
             /\ new \in Jobs /\ old \in Jobs /\ new.id = old.id
             /\ new = old \/ (JobDue(old, since[p]) /\ new.runs = old.runs + 1)
  <2>1. buf[p][k] \in Jobs /\ file.jobs[k] \in Jobs /\ since[p] \in Nat
    BY <1>1, <1>2 DEF TableInv, Scalars
  <2>2. Ticked(buf[p][k], file.jobs[k], since[p])
    BY <1>1
  <2>3. LET j == AfterRun(file.jobs[k], since[p]) IN
        j.id = file.jobs[k].id /\ j.runs = file.jobs[k].runs + 1
    BY <2>1, AfterRunFacts
  <2>. QED  BY <2>1, <2>2, <2>3 DEF Ticked
<1>. QED  BY <1>2, <1>3

LEMMA LoneRename ==
  ASSUME TableInv, NEW p \in Procs, Procs = {p}, LoneInv(p), RenameTmp(p)
  PROVE  LoneInv(p)'
<1>1. /\ pc[p] = "rename" /\ pc'[p] = "reply" /\ file' = tmp
      /\ UNCHANGED <<clock, call, buf, at, since, issued, added, doomed, deleted,
                     attempts, lastAt, mishaps>>
  BY DEF RenameTmp, Advance, acks, tries, TableInv, Scalars
<1>2. file'.form = "table" /\ file'.jobs = buf[p]
  BY <1>1 DEF LoneInv, LoneCall, Text
<1>3. CallOf(p) /\ CallInv(p) /\ call[p].op \in {"add", "delete", "tick"}
  BY <1>1 DEF LoneInv, LoneCall, TableInv, Scalars
<1>4. CASE call[p].op = "add"
  <2>1. /\ HasJob(buf[p], call[p].id)
        /\ \A l \in DOMAIN file.jobs : \E k \in DOMAIN buf[p] : buf[p][k] = file.jobs[l]
        /\ \A k \in DOMAIN buf[p] :
             \/ buf[p][k].id = call[p].id
             \/ \E l \in DOMAIN file.jobs : buf[p][k] = file.jobs[l]
    BY <1>3, <1>4, AddedTable
  <2>2. LoneCall(p)'
    BY <1>1, <1>2, <1>4, <2>1 DEF LoneCall, LoneInv
  <2>3. call[p].id \notin deleted
    BY <1>4 DEF LoneInv, LoneCall, TableInv, Scalars
  <2>4. AcknowledgedEditsKept'
    BY <1>1, <1>2, <2>1, <2>3 DEF LoneInv, AcknowledgedEditsKept, HasJob
  <2>5. \A k \in DOMAIN file.jobs : Accounted(file.jobs[k], attempts, lastAt, mishaps)
    BY <1>4 DEF LoneInv, RunsInv, InTick
  <2>6. ASSUME NEW k \in DOMAIN buf[p] PROVE Accounted(buf[p][k], attempts, lastAt, mishaps)
    <3>1. CASE buf[p][k].id = call[p].id
      <4>1. attempts[buf[p][k].id] = 0 /\ lastAt[buf[p][k].id] = Never
        BY <1>3, <1>4, <3>1 DEF CallOf
      <4>2. buf[p][k] \in Jobs
        BY DEF TableInv, Sound, IsTable
      <4>3. buf[p][k].runs \in Nat /\ mishaps \in Nat
        BY <4>2 DEF Jobs, TableInv, Scalars
      <4>. QED  BY <4>1, <4>3 DEF Accounted
    <3>. QED  BY <2>1, <2>5, <3>1
  <2>7. RunsInv(p)'
    BY <1>1, <1>2, <1>4, <2>6 DEF RunsInv, InTick
  <2>. QED  BY <2>2, <2>4, <2>7 DEF LoneInv
<1>5. CASE call[p].op = "delete"
  <2>1. /\ ~HasJob(buf[p], call[p].id)
        /\ \A k \in DOMAIN buf[p] : \E l \in DOMAIN file.jobs : buf[p][k] = file.jobs[l]
        /\ \A l \in DOMAIN file.jobs :
             \/ file.jobs[l].id = call[p].id
             \/ \E k \in DOMAIN buf[p] : buf[p][k] = file.jobs[l]
    BY <1>3, <1>5, DeletedTable
  <2>2. LoneCall(p)'
    BY <1>1, <1>2, <1>5, <2>1 DEF LoneCall, LoneInv
  <2>3. call[p].id \in doomed
    BY <1>3, <1>5 DEF CallInv
  <2>4. AcknowledgedEditsKept'
    BY <1>1, <1>2, <2>1, <2>3 DEF LoneInv, AcknowledgedEditsKept, HasJob
  <2>5. \A k \in DOMAIN file.jobs : Accounted(file.jobs[k], attempts, lastAt, mishaps)
    BY <1>5 DEF LoneInv, RunsInv, InTick
  <2>6. \A k \in DOMAIN buf[p] : Accounted(buf[p][k], attempts, lastAt, mishaps)
    BY <2>1, <2>5
  <2>7. RunsInv(p)'
    BY <1>1, <1>2, <1>5, <2>6 DEF RunsInv, InTick
  <2>. QED  BY <2>2, <2>4, <2>7 DEF LoneInv
<1>6. CASE call[p].op = "tick"
  <2>1. /\ DOMAIN buf[p] = DOMAIN file.jobs
        /\ \A k \in DOMAIN buf[p] : buf[p][k].id = file.jobs[k].id
    BY <1>3, <1>6, TickedTable
  <2>2. LoneCall(p)'
    BY <1>1, <1>2, <1>6 DEF LoneCall, LoneInv
  <2>3. AcknowledgedEditsKept'
    BY <1>1, <1>2, <2>1 DEF LoneInv, AcknowledgedEditsKept, HasJob
  <2>4. \A k \in DOMAIN buf[p] : Accounted(buf[p][k], attempts, lastAt, mishaps)
    BY <1>1, <1>6 DEF LoneInv, RunsInv, InTick
  <2>5. RunsInv(p)'
    BY <1>1, <1>2, <2>4 DEF RunsInv, InTick
  <2>. QED  BY <2>2, <2>3, <2>5 DEF LoneInv
<1>. QED  BY <1>3, <1>4, <1>5, <1>6

\* A call that reaches its rename has written its own table.
LEMMA LoneHasTmp ==
  ASSUME NEW p \in Procs, LoneInv(p)
  PROVE  ~NothingToRename(p)
BY DEF LoneInv, LoneCall, NothingToRename, Text, Absent

LEMMA LoneReply ==
  ASSUME TableInv, NEW p \in Procs, Procs = {p}, LoneInv(p), Reply(p)
  PROVE  LoneInv(p)'
<1>1. /\ pc[p] = "reply" /\ pc'[p] = "idle" /\ call'[p] = NoCall /\ since'[p] = 0
      /\ UNCHANGED <<clock, file, tmp, fd, issued, doomed, attempts, lastAt, mishaps>>
  BY DEF Reply, Leave, disk, tries, TableInv, Scalars
<1>2. /\ added' = IF call[p].op = "add" THEN added \union {call[p].id} ELSE added
      /\ deleted' = IF call[p].op = "delete" THEN deleted \union {call[p].id} ELSE deleted
  BY DEF Reply
<1>3. LoneCall(p)'
  BY <1>1 DEF LoneCall, LoneInv, NoCall, TableInv, Scalars
<1>4. RunsInv(p)'
  BY <1>1 DEF RunsInv, InTick, LoneInv
<1>5. AcknowledgedEditsKept'
  BY <1>1, <1>2 DEF LoneInv, LoneCall, AcknowledgedEditsKept
<1>. QED  BY <1>3, <1>4, <1>5 DEF LoneInv

\* While a tick is at work, it has begun at most one run of a job that the
\* table in jobs.json does not count, and only of a job due in it.
LEMMA UncountedRun ==
  ASSUME TableInv, NEW p \in Procs, LoneInv(p), InTick(p), NEW k \in DOMAIN file.jobs
  PROVE  LET old == file.jobs[k] IN
         \/ attempts[old.id] <= old.runs + mishaps
         \/ JobDue(old, since[p]) /\ attempts[old.id] <= old.runs + 1 + mishaps
<1> DEFINE old == file.jobs[k]
           new == buf[p][k]
<1>1. CallOf(p) /\ call[p].op = "tick"
  BY DEF LoneInv, LoneCall, InTick
<1>2. /\ k \in DOMAIN buf[p] /\ old \in Jobs /\ new.id = old.id
      /\ new = old \/ (JobDue(old, since[p]) /\ new.runs = old.runs + 1)
  BY <1>1, TickedTable
<1>3. old.runs \in Nat /\ old.id \in JobIds
  BY <1>2 DEF Jobs
<1>4. attempts[old.id] \in Nat /\ mishaps \in Nat
  BY <1>3 DEF TableInv, Scalars
<1>5. CASE pc[p] = "chat" /\ k = at[p]
  <2>1. attempts[new.id] <= new.runs + 1 + mishaps
    BY <1>2, <1>5 DEF LoneInv, RunsInv
  <2>2. new = old
    BY <1>1, <1>2, <1>5 DEF CallOf, TableInv, Loops
  <2>3. JobDue(new, since[p])
    BY <1>5 DEF TableInv, CallInv
  <2>. QED  BY <2>1, <2>2, <2>3
<1>6. CASE ~(pc[p] = "chat" /\ k = at[p])
  <2>1. attempts[new.id] <= new.runs + mishaps
    BY <1>2, <1>6 DEF LoneInv, RunsInv, Accounted
  <2>2. CASE new = old
    BY <2>1, <2>2
  <2>3. CASE JobDue(old, since[p]) /\ new.runs = old.runs + 1
    <3>1. attempts[old.id] <= old.runs + 1 + mishaps
      BY <1>2, <2>1, <2>3
    <3>. QED  BY <2>3, <3>1
  <2>. QED  BY <1>2, <2>2, <2>3
<1>. QED  BY <1>5, <1>6

\* The call is gone; what its tick has run it may run again.
LEMMA LoneMishap ==
  ASSUME TableInv, NEW p \in Procs, Procs = {p}, LoneInv(p), pc[p] # "idle", Mishap(p)
  PROVE  LoneInv(p)'
<1>1. /\ pc'[p] = "idle" /\ call'[p] = NoCall /\ since'[p] = 0 /\ mishaps' = mishaps + 1
      /\ UNCHANGED <<clock, file, tmp, issued, added, doomed, deleted, attempts, lastAt>>
  BY DEF Mishap, Leave, acks, tries, TableInv, Scalars
<1>2. LoneCall(p)'
  BY <1>1 DEF LoneCall, LoneInv, NoCall, TableInv, Scalars
<1>3. ASSUME NEW k \in DOMAIN file.jobs
      PROVE  Accounted(file.jobs[k], attempts, lastAt, mishaps + 1)
  <2> DEFINE old == file.jobs[k]
  <2>1. old \in Jobs
    BY DEF TableInv, Sound, IsTable
  <2>2. old.runs \in Nat /\ old.id \in JobIds
    BY <2>1 DEF Jobs
  <2>3. attempts[old.id] \in Nat /\ mishaps \in Nat
    BY <2>2 DEF TableInv, Scalars
  <2>4. attempts[old.id] <= old.runs + mishaps \/ attempts[old.id] <= old.runs + 1 + mishaps
    <3>1. CASE InTick(p)
      BY <3>1, UncountedRun
    <3>2. CASE ~InTick(p)
      BY <3>2 DEF LoneInv, RunsInv, Accounted
    <3>. QED  BY <3>1, <3>2
  <2>5. attempts[old.id] <= old.runs + (mishaps + 1) /\ mishaps + 1 # 0
    BY <2>2, <2>3, <2>4
  <2> HIDE DEF old
  <2>6. Accounted(old, attempts, lastAt, mishaps + 1)
    BY <2>5 DEF Accounted
  <2>. QED  BY <2>6 DEF old
<1>4. RunsInv(p)'
  BY <1>1, <1>3 DEF RunsInv, InTick
<1>5. AcknowledgedEditsKept'
  BY <1>1 DEF LoneInv, AcknowledgedEditsKept
<1>. QED  BY <1>2, <1>4, <1>5 DEF LoneInv

LEMMA LoneNext ==
  ASSUME TableInv, NEW p \in Procs, Procs = {p}, LoneInv(p), [Next]_vars
  PROVE  LoneInv(p)'
<1>1. CASE UNCHANGED vars
  BY <1>1 DEF vars, disk, proc, acks, tries, LoneInv, LoneCall, CallOf, RunsInv, InTick,
              AcknowledgedEditsKept
<1>2. CASE PassTime
  <2>1. /\ clock' = clock + 1 /\ clock \in Nat /\ since[p] \in Nat
        /\ UNCHANGED <<disk, proc, acks, tries, mishaps>>
    BY <1>2 DEF PassTime, TableInv, Scalars
  <2>. QED  BY <2>1 DEF disk, proc, acks, tries, LoneInv, LoneCall, CallOf, RunsInv, InTick,
                        AcknowledgedEditsKept
<1>3. CASE AddJob(p) \/ DeleteJob(p) \/ BeginTick(p)
  BY <1>3, LoneAdd, LoneDelete, LoneBeginTick
<1>4. CASE Work(p)
  BY <1>4, LoneRunJob, LoneEndChat, LoneEndTick, LoneOpen, LoneWrite, LoneRename, LoneHasTmp,
     LoneReply DEF Work
<1>5. CASE SaveFails(p) \/ Crash(p)
  BY <1>5, LoneMishap DEF SaveFails, Crash
<1>. QED  BY <1>1, <1>2, <1>3, <1>4, <1>5, ConstantFacts DEF Next

LEMMA LoneInvariance ==
  ASSUME NEW q, Procs = {q}
  PROVE  Spec => [](TableInv /\ LoneInv(q))
<1>1. Init => LoneInv(q)
  <2> SUFFICES ASSUME Init PROVE LoneInv(q)
    OBVIOUS
  <2>1. /\ pc[q] = "idle" /\ call[q].op = "none" /\ since[q] = 0 /\ clock = 0
        /\ file = Text(<< >>) /\ added = {} /\ deleted = {}
    BY DEF Init, NoCall
  <2>2. file.form = "table" /\ DOMAIN file.jobs = {}
    BY <2>1 DEF Text
  <2>. QED  BY <2>1, <2>2 DEF LoneInv, LoneCall, RunsInv, InTick, AcknowledgedEditsKept, HasJob
<1>2. TableInv /\ LoneInv(q) /\ [Next]_vars => LoneInv(q)'
  BY LoneNext
<1>. QED  BY <1>1, <1>2, TableInvariance, PTL DEF Spec

-----------------------------------------------------------------------------
(* What one process can rely on.                                           *)

\* With one process at a time every acknowledged add is in the table until a
\* delete is asked for, and every acknowledged delete is final, through any
\* crashes and failed writes (AddJob, DeleteJob, saveJobs).
THEOREM AcknowledgedAlwaysKept ==
  ASSUME NEW q, Procs = {q}
  PROVE  Spec => []AcknowledgedEditsKept
BY LoneInvariance, PTL DEF LoneInv

\* With one process at a time a once job runs again only because a tick that
\* ran it did not reach its save (TickWith).
THEOREM RepeatsAlwaysExplained ==
  ASSUME NEW q, Procs = {q}
  PROVE  Spec => []RepeatsExplained
<1>1. TableInv /\ LoneInv(q) => RepeatsExplained
  <2> SUFFICES ASSUME TableInv, LoneInv(q), NEW k \in DOMAIN file.jobs, file.jobs[k].kind = "once"
               PROVE  attempts[file.jobs[k].id] <= 1 + mishaps
    BY DEF RepeatsExplained, JobsIn
  <2> DEFINE j == file.jobs[k]
  <2>1. j \in Jobs /\ j.runs = IF j.enabled THEN 0 ELSE 1
    BY DEF TableInv, Sound, IsTable, SoundJob
  <2>2. j.runs \in {0, 1} /\ j.id \in JobIds
    BY <2>1 DEF Jobs
  <2>3. attempts[j.id] \in Nat /\ mishaps \in Nat
    BY <2>2 DEF TableInv, Scalars
  <2>4. CASE InTick(q)
    <3>1. \/ attempts[j.id] <= j.runs + mishaps
          \/ JobDue(j, since[q]) /\ attempts[j.id] <= j.runs + 1 + mishaps
      BY <2>4, UncountedRun
    <3>2. JobDue(j, since[q]) => j.runs = 0
      BY <2>1 DEF JobDue
    <3>. QED  BY <2>2, <2>3, <3>1, <3>2
  <2>5. CASE ~InTick(q)
    <3>1. attempts[j.id] <= j.runs + mishaps
      BY <2>5 DEF LoneInv, RunsInv, Accounted
    <3>. QED  BY <2>2, <2>3, <3>1
  <2>. QED  BY <2>4, <2>5
<1>. QED  BY <1>1, LoneInvariance, PTL

\* No interval that callers pass overflows a time.Duration.
IntervalsFit == \A e \in Expressions : e.form = "every" => e.n < DurationRange

\* With one process at a time, and no interval that overflows a duration, the
\* executions of an interval job keep its interval until a tick is lost
\* (nextRunAfterSuccess, nextRunAfterFailure).
THEOREM IntervalAlwaysKept ==
  ASSUME NEW q, Procs = {q}, IntervalsFit
  PROVE  Spec => IntervalSpaced
<1> DEFINE Spaced ==
      \A p \in Procs : RunJob(p) =>
        LET j == buf[p][at'[p]] IN
        j.kind = "interval" /\ mishaps = 0 /\ lastAt[j.id] # Never
          => since[p] - lastAt[j.id] >= j.every
<1>1. TableInv /\ LoneInv(q) /\ [Next]_vars => [Spaced]_vars
  <2> SUFFICES ASSUME TableInv, LoneInv(q), RunJob(q),
                      buf[q][at'[q]].kind = "interval", mishaps = 0,
                      lastAt[buf[q][at'[q]].id] # Never
               PROVE  since[q] - lastAt[buf[q][at'[q]].id] >= buf[q][at'[q]].every
    OBVIOUS
  <2>1. PICK i \in DueIndexes(q) : at' = [at EXCEPT ![q] = i]
    BY DEF RunJob
  <2>2. at'[q] = i /\ pc[q] = "tick" /\ i \in DOMAIN buf[q] /\ JobDue(buf[q][i], since[q])
    BY <2>1 DEF RunJob, DueIndexes, TableInv, Loops, Sound, IsTable
  <2> DEFINE j == buf[q][i]
  <2>3. j.kind = "interval" /\ lastAt[j.id] # Never
    BY <2>2
  <2>4. j \in Jobs /\ SoundJob(j, issued, attempts)
    BY <2>2 DEF TableInv, Sound, IsTable
  <2>5. j.every \in Nat /\ j.id \in JobIds
    BY <2>4 DEF Jobs
  <2>6. j.every < DurationRange
    BY <2>3, <2>4 DEF SoundJob, IntervalsFit
  <2>7. Span(j.every) = j.every
    BY <2>5, <2>6, SpanExact
  <2>8. InTick(q)
    BY <2>2 DEF InTick, LoneInv, LoneCall
  <2>9. j.next = lastAt[j.id] + Span(j.every)
    BY <2>2, <2>3, <2>8 DEF LoneInv, RunsInv, Accounted
  <2>10. j.next <= since[q] /\ since[q] \in Nat /\ lastAt[j.id] \in Int
    BY <2>2, <2>5 DEF JobDue, TableInv, Scalars
  <2> HIDE DEF j
  <2>11. since[q] - lastAt[j.id] >= j.every
    BY <2>5, <2>7, <2>9, <2>10
  <2>. QED  BY <2>2, <2>11 DEF j
<1>2. [][Spaced]_vars => IntervalSpaced
  BY DEF IntervalSpaced
<1>3. Spec => [](TableInv /\ LoneInv(q))
  BY LoneInvariance, PTL
<1> HIDE DEF Spaced
<1>. QED  BY <1>1, <1>2, <1>3, PTL DEF Spec

\* With one process at a time jobs.json changes by whole calls: each rename
\* adds one job, or removes one, or counts one more run of jobs that were due.
THEOREM CallsAlwaysWhole ==
  ASSUME NEW q, Procs = {q}
  PROVE  Spec => WholeCallsOnly
<1> DEFINE Whole ==
      file' # file =>
        LET old == file.jobs
            new == file'.jobs
        IN  \/ \E j \in JobsIn(new) : new = Append(old, j)
            \/ \E k \in DOMAIN old : new = RemoveAt(old, k)
            \/ /\ Len(new) = Len(old)
               /\ \A k \in DOMAIN old :
                    \/ new[k] = old[k]
                    \/ /\ JobDue(old[k], clock)
                       /\ new[k].id = old[k].id
                       /\ new[k].runs = old[k].runs + 1
<1>1. TableInv /\ LoneInv(q) /\ [Next]_vars => [Whole]_vars
  <2> SUFFICES ASSUME TableInv, LoneInv(q), [Next]_vars, file' # file PROVE Whole
    OBVIOUS
  <2>1. RenameTmp(q)
    <3>1. ~UNCHANGED vars /\ ~PassTime /\ ~BeginTick(q) /\ ~RunJob(q) /\ ~EndChat(q) /\ ~EndTick(q)
      BY DEF vars, disk, PassTime, BeginTick, Begin, RunJob, EndChat, EndTick
    <3>2. ~AddJob(q) /\ ~DeleteJob(q)
      BY DEF AddJob, DeleteJob, Begin, disk
    <3>3. ~OpenTmp(q) /\ ~NothingToRename(q) /\ ~Reply(q) /\ ~SaveFails(q) /\ ~Crash(q)
      BY DEF OpenTmp, NothingToRename, Reply, SaveFails, Crash, Mishap, disk
    <3>4. ~WriteTmp(q)
      BY DEF WriteTmp, Advance, LoneInv, LoneCall
    <3>. QED  BY <3>1, <3>2, <3>3, <3>4, ConstantFacts DEF Next, Work
  <2>2. /\ pc[q] = "rename" /\ file'.jobs = buf[q]
        /\ CallOf(q) /\ call[q].op \in {"add", "delete", "tick"}
    BY <2>1 DEF RenameTmp, Advance, LoneInv, LoneCall, Text, TableInv, Scalars
  <2>3. CASE call[q].op = "add"
    <3>1. /\ buf[q] \in Seq(Jobs) /\ buf[q] # << >>
          /\ buf[q] = Append(file.jobs, Last(buf[q]))
      BY <2>2, <2>3 DEF CallOf, TableInv, Sound, IsTable
    <3>2. Len(buf[q]) \in DOMAIN buf[q] /\ Last(buf[q]) = buf[q][Len(buf[q])]
      BY <3>1, EmptySeq DEF Last
    <3>. QED  BY <2>2, <3>1, <3>2 DEF JobsIn
  <2>4. CASE call[q].op = "delete"
    BY <2>2, <2>4 DEF CallOf
  <2>5. CASE call[q].op = "tick"
    <3>1. Len(buf[q]) = Len(file.jobs) /\ DOMAIN buf[q] = DOMAIN file.jobs
      BY <2>2, <2>5, TickedTable DEF CallOf
    <3>2. ASSUME NEW k \in DOMAIN file.jobs
          PROVE  \/ buf[q][k] = file.jobs[k]
                 \/ /\ JobDue(file.jobs[k], clock)
                    /\ buf[q][k].id = file.jobs[k].id
                    /\ buf[q][k].runs = file.jobs[k].runs + 1
      <4>1. /\ file.jobs[k] \in Jobs /\ buf[q][k].id = file.jobs[k].id
            /\ \/ buf[q][k] = file.jobs[k]
               \/ JobDue(file.jobs[k], since[q]) /\ buf[q][k].runs = file.jobs[k].runs + 1
        BY <2>2, <2>5, <3>1, TickedTable
      <4>2. file.jobs[k].next \in Int /\ since[q] \in Nat /\ clock \in Nat /\ since[q] <= clock
        BY <4>1 DEF Jobs, TableInv, Scalars, LoneInv, LoneCall
      <4>3. JobDue(file.jobs[k], since[q]) => JobDue(file.jobs[k], clock)
        BY <4>2 DEF JobDue
      <4>. QED  BY <4>1, <4>3
    <3>. QED  BY <2>2, <3>1, <3>2
  <2>. QED  BY <2>2, <2>3, <2>4, <2>5
<1>. QED  BY <1>1, LoneInvariance, PTL DEF Spec, WholeCallsOnly
=============================================================================
