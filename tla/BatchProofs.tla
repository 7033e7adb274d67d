---------------------------- MODULE BatchProofs -----------------------------
(***************************************************************************)
(* Batch runs, for datasets of any length and any number of processes,     *)
(* runs, failures and crashes.  A run's counts are those of the results it *)
(* has, taken over or its own; a result names a session of its prompt and  *)
(* a line that stays in the file; what is durable is in every checkpoint   *)
(* that can be read and in the only run there is.                          *)
(***************************************************************************)
EXTENDS Batch, FiniteSetTheorems, SequenceTheorems, WellFoundedInduction, TLAPS

Results == [prompt : Prompts \union {"none"}, ok : BOOLEAN, session : Nat, trajectory : Nat]

Counts == [total : Nat, succeeded : Nat, failed : Nat, trajectories : Nat]

\* The results of some of the items.
Partial == UNION {[D -> Results] : D \in {E \in SUBSET Nat : IsFiniteSet(E)}}

Runs ==
  [step : {"idle", "chat", "save", "open", "write", "report"}, items : Seq(Prompts),
   resume : BOOLEAN, completed : Partial, result : Results, index : Nat, count : Counts,
   alone : BOOLEAN]

Lines == [session : Nat, good : BOOLEAN, end : {"newline", "none"}]

\* The types of what is no run.
Types ==
  /\ data \in Seq(Prompts) /\ checkpoint \in [readable : BOOLEAN, done : Partial]
  /\ lines \in Seq(Lines) /\ sessions \in Seq(Prompts)
  /\ durable \subseteq Nat /\ lost \subseteq Nat /\ edited \in BOOLEAN

\* A trajectory is that of a session with the prompt of the result, and its
\* line is in the file unless it went into an unfinished one.
Sane(f, known, listed, gone) ==
  \A i \in DOMAIN f : f[i].trajectory # 0 =>
    /\ f[i].ok /\ f[i].trajectory \in DOMAIN known
    /\ known[f[i].trajectory] = f[i].prompt
    /\ f[i].trajectory \in listed \union gone

Fits(f, d) == \A i \in DOMAIN f : i \in DOMAIN d /\ f[i].prompt = d[i]

RunInv(r, known, listed, gone, d, changed) ==
  /\ r.count = Counted(Len(r.items), r.completed)
  /\ Sane(r.completed, known, listed, gone)
  /\ r.step \in {"chat", "save"} => r.index \in Todo(r)
  /\ r.step = "report" => Todo(r) = {}
  /\ r.step = "save" =>
       /\ r.result.ok /\ r.result.session \in DOMAIN known
       /\ known[r.result.session] = r.result.prompt
       /\ r.result.prompt = r.items[r.index]
  /\ ~changed => Fits(r.completed, d) /\ (r.step # "idle" => r.items = d)

\* An unfinished line cannot be parsed.
LinesInv == \A i \in DOMAIN lines : lines[i].good => lines[i].end = "newline"

CheckpointInv ==
  /\ Sane(checkpoint.done, sessions, Listed, lost)
  /\ ~edited => Fits(checkpoint.done, data)

DurableInv ==
  /\ checkpoint.readable => durable \subseteq DOMAIN checkpoint.done
  /\ \A w \in Runners : Running(w) /\ durable # {} =>
       run[w].alone /\ durable \subseteq DOMAIN run[w].completed
  /\ \A w, v \in Runners : Running(w) /\ run[w].alone /\ Running(v) => v = w

BatchInv ==
  /\ Types /\ run \in [Runners -> Runs]
  /\ LinesInv /\ CheckpointInv /\ DurableInv
  /\ \A w \in Runners : RunInv(run[w], sessions, Listed, lost, data, edited)

-----------------------------------------------------------------------------
(* Results and their counts.                                               *)

LEMMA PartialFacts ==
  /\ \A f \in Partial : /\ DOMAIN f \subseteq Nat /\ IsFiniteSet(DOMAIN f)
                        /\ \A i \in DOMAIN f : f[i] \in Results
  /\ \A D \in SUBSET Nat : IsFiniteSet(D) => [D -> Results] \subseteq Partial
  /\ << >> \in Partial /\ DOMAIN << >> = {}
<1>1. \A D \in SUBSET Nat : IsFiniteSet(D) => [D -> Results] \subseteq Partial
  BY DEF Partial
<1>2. << >> \in [{} -> Results] /\ DOMAIN << >> = {}
  OBVIOUS
<1>3. << >> \in Partial
  BY <1>1, <1>2, FS_EmptySet
<1>. QED  BY <1>1, <1>2, <1>3 DEF Partial

LEMMA WithFacts ==
  ASSUME NEW f \in Partial, NEW i \in Nat, NEW x \in Results
  PROVE  /\ With(f, i, x) \in Partial /\ DOMAIN With(f, i, x) = DOMAIN f \union {i}
         /\ With(f, i, x)[i] = x
         /\ \A j \in DOMAIN f : j # i => With(f, i, x)[j] = f[j]
<1> DEFINE D == DOMAIN f \union {i}
           g == With(f, i, x)
<1>1. D \in SUBSET Nat /\ IsFiniteSet(D)
  BY PartialFacts, FS_AddElement
<1>2. g = [j \in D |-> IF j = i THEN x ELSE f[j]]
  BY DEF With
<1>3. \A j \in D : (IF j = i THEN x ELSE f[j]) \in Results
  BY PartialFacts
<1> HIDE DEF D
<1>4. g \in [D -> Results]
  BY <1>2, <1>3
<1>. QED  BY <1>1, <1>2, <1>4, PartialFacts DEF D

\* One more element of a finite set that has the property, or has not.
LEMMA OneMore ==
  ASSUME NEW S, IsFiniteSet(S), NEW i, i \notin S
  PROVE  /\ Cardinality(S) \in Nat
         /\ Cardinality(S \union {i}) = Cardinality(S) + 1
BY FS_CardinalityType, FS_AddElement

LEMMA CountedFacts ==
  ASSUME NEW f \in Partial, NEW n \in Nat
  PROVE  LET c == Counted(n, f) IN
         /\ c \in Counts /\ c.total = n
         /\ c.succeeded + c.failed = Cardinality(DOMAIN f)
         /\ c.succeeded = Quantify(DOMAIN f, LAMBDA i : f[i].ok)
<1> DEFINE D == DOMAIN f
           good == {i \in D : f[i].ok}
           bad == {i \in D : ~f[i].ok}
           kept == {i \in D : f[i].ok /\ f[i].trajectory # 0}
<1>1. IsFiniteSet(D)
  BY PartialFacts
<1>2. IsFiniteSet(good) /\ IsFiniteSet(bad) /\ IsFiniteSet(kept)
  BY <1>1, FS_Subset
<1>3. Cardinality(good) \in Nat /\ Cardinality(bad) \in Nat /\ Cardinality(kept) \in Nat
  BY <1>2, FS_CardinalityType
<1>4. good \union bad = D /\ good \cap bad = {}
  OBVIOUS
<1>5. Cardinality(D) = Cardinality(good) + Cardinality(bad)
  <2>1. Cardinality(good \union bad) =
          Cardinality(good) + Cardinality(bad) - Cardinality(good \cap bad)
    BY <1>2, FS_Union
  <2>2. Cardinality(good \cap bad) = 0
    BY <1>4, FS_EmptySet
  <2> HIDE DEF good, bad
  <2>. QED  BY <1>3, <1>4, <2>1, <2>2
<1>6. Counted(n, f) = [total |-> n, succeeded |-> Cardinality(good), failed |-> Cardinality(bad),
                       trajectories |-> Cardinality(kept)]
  BY DEF Counted, Quantify
<1>7. Quantify(D, LAMBDA i : f[i].ok) = Cardinality(good)
  BY DEF Quantify
<1> HIDE DEF good, bad, kept, D
<1>8. Counted(n, f) \in Counts
  BY <1>3, <1>6 DEF Counts
<1>. QED  BY <1>5, <1>6, <1>7, <1>8 DEF D

\* The counts with one more result.
OneCounted(more, old, x) ==
  /\ more \in Counts /\ more.total = old.total
  /\ more.succeeded = IF x.ok THEN old.succeeded + 1 ELSE old.succeeded
  /\ more.failed = IF x.ok THEN old.failed ELSE old.failed + 1
  /\ more.trajectories =
       IF x.ok /\ x.trajectory # 0 THEN old.trajectories + 1 ELSE old.trajectories

LEMMA CountedWith ==
  ASSUME NEW f \in Partial, NEW n \in Nat, NEW i \in Nat, i \notin DOMAIN f, NEW x \in Results
  PROVE  OneCounted(Counted(n, With(f, i, x)), Counted(n, f), x)
<1> DEFINE D == DOMAIN f
           g == With(f, i, x)
           good == {j \in D : f[j].ok}
           bad == {j \in D : ~f[j].ok}
           kept == {j \in D : f[j].ok /\ f[j].trajectory # 0}
           newGood == {j \in DOMAIN g : g[j].ok}
           newBad == {j \in DOMAIN g : ~g[j].ok}
           newKept == {j \in DOMAIN g : g[j].ok /\ g[j].trajectory # 0}
<1>1. g \in Partial /\ DOMAIN g = D \union {i} /\ g[i] = x /\ \A j \in D : g[j] = f[j]
  <2>1. g \in Partial /\ DOMAIN g = D \union {i} /\ g[i] = x
    BY WithFacts
  <2>2. \A j \in D : j # i => g[j] = f[j]
    BY WithFacts
  <2>. QED  BY <2>1, <2>2
<1>2. Counted(n, g) \in Counts
  BY <1>1, CountedFacts
<1> HIDE DEF g
<1>3. IsFiniteSet(good) /\ IsFiniteSet(bad) /\ IsFiniteSet(kept)
  BY PartialFacts, FS_Subset
<1>4. i \notin good /\ i \notin bad /\ i \notin kept
  OBVIOUS
<1>5. /\ newGood = IF x.ok THEN good \union {i} ELSE good
      /\ newBad = IF x.ok THEN bad ELSE bad \union {i}
      /\ newKept = IF x.ok /\ x.trajectory # 0 THEN kept \union {i} ELSE kept
  BY <1>1
<1>6. /\ Counted(n, f) = [total |-> n, succeeded |-> Cardinality(good), failed |-> Cardinality(bad),
                          trajectories |-> Cardinality(kept)]
      /\ Counted(n, g) = [total |-> n, succeeded |-> Cardinality(newGood),
                          failed |-> Cardinality(newBad), trajectories |-> Cardinality(newKept)]
  BY DEF Counted, Quantify
<1>7. /\ Cardinality(good \union {i}) = Cardinality(good) + 1
      /\ Cardinality(bad \union {i}) = Cardinality(bad) + 1
      /\ Cardinality(kept \union {i}) = Cardinality(kept) + 1
  BY <1>3, <1>4, OneMore
<1> HIDE DEF good, bad, kept, newGood, newBad, newKept
<1>. QED  BY <1>2, <1>5, <1>6, <1>7 DEF OneCounted, g

LEMMA CountedEmpty == Counted(0, << >>) = NoCount
<1>1. {i \in DOMAIN << >> : << >>[i].ok} = {} /\ {i \in DOMAIN << >> : ~<< >>[i].ok} = {}
      /\ {i \in DOMAIN << >> : << >>[i].ok /\ << >>[i].trajectory # 0} = {}
  BY PartialFacts
<1>. QED  BY <1>1, FS_EmptySet DEF Counted, Quantify, NoCount

-----------------------------------------------------------------------------
(* Runs.                                                                   *)

LEMMA LeastExists ==
  ASSUME NEW S, S \subseteq Nat, S # {}
  PROVE  \E i \in S : \A j \in S : i <= j
<1> DEFINE R == {s \in Nat \X Nat : s[1] < s[2]}
<1>1. IsWellFoundedOn(R, Nat)
  BY NatLessThanWellFounded DEF OpToRel
<1>2. PICK i \in S : \A j \in S : ~(<<j, i>> \in R)
  BY <1>1, WFMin
<1>3. i \in Nat /\ \A j \in S : j \in Nat /\ ~(j < i)
  BY <1>2
<1>4. \A j \in S : i <= j
  BY <1>3
<1>. QED  BY <1>4

LEMMA NotRunningFacts ==
  /\ NotRunning \in Runs /\ NotRunning.step = "idle" /\ NotRunning.completed = << >>
  /\ NotRunning.items = << >> /\ NotRunning.count = NoCount /\ NotRunning.alone
<1>1. << >> \in Seq(Prompts) /\ << >> \in Partial /\ NoResult \in Results /\ NoCount \in Counts
  BY PartialFacts DEF NoResult, Results, NoCount, Counts
<1> DEFINE e == << >>
<1> HIDE DEF e
<1>. QED  BY <1>1 DEF NotRunning, Runs

\* Between two items a run finds the next one, or is at its end.
LEMMA AdvanceFacts ==
  ASSUME NEW r \in Runs
  PROVE  LET a == Advance(r) IN
         /\ a \in Runs /\ a.items = r.items /\ a.completed = r.completed /\ a.count = r.count
         /\ a.resume = r.resume /\ a.alone = r.alone
         /\ \/ a.step = "report" /\ Todo(r) = {}
            \/ a.step = "chat" /\ a.index \in Todo(r)
<1>1. r.items \in Seq(Prompts) /\ r.resume \in BOOLEAN /\ r.alone \in BOOLEAN
  BY DEF Runs
<1>2. CASE Todo(r) = {}
  <2>1. Advance(r) = [r EXCEPT !.step = "report"]
    BY <1>2 DEF Advance
  <2>. QED  BY <1>2, <2>1 DEF Runs
<1>3. CASE Todo(r) # {}
  <2> DEFINE i == CHOOSE i \in Todo(r) : \A j \in Todo(r) : i <= j
  <2>1. Todo(r) \subseteq Nat
    BY <1>1 DEF Todo
  <2>2. i \in Todo(r) /\ i \in Nat
    BY <1>3, <2>1, LeastExists
  <2>3. Advance(r) = [r EXCEPT !.step = "chat", !.result = NoResult, !.index = i]
    BY <1>3 DEF Advance
  <2>4. NoResult \in Results
    BY DEF NoResult, Results
  <2> HIDE DEF i
  <2>. QED  BY <2>2, <2>3, <2>4 DEF Runs
<1>. QED  BY <1>2, <1>3

LEMMA CompleteFacts ==
  ASSUME NEW r \in Runs, NEW x \in Results, NEW count \in Counts
  PROVE  LET c == Complete(r, x, count) IN
         /\ c \in Runs /\ c.step = "open" /\ c.completed = With(r.completed, r.index, x)
         /\ c.count = count /\ c.items = r.items /\ c.resume = r.resume /\ c.alone = r.alone
<1>1. r.completed \in Partial /\ r.index \in Nat /\ NoResult \in Results
  BY DEF Runs, NoResult, Results
<1> DEFINE f == With(r.completed, r.index, x)
<1>2. f \in Partial
  BY <1>1, WithFacts
<1>3. Complete(r, x, count) =
        [r EXCEPT !.step = "open", !.completed = f, !.count = count, !.result = NoResult]
  BY DEF Complete, Runs
<1> HIDE DEF f
<1>. QED  BY <1>1, <1>2, <1>3 DEF Runs, f

\* A run that takes over the results f.
Started(items, resume, f, only) ==
  Advance([NotRunning EXCEPT !.items = items, !.resume = resume, !.completed = f,
                             !.alone = only, !.count = Counted(Len(items), f)])

LEMMA StartedFacts ==
  ASSUME NEW items \in Seq(Prompts), NEW resume \in BOOLEAN, NEW f \in Partial, NEW only \in BOOLEAN
  PROVE  LET s == Started(items, resume, f, only) IN
         /\ s \in Runs /\ s.items = items /\ s.completed = f /\ s.count = Counted(Len(items), f)
         /\ s.resume = resume /\ s.alone = only
         /\ \/ s.step = "report" /\ Todo(s) = {}
            \/ s.step = "chat" /\ s.index \in Todo(s)
<1> DEFINE count == Counted(Len(items), f)
           r == [NotRunning EXCEPT !.items = items, !.resume = resume, !.completed = f,
                                   !.alone = only, !.count = count]
<1>1. Len(items) \in Nat
  OBVIOUS
<1>2. count \in Counts
  BY <1>1, CountedFacts
<1> HIDE DEF count
<1>3. /\ r \in Runs /\ r.items = items /\ r.completed = f /\ r.count = count
      /\ r.resume = resume /\ r.alone = only
  BY <1>2, NotRunningFacts DEF Runs
<1> HIDE DEF r
<1>4. LET a == Advance(r) IN
      /\ a \in Runs /\ a.items = items /\ a.completed = f /\ a.count = count
      /\ a.resume = resume /\ a.alone = only
      /\ \/ a.step = "report" /\ Todo(r) = {}
         \/ a.step = "chat" /\ a.index \in Todo(r)
  BY <1>3, AdvanceFacts
<1>5. Todo(Advance(r)) = Todo(r)
  BY <1>3, <1>4 DEF Todo
<1>. QED  BY <1>4, <1>5 DEF Started, r, count

-----------------------------------------------------------------------------
(* The trajectory file.                                                    *)

LEMMA FrontFacts ==
  ASSUME NEW S, NEW s \in Seq(S), Len(s) >= 1
  PROVE  /\ Front(s) \in Seq(S) /\ Len(Front(s)) = Len(s) - 1
         /\ \A i \in 1..(Len(s) - 1) : Front(s)[i] = s[i]
<1> DEFINE m == Len(s) - 1
<1>1. m \in Int /\ m >= 0 /\ m = Len(s) - 1
  OBVIOUS
<1>2. Front(s) = SubSeq(s, 1, m)
  BY DEF Front
<1> HIDE DEF m
<1>3. SubSeq(s, 1, m) \in Seq(S) /\ Len(SubSeq(s, 1, m)) = m
  BY <1>1
<1>4. \A i \in 1..m : SubSeq(s, 1, m)[i] = s[i]
  BY <1>1
<1>. QED  BY <1>2, <1>3, <1>4 DEF m

LEMMA AppendedFacts ==
  ASSUME Types, LinesInv, NEW s \in Nat, NEW end \in {"newline", "none"}, lines' = Appended(s, end)
  PROVE  /\ lines' \in Seq(Lines)
         /\ LinesInv' /\ Listed \subseteq Listed'
         /\ end = "newline" /\ ~Unfinished => s \in Listed'
<1> DEFINE good == end = "newline" /\ ~Unfinished
           line == [session |-> s, good |-> good, end |-> end]
           kept == IF Unfinished THEN Len(lines) - 1 ELSE Len(lines)
<1>1. lines \in Seq(Lines) /\ Len(lines) \in Nat
  BY DEF Types
<1>2. good \in BOOLEAN /\ (good => end = "newline" /\ ~Unfinished)
  OBVIOUS
<1> HIDE DEF good
<1>3. line \in Lines /\ line.session = s /\ line.good = good /\ line.end = end
  BY <1>2 DEF Lines
<1> HIDE DEF line
<1>4. Unfinished => lines # << >> /\ lines[Len(lines)].end = "none" /\ Len(lines) >= 1
  BY <1>1, EmptySeq DEF Unfinished, Last
<1>5. /\ lines' \in Seq(Lines) /\ kept \in Nat /\ kept <= Len(lines) /\ Len(lines') = kept + 1
      /\ lines'[kept + 1] = line /\ \A i \in 1..kept : lines'[i] = lines[i]
  <2>1. CASE Unfinished
    <3>1. lines' = Append(Front(lines), line)
      BY <2>1 DEF Appended, line, good
    <3>2. /\ Front(lines) \in Seq(Lines) /\ Len(Front(lines)) = Len(lines) - 1
          /\ \A i \in 1..(Len(lines) - 1) : Front(lines)[i] = lines[i]
      BY <1>1, <1>4, <2>1, FrontFacts
    <3>. QED  BY <1>1, <1>3, <1>4, <2>1, <3>1, <3>2
  <2>2. CASE ~Unfinished
    <3>1. lines' = Append(lines, line)
      BY <2>2 DEF Appended, line, good
    <3>. QED  BY <1>1, <1>3, <2>2, <3>1
  <2>. QED  BY <2>1, <2>2
<1>6. \A i \in DOMAIN lines : lines[i].good => i \in 1..kept
  <2> SUFFICES ASSUME NEW i \in DOMAIN lines, lines[i].good PROVE i \in 1..kept
    OBVIOUS
  <2>1. lines[i].end = "newline" /\ i \in 1..Len(lines)
    BY <1>1 DEF LinesInv
  <2>. QED  BY <1>1, <1>4, <2>1
<1> HIDE DEF kept
<1>7. DOMAIN lines' = 1..(kept + 1) /\ DOMAIN lines = 1..Len(lines)
  BY <1>1, <1>5
<1>8. LinesInv'
  BY <1>1, <1>2, <1>3, <1>5, <1>7 DEF LinesInv
<1>9. Listed \subseteq Listed'
  <2> SUFFICES ASSUME NEW i \in DOMAIN lines, lines[i].good PROVE lines[i].session \in Listed'
    BY DEF Listed
  <2>1. i \in DOMAIN lines' /\ lines'[i] = lines[i]
    BY <1>5, <1>6, <1>7
  <2>. QED  BY <2>1 DEF Listed
<1>10. ASSUME end = "newline", ~Unfinished
       PROVE  s \in Listed'
  <2>1. kept + 1 \in DOMAIN lines' /\ lines'[kept + 1].good /\ lines'[kept + 1].session = s
    <3>1. line.good
      BY <1>3, <1>10 DEF good
    <3>2. kept + 1 \in 1..(kept + 1)
      BY <1>5
    <3>. QED  BY <1>3, <1>5, <1>7, <3>1, <3>2
  <2>. QED  BY <2>1 DEF Listed
<1>. QED  BY <1>5, <1>8, <1>9, <1>10

-----------------------------------------------------------------------------
(* What is true of results stays true.                                     *)

\* Sessions and lines are only added, and an edit is remembered.
Grows ==
  /\ \A i \in DOMAIN sessions : i \in DOMAIN sessions' /\ sessions'[i] = sessions[i]
  /\ Listed \subseteq Listed' /\ lost \subseteq lost'
  /\ ~edited' => ~edited /\ data' = data

LEMMA SaneKept ==
  ASSUME Grows, NEW f, Sane(f, sessions, Listed, lost)
  PROVE  Sane(f, sessions', Listed', lost')
BY DEF Grows, Sane

LEMMA RunKept ==
  ASSUME Grows, NEW r, RunInv(r, sessions, Listed, lost, data, edited)
  PROVE  RunInv(r, sessions', Listed', lost', data', edited')
BY SaneKept DEF Grows, RunInv

\* A run between two items, in any step that does not look at the result.
LEMMA RunAdvanced ==
  ASSUME NEW r \in Runs, NEW known, NEW listed, NEW gone, NEW d, NEW changed,
         RunInv(r, known, listed, gone, d, changed), r.step # "idle"
  PROVE  RunInv(Advance(r), known, listed, gone, d, changed)
<1>1. LET a == Advance(r) IN
      /\ a.items = r.items /\ a.completed = r.completed /\ a.count = r.count
      /\ \/ a.step = "report" /\ Todo(r) = {}
         \/ a.step = "chat" /\ a.index \in Todo(r)
  BY AdvanceFacts
<1>2. Todo(Advance(r)) = Todo(r)
  BY <1>1 DEF Todo
<1>. QED  BY <1>1, <1>2 DEF RunInv

\* A result joins a run: the one of its item, counted, with a trajectory in
\* the file or with none.
LEMMA RunCompleted ==
  ASSUME NEW r \in Runs, NEW known, NEW listed, NEW gone, NEW d, NEW changed,
         RunInv(r, known, listed, gone, d, changed), r.step \in {"chat", "save"},
         NEW x \in Results, x.prompt = r.items[r.index],
         x.trajectory # 0 => /\ x.ok /\ x.trajectory \in DOMAIN known
                             /\ known[x.trajectory] = x.prompt
                             /\ x.trajectory \in listed \union gone,
         NEW count, OneCounted(count, r.count, x)
  PROVE  RunInv(Complete(r, x, count), known, listed, gone, d, changed)
<1> DEFINE c == Complete(r, x, count)
           f == r.completed
           i == r.index
           g == With(f, i, x)
<1>1. /\ c.step = "open" /\ c.completed = g /\ c.count = count /\ c.items = r.items
  BY CompleteFacts DEF OneCounted
<1>2. f \in Partial /\ i \in Nat /\ r.items \in Seq(Prompts) /\ Len(r.items) \in Nat
  BY DEF Runs
<1>3. i \in DOMAIN r.items /\ i \notin DOMAIN f
  BY DEF RunInv, Todo
<1> DEFINE n == Len(r.items)
           old == Counted(n, f)
<1>4. r.count = old
  BY DEF RunInv
<1> HIDE DEF f, i, n, old
<1>5. /\ DOMAIN g = DOMAIN f \union {i} /\ g[i] = x
      /\ \A j \in DOMAIN f : j # i => g[j] = f[j]
  <2>1. DOMAIN g = DOMAIN f \union {i}
    BY DEF With
  <2>2. g[i] = x
    BY <1>2, WithFacts
  <2>3. \A j \in DOMAIN f : j # i => g[j] = f[j]
    BY <1>2, WithFacts
  <2>. QED  BY <2>1, <2>2, <2>3
<1>6. count = Counted(n, g)
  <2>1. n \in Nat
    BY <1>2 DEF n
  <2>2. OneCounted(Counted(n, g), old, x)
    BY <1>2, <1>3, <2>1, CountedWith DEF old
  <2>3. OneCounted(count, old, x)
    BY <1>4
  <2> HIDE DEF g
  <2>. QED  BY <2>2, <2>3 DEF OneCounted, Counts
<1> HIDE DEF g, c
<1>7. \A j \in DOMAIN g : j = i \/ (j \in DOMAIN f /\ g[j] = f[j])
  BY <1>5
<1>8. Sane(g, known, listed, gone)
  BY <1>5, <1>7 DEF RunInv, Sane, f
<1>9. ~changed => Fits(g, d) /\ r.items = d
  BY <1>3, <1>5, <1>7 DEF RunInv, Fits, f, i
<1>10. RunInv(c, known, listed, gone, d, changed)
  BY <1>1, <1>6, <1>8, <1>9 DEF RunInv, n
<1>. QED  BY <1>10 DEF c

-----------------------------------------------------------------------------
(* One item.                                                               *)

\* The step of one run, and of what it changes beside it.
LEMMA StepInv ==
  ASSUME BatchInv, NEW w \in Runners, NEW r \in Runs, Set(w, r), Types', LinesInv', Grows,
         RunInv(r, sessions', Listed', lost', data', edited'), CheckpointInv', DurableInv'
  PROVE  BatchInv'
<1>1. /\ run' \in [Runners -> Runs] /\ run'[w] = r
      /\ \A v \in Runners : v # w => run'[v] = run[v]
  BY DEF BatchInv, Set
<1>2. ASSUME NEW v \in Runners
      PROVE  RunInv(run'[v], sessions', Listed', lost', data', edited')
  <2>1. CASE v = w
    BY <1>1, <2>1
  <2>2. CASE v # w
    BY <1>1, <2>2, RunKept DEF BatchInv
  <2>. QED  BY <2>1, <2>2
<1>. QED  BY <1>1, <1>2 DEF BatchInv

\* A running process goes on or ends; nothing becomes durable.
LEMMA DurableKept ==
  ASSUME BatchInv, NEW w \in Runners, Running(w), NEW r \in Runs, Set(w, r),
         \/ r.step = "idle"
         \/ r.alone = run[w].alone /\ DOMAIN run[w].completed \subseteq DOMAIN r.completed,
         durable' \in {durable, {}},
         checkpoint' = checkpoint \/ ~checkpoint'.readable
  PROVE  DurableInv'
<1>1. run'[w] = r /\ \A v \in Runners : v # w => run'[v] = run[v]
  BY DEF BatchInv, Set
<1>2. DurableInv
  BY DEF BatchInv
<1>3. checkpoint'.readable => durable' \subseteq DOMAIN checkpoint'.done
  BY <1>2 DEF DurableInv
<1>4. ASSUME NEW v \in Runners, Running(v)', durable' # {}
      PROVE  run'[v].alone /\ durable' \subseteq DOMAIN run'[v].completed
  <2>1. durable' = durable
    BY <1>4
  <2>2. CASE v = w
    <3>1. r.step # "idle"
      BY <1>1, <1>4, <2>2 DEF Running
    <3>. QED  BY <1>1, <1>2, <1>4, <2>1, <2>2, <3>1 DEF DurableInv
  <2>3. CASE v # w
    BY <1>1, <1>2, <1>4, <2>1, <2>3 DEF DurableInv, Running
  <2>. QED  BY <2>2, <2>3
<1>5. ASSUME NEW u \in Runners, NEW v \in Runners, Running(u)', run'[u].alone, Running(v)'
      PROVE  v = u
  <2>1. /\ Running(u) /\ Running(v)
    BY <1>1, <1>5 DEF Running
  <2>2. run[u].alone
    <3>1. CASE u = w
      BY <1>1, <1>5, <3>1 DEF Running
    <3>. QED  BY <1>1, <1>5, <3>1
  <2>. QED  BY <1>2, <2>1, <2>2 DEF DurableInv
<1>. QED  BY <1>3, <1>4, <1>5 DEF DurableInv

\* A step that adds a result to the run.
LEMMA CompleteInv ==
  ASSUME BatchInv, NEW w \in Runners, run[w].step \in {"chat", "save"},
         NEW x \in Results, x.prompt = run[w].items[run[w].index],
         x.trajectory # 0 => /\ x.ok /\ x.trajectory \in DOMAIN sessions
                             /\ sessions[x.trajectory] = x.prompt
                             /\ x.trajectory \in Listed' \union lost',
         NEW count, OneCounted(count, run[w].count, x), Set(w, Complete(run[w], x, count)),
         UNCHANGED <<data, checkpoint, sessions, durable, edited>>,
         lines' \in Seq(Lines), LinesInv', Listed \subseteq Listed',
         lost \subseteq lost', lost' \subseteq Nat
  PROVE  BatchInv'
<1> DEFINE c == Complete(run[w], x, count)
<1>1. run[w] \in Runs /\ Running(w)
  BY DEF BatchInv, Running
<1>2. /\ c \in Runs /\ c.completed = With(run[w].completed, run[w].index, x)
      /\ c.alone = run[w].alone
  BY <1>1, CompleteFacts DEF OneCounted
<1>3. DOMAIN run[w].completed \subseteq DOMAIN c.completed
  BY <1>2 DEF With
<1>4. Types' /\ Grows
  BY DEF BatchInv, Types, Grows
<1>5. RunInv(run[w], sessions', Listed', lost', data', edited')
  BY <1>4, RunKept DEF BatchInv
<1>6. RunInv(c, sessions', Listed', lost', data', edited')
  BY <1>1, <1>5, RunCompleted
<1> HIDE DEF c
<1>7. CheckpointInv'
  BY <1>4, SaneKept DEF BatchInv, CheckpointInv
<1>8. Set(w, c)
  BY DEF c
<1>9. DurableInv'
  BY <1>1, <1>2, <1>3, <1>8, DurableKept
<1>. QED  BY <1>2, <1>4, <1>6, <1>7, <1>8, <1>9, StepInv

LEMMA ChatFailsInv ==
  ASSUME BatchInv, NEW w \in Runners, ChatFails(w)
  PROVE  BatchInv'
<1> DEFINE r == run[w]
           x == [NoResult EXCEPT !.prompt = r.items[r.index]]
           count == [r.count EXCEPT !.failed = @ + 1]
<1>1. /\ r.step = "chat" /\ Set(w, Complete(r, x, count))
      /\ UNCHANGED <<data, checkpoint, lines, sessions, durable, edited, lost>>
  BY DEF ChatFails, At
<1>2. r \in Runs /\ r.index \in DOMAIN r.items
  BY <1>1 DEF BatchInv, RunInv, Todo
<1>3. r.items[r.index] \in Prompts /\ r.count \in Counts
  BY <1>2 DEF Runs
<1>4. NoResult \in Results /\ ~NoResult.ok /\ NoResult.trajectory = 0
  BY DEF NoResult, Results
<1> DEFINE prompt == r.items[r.index]
<1> HIDE DEF prompt
<1>5. x \in Results /\ x.prompt = r.items[r.index] /\ ~x.ok /\ x.trajectory = 0
  <2>1. x = [NoResult EXCEPT !.prompt = prompt] /\ prompt \in Prompts
    BY <1>3 DEF prompt
  <2>2. x \in Results /\ x.prompt = prompt /\ x.trajectory = 0
    BY <1>4, <2>1 DEF Results
  <2>3. ~x.ok
    BY <1>4, <2>1 DEF Results
  <2>. QED  BY <2>2, <2>3 DEF prompt
<1>6. /\ count \in Counts /\ count.total = r.count.total /\ count.failed = r.count.failed + 1
      /\ count.succeeded = r.count.succeeded /\ count.trajectories = r.count.trajectories
  BY <1>3 DEF Counts
<1> HIDE DEF x, count
<1>7. OneCounted(count, r.count, x)
  BY <1>5, <1>6 DEF OneCounted
<1>8. /\ lines' \in Seq(Lines) /\ LinesInv' /\ Listed' = Listed
      /\ lost \subseteq lost' /\ lost' \subseteq Nat
  BY <1>1 DEF BatchInv, Types, LinesInv, Listed
<1>. QED  BY <1>1, <1>5, <1>7, <1>8, CompleteInv

LEMMA ChatInv ==
  ASSUME BatchInv, NEW w \in Runners, Chat(w)
  PROVE  BatchInv'
<1> DEFINE r == run[w]
           prompt == r.items[r.index]
           x == [prompt |-> prompt, ok |-> TRUE, session |-> Len(sessions'), trajectory |-> 0]
           s == [r EXCEPT !.step = "save", !.result = x]
<1>1. /\ r.step = "chat" /\ sessions' = Append(sessions, prompt) /\ Set(w, s)
      /\ UNCHANGED <<data, checkpoint, lines, durable, edited, lost>>
  BY DEF Chat, At
<1>2. r \in Runs /\ r.index \in DOMAIN r.items /\ sessions \in Seq(Prompts)
  BY <1>1 DEF BatchInv, Types, RunInv, Todo
<1>3. prompt \in Prompts
  BY <1>2 DEF Runs
<1> HIDE DEF prompt
<1>4. /\ sessions' \in Seq(Prompts) /\ Len(sessions') \in DOMAIN sessions' /\ Len(sessions') \in Nat
      /\ sessions'[Len(sessions')] = prompt
      /\ \A i \in DOMAIN sessions : i \in DOMAIN sessions' /\ sessions'[i] = sessions[i]
  BY <1>1, <1>2, <1>3
<1>5. x \in Results /\ x.ok /\ x.session = Len(sessions') /\ x.prompt = prompt
  BY <1>3, <1>4 DEF Results
<1> HIDE DEF x
<1>6. /\ s \in Runs /\ s.step = "save" /\ s.result = x /\ s.items = r.items /\ s.index = r.index
      /\ s.completed = r.completed /\ s.count = r.count
  BY <1>2, <1>5 DEF Runs
<1>7. s.alone = r.alone
  BY <1>2 DEF Runs
<1> HIDE DEF s
<1>8. Types' /\ LinesInv' /\ Grows
  BY <1>1, <1>4 DEF BatchInv, Types, LinesInv, Grows, Listed
<1>9. RunInv(r, sessions', Listed', lost', data', edited')
  BY <1>8, RunKept DEF BatchInv
<1>10. RunInv(s, sessions', Listed', lost', data', edited')
  <2>1. Todo(s) = Todo(r)
    BY <1>6 DEF Todo
  <2>2. x.prompt = s.items[s.index]
    BY <1>5, <1>6 DEF prompt
  <2>. QED  BY <1>1, <1>4, <1>5, <1>6, <1>9, <2>1, <2>2 DEF RunInv
<1>11. CheckpointInv'
  BY <1>1, <1>8, SaneKept DEF BatchInv, CheckpointInv
<1>12. DurableInv'
  BY <1>1, <1>6, <1>7, DurableKept DEF Running
<1>. QED  BY <1>1, <1>6, <1>8, <1>10, <1>11, <1>12, StepInv

\* The result of a success, with its trajectory or without one.
LEMMA SucceededInv ==
  ASSUME BatchInv, NEW w \in Runners, At(w, "save"), NEW t \in {0, run[w].result.session},
         t # 0 => t \in Listed' \union lost', Set(w, Succeeded(run[w], t)),
         UNCHANGED <<data, checkpoint, sessions, durable, edited>>,
         lines' \in Seq(Lines), LinesInv', Listed \subseteq Listed',
         lost \subseteq lost', lost' \subseteq Nat
  PROVE  BatchInv'
<1> DEFINE r == run[w]
           x == [r.result EXCEPT !.trajectory = t]
           count == [r.count EXCEPT !.succeeded = @ + 1,
                                    !.trajectories = IF t = 0 THEN @ ELSE @ + 1]
<1>1. r \in Runs /\ r.step = "save" /\ Set(w, Complete(r, x, count))
  BY DEF BatchInv, At, Succeeded
<1>2. r.result \in Results /\ r.result.session \in Nat /\ r.result.ok \in BOOLEAN /\ r.count \in Counts
  BY <1>1 DEF Runs, Results
<1>3. /\ r.result.ok /\ r.result.session \in DOMAIN sessions
      /\ sessions[r.result.session] = r.result.prompt /\ r.result.prompt = r.items[r.index]
  BY <1>1 DEF BatchInv, RunInv
<1>4. x \in Results /\ x.prompt = r.result.prompt /\ x.trajectory = t
  BY <1>2 DEF Results
<1>5. x.ok
  BY <1>2, <1>3 DEF Results
<1> DEFINE more == IF t = 0 THEN r.count.trajectories ELSE r.count.trajectories + 1
           one == r.count.succeeded + 1
<1>6. /\ more \in Nat /\ one \in Nat
      /\ count = [r.count EXCEPT !.succeeded = one, !.trajectories = more]
  BY <1>2 DEF Counts
<1> HIDE DEF x, count, more, one
<1>7. /\ count \in Counts /\ count.total = r.count.total /\ count.failed = r.count.failed
      /\ count.succeeded = one /\ count.trajectories = more
  BY <1>2, <1>6 DEF Counts
<1>8. OneCounted(count, r.count, x)
  BY <1>4, <1>5, <1>7 DEF OneCounted, more, one
<1>9. x.trajectory # 0 => /\ x.ok /\ x.trajectory \in DOMAIN sessions
                          /\ sessions[x.trajectory] = x.prompt
                          /\ x.trajectory \in Listed' \union lost'
  BY <1>3, <1>4, <1>5
<1>. QED  BY <1>1, <1>3, <1>4, <1>8, <1>9, CompleteInv

LEMMA SaveInv ==
  ASSUME BatchInv, NEW w \in Runners, SaveTrajectory(w) \/ SaveFails(w)
  PROVE  BatchInv'
<1> DEFINE s == run[w].result.session
<1>1. At(w, "save") /\ UNCHANGED <<data, checkpoint, sessions, durable, edited>>
  BY DEF SaveTrajectory, SaveFails
<1>2. run[w].result \in Results
  BY DEF BatchInv, Runs
<1>3. s \in Nat /\ Types /\ LinesInv /\ lost \subseteq Nat
  BY <1>2 DEF Results, BatchInv, Types
<1>4. CASE SaveTrajectory(w)
  <2>1. /\ lines' = Appended(s, "newline") /\ Set(w, Succeeded(run[w], s))
        /\ lost' = IF Unfinished THEN lost \union {s} ELSE lost
    BY <1>4 DEF SaveTrajectory
  <2>2. /\ lines' \in Seq(Lines) /\ LinesInv' /\ Listed \subseteq Listed'
        /\ ~Unfinished => s \in Listed'
    BY <1>3, <2>1, AppendedFacts
  <2>. QED  BY <1>1, <1>3, <2>1, <2>2, SucceededInv
<1>5. CASE SaveFails(w)
  <2>1. /\ lines' = lines \/ lines' = Appended(s, "none")
        /\ Set(w, Succeeded(run[w], 0)) /\ lost' = lost
    BY <1>5 DEF SaveFails
  <2>2. lines' \in Seq(Lines) /\ LinesInv' /\ Listed \subseteq Listed'
    <3>1. CASE lines' = lines
      BY <1>3, <3>1 DEF Types, LinesInv, Listed
    <3>2. CASE lines' = Appended(s, "none")
      BY <1>3, <3>2, AppendedFacts
    <3>. QED  BY <2>1, <3>1, <3>2
  <2>. QED  BY <1>1, <1>3, <2>1, <2>2, SucceededInv
<1>. QED  BY <1>4, <1>5

LEMMA OpenInv ==
  ASSUME BatchInv, NEW w \in Runners, OpenCheckpoint(w)
  PROVE  BatchInv'
<1> DEFINE r == [run[w] EXCEPT !.step = "write"]
<1>1. /\ run[w].step = "open" /\ checkpoint' = Missing /\ Set(w, r)
      /\ durable' = IF run[w].alone THEN durable ELSE {}
      /\ UNCHANGED <<data, lines, sessions, edited, lost>>
  BY DEF OpenCheckpoint, At
<1>2. run[w] \in Runs
  BY DEF BatchInv
<1>3. /\ r \in Runs /\ r.step = "write" /\ r.items = run[w].items
      /\ r.completed = run[w].completed /\ r.count = run[w].count
  BY <1>2 DEF Runs
<1>4. r.alone = run[w].alone
  BY <1>2 DEF Runs
<1> HIDE DEF r
<1>5. /\ Missing \in [readable : BOOLEAN, done : Partial] /\ ~Missing.readable
      /\ Missing.done = << >>
  BY PartialFacts DEF Missing
<1>6. Types' /\ LinesInv' /\ Grows
  BY <1>1, <1>5 DEF BatchInv, Types, LinesInv, Grows, Listed
<1>7. RunInv(run[w], sessions', Listed', lost', data', edited')
  BY <1>6, RunKept DEF BatchInv
<1>8. RunInv(r, sessions', Listed', lost', data', edited')
  BY <1>1, <1>3, <1>7 DEF RunInv
<1>9. CheckpointInv'
  BY <1>1, <1>5, PartialFacts DEF CheckpointInv, Sane, Fits
<1>10. DurableInv'
  BY <1>1, <1>3, <1>4, <1>5, DurableKept DEF Running
<1>. QED  BY <1>1, <1>3, <1>6, <1>8, <1>9, <1>10, StepInv

\* The run goes on after its checkpoint.
LEMMA GoesOn ==
  ASSUME BatchInv, NEW w \in Runners, run[w].step \in {"open", "write"}
  PROVE  LET r == Advance(run[w]) IN
         /\ run[w] \in Runs /\ r \in Runs /\ Running(w)
         /\ r.completed = run[w].completed /\ r.alone = run[w].alone
         /\ \/ r.step = "report"
            \/ r.step = "chat" /\ r.index \notin DOMAIN run[w].completed
         /\ r.resume = run[w].resume
         /\ RunInv(r, sessions, Listed, lost, data, edited)
<1>1. run[w] \in Runs /\ Running(w) /\ RunInv(run[w], sessions, Listed, lost, data, edited)
  BY DEF BatchInv, Running
<1>2. RunInv(Advance(run[w]), sessions, Listed, lost, data, edited)
  BY <1>1, RunAdvanced
<1>3. LET a == Advance(run[w]) IN
      /\ a \in Runs /\ a.completed = run[w].completed
      /\ a.resume = run[w].resume /\ a.alone = run[w].alone
      /\ \/ a.step = "report"
         \/ a.step = "chat" /\ a.index \in Todo(run[w])
  BY <1>1, AdvanceFacts
<1>. QED  BY <1>1, <1>2, <1>3 DEF Todo

LEMMA WriteInv ==
  ASSUME BatchInv, NEW w \in Runners, WriteCheckpoint(w)
  PROVE  BatchInv'
<1> DEFINE r == Advance(run[w])
           f == run[w].completed
           whole == [readable |-> TRUE, done |-> f]
<1>1. /\ run[w].step = "write" /\ checkpoint' \in {whole, Missing} /\ Set(w, r)
      /\ durable' = IF run[w].alone THEN DOMAIN f ELSE {}
      /\ UNCHANGED <<data, lines, sessions, edited, lost>>
  BY DEF WriteCheckpoint, At
<1>2. /\ run[w] \in Runs /\ r \in Runs /\ Running(w) /\ r.completed = f /\ r.alone = run[w].alone
      /\ RunInv(r, sessions, Listed, lost, data, edited)
  BY <1>1, GoesOn
<1> HIDE DEF r
<1>3. f \in Partial
  BY <1>2 DEF Runs
<1>4. /\ checkpoint' \in [readable : BOOLEAN, done : Partial]
      /\ \/ checkpoint'.done = f
         \/ ~checkpoint'.readable /\ checkpoint'.done = << >>
  <2>1. CASE checkpoint' = whole
    BY <1>3, <2>1
  <2>2. CASE checkpoint' = Missing
    <3>1. Missing \in [readable : BOOLEAN, done : Partial]
      BY PartialFacts DEF Missing
    <3>2. ~Missing.readable /\ Missing.done = << >>
      BY DEF Missing
    <3>. QED  BY <2>2, <3>1, <3>2
  <2>. QED  BY <1>1, <2>1, <2>2
<1>5. DOMAIN f \subseteq Nat
  BY <1>3, PartialFacts
<1>6. Types' /\ LinesInv' /\ Grows
  BY <1>1, <1>4, <1>5 DEF BatchInv, Types, LinesInv, Grows, Listed
<1>7. RunInv(r, sessions', Listed', lost', data', edited')
  BY <1>2, <1>6, RunKept
<1>8. CheckpointInv'
  BY <1>1, <1>2, <1>4, <1>7, PartialFacts DEF RunInv, CheckpointInv, Sane, Fits
<1>9. DurableInv'
  <2>1. run'[w] = r /\ \A v \in Runners : v # w => run'[v] = run[v]
    BY <1>1 DEF BatchInv, Set
  <2>2. \A u, v \in Runners : Running(u) /\ run[u].alone /\ Running(v) => v = u
    BY DEF BatchInv, DurableInv
  <2>3. \A v \in Runners : v # w /\ Running(v)' => Running(v)
    BY <2>1 DEF Running
  <2>4. ASSUME NEW v \in Runners, Running(v)', durable' # {}
        PROVE  run'[v].alone /\ durable' \subseteq DOMAIN run'[v].completed
    <3>1. run[w].alone /\ durable' = DOMAIN f
      BY <1>1, <2>4
    <3>2. v = w
      BY <1>2, <2>2, <2>3, <2>4, <3>1
    <3>. QED  BY <1>2, <2>1, <3>1, <3>2
  <2>5. ASSUME NEW u \in Runners, NEW v \in Runners, Running(u)', run'[u].alone, Running(v)'
        PROVE  v = u
    <3>1. Running(u) /\ Running(v)
      BY <1>2, <2>3, <2>5
    <3>2. run[u].alone
      <4>1. CASE u = w
        BY <1>2, <2>1, <2>5, <4>1
      <4>2. CASE u # w
        BY <2>1, <2>5, <4>2
      <4>. QED  BY <4>1, <4>2
    <3>. QED  BY <2>2, <3>1, <3>2
  <2>. QED  BY <1>1, <1>4, <2>4, <2>5 DEF DurableInv
<1>. QED  BY <1>1, <1>2, <1>6, <1>7, <1>8, <1>9, StepInv

LEMMA CheckpointFailsInv ==
  ASSUME BatchInv, NEW w \in Runners, CheckpointFails(w)
  PROVE  BatchInv'
<1> DEFINE r == Advance(run[w])
<1>1. /\ run[w].step \in {"open", "write"} /\ Set(w, r) /\ durable' \in {durable, {}}
      /\ UNCHANGED <<data, checkpoint, lines, sessions, edited, lost>>
  BY DEF CheckpointFails
<1>2. /\ r \in Runs /\ Running(w) /\ r.completed = run[w].completed /\ r.alone = run[w].alone
      /\ RunInv(r, sessions, Listed, lost, data, edited)
  BY <1>1, GoesOn
<1> HIDE DEF r
<1>3. Types' /\ LinesInv' /\ Grows /\ Listed' = Listed
  BY <1>1 DEF BatchInv, Types, LinesInv, Grows, Listed
<1>4. RunInv(r, sessions', Listed', lost', data', edited')
  BY <1>2, <1>3, RunKept
<1>5. CheckpointInv'
  BY <1>1, <1>3 DEF BatchInv, CheckpointInv
<1>6. DurableInv'
  BY <1>1, <1>2, DurableKept
<1>. QED  BY <1>1, <1>2, <1>3, <1>4, <1>5, <1>6, StepInv

\* The process has reported, or has been killed.
LEMMA EndInv ==
  ASSUME BatchInv, NEW w \in Runners, Report(w) \/ Crash(w)
  PROVE  BatchInv'
<1> DEFINE s == run[w].result.session
<1>1. /\ Running(w) /\ Set(w, NotRunning) /\ durable' \in {durable, {}}
      /\ lines' = lines \/ lines' = Appended(s, "none")
      /\ UNCHANGED <<data, checkpoint, sessions, edited, lost>>
  BY DEF Report, Crash, At, Running
<1>2. run[w].result \in Results
  BY DEF BatchInv, Runs
<1>3. s \in Nat /\ Types /\ LinesInv
  BY <1>2 DEF Results, BatchInv
<1>4. lines' \in Seq(Lines) /\ LinesInv' /\ Listed \subseteq Listed'
  <2>1. CASE lines' = lines
    BY <1>3, <2>1 DEF Types, LinesInv, Listed
  <2>2. CASE lines' = Appended(s, "none")
    BY <1>3, <2>2, AppendedFacts
  <2>. QED  BY <1>1, <2>1, <2>2
<1>5. Types' /\ Grows
  BY <1>1, <1>3, <1>4 DEF Types, Grows
<1>6. CheckpointInv'
  BY <1>1, <1>5, SaneKept DEF BatchInv, CheckpointInv
<1>7. RunInv(NotRunning, sessions', Listed', lost', data', edited')
  BY NotRunningFacts, PartialFacts, CountedEmpty DEF RunInv, Sane, Fits
<1>8. DurableInv'
  BY <1>1, NotRunningFacts, DurableKept
<1>. QED  BY <1>1, <1>4, <1>5, <1>6, <1>7, <1>8, NotRunningFacts, StepInv

-----------------------------------------------------------------------------
(* The whole system.                                                       *)

LEMMA StartInv ==
  ASSUME BatchInv, NEW w \in Runners, NEW resume \in BOOLEAN, Start(w, resume)
  PROVE  BatchInv'
<1> DEFINE loaded == IF resume /\ checkpoint.readable THEN checkpoint.done ELSE << >>
           others == {v \in Runners : Running(v)}
           only == others = {}
           s == Started(data, resume, loaded, only)
           r(v) == [run[v] EXCEPT !.alone = @ /\ ~Running(v)]
<1>1. /\ ~Running(w) /\ run' = [v \in Runners |-> IF v = w THEN s ELSE r(v)]
      /\ durable' = IF resume /\ checkpoint.readable /\ only THEN durable ELSE {}
      /\ UNCHANGED <<data, checkpoint, lines, sessions, edited, lost>>
  BY DEF Start, Started
<1>2. loaded \in Partial /\ data \in Seq(Prompts) /\ only \in BOOLEAN
  BY PartialFacts DEF BatchInv, Types
<1>3. /\ s \in Runs /\ s.items = data /\ s.completed = loaded
      /\ s.count = Counted(Len(data), loaded) /\ s.alone = only
      /\ \/ s.step = "report" /\ Todo(s) = {}
         \/ s.step = "chat" /\ s.index \in Todo(s)
  <2> HIDE DEF loaded, only
  <2>1. /\ s \in Runs /\ s.items = data /\ s.completed = loaded
        /\ s.count = Counted(Len(data), loaded)
    BY <1>2, StartedFacts
  <2>2. s.alone = only
    BY <1>2, StartedFacts
  <2>3. \/ s.step = "report" /\ Todo(s) = {}
        \/ s.step = "chat" /\ s.index \in Todo(s)
    BY <1>2, StartedFacts
  <2>. QED  BY <2>1, <2>2, <2>3
<1>4. Types' /\ LinesInv' /\ Grows /\ Listed' = Listed /\ CheckpointInv'
  BY <1>1 DEF BatchInv, Types, LinesInv, Grows, Listed, CheckpointInv
<1>5. RunInv(s, sessions', Listed', lost', data', edited')
  <2>1. Sane(loaded, sessions, Listed, lost) /\ (~edited => Fits(loaded, data))
    BY PartialFacts DEF BatchInv, CheckpointInv, Sane, Fits
  <2> HIDE DEF s, loaded
  <2>. QED  BY <1>1, <1>3, <1>4, <2>1 DEF RunInv
<1> HIDE DEF s
<1>6. ASSUME NEW v \in Runners
      PROVE  /\ r(v) \in Runs /\ r(v).step = run[v].step
             /\ RunInv(r(v), sessions', Listed', lost', data', edited')
  <2>1. run[v] \in Runs
    BY DEF BatchInv
  <2> DEFINE b == run[v].alone /\ ~Running(v)
             q == [run[v] EXCEPT !.alone = b]
  <2>2. b \in BOOLEAN /\ r(v) = q
    OBVIOUS
  <2> HIDE DEF b
  <2>3. /\ q \in Runs /\ q.step = run[v].step /\ q.items = run[v].items
        /\ q.completed = run[v].completed /\ q.count = run[v].count
        /\ q.result = run[v].result /\ q.index = run[v].index
    BY <2>1, <2>2 DEF Runs
  <2> HIDE DEF q
  <2>4. Todo(q) = Todo(run[v])
    BY <2>3 DEF Todo
  <2>5. RunInv(run[v], sessions', Listed', lost', data', edited')
    BY <1>4, RunKept DEF BatchInv
  <2>6. RunInv(q, sessions', Listed', lost', data', edited')
    BY <2>3, <2>4, <2>5 DEF RunInv
  <2>. QED  BY <2>2, <2>3, <2>6
<1>7. \A v \in Runners : Running(v) => ~r(v).alone
  <2> SUFFICES ASSUME NEW v \in Runners, Running(v) PROVE ~r(v).alone
    OBVIOUS
  <2>1. run[v] \in Runs
    BY DEF BatchInv
  <2>2. r(v) = [run[v] EXCEPT !.alone = FALSE]
    OBVIOUS
  <2>. QED  BY <2>1, <2>2 DEF Runs
<1> HIDE DEF r
<1>8. run' \in [Runners -> Runs] /\ run'[w] = s /\ \A v \in Runners : v # w => run'[v] = r(v)
  BY <1>1, <1>3, <1>6
<1>9. ASSUME NEW v \in Runners, Running(v)', v # w
      PROVE  v \in others /\ Running(v) /\ ~run'[v].alone
  <2>1. Running(v)
    BY <1>6, <1>8, <1>9 DEF Running
  <2>. QED  BY <1>7, <1>8, <1>9, <2>1
<1>10. DurableInv'
  <2>1. checkpoint'.readable => durable' \subseteq DOMAIN checkpoint'.done
    BY <1>1 DEF BatchInv, DurableInv
  <2>2. ASSUME NEW v \in Runners, Running(v)', durable' # {}
        PROVE  run'[v].alone /\ durable' \subseteq DOMAIN run'[v].completed
    <3>1. resume /\ checkpoint.readable /\ only /\ durable' = durable
      BY <1>1, <2>2
    <3>2. v = w
      BY <1>9, <2>2, <3>1
    <3>3. durable' \subseteq DOMAIN loaded
      BY <3>1 DEF BatchInv, DurableInv
    <3>. QED  BY <1>3, <1>8, <3>1, <3>2, <3>3
  <2>3. ASSUME NEW u \in Runners, NEW v \in Runners, Running(u)', run'[u].alone, Running(v)'
        PROVE  v = u
    <3>1. u = w
      BY <1>9, <2>3
    <3>2. only
      BY <1>3, <1>8, <2>3, <3>1
    <3>. QED  BY <1>9, <2>3, <3>1, <3>2
  <2>. QED  BY <2>1, <2>2, <2>3 DEF DurableInv
<1>11. \A v \in Runners : RunInv(run'[v], sessions', Listed', lost', data', edited')
  BY <1>5, <1>6, <1>8
<1>. QED  BY <1>4, <1>8, <1>10, <1>11 DEF BatchInv

LEMMA EditInv ==
  ASSUME BatchInv, NEW d \in Edits, Edit(d)
  PROVE  BatchInv'
<1>1. /\ data' = d /\ edited' = TRUE
      /\ UNCHANGED <<checkpoint, lines, run, sessions, durable, lost>>
  BY DEF Edit
<1>2. Types' /\ Grows /\ Listed' = Listed
  BY <1>1, BatchAssumption DEF BatchInv, Types, Grows, Listed, BatchAssumption
<1>3. LinesInv' /\ CheckpointInv'
  BY <1>1, <1>2 DEF BatchInv, LinesInv, CheckpointInv
<1>4. DurableInv'
  BY <1>1 DEF BatchInv, DurableInv, Running
<1>5. \A w \in Runners : RunInv(run'[w], sessions', Listed', lost', data', edited')
  BY <1>1, <1>2, RunKept DEF BatchInv
<1>. QED  BY <1>1, <1>2, <1>3, <1>4, <1>5 DEF BatchInv

LEMMA BatchNext == BatchInv /\ [Next]_vars => BatchInv'
<1> SUFFICES ASSUME BatchInv, [Next]_vars PROVE BatchInv'
  OBVIOUS
<1>1. CASE UNCHANGED vars
  <2>1. /\ UNCHANGED <<data, checkpoint, lines, run, sessions, durable, edited, lost>>
        /\ Listed' = Listed
    BY <1>1 DEF vars, Listed
  <2>2. Types' /\ LinesInv' /\ CheckpointInv' /\ DurableInv'
    BY <2>1 DEF BatchInv, Types, LinesInv, CheckpointInv, DurableInv, Running
  <2>. QED  BY <2>1, <2>2 DEF BatchInv
<1>2. ASSUME NEW w \in Runners, Handle(w)
      PROVE  BatchInv'
  BY <1>2, ChatFailsInv, ChatInv, SaveInv, OpenInv, WriteInv, CheckpointFailsInv, EndInv DEF Handle
<1>3. ASSUME NEW w \in Runners, Crash(w)
      PROVE  BatchInv'
  BY <1>3, EndInv
<1>4. ASSUME NEW w \in Runners, NEW resume \in BOOLEAN, Start(w, resume)
      PROVE  BatchInv'
  BY <1>4, StartInv
<1>5. ASSUME NEW d \in Edits, Edit(d)
      PROVE  BatchInv'
  BY <1>5, EditInv
<1>. QED  BY <1>1, <1>2, <1>3, <1>4, <1>5 DEF Next

LEMMA BatchInvariance == Spec => []BatchInv
<1>1. Init => BatchInv
  <2> SUFFICES ASSUME Init PROVE BatchInv
    OBVIOUS
  <2>1. /\ data = Dataset /\ checkpoint = Missing /\ lines = << >>
        /\ run = [w \in Runners |-> NotRunning]
        /\ sessions = << >> /\ durable = {} /\ edited = FALSE /\ lost = {}
    BY DEF Init
  <2>2. Missing \in [readable : BOOLEAN, done : Partial] /\ Missing.done = << >>
    BY PartialFacts DEF Missing
  <2>3. Types
    <3>1. data \in Seq(Prompts) /\ lines \in Seq(Lines) /\ sessions \in Seq(Prompts)
      BY <2>1, BatchAssumption DEF BatchAssumption
    <3>2. checkpoint \in [readable : BOOLEAN, done : Partial]
      BY <2>1, <2>2
    <3>. QED  BY <2>1, <3>1, <3>2 DEF Types
  <2>4. run \in [Runners -> Runs] /\ \A w \in Runners : run[w] = NotRunning
    BY <2>1, NotRunningFacts
  <2>5. LinesInv /\ CheckpointInv
    BY <2>1, <2>2, PartialFacts DEF LinesInv, CheckpointInv, Sane, Fits
  <2>6. DurableInv
    BY <2>1, <2>4, NotRunningFacts DEF DurableInv, Running
  <2>7. RunInv(NotRunning, sessions, Listed, lost, data, edited)
    BY NotRunningFacts, PartialFacts, CountedEmpty DEF RunInv, Sane, Fits
  <2>. QED  BY <2>3, <2>4, <2>5, <2>6, <2>7 DEF BatchInv
<1>. QED  BY <1>1, BatchNext, PTL DEF Spec

\* The report of a run accounts for every item of its dataset once, for
\* datasets of any length, with results taken over from any runs before it,
\* unless the dataset was edited (runner.go Run, Summary).
THEOREM ReportAlwaysAddsUp == Spec => []ReportAddsUp
<1>1. BatchInv => ReportAddsUp
  <2> SUFFICES ASSUME BatchInv, NEW w \in Runners, At(w, "report"), ~edited
               PROVE  LET r == run[w] IN
                      /\ DOMAIN r.completed = DOMAIN r.items
                      /\ r.count.succeeded + r.count.failed = Len(r.items)
                      /\ r.count.succeeded =
                           Quantify(DOMAIN r.completed, LAMBDA i : r.completed[i].ok)
                      /\ r.count.trajectories =
                           Quantify(DOMAIN r.completed, LAMBDA i : r.completed[i].trajectory # 0)
                      /\ \A i \in DOMAIN r.items : r.completed[i].prompt = r.items[i]
    BY DEF ReportAddsUp
  <2> DEFINE r == run[w]
             f == r.completed
  <2>1. r \in Runs /\ RunInv(r, sessions, Listed, lost, data, edited) /\ r.step = "report"
    BY DEF BatchInv, At
  <2>2. f \in Partial /\ r.items \in Seq(Prompts) /\ Len(r.items) \in Nat
    BY <2>1 DEF Runs
  <2>3. /\ Todo(r) = {} /\ Fits(f, r.items) /\ Sane(f, sessions, Listed, lost)
        /\ r.count = Counted(Len(r.items), f)
    BY <2>1 DEF RunInv
  <2>4. DOMAIN f = DOMAIN r.items /\ \A i \in DOMAIN r.items : f[i].prompt = r.items[i]
    BY <2>3 DEF Todo, Fits
  <2>5. Cardinality(DOMAIN f) = Len(r.items)
    <3>1. DOMAIN f = 1..Len(r.items)
      BY <2>2, <2>4
    <3>2. Cardinality(1..Len(r.items)) = Len(r.items)
      BY <2>2, FS_Interval
    <3>. QED  BY <3>1, <3>2
  <2>6. /\ r.count.succeeded + r.count.failed = Cardinality(DOMAIN f)
        /\ r.count.succeeded = Quantify(DOMAIN f, LAMBDA i : f[i].ok)
    BY <2>2, <2>3, CountedFacts
  <2>7. {i \in DOMAIN f : f[i].ok /\ f[i].trajectory # 0} = {i \in DOMAIN f : f[i].trajectory # 0}
    BY <2>3 DEF Sane
  <2>8. r.count.trajectories = Quantify(DOMAIN f, LAMBDA i : f[i].trajectory # 0)
    <3>1. Counted(Len(r.items), f).trajectories =
            Quantify(DOMAIN f, LAMBDA i : f[i].ok /\ f[i].trajectory # 0)
      BY DEF Counted
    <3> HIDE DEF f
    <3>2. Quantify(DOMAIN f, LAMBDA i : f[i].ok /\ f[i].trajectory # 0) =
            Quantify(DOMAIN f, LAMBDA i : f[i].trajectory # 0)
      BY <2>7 DEF Quantify
    <3>. QED  BY <2>3, <3>1, <3>2
  <2>. QED  BY <2>4, <2>5, <2>6, <2>8
<1>. QED  BY <1>1, BatchInvariance, PTL

\* Every trajectory a result names is that of a session of its prompt and can
\* be listed, unless its line went into one that was cut off (manager.go Save,
\* ListFiltered), for any number of processes that append to the file.
THEOREM TrajectoriesAlwaysListed == Spec => []TrajectoriesListed
<1>1. BatchInv => TrajectoriesListed
  BY DEF BatchInv, RunInv, Sane, TrajectoriesListed
<1>. QED  BY <1>1, BatchInvariance, PTL

\* A resumed run does not chat again what a checkpoint holds that is neither
\* shared nor cut off (runner.go Run, LoadCheckpoint).
THEOREM DoneAlwaysSkipped == Spec => ResumeSkipsDone
<1>1. BatchInv' => [\A w \in Runners :
        At(w, "chat")' /\ run[w]' # run[w] /\ run'[w].resume => run'[w].index \notin durable']_vars
  <2> SUFFICES ASSUME BatchInv', NEW w \in Runners, At(w, "chat")' PROVE run'[w].index \notin durable'
    OBVIOUS
  <2>1. run'[w].index \notin DOMAIN run'[w].completed
    BY DEF BatchInv, RunInv, Todo, At
  <2>2. durable' # {} => durable' \subseteq DOMAIN run'[w].completed
    BY DEF BatchInv, DurableInv, Running, At
  <2>. QED  BY <2>1, <2>2
<1>. QED  BY <1>1, BatchInvariance, PTL DEF ResumeSkipsDone
=============================================================================
