------------------------------ MODULE Prompts ------------------------------
(***************************************************************************)
(* Prompt plans: prompting.Builder with its cache, the context compressor  *)
(* and the turns and inspections of app.go that ask for plans, for one     *)
(* user.  The messages and the context summary of the user are rows the    *)
(* processes share; every process has a cache and a model of its own.      *)
(*                                                                         *)
(* A message is its id, and a history, which the code keeps in the order   *)
(* of the ids, the set of its messages; the summary is the set of messages *)
(* it was made from: its wording, the shortening of lines and of the       *)
(* summary before it and the model that may write it are left out.  A plan *)
(* counts messages and blocks where the code counts characters.  All       *)
(* requests ask the same prompt, and every note of Memory is relevant.     *)
(***************************************************************************)
EXTENDS Naturals, FiniteSets, SequencesExt

CONSTANTS
  Workers,       \* goroutines of chat turns and inspections
  Writers,       \* goroutines that change the notes
  Procs, ProcOf, \* the process of each of them
  Models, Configured,  \* model profiles, the one the configuration names
  Window,        \* history_window_messages
  Threshold,     \* compress_threshold_messages
  Keep,          \* protect_last_messages
  Budget,        \* max_prompt_chars, in messages and blocks
  Texts, Noted, Changes, Limit, RecallLimit,
  MaxAsks, MaxEvents  \* bounds; an event is a change of the notes, a crash,
                      \* a switch of the model or a cache entry that goes

VARIABLES file, write, kept

Mem == INSTANCE Memory

ASSUME PromptsAssumption ==
  /\ ProcOf \in [Workers \union Writers -> Procs]
  /\ Mem!MemoryAssumption
  /\ Configured \in Models
  /\ {Window, Threshold, Keep, Budget} \subseteq Nat \ {0}
  /\ Threshold + 2 <= Window /\ Keep + 2 <= Window

VARIABLES
  log,           \* messages by id: the session of each
  sessions,      \* number of sessions
  summary,       \* context_summaries: the messages folded into it
  cache,         \* per process: plans by key
  model,         \* per process: the active model
  build,         \* per worker: its turn or inspection
  overlapped,    \* two requests that may write the summary have overlapped
  asks, events

notes  == <<file, write, kept>>
rows   == <<log, sessions, summary>>
bounds == <<asks, events>>
vars   == <<notes, rows, cache, model, build, overlapped, bounds>>

NoSession == 0
NoPlan    == [memory |-> <<>>, summary |-> {}, history |-> {}, model |-> "none"]

NoBuild ==
  [op |-> "none", step |-> "none", session |-> NoSession, model |-> "none", recalled |-> <<>>,
   stored |-> {}, history |-> {}, folded |-> {}, plan |-> NoPlan]

Init ==
  /\ Mem!Init
  /\ log = <<>> /\ sessions = 0 /\ summary = {}
  /\ cache = [p \in Procs |-> {}]
  /\ model = [p \in Procs |-> Configured]
  /\ build = [w \in Workers |-> NoBuild]
  /\ overlapped = FALSE
  /\ asks = 0 /\ events = 0

-----------------------------------------------------------------------------
P(w)           == ProcOf[w]
At(w, step)    == build[w].step = step
Set(w, b)      == build' = [build EXCEPT ![w] = b]
Active(w)      == build[w].op # "none"
Newer(i, ids)    == {j \in ids : i < j}
LastOf(n, ids)   == {i \in ids : Cardinality(Newer(i, ids)) < n}

\* The messages of a session, or all of the user's.
Messages(session) == {i \in DOMAIN log : session = NoSession \/ log[i] = session}

\* ListRecentMessagesBySession, ListRecentMessagesByUsername.
Recent(session) == LastOf(Window, Messages(session))

\* Compress: above the threshold all but the last messages are folded.
Folds(history) == Cardinality(history) > Threshold
Kept(history)  == IF Folds(history) THEN LastOf(Keep, history) ELSE history

\* Variant, not the code: the message next to the kept ones is folded by none.
SkipsOne(history) ==
  IF Folds(history) THEN history \ LastOf(Keep + 1, history) ELSE {}

Folded(history) == history \ Kept(history)

Blocks(memory, sum) == (IF memory = <<>> THEN 0 ELSE 1) + (IF sum = {} THEN 0 ELSE 1)

\* trimHistoryToBudget: the prompt counts one, the oldest messages go first.
Trimmed(memory, sum, history) ==
  LET used == 1 + Blocks(memory, sum) IN
  LastOf(IF used < Budget THEN Budget - used ELSE 0, history)

\* What Build assembles from what it has read.
Assembled(b) ==
  [memory |-> b.recalled, summary |-> b.stored \union b.folded,
   history |-> Trimmed(b.recalled, b.stored \union b.folded, b.history), model |-> b.model]

\* Variant, not the code: the notes are left out of the key.
KeyWithoutNotes(b) == <<b.session, b.model, b.stored \union b.folded, b.history>>

\* buildCacheKey.
Key(b) == <<b.session, b.model, b.recalled, b.stored \union b.folded, b.history>>

-----------------------------------------------------------------------------
(* Build, once per turn and per inspection.                                *)

\* chatDetailed and InspectPrompt take the model and the limits under a.mu.
Ask(w, op, session) ==
  /\ ~Active(w) /\ asks < MaxAsks
  /\ op = "inspect" => session = NoSession
  /\ asks' = asks + 1
  /\ Set(w, [NoBuild EXCEPT !.op = op, !.step = "memory", !.session = session, !.model = model[P(w)]])
  /\ overlapped' = (overlapped \/ \E v \in Workers : Active(v))
  /\ UNCHANGED <<notes, rows, cache, model, events>>

Prefetch(w) ==
  /\ At(w, "memory")
  /\ Set(w, [build[w] EXCEPT !.recalled = Mem!Recall, !.step = "summary"])
  /\ UNCHANGED <<notes, rows, cache, model, overlapped, bounds>>

GetSummary(w) ==
  /\ At(w, "summary")
  /\ Set(w, [build[w] EXCEPT !.stored = summary, !.step = "recent"])
  /\ UNCHANGED <<notes, rows, cache, model, overlapped, bounds>>

ListRecent(w) ==
  LET recent == Recent(build[w].session) IN
  /\ At(w, "recent")
  /\ Set(w, [build[w] EXCEPT !.history = Kept(recent), !.folded = Folded(recent),
                             !.step = IF Folds(recent) THEN "persist" ELSE "plan"])
  /\ UNCHANGED <<notes, rows, cache, model, overlapped, bounds>>

\* A read fails.
ReadFails(w) ==
  /\ build[w].step \in {"memory", "summary", "recent"}
  /\ Set(w, NoBuild)
  /\ UNCHANGED <<notes, rows, cache, model, overlapped, bounds>>

\* Variant, not the code: the summary starts again with each compression.
StartsAgain(w) ==
  LET b == build[w] IN
  /\ At(w, "persist")
  /\ summary' = b.folded
  /\ Set(w, [b EXCEPT !.step = "plan"])
  /\ UNCHANGED <<notes, log, sessions, cache, model, overlapped, bounds>>

\* UpsertContextSummary; the same text is not written again.
PersistSummary(w) ==
  LET b == build[w] IN
  /\ At(w, "persist")
  /\ \/ summary' = b.stored \union b.folded
     \/ b.folded \subseteq b.stored /\ UNCHANGED summary
  /\ Set(w, [b EXCEPT !.step = "plan"])
  /\ UNCHANGED <<notes, log, sessions, cache, model, overlapped, bounds>>

PersistFails(w) ==
  /\ At(w, "persist")
  /\ Set(w, NoBuild)
  /\ UNCHANGED <<notes, rows, cache, model, overlapped, bounds>>

\* The cached plan of this key, or a new one that is put there.
Plan(w) ==
  LET b == build[w]
      p == P(w)
      hits == {c \in cache[p] : c.key = Key(b)} IN
  /\ At(w, "plan")
  /\ IF hits # {} THEN UNCHANGED cache
                  ELSE cache' = [cache EXCEPT ![p] = @ \union {[key |-> Key(b), plan |-> Assembled(b)]}]
  /\ Set(w, [b EXCEPT !.step = "served",
              !.plan = IF hits # {} THEN (CHOOSE c \in hits : TRUE).plan ELSE Assembled(b)])
  /\ UNCHANGED <<notes, rows, model, overlapped, bounds>>

-----------------------------------------------------------------------------
(* What the caller does with the plan.                                     *)

\* An inspection is answered; or the model call or a store call fails.
Answered(w) ==
  /\ build[w].step \in {"served", "question", "answer"}
  /\ Set(w, NoBuild)
  /\ UNCHANGED <<notes, rows, cache, model, overlapped, bounds>>

\* The model has answered: a turn without a session creates one.
EnterSession(w) ==
  LET entered(s) == [NoBuild EXCEPT !.op = "turn", !.step = "question", !.session = s] IN
  /\ At(w, "served") /\ build[w].op = "turn"
  /\ IF build[w].session = NoSession
       THEN sessions' = sessions + 1 /\ Set(w, entered(sessions'))
       ELSE UNCHANGED sessions /\ Set(w, entered(build[w].session))
  /\ UNCHANGED <<notes, log, summary, cache, model, overlapped, bounds>>

AddMessage(w) ==
  LET b == build[w] IN
  /\ b.step \in {"question", "answer"}
  /\ log' = Append(log, b.session)
  /\ IF b.step = "question" THEN Set(w, [b EXCEPT !.step = "answer"]) ELSE Set(w, NoBuild)
  /\ UNCHANGED <<notes, sessions, summary, cache, model, overlapped, bounds>>

-----------------------------------------------------------------------------
(* Around the builds.                                                      *)

\* The memory.write tool and POST /v1/memory.
WriteNotes(m) ==
  /\ \/ events < MaxEvents /\ events' = events + 1 /\ Mem!Ask(m)
     \/ Mem!Step(m) /\ UNCHANGED events
  /\ UNCHANGED <<rows, cache, model, build, overlapped, asks>>

\* SwitchModelProfile.
Switch(p, m) ==
  /\ events < MaxEvents /\ model[p] # m
  /\ events' = events + 1
  /\ model' = [model EXCEPT ![p] = m]
  /\ UNCHANGED <<notes, rows, cache, build, overlapped, asks>>

\* An entry has outlived its time, or all are cleared.
Forget(p) ==
  /\ events < MaxEvents /\ cache[p] # {}
  /\ events' = events + 1
  /\ \/ cache' = [cache EXCEPT ![p] = {}]
     \/ \E c \in cache[p] : cache' = [cache EXCEPT ![p] = @ \ {c}]
  /\ UNCHANGED <<notes, rows, model, build, overlapped, asks>>

\* A process ends and is started again, with the model its configuration file
\* then names: a console saves its switches there, the server does not.
Crash(p) ==
  /\ events < MaxEvents
  /\ events' = events + 1
  /\ Mem!Halt({m \in Writers : P(m) = p})
  /\ build' = [w \in Workers |-> IF P(w) = p THEN NoBuild ELSE build[w]]
  /\ cache' = [cache EXCEPT ![p] = {}]
  /\ \E m \in Models : model' = [model EXCEPT ![p] = m]
  /\ UNCHANGED <<rows, overlapped, asks>>

Step(w) ==
  \/ Prefetch(w) \/ GetSummary(w) \/ ListRecent(w) \/ ReadFails(w)
  \/ PersistSummary(w) \/ PersistFails(w) \/ Plan(w)
  \/ Answered(w) \/ EnterSession(w) \/ AddMessage(w)

Next ==
  \/ \E w \in Workers : Step(w) \/ \E op \in {"turn", "inspect"} : \E s \in 0..sessions : Ask(w, op, s)
  \/ \E m \in Writers : WriteNotes(m)
  \/ \E p \in Procs : Forget(p) \/ Crash(p) \/ \E m \in Models : Switch(p, m)

Spec == Init /\ [][Next]_vars

-----------------------------------------------------------------------------
Served(w) == build[w].step = "served"

\* A plan is made of what this very build has read, wherever it comes from
\* (builder.go:116, the cached plan of the key is returned as it is).
ServedPlanCurrent == \A w \in Workers : Served(w) => build[w].plan = Assembled(build[w])

\* Whatever of a session no longer fits into its window has been folded into
\* the summary the next plan of the session shows, as long as requests of the
\* user do not overlap (compressor.go:33, builder.go:75).
NothingForgotten ==
  \A w \in Workers : LET b == build[w] IN
    Served(w) /\ b.session # NoSession /\ ~overlapped =>
      Messages(b.session) \subseteq b.history \union b.plan.summary

\* The stored summary never loses what was folded into it, unless requests
\* overlapped: it is read before the compression and written after it.
SummaryGrows == [][overlapped' \/ summary \subseteq summary']_vars

\* Notes that were acknowledged are there until a request names them.
NotesKept == Mem!AcknowledgedKept
=============================================================================
