----------------------------- MODULE Executor -----------------------------
(***************************************************************************)
(* internal/execution/executor.go: execution profiles.  A profile is a     *)
(* chain of commands; after a failing command its rollback profile runs,   *)
(* and the chain ends unless continue_on_error is set.  A command fails    *)
(* when it is not allowed, exits with an error or exceeds its time limit,  *)
(* and every command fails at once when the caller's context has ended.    *)
(* A step whose variables are missing is no failing command: it ends the   *)
(* chain, or the rollback, where it is.                                    *)
(***************************************************************************)
EXTENDS Naturals, Sequences

CONSTANTS
  Runners,        \* goroutines that run profiles
  Profiles,       \* names of configured profiles
  Length,         \* per profile: the number of its steps
  Rollback,       \* per profile: its rollback_profile, or NoProfile
  ContinueOnError,\* profiles with continue_on_error
  NeedsApproval,  \* profiles with require_approval
  NeedsToken,     \* profiles with a capability_token
  NoProfile

\* What the module that runs the profiles assumes.
ExecutorAssumption ==
  /\ Length \in [Profiles -> Nat]
  /\ Rollback \in [Profiles -> Profiles \union {NoProfile}] /\ NoProfile \notin Profiles
  /\ ContinueOnError \subseteq Profiles
  /\ NeedsApproval \subseteq Profiles /\ NeedsToken \subseteq Profiles

VARIABLE run

Outcomes == {"ok", "failed", "unrendered"}
Events   == [kind : {"step", "undo"}, at : Nat \ {0}, outcome : Outcomes]

\* at, undoAt: the next step of the chain, of its rollback; gone: the
\* caller's context has ended; log: what has been run, in order.
Runs == [phase : {"idle", "steps", "undo", "ended"}, profile : Profiles \union {NoProfile},
         at : Nat \ {0}, undoAt : Nat \ {0}, gone : BOOLEAN, log : Seq(Events)]

Idle == [phase |-> "idle", profile |-> NoProfile, at |-> 1, undoAt |-> 1,
         gone |-> FALSE, log |-> <<>>]

Init == run = [w \in Runners |-> Idle]

HasRollback(p) == Rollback[p] # NoProfile
UndoLength(p)  == IF HasRollback(p) THEN Length[Rollback[p]] ELSE 0
Event(k, a, o) == [kind |-> k, at |-> a, outcome |-> o]
Active(w)      == run[w].phase \in {"steps", "undo"}

-----------------------------------------------------------------------------
Refuses(p, approved, token) ==
  \/ p \in NeedsApproval /\ ~approved
  \/ p \in NeedsToken /\ ~token

\* The step at a is next, or the chain is over.
Resumed(r, a) ==
  [r EXCEPT !.at = a, !.undoAt = 1,
     !.phase = IF a <= Length[r.profile] THEN "steps" ELSE "ended"]

\* The failing step has been dealt with.
Settle(r) ==
  IF r.profile \in ContinueOnError THEN Resumed(r, r.at + 1)
                                   ELSE [r EXCEPT !.phase = "ended"]

Begin(w, p, approved, token) ==
  /\ run[w].phase = "idle"
  /\ run' = [run EXCEPT ![w] =
       IF Refuses(p, approved, token)
         THEN [Idle EXCEPT !.phase = "ended", !.profile = p]
         ELSE Resumed([Idle EXCEPT !.profile = p], 1)]

\* Variant, not the code: a chain that goes on does not roll back.
UndoesOnlyAtEnd(w, outcome) ==
  LET r == run[w]
      l == [r EXCEPT !.log = Append(@, Event("step", r.at, outcome))] IN
  /\ r.phase = "steps"
  /\ r.gone => outcome # "ok"
  /\ run' = [run EXCEPT ![w] =
       CASE outcome = "ok"         -> Resumed(l, r.at + 1)
         [] outcome = "unrendered" -> [l EXCEPT !.phase = "ended"]
         [] OTHER -> IF UndoLength(r.profile) > 0 /\ r.profile \notin ContinueOnError
                       THEN [l EXCEPT !.phase = "undo"] ELSE Settle(l)]

\* One command of the chain.
RunStep(w, outcome) ==
  LET r == run[w]
      l == [r EXCEPT !.log = Append(@, Event("step", r.at, outcome))] IN
  /\ r.phase = "steps"
  /\ r.gone => outcome # "ok"
  /\ run' = [run EXCEPT ![w] =
       CASE outcome = "ok"         -> Resumed(l, r.at + 1)
         [] outcome = "unrendered" -> [l EXCEPT !.phase = "ended"]
         [] OTHER -> IF UndoLength(r.profile) > 0 THEN [l EXCEPT !.phase = "undo"]
                                                  ELSE Settle(l)]

\* One command of the rollback; it stops at the first that does not succeed,
\* and its own error is dropped.
RunUndo(w, outcome) ==
  LET r == run[w]
      l == [r EXCEPT !.log = Append(@, Event("undo", r.undoAt, outcome))] IN
  /\ r.phase = "undo"
  /\ r.gone => outcome # "ok"
  /\ run' = [run EXCEPT ![w] =
       IF outcome = "ok" /\ r.undoAt < UndoLength(r.profile)
         THEN [l EXCEPT !.undoAt = @ + 1] ELSE Settle(l)]

\* The caller leaves (external): its context ends.
Leave(w) ==
  /\ Active(w) /\ ~run[w].gone
  /\ run' = [run EXCEPT ![w].gone = TRUE]

Reset(w) ==
  /\ run[w].phase = "ended"
  /\ run' = [run EXCEPT ![w] = Idle]

\* The process of some runners ends.
Halt(ws) == run' = [w \in Runners |-> IF w \in ws THEN Idle ELSE run[w]]

Step(w) == \E o \in Outcomes : RunStep(w, o) \/ RunUndo(w, o)

Next ==
  \/ \E w \in Runners :
       \/ Step(w) \/ Leave(w) \/ Reset(w)
       \/ \E p \in Profiles, a, t \in BOOLEAN : Begin(w, p, a, t)
  \/ \E ws \in SUBSET Runners : Halt(ws)

Spec == Init /\ [][Next]_run

-----------------------------------------------------------------------------
TypeOK == run \in [Runners -> Runs]

\* Nothing is left to undo after this event.
Settled(p, e) ==
  IF e.kind = "step" THEN e.outcome = "failed" /\ UndoLength(p) = 0
                     ELSE e.outcome # "ok" \/ e.at = UndoLength(p)

MayFollow(p, e, f) ==
  IF f.kind = "undo"
    THEN \/ e.kind = "step" /\ e.outcome = "failed" /\ f.at = 1
         \/ e.kind = "undo" /\ e.outcome = "ok" /\ f.at = e.at + 1
    ELSE \/ e.kind = "step" /\ e.outcome = "ok" /\ f.at = e.at + 1
         \/ p \in ContinueOnError /\ Settled(p, e)

MayEnd(p, e) ==
  \/ Settled(p, e)
  \/ /\ e.kind = "step"
     /\ (e.outcome = "unrendered" \/ (e.outcome = "ok" /\ e.at = Length[p]))

\* Every failing step is followed by its whole rollback, from its first
\* command to its last or its first failing one, before anything else of the
\* chain runs and before the run ends; without continue_on_error nothing of
\* the chain follows (executor.go:109).
RollbackDiscipline ==
  \A w \in Runners : LET r == run[w] IN
    /\ \A i \in 1..(Len(r.log) - 1) : MayFollow(r.profile, r.log[i], r.log[i + 1])
    /\ r.phase = "ended" /\ r.log # <<>> => MayEnd(r.profile, r.log[Len(r.log)])
=============================================================================
