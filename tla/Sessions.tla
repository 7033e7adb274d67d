------------------------------ MODULE Sessions ------------------------------
(***************************************************************************)
(* The turn log of chat sessions (app.go chatDetailed, the message rows of *)
(* store/sqlite.go) as interactive consoles use it (hermesctl chat):       *)
(* plain text is a chat turn, /new and /login start afresh, /resume binds  *)
(* the console to a stored session, /undo and /retry roll the last turn    *)
(* back.  A console executes one line at a time; several consoles of one   *)
(* user share the database, and each store call is one step.               *)
(*                                                                         *)
(* A turn is numbered when its text is entered; the texts themselves, the  *)
(* model, and the prompt half of a session's snapshot are left out.        *)
(***************************************************************************)
EXTENDS Integers, Sequences, SequencesExt

CONSTANTS
  Consoles,
  MaxTurns,      \* bound: chat calls
  MaxSessions    \* bound: chat sessions

ASSUME SessionsAssumption == MaxTurns \in Nat /\ MaxSessions \in Nat

Ids == 1..MaxSessions
None == 0

VARIABLES
  rows,      \* per session: its message rows, in the order of their ids
  answer,    \* per session: the turn whose response the session row shows
  created,   \* sessions that exist: 1..created
  asked,     \* turns so far
  turns,     \* per console: the turns it remembers
  active, owned,  \* per console: activeSessionID, activeSessionManaged
  shown,     \* per console: the session of lastChat
  pc, job    \* per console: the chat call in progress

\* Observations: who created a session and still runs, who has ever used it,
\* and which turns were reported as failed (or died with their console).
VARIABLES creator, visitors, failed

store == <<rows, answer, created>>
console == <<turns, active, owned, shown>>
observed == <<creator, visitors, failed>>
vars == <<store, asked, console, pc, job, observed>>

NoJob == [kind |-> "none", session |-> None, turn |-> 0]

Init ==
  /\ rows = [s \in Ids |-> << >>]
  /\ answer = [s \in Ids |-> 0]
  /\ created = 0 /\ asked = 0
  /\ turns = [c \in Consoles |-> << >>]
  /\ active = [c \in Consoles |-> None]
  /\ owned = [c \in Consoles |-> FALSE]
  /\ shown = [c \in Consoles |-> None]
  /\ pc = [c \in Consoles |-> "idle"]
  /\ job = [c \in Consoles |-> NoJob]
  /\ creator = [s \in Ids |-> "none"]
  /\ visitors = [s \in Ids |-> {}]
  /\ failed = {}

-----------------------------------------------------------------------------
(* One chat call, chatDetailed.                                            *)

\* The prompt is built from the stored history and sent to the model.
Ask(c, kind, session) ==
  /\ asked < MaxTurns
  /\ asked' = asked + 1
  /\ job' = [job EXCEPT ![c] = [kind |-> kind, session |-> session, turn |-> asked + 1]]
  /\ pc' = [pc EXCEPT ![c] = "asking"]

\* A line of plain text.
Say(c) ==
  /\ pc[c] = "idle"
  /\ Ask(c, "chat", active[c])
  /\ UNCHANGED <<store, console, observed>>

\* The answer is there: a new session row, or a new snapshot of the active one.
Create(c) ==
  /\ pc[c] = "asking" /\ job[c].session = None
  /\ created < MaxSessions
  /\ created' = created + 1
  /\ answer' = [answer EXCEPT ![created + 1] = job[c].turn]
  /\ job' = [job EXCEPT ![c].session = created + 1]
  /\ pc' = [pc EXCEPT ![c] = "user"]
  /\ creator' = [creator EXCEPT ![created + 1] = c]
  /\ visitors' = [visitors EXCEPT ![created + 1] = {c}]
  /\ UNCHANGED <<rows, asked, console, failed>>

UpdateResponse(c) ==
  /\ pc[c] = "asking" /\ job[c].session # None
  /\ answer' = [answer EXCEPT ![job[c].session] = job[c].turn]
  /\ pc' = [pc EXCEPT ![c] = "user"]
  /\ UNCHANGED <<rows, created, asked, console, job, observed>>

AddMessage(c, role) ==
  rows' = [rows EXCEPT ![job[c].session] = Append(@, [role |-> role, turn |-> job[c].turn])]

\* What the console remembers of a turn; `managed' is its permission to roll
\* the turn back.
Managed(c) == job[c].kind = "retry" \/ active[c] = None \/ owned[c]

Recorded(c) ==
  turns' = [turns EXCEPT ![c] =
    Append(@, [session |-> job[c].session, turn |-> job[c].turn, managed |-> Managed(c)])]

\* Variant, not the code: the turn is remembered when its first row is written.
RecordsEarly(c) ==
  /\ pc[c] = "user"
  /\ AddMessage(c, "user")
  /\ Recorded(c)
  /\ pc' = [pc EXCEPT ![c] = "assistant"]
  /\ UNCHANGED <<answer, created, asked, active, owned, shown, job, observed>>

AddUser(c) ==
  /\ pc[c] = "user"
  /\ AddMessage(c, "user")
  /\ pc' = [pc EXCEPT ![c] = "assistant"]
  /\ UNCHANGED <<answer, created, asked, console, job, observed>>

\* The second row completes the turn; the console records it and stays in
\* the session it has created.
AddAssistant(c) ==
  /\ pc[c] = "assistant"
  /\ AddMessage(c, "assistant")
  /\ Recorded(c)
  /\ shown' = [shown EXCEPT ![c] = job[c].session]
  /\ IF job[c].kind = "chat" /\ active[c] = None
       THEN /\ active' = [active EXCEPT ![c] = job[c].session]
            /\ owned' = [owned EXCEPT ![c] = TRUE]
       ELSE UNCHANGED <<active, owned>>
  /\ pc' = [pc EXCEPT ![c] = "idle"]
  /\ job' = [job EXCEPT ![c] = NoJob]
  /\ UNCHANGED <<answer, created, asked, observed>>

\* The prompt, the model or any store call fails: the rows written stay, the
\* console remembers nothing.
ChatFails(c) ==
  /\ pc[c] # "idle"
  /\ failed' = failed \union {job[c].turn}
  /\ pc' = [pc EXCEPT ![c] = "idle"]
  /\ job' = [job EXCEPT ![c] = NoJob]
  /\ UNCHANGED <<store, asked, console, creator, visitors>>

-----------------------------------------------------------------------------
(* Rolling back, DeleteLastTurn: one transaction.                          *)

IsLastTurn(s) ==
  LET n == Len(rows[s]) IN
  n >= 2 /\ rows[s][n].role = "assistant" /\ rows[s][n - 1].role = "user"

\* The rows of a log that hold answers, and the one with the greatest id.
Given(log) == {k \in DOMAIN log : log[k].role = "assistant"}

LastAnswer(log) == IF Given(log) = {} THEN 0 ELSE log[Max(Given(log))].turn

\* Variant, not the code: the session row keeps the response of the deleted turn.
KeepsSnapshot(s) ==
  /\ IsLastTurn(s)
  /\ rows' = [rows EXCEPT ![s] = SubSeq(@, 1, Len(@) - 2)]
  /\ UNCHANGED <<answer, created>>

\* Variant, not the code: the rows are selected in ascending order.
DeletesOldest(s) ==
  /\ IsLastTurn(s)
  /\ rows' = [rows EXCEPT ![s] = SubSeq(@, 3, Len(@))]
  /\ answer' = [answer EXCEPT ![s] = LastAnswer(rows'[s])]
  /\ UNCHANGED created

DeleteLastTurn(s) ==
  /\ IsLastTurn(s)
  /\ rows' = [rows EXCEPT ![s] = SubSeq(@, 1, Len(@) - 2)]
  /\ answer' = [answer EXCEPT ![s] = LastAnswer(rows'[s])]
  /\ UNCHANGED created

\* The last remembered turn, when the console may roll it back.
MayRollBack(c) == pc[c] = "idle" /\ turns[c] # << >> /\ Last(turns[c]).managed

Forget(c) == turns' = [turns EXCEPT ![c] = Front(@)]

\* /undo reads the session again to show it; `ok' is whether that succeeds.
Undo(c) ==
  LET s == Last(turns[c]).session
      rest == Front(turns[c])
      before == IF rest = << >> THEN None ELSE Last(rest).session
  IN  /\ MayRollBack(c)
      /\ DeleteLastTurn(s)
      /\ Forget(c)
      /\ \E ok \in BOOLEAN :
           IF ok /\ (rest = << >> \/ active[c] = s)
             THEN /\ shown' = [shown EXCEPT ![c] = s]
                  /\ active' = [active EXCEPT ![c] = s]
                  /\ owned' = [owned EXCEPT ![c] = TRUE]
             ELSE /\ shown' = [shown EXCEPT ![c] = before]
                  /\ IF rest = << >>
                       THEN /\ active' = [active EXCEPT ![c] = None]
                            /\ owned' = [owned EXCEPT ![c] = FALSE]
                       ELSE UNCHANGED <<active, owned>>
      /\ UNCHANGED <<asked, pc, job, observed>>

\* /retry deletes the turn and asks again; a failing call leaves it deleted.
Retry(c) ==
  /\ MayRollBack(c)
  /\ DeleteLastTurn(Last(turns[c]).session)
  /\ Forget(c)
  /\ Ask(c, "retry", Last(turns[c]).session)
  /\ UNCHANGED <<active, owned, shown, observed>>

-----------------------------------------------------------------------------
(* Changing the session, and the end of a console.                         *)

Fresh(c, s) ==
  /\ turns' = [turns EXCEPT ![c] = << >>]
  /\ active' = [active EXCEPT ![c] = s]
  /\ owned' = [owned EXCEPT ![c] = FALSE]
  /\ shown' = [shown EXCEPT ![c] = s]

\* /new, /clear and a successful /login.
ResetTurnState(c) ==
  /\ pc[c] = "idle"
  /\ Fresh(c, None)
  /\ UNCHANGED <<store, asked, pc, job, observed>>

\* Variant, not the code: a resumed session may be rolled back.
ResumesManaged(c, s) ==
  /\ pc[c] = "idle" /\ s \in 1..created
  /\ turns' = [turns EXCEPT ![c] = << >>]
  /\ active' = [active EXCEPT ![c] = s]
  /\ owned' = [owned EXCEPT ![c] = TRUE]
  /\ shown' = [shown EXCEPT ![c] = s]
  /\ visitors' = [visitors EXCEPT ![s] = @ \union {c}]
  /\ UNCHANGED <<store, asked, pc, job, creator, failed>>

\* /resume, of the latest session or of the one named.
Resume(c, s) ==
  /\ pc[c] = "idle" /\ s \in 1..created
  /\ Fresh(c, s)
  /\ visitors' = [visitors EXCEPT ![s] = @ \union {c}]
  /\ UNCHANGED <<store, asked, pc, job, creator, failed>>

\* The console exits or is killed, and is started again.
Restart(c) ==
  /\ Fresh(c, None)
  /\ pc' = [pc EXCEPT ![c] = "idle"]
  /\ job' = [job EXCEPT ![c] = NoJob]
  /\ creator' = [s \in Ids |-> IF creator[s] = c THEN "none" ELSE creator[s]]
  /\ failed' = IF pc[c] = "idle" THEN failed ELSE failed \union {job[c].turn}
  /\ UNCHANGED <<store, asked, visitors>>

Chat(c) ==
  Say(c) \/ Create(c) \/ UpdateResponse(c) \/ AddUser(c) \/ AddAssistant(c) \/ ChatFails(c)

Command(c) ==
  \/ Undo(c) \/ Retry(c) \/ ResetTurnState(c) \/ Restart(c)
  \/ \E s \in Ids : Resume(c, s)

Next == \E c \in Consoles : Chat(c) \/ Command(c)

Spec == Init /\ [][Next]_vars

-----------------------------------------------------------------------------
(* Properties.                                                             *)

MessageRows == [role : {"user", "assistant"}, turn : 1..MaxTurns]
Remembered == [session : Ids, turn : 1..MaxTurns, managed : BOOLEAN]

\* Types of the variables.
TypeOK ==
  /\ rows \in [Ids -> Seq(MessageRows)]
  /\ answer \in [Ids -> 0..MaxTurns]
  /\ created \in 0..MaxSessions /\ asked \in 0..MaxTurns
  /\ turns \in [Consoles -> Seq(Remembered)]
  /\ active \in [Consoles -> 0..created] /\ shown \in [Consoles -> 0..created]
  /\ owned \in [Consoles -> BOOLEAN]
  /\ pc \in [Consoles -> {"idle", "asking", "user", "assistant"}]
  /\ job \in [Consoles -> [kind : {"none", "chat", "retry"}, session : 0..MaxSessions, turn : 0..MaxTurns]]
  /\ creator \in [Ids -> Consoles \union {"none"}]
  /\ visitors \in [Ids -> SUBSET Consoles]
  /\ failed \subseteq 1..MaxTurns

\* Used by one console only, which is not writing to it now.
Quiet(s) ==
  /\ \A c, d \in visitors[s] : c = d
  /\ \A c \in Consoles : job[c].session # s

\* The remembered turns are, one by one and in order, those whose answers the
\* log holds; all of them, or the last ones.
Recalls(seen, log, all) ==
  \E f \in [DOMAIN seen -> Given(log)] :
    /\ \A j, k \in DOMAIN seen : j < k => f[j] < f[k]
    /\ \A k \in DOMAIN seen : log[f[k]].turn = seen[k].turn
    /\ \A g \in Given(log) :
         g \in Range(f) \/ (~all /\ \A k \in DOMAIN seen : g < f[k])

\* A console and the session it works in agree: the turns it remembers are the
\* last ones of the log, and all of them when it has created the session.  So
\* what /undo and /retry delete is what the user saw last, through failed
\* calls, half-written turns and rolled back ones.
ConsoleMatchesLog ==
  \A c \in Consoles : active[c] # None /\ Quiet(active[c]) =>
    Recalls(turns[c], rows[active[c]], owned[c])

\* In a session of one console an answer directly follows its own question,
\* so that a history window never pairs an answer with another prompt.
AnswersFollowQuestions ==
  \A s \in Ids : Quiet(s) =>
    \A k \in DOMAIN rows[s] : rows[s][k].role = "assistant" =>
      k > 1 /\ rows[s][k - 1] = [role |-> "user", turn |-> rows[s][k].turn]

\* The response a session row shows is the last one of its transcript, or one
\* whose recording failed; never that of a turn rolled back
\* (DeleteLastTurn "refreshes the session snapshot").
SnapshotCurrent ==
  \A s \in 1..created : Quiet(s) =>
    answer[s] = LastAnswer(rows[s]) \/ answer[s] \in failed

\* "Undo/retry remain limited to sessions created in this console"
\* (console.go:609), whatever other consoles do with them in the meantime.
RollsBackOwnSessions ==
  [][\A c \in Consoles : Undo(c) \/ Retry(c) => creator[Last(turns[c]).session] = c]_vars
=============================================================================
