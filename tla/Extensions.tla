---------------------------- MODULE Extensions ----------------------------
(***************************************************************************)
(* internal/extensions/manager.go with internal/tools/registry.go: the     *)
(* plugins, skills and MCP servers of each process (hermesd and every      *)
(* hermesctl have a configuration, a Manager and a Registry of their own), *)
(* the manifests on disk and the rows of extension_states they share, and  *)
(* the requests that refresh, enable, disable, validate and execute.       *)
(*                                                                         *)
(* Composes McpClient (listing and calling the tools of a server) and      *)
(* Executor (the built-in tool system.exec_profile).  A process may crash; *)
(* requests of one process run concurrently when it has several workers    *)
(* (hermesd), one after the other when it has one (a console), and a       *)
(* command of hermesctl is a process that makes one request and ends.      *)
(* A manifest's hash only labels its state in the summary and is left out; *)
(* a second plugin or skill of the same name likewise.                     *)
(***************************************************************************)
EXTENDS Naturals, FiniteSets, SequencesExt

CONSTANTS
  Workers, Procs, ProcOf,  \* request goroutines and the process of each
  Commands,                \* the processes that make one request and end
  Order,                   \* plugins by name, then skills by name
  ToolOf,                  \* per extension: its tool's name, or NoTool
  Hooks,                   \* per extension and phase: number of hooks
  ServerOrder,             \* per process: its enabled MCP servers by name
  Transport, ServerTools,  \* per server: its transport, its tools by name
  Builtins, ExecProfile,   \* built-in tools, one of them system.exec_profile
  NoTool, Nobody,
  Calls,                   \* per process: tool names requests ask for
  AskedProfiles,           \* profiles requests ask for
  Profiles, Length, Rollback, ContinueOnError, NeedsApproval, NeedsToken, NoProfile,
  Edits,                   \* changes to manifests on disk, as <<extension, manifest>>
  MaxStrays, MaxAsks, MaxFaults   \* bounds; a fault is an edit or a crash

VARIABLES session, run

Mcp  == INSTANCE McpClient WITH Callers <- Workers
Exec == INSTANCE Executor WITH Runners <- Workers

Exts       == Range(Order)
Servers    == UNION {Range(ServerOrder[p]) : p \in Procs}
Names      == (Builtins \union ({ToolOf[e] : e \in Exts} \ {NoTool}))
                \union UNION {Range(ServerTools[s]) : s \in Servers}
Lifecycle  == {"validate", "on_enable", "on_disable"}

ASSUME ExtensionsAssumption ==
  /\ ProcOf \in [Workers -> Procs] /\ Commands \subseteq Procs
  /\ Order \in Seq(Exts) /\ \A s \in Servers : ServerTools[s] \in Seq(Names)
  /\ \A p \in Procs : ServerOrder[p] \in Seq(Servers)
  /\ \A s \in Servers : Transport[s] \in Mcp!Transports
  /\ Nobody \notin Procs
  /\ Hooks \in [Exts -> [Lifecycle -> Nat]]
  /\ Mcp!McpAssumption /\ Exec!ExecutorAssumption
  /\ ExecProfile \in Builtins /\ NoTool \notin Builtins
  /\ Edits \subseteq Exts \X {"on", "off", "broken", "gone"}
  /\ Calls \in [Procs -> SUBSET Names] /\ AskedProfiles \subseteq Profiles

VARIABLES
  disk,         \* per extension: its manifest
  rows,         \* extension_states
  loaded,       \* per process: Manager.plugins and Manager.skills
  served,       \* per process: Manager.mcpServers, the tools of each
  registered,   \* per process: Manager.registered
  registry,     \* per process: Registry.tools, the owner of each name
  up,           \* per process: App.New has returned
  req,          \* per worker: its request
  effect,       \* per extension: the lifecycle phase last run to its end
  drift,        \* extensions whose hooks ran without their row following
  confirmed,    \* per extension: the process that confirmed its row
  claimed,      \* per process: built-in names an extension has taken
  asks, faults

managers == <<loaded, served, registered, registry, claimed>>
history  == <<effect, drift, confirmed>>
bounds   == <<asks, faults>>
vars     == <<session, run, disk, rows, managers, up, req, history, bounds>>

NoRequest ==
  [op |-> "none", step |-> "none", arg |-> Nobody, on |-> FALSE, alone |-> TRUE, hook |-> 0,
   seen |-> [e \in Exts |-> "absent"], tools |-> [s \in Servers |-> <<>>], server |-> 1,
   todo |-> {}]

NothingLoaded == [e \in Exts |-> "absent"]
NothingServed == [s \in Servers |-> <<>>]
OnlyBuiltins  == [n \in Names |-> IF n \in Builtins THEN "builtin" ELSE "none"]

Init ==
  /\ Mcp!Init /\ Exec!Init
  /\ disk = [e \in Exts |-> "on"] /\ rows = [e \in Exts |-> "none"]
  /\ loaded = [p \in Procs |-> NothingLoaded]
  /\ served = [p \in Procs |-> NothingServed]
  /\ registered = [p \in Procs |-> {}]
  /\ registry = [p \in Procs |-> OnlyBuiltins]
  /\ claimed = [p \in Procs |-> {}]
  /\ up = [p \in Procs |-> FALSE]
  /\ req = [w \in Workers |-> NoRequest]
  /\ effect = [e \in Exts |-> "none"] /\ drift = {}
  /\ confirmed = [e \in Exts |-> Nobody]
  /\ asks = 0 /\ faults = 0

-----------------------------------------------------------------------------
(* A request: arrives at a worker, takes steps, is answered.               *)

Idle(w)      == req[w].op = "none" /\ req[w].step = "none"
At(w, step)  == req[w].step = step
P(w)         == ProcOf[w]
Set(w, r)    == req' = [req EXCEPT ![w] = r]
Goto(w, step) == Set(w, [req[w] EXCEPT !.step = step])
Answer(w)    == Set(w, IF P(w) \in Commands THEN [NoRequest EXCEPT !.step = "exit"] ELSE NoRequest)

Setting(w, e) == req[w].op = "set" /\ req[w].arg = e

Ask(w, r) ==
  /\ Idle(w) /\ up[P(w)] /\ asks < MaxAsks
  /\ asks' = asks + 1
  /\ Set(w, r)
  /\ UNCHANGED <<session, run, disk, rows, managers, up, history, faults>>

\* POST /v1/extensions/refresh, /extension-refresh, extension-refresh.
AskRefresh(w) == Ask(w, [NoRequest EXCEPT !.op = "refresh", !.step = "scan"])

\* POST /v1/extensions/validate and its console and command forms.
AskValidate(w, e) ==
  Ask(w, [NoRequest EXCEPT !.op = "validate", !.step = "validate", !.arg = e])

\* POST /v1/tools/execute and every other caller of Registry.Execute.
AskExecute(w, n) == Ask(w, [NoRequest EXCEPT !.op = "execute", !.step = "lookup", !.arg = n])

\* POST /v1/extensions/state: SetEnabled validates and runs the hooks first.
AskSet(w, e, on) ==
  LET others == {v \in Workers : Setting(v, e)}
      r == [NoRequest EXCEPT !.op = "set", !.arg = e, !.on = on, !.alone = (others = {}),
              !.step = IF on THEN "validate" ELSE "on_disable"] IN
  /\ Idle(w) /\ up[P(w)] /\ asks < MaxAsks
  /\ asks' = asks + 1
  /\ req' = [v \in Workers |-> IF v = w THEN r ELSE
                 IF v \in others THEN [req[v] EXCEPT !.alone = FALSE] ELSE req[v]]
  /\ UNCHANGED <<session, run, disk, rows, managers, up, history, faults>>

-----------------------------------------------------------------------------
(* Validate and runLifecycleHooks.                                         *)

\* The extension is not among those the process has loaded.
HookNotFound(w) ==
  /\ req[w].step \in Lifecycle /\ req[w].hook = 0
  /\ loaded[P(w)][req[w].arg] = "absent"
  /\ Answer(w)
  /\ UNCHANGED <<session, run, disk, rows, managers, up, history, bounds>>

AfterPhase(w) ==
  IF req[w].op = "validate" THEN "answer"
  ELSE IF req[w].step = "validate" THEN "on_enable" ELSE "write"

\* The next hook of the phase succeeds, or there is none left.
RunHook(w) ==
  LET r == req[w] IN
  /\ r.step \in Lifecycle
  /\ r.hook = 0 => loaded[P(w)][r.arg] # "absent"
  /\ drift' = IF r.step = "validate" THEN drift ELSE drift \union {r.arg}
  /\ IF r.hook < Hooks[r.arg][r.step]
       THEN Set(w, [r EXCEPT !.hook = @ + 1]) /\ UNCHANGED effect
       ELSE /\ Set(w, [r EXCEPT !.hook = 0, !.step = AfterPhase(w)])
            /\ effect' = IF r.step = "validate" THEN effect ELSE [effect EXCEPT ![r.arg] = r.step]
  /\ UNCHANGED <<session, run, disk, rows, managers, up, confirmed, bounds>>

\* Variant, not the code: a failing hook is recorded and no more.
WritesAnyway(w) ==
  LET r == req[w] IN
  /\ r.step \in Lifecycle /\ r.hook < Hooks[r.arg][r.step]
  /\ r.hook = 0 => loaded[P(w)][r.arg] # "absent"
  /\ drift' = IF r.step = "validate" THEN drift ELSE drift \union {r.arg}
  /\ Set(w, [r EXCEPT !.hook = 0, !.step = AfterPhase(w)])
  /\ UNCHANGED <<session, run, disk, rows, managers, up, effect, confirmed, bounds>>

\* A hook exits with an error or exceeds its time limit.
HookFails(w) ==
  LET r == req[w] IN
  /\ r.step \in Lifecycle /\ r.hook < Hooks[r.arg][r.step]
  /\ r.hook = 0 => loaded[P(w)][r.arg] # "absent"
  /\ drift' = IF r.step = "validate" THEN drift ELSE drift \union {r.arg}
  /\ Answer(w)
  /\ UNCHANGED <<session, run, disk, rows, managers, up, effect, confirmed, bounds>>

\* stateWriter: UpsertExtensionState.
WriteRow(w) ==
  LET e == req[w].arg IN
  /\ At(w, "write")
  /\ rows' = [rows EXCEPT ![e] = IF req[w].on THEN "on" ELSE "off"]
  /\ drift' = IF req[w].alone THEN drift \ {e} ELSE drift
  /\ confirmed' = [confirmed EXCEPT ![e] = Nobody]
  /\ Goto(w, "scan")
  /\ UNCHANGED <<session, run, disk, managers, up, effect, bounds>>

WriteFails(w) ==
  /\ At(w, "write")
  /\ Answer(w)
  /\ UNCHANGED <<session, run, disk, rows, managers, up, history, bounds>>

Answered(w) ==
  /\ At(w, "answer")
  /\ Answer(w)
  /\ UNCHANGED <<session, run, disk, rows, managers, up, history, bounds>>

-----------------------------------------------------------------------------
(* Discover: the directories, the servers one after the other, the rows.   *)

\* A manifest that cannot be parsed fails the discovery; so does it New.
Scan(w) ==
  /\ At(w, "scan")
  /\ IF \E e \in Exts : disk[e] = "broken"
       THEN Answer(w)
       ELSE Set(w, [req[w] EXCEPT !.step = "servers", !.server = 1,
              !.seen = [e \in Exts |-> IF disk[e] = "gone" THEN "absent" ELSE disk[e]]])
  /\ UNCHANGED <<session, run, disk, rows, managers, up, history, bounds>>

NextServer(w) == ServerOrder[P(w)][req[w].server]

BeginListing(w) ==
  /\ At(w, "servers") /\ req[w].server <= Len(ServerOrder[P(w)])
  /\ \/ Mcp!Open(w, Transport[NextServer(w)], "list")
     \/ Mcp!CannotOpen(w)
  /\ Goto(w, "listing")
  /\ UNCHANGED <<run, disk, rows, managers, up, history, bounds>>

\* An error is recorded with the server and fails nothing; the answer to
\* another request lists no tools.
EndListing(w) ==
  LET s == NextServer(w)
      listed == session[w].phase = "ok" /\ session[w].answer = "list" IN
  /\ At(w, "listing") /\ Mcp!Close(w)
  /\ Set(w, [req[w] EXCEPT !.step = "servers", !.server = @ + 1,
            !.tools = IF listed THEN [@ EXCEPT ![s] = ServerTools[s]] ELSE @])
  /\ UNCHANGED <<run, disk, rows, managers, up, history, bounds>>

\* Variant, not the code: the manifest decides.
IgnoresRows(w) ==
  /\ At(w, "servers") /\ req[w].server > Len(ServerOrder[P(w)])
  /\ Goto(w, "adopt")
  /\ UNCHANGED <<session, run, disk, rows, managers, up, history, bounds>>

\* applyStoredStates: a stored state overrides the manifest.
ReadRows(w) ==
  /\ At(w, "servers") /\ req[w].server > Len(ServerOrder[P(w)])
  /\ Set(w, [req[w] EXCEPT !.step = "adopt",
       !.seen = [e \in Exts |-> IF @[e] # "absent" /\ rows[e] # "none" THEN rows[e] ELSE @[e]]])
  /\ UNCHANGED <<session, run, disk, rows, managers, up, history, bounds>>

ReadRowsFails(w) ==
  /\ At(w, "servers") /\ req[w].server > Len(ServerOrder[P(w)])
  /\ Answer(w)
  /\ UNCHANGED <<session, run, disk, rows, managers, up, history, bounds>>

Adopt(w) ==
  /\ At(w, "adopt")
  /\ loaded' = [loaded EXCEPT ![P(w)] = req[w].seen]
  /\ served' = [served EXCEPT ![P(w)] = req[w].tools]
  /\ Goto(w, "unregister")
  /\ UNCHANGED <<session, run, disk, rows, registered, registry, claimed, up, history, bounds>>

-----------------------------------------------------------------------------
(* Register: every handler calls it after a successful Discover.           *)

\* The tools of enabled plugins and skills, then those of the servers, each
\* with its place in that order.
ClaimsOf(p) ==
  LET offer(k, i, name, owner) == [list |-> k, item |-> i, name |-> name, owner |-> owner]
      enabled == {k \in DOMAIN Order : loaded[p][Order[k]] = "on" /\ ToolOf[Order[k]] # NoTool}
      tools(k) == served[p][ServerOrder[p][k]] IN
  {offer(k, 1, ToolOf[Order[k]], Order[k]) : k \in enabled} \union
  UNION {{offer(Len(Order) + k, i, tools(k)[i], ServerOrder[p][k]) : i \in DOMAIN tools(k)} :
           k \in DOMAIN ServerOrder[p]}

Before(c, d) == c.list < d.list \/ (c.list = d.list /\ c.item < d.item)

\* Variant, not the code: the old tools are forgotten but not removed.
ForgetsRegistered(w) ==
  LET p == P(w) IN
  /\ At(w, "unregister")
  /\ registered' = [registered EXCEPT ![p] = {}]
  /\ Set(w, [req[w] EXCEPT !.step = "register", !.todo = ClaimsOf(p)])
  /\ UNCHANGED <<session, run, disk, rows, loaded, served, registry, claimed, up, history, bounds>>

Unregister(w) ==
  LET p == P(w) IN
  /\ At(w, "unregister")
  /\ registry' = [registry EXCEPT ![p] = [n \in Names |-> IF n \in registered[p] THEN "none" ELSE @[n]]]
  /\ registered' = [registered EXCEPT ![p] = {}]
  /\ Set(w, [req[w] EXCEPT !.step = "register", !.todo = ClaimsOf(p)])
  /\ UNCHANGED <<session, run, disk, rows, loaded, served, claimed, up, history, bounds>>

\* Registry.Register adds or replaces, a built-in tool too.
AddTool(w) ==
  LET p == P(w) IN
  \E c \in req[w].todo :
    /\ At(w, "register") /\ \A d \in req[w].todo \ {c} : Before(c, d)
    /\ registry' = [registry EXCEPT ![p][c.name] = c.owner]
    /\ registered' = [registered EXCEPT ![p] = @ \union {c.name}]
    /\ claimed' = [claimed EXCEPT ![p] = @ \union ({c.name} \intersect Builtins)]
    /\ Set(w, [req[w] EXCEPT !.todo = @ \ {c}])
    /\ UNCHANGED <<session, run, disk, rows, loaded, served, up, history, bounds>>

\* The answer; a process that started is up.
Registered(w) ==
  /\ At(w, "register") /\ req[w].todo = {}
  /\ IF req[w].op = "start" THEN Set(w, NoRequest) ELSE Answer(w)
  /\ up' = [up EXCEPT ![P(w)] = TRUE]
  /\ confirmed' = IF req[w].op = "set" /\ req[w].alone
                    THEN [confirmed EXCEPT ![req[w].arg] = P(w)] ELSE confirmed
  /\ UNCHANGED <<session, run, disk, rows, managers, effect, drift, bounds>>

-----------------------------------------------------------------------------
(* Registry.Execute and the handlers of the tools.                         *)

Lookup(w) ==
  LET owner == registry[P(w)][req[w].arg] IN
  /\ At(w, "lookup")
  /\ \/ /\ owner \in Exts
        /\ Goto(w, "command") /\ UNCHANGED <<session, run>>
     \/ /\ owner \in Servers
        /\ \/ Mcp!Open(w, Transport[owner], "call")
           \/ Mcp!CannotOpen(w)
        /\ Goto(w, "calling") /\ UNCHANGED run
     \/ /\ owner = "builtin" /\ req[w].arg = ExecProfile
        /\ \E p \in AskedProfiles, approved, token \in BOOLEAN : Exec!Begin(w, p, approved, token)
        /\ Goto(w, "profile") /\ UNCHANGED session
     \/ /\ owner = "none" \/ (owner = "builtin" /\ req[w].arg # ExecProfile)
        /\ Answer(w) /\ UNCHANGED <<session, run>>
  /\ UNCHANGED <<disk, rows, managers, up, history, bounds>>

\* The command of a plugin or skill ends, with whatever outcome.
EndCommand(w) ==
  /\ At(w, "command")
  /\ Answer(w)
  /\ UNCHANGED <<session, run, disk, rows, managers, up, history, bounds>>

EndCall(w) ==
  /\ At(w, "calling") /\ Mcp!Close(w)
  /\ Answer(w)
  /\ UNCHANGED <<run, disk, rows, managers, up, history, bounds>>

EndProfile(w) ==
  /\ At(w, "profile") /\ Exec!Reset(w)
  /\ Answer(w)
  /\ UNCHANGED <<session, disk, rows, managers, up, history, bounds>>

-----------------------------------------------------------------------------
(* Processes, and what goes on around them.                                *)

\* App.New: discovery and registration over an empty manager.
Start(w) ==
  /\ ~up[P(w)] /\ \A v \in Workers : P(v) = P(w) => Idle(v)
  /\ Set(w, [NoRequest EXCEPT !.op = "start", !.step = "scan"])
  /\ UNCHANGED <<session, run, disk, rows, managers, up, history, bounds>>

Down(p) ==
  LET mine(w) == P(w) = p IN
  /\ up' = [up EXCEPT ![p] = FALSE]
  /\ loaded' = [loaded EXCEPT ![p] = NothingLoaded]
  /\ served' = [served EXCEPT ![p] = NothingServed]
  /\ registered' = [registered EXCEPT ![p] = {}]
  /\ registry' = [registry EXCEPT ![p] = OnlyBuiltins]
  /\ claimed' = [claimed EXCEPT ![p] = {}]
  /\ req' = [w \in Workers |-> IF mine(w) THEN NoRequest ELSE req[w]]
  /\ Mcp!Halt({w \in Workers : mine(w)}) /\ Exec!Halt({w \in Workers : mine(w)})
  /\ UNCHANGED <<disk, rows, history, asks>>

\* The process ends, in whatever state its requests are.
Crash(p) ==
  /\ faults < MaxFaults /\ up[p]
  /\ faults' = faults + 1
  /\ Down(p)

\* extension-refresh, extension-state, extension-validate and tool-exec of
\* hermesctl end with their one request, whether it has failed or not.
Exit(w) ==
  /\ At(w, "exit")
  /\ Down(P(w)) /\ UNCHANGED faults

\* Somebody edits, breaks or removes a manifest (external).
Edit(e, manifest) ==
  /\ faults < MaxFaults /\ disk[e] # manifest
  /\ faults' = faults + 1
  /\ disk' = [disk EXCEPT ![e] = manifest]
  /\ UNCHANGED <<session, run, rows, managers, up, req, history, asks>>

McpStep(w) ==
  /\ At(w, "listing") \/ At(w, "calling")
  /\ Mcp!Step(w)
  /\ UNCHANGED <<run, disk, rows, managers, up, req, history, bounds>>

ExecStep(w) ==
  /\ At(w, "profile")
  /\ Exec!Step(w) \/ Exec!Leave(w)
  /\ UNCHANGED <<session, disk, rows, managers, up, req, history, bounds>>

\* What the code of a request does next.
Handle(w) ==
  \/ HookNotFound(w) \/ RunHook(w) \/ HookFails(w) \/ WriteRow(w) \/ WriteFails(w) \/ Answered(w)
  \/ Scan(w) \/ BeginListing(w) \/ EndListing(w) \/ ReadRows(w) \/ ReadRowsFails(w) \/ Adopt(w)
  \/ Unregister(w) \/ AddTool(w) \/ Registered(w)
  \/ Lookup(w) \/ EndCommand(w) \/ EndCall(w) \/ EndProfile(w)

Arrive(w) ==
  \/ AskRefresh(w)
  \/ \E e \in Exts : AskValidate(w, e) \/ \E on \in BOOLEAN : AskSet(w, e, on)
  \/ \E n \in Calls[P(w)] : AskExecute(w, n)

Next ==
  \/ \E w \in Workers : Start(w) \/ Arrive(w) \/ Handle(w) \/ McpStep(w) \/ ExecStep(w) \/ Exit(w)
  \/ \E p \in Procs : Crash(p)
  \/ \E d \in Edits : Edit(d[1], d[2])

\* Every command has a time limit (10 s for a hook, 15 s for a server, the
\* executor's own), and a goroutine that can go on does.
Fairness == \A w \in Workers :
  /\ WF_vars(Handle(w))
  /\ WF_vars(At(w, "profile") /\ Exec!Step(w) /\ UNCHANGED <<session, disk, rows, managers, up, req, history, bounds>>)
  /\ WF_vars(Mcp!ClientStep(w) /\ UNCHANGED <<run, disk, rows, managers, up, req, history, bounds>>)
  /\ WF_vars(Mcp!Die(w) /\ UNCHANGED <<run, disk, rows, managers, up, req, history, bounds>>)

Spec == Init /\ [][Next]_vars /\ Fairness

-----------------------------------------------------------------------------
Registering(p) == \E w \in Workers : P(w) = p /\ req[w].step \in {"unregister", "register"}

\* What the registry should hold: the last enabled claimant of a name; else
\* the built-in tool, unless an extension has once taken its name.
Expected(p, n) ==
  LET claims == {c \in ClaimsOf(p) : c.name = n} IN
  IF claims # {} THEN (CHOOSE c \in claims : \A d \in claims \ {c} : Before(d, c)).owner
  ELSE IF n \in Builtins \ claimed[p] THEN "builtin" ELSE "none"

\* Between requests the registry offers exactly the enabled tools of what was
\* last discovered, whatever was registered before; only a built-in whose
\* name an extension has taken is lost (registry.go:31, "adds or replaces").
RegistryFollowsLoaded ==
  \A p \in Procs : up[p] /\ ~Registering(p) =>
    \A n \in Names : registry[p][n] = Expected(p, n)

\* Once a process has confirmed a state, it goes by it, through refreshes,
\* edits of the manifest and restarts, until a state is written again
\* (manager.go:208, "persists extension state and refreshes discovery").
ConfirmedStateKept ==
  \A e \in Exts : LET p == confirmed[e] IN
    p # Nobody /\ up[p] /\ loaded[p][e] # "absent" => loaded[p][e] = rows[e]

\* The hooks of an extension and its row say the same, unless a request has
\* run hooks and then failed, crashed or met another for the same extension
\* (manager.go:227: the hooks run before the row is written).
HooksAgreeWithRow ==
  \A e \in Exts : rows[e] # "none" /\ e \notin drift =>
    effect[e] = (IF rows[e] = "on" THEN "on_enable" ELSE "on_disable")

\* No result of a tool call or listing belongs to another request.
AnswersPaired == Mcp!AnswersPaired

\* Failing profiles are rolled back as the executor promises.
RollbackDiscipline == Exec!RollbackDiscipline

\* Every request is answered: neither a hook, nor a server that does not
\* answer, nor a chain of commands holds it for ever.
RequestsAnswered == \A w \in Workers : req[w].op # "none" ~> req[w].op = "none"
=============================================================================
