-------------------------- MODULE ExtensionsProofs --------------------------
(***************************************************************************)
(* Extensions for any number of processes, requests, extensions, servers   *)
(* and profiles: hooks agree with the stored state; a process that handles *)
(* one request at a time keeps what it has confirmed and offers the tools  *)
(* of what it has discovered.  Then McpClient and Executor, for any number *)
(* of workers, and that sessions and profile runs behave as they say,      *)
(* whatever the requests.                                                  *)
(***************************************************************************)
EXTENDS Extensions, TLAPS

\* A request has its fields, whatever their values.
Shaped(r) ==
  r \in [op : {r.op}, step : {r.step}, arg : {r.arg}, on : {r.on}, alone : {r.alone},
         hook : {r.hook}, seen : {r.seen}, tools : {r.tools}, server : {r.server},
         todo : {r.todo}]

\* Where a request is determines what it is about.
ReqOK(r) ==
  /\ Shaped(r) /\ r.server \in Nat \ {0} /\ r.on \in BOOLEAN /\ r.alone \in BOOLEAN
  /\ r.op \in {"set", "validate"} => r.arg \in Exts
  /\ r.step \in {"on_enable", "on_disable", "write"} => r.op = "set"
  /\ r.step = "on_enable" => r.on
  /\ r.step = "on_disable" => ~r.on
  /\ r.step = "validate" => r.op = "validate" \/ (r.op = "set" /\ r.on)

ReqInv == req = [w \in Workers |-> req[w]] /\ \A w \in Workers : ReqOK(req[w])

LEMMA NoRequestFacts ==
  /\ ReqOK(NoRequest) /\ NoRequest.op = "none" /\ NoRequest.step = "none"
  /\ NoRequest.arg = Nobody /\ NoRequest.server \in Nat \ {0} /\ NoRequest.on \in BOOLEAN /\ NoRequest.alone \in BOOLEAN
  /\ ReqOK([NoRequest EXCEPT !.step = "exit"])
<1>1. /\ Shaped(NoRequest) /\ NoRequest.op = "none" /\ NoRequest.step = "none"
      /\ NoRequest.arg = Nobody /\ NoRequest.server \in Nat \ {0} /\ NoRequest.on \in BOOLEAN /\ NoRequest.alone \in BOOLEAN
  BY DEF Shaped, NoRequest
<1>2. ReqOK(NoRequest)
  BY <1>1 DEF ReqOK
<1> DEFINE s == [NoRequest EXCEPT !.step = "exit"]
<1>3. /\ Shaped(s) /\ s.op = "none" /\ s.step = "exit" /\ s.server \in Nat \ {0}
      /\ s.on \in BOOLEAN /\ s.alone \in BOOLEAN
  BY <1>1 DEF Shaped
<1> HIDE DEF s
<1>4. ReqOK(s)
  BY <1>3 DEF ReqOK
<1>. QED  BY <1>1, <1>2, <1>4 DEF s

\* A request to set a state goes on with what it is about unchanged.
SameRequest(r, s) ==
  s.op = "set" => r.op = "set" /\ s.arg = r.arg /\ s.on = r.on /\ s.alone = r.alone

\* What a worker does to its own request.
Goes(w, s) ==
  /\ req' = [req EXCEPT ![w] = s]
  /\ ReqOK(s) /\ SameRequest(req[w], s)

\* The steps after the row has been written, and those that register tools.
Discovery    == {"scan", "servers", "listing", "adopt"}
Registration == {"unregister", "register"}
Later        == Discovery \union Registration

\* A worker goes on without any step that the hooks, rows or loaded
\* extensions depend on.
Quiet(w) == \E s :
  /\ Goes(w, s) /\ s.step \notin {"write", "adopt"}
  /\ s.op = "set" => /\ s.step \in Later => req[w].step \in Later
                     /\ s.step \in Registration => req[w].step \in Registration

LEMMA AnswerGoes ==
  ASSUME NEW w \in Workers, Answer(w)
  PROVE  Quiet(w)
<1> DEFINE s == IF P(w) \in Commands THEN [NoRequest EXCEPT !.step = "exit"] ELSE NoRequest
<1>1. ReqOK(s) /\ s.op = "none" /\ s.step \in {"none", "exit"}
  BY NoRequestFacts DEF ReqOK, Shaped
<1>2. req' = [req EXCEPT ![w] = s]
  BY DEF Answer, Set
<1> HIDE DEF s
<1>. QED  BY <1>1, <1>2 DEF Goes, SameRequest, Quiet

LEMMA GotoGoes ==
  ASSUME ReqInv, NEW w \in Workers, NEW step, Goto(w, step),
         step \notin {"on_enable", "on_disable", "write", "validate"}
  PROVE  \E s : Goes(w, s) /\ s.step = step /\ s.op = req[w].op /\ s.seen = req[w].seen
<1> DEFINE s == [req[w] EXCEPT !.step = step]
<1>1. ReqOK(req[w])
  BY DEF ReqInv
<1>2. ReqOK(s) /\ s.step = step /\ SameRequest(req[w], s) /\ s.op = req[w].op /\ s.seen = req[w].seen
  BY <1>1 DEF ReqOK, Shaped, SameRequest
<1>3. req' = [req EXCEPT ![w] = s]
  BY DEF Goto, Set
<1> HIDE DEF s
<1>. QED  BY <1>2, <1>3 DEF Goes

LEMMA GoesReq ==
  ASSUME ReqInv, NEW w \in Workers, NEW s, Goes(w, s)
  PROVE  ReqInv'
BY DEF ReqInv, Goes

-----------------------------------------------------------------------------
(* What the steps do to the request.                                       *)

\* A request other than to set a state begins.
LEMMA AskGoes ==
  ASSUME NEW w \in Workers, NEW r, Ask(w, r), ReqOK(r), r.op # "set", r.step \notin {"write", "adopt"}
  PROVE  Quiet(w) /\ UNCHANGED <<rows, effect, drift, confirmed, loaded>>
BY DEF Ask, Set, Goes, SameRequest, Quiet, history, managers

LEMMA BeginFacts ==
  ASSUME NEW op \in {"refresh", "validate", "execute", "start"}, NEW step \in {"scan", "validate", "lookup"},
         NEW arg, op = "validate" => arg \in Exts, step = "validate" => op = "validate"
  PROVE  LET r == [NoRequest EXCEPT !.op = op, !.step = step, !.arg = arg] IN
         ReqOK(r) /\ r.op = op /\ r.step = step
<1> DEFINE r == [NoRequest EXCEPT !.op = op, !.step = step, !.arg = arg]
<1>1. /\ Shaped(r) /\ r.op = op /\ r.step = step /\ r.arg = arg
      /\ r.server \in Nat \ {0} /\ r.on \in BOOLEAN /\ r.alone \in BOOLEAN
  BY NoRequestFacts DEF ReqOK, Shaped
<1> HIDE DEF r
<1>2. ReqOK(r)
  BY <1>1 DEF ReqOK
<1>. QED  BY <1>1, <1>2 DEF r

LEMMA ArriveGoes ==
  ASSUME NEW w \in Workers,
         \/ AskRefresh(w) \/ \E e \in Exts : AskValidate(w, e)
         \/ \E n \in Calls[P(w)] : AskExecute(w, n)
  PROVE  Quiet(w) /\ UNCHANGED <<rows, effect, drift, confirmed, loaded>>
<1>1. CASE AskRefresh(w)
  <2> DEFINE r == [NoRequest EXCEPT !.op = "refresh", !.step = "scan", !.arg = Nobody]
  <2>1. ReqOK(r) /\ r.op = "refresh" /\ r.step = "scan"
    BY BeginFacts
  <2>2. [NoRequest EXCEPT !.op = "refresh", !.step = "scan"] = r
    BY NoRequestFacts DEF ReqOK, Shaped
  <2>3. Ask(w, r)
    BY <1>1, <2>2 DEF AskRefresh
  <2> HIDE DEF r
  <2>. QED  BY <2>1, <2>3, AskGoes
<1>2. ASSUME NEW e \in Exts, AskValidate(w, e)
      PROVE  Quiet(w) /\ UNCHANGED <<rows, effect, drift, confirmed, loaded>>
  <2> DEFINE r == [NoRequest EXCEPT !.op = "validate", !.step = "validate", !.arg = e]
  <2>1. ReqOK(r) /\ r.op = "validate" /\ r.step = "validate"
    BY BeginFacts
  <2>2. Ask(w, r)
    BY <1>2 DEF AskValidate
  <2> HIDE DEF r
  <2>. QED  BY <2>1, <2>2, AskGoes
<1>3. ASSUME NEW n, AskExecute(w, n)
      PROVE  Quiet(w) /\ UNCHANGED <<rows, effect, drift, confirmed, loaded>>
  <2> DEFINE r == [NoRequest EXCEPT !.op = "execute", !.step = "lookup", !.arg = n]
  <2>1. ReqOK(r) /\ r.op = "execute" /\ r.step = "lookup"
    BY BeginFacts
  <2>2. Ask(w, r)
    BY <1>3 DEF AskExecute
  <2> HIDE DEF r
  <2>. QED  BY <2>1, <2>2, AskGoes
<1>. QED  BY <1>1, <1>2, <1>3

LEMMA HandleGoes ==
  ASSUME ReqInv, NEW w \in Workers,
         \/ HookNotFound(w) \/ HookFails(w) \/ WriteFails(w) \/ Answered(w) \/ Scan(w)
         \/ BeginListing(w) \/ EndListing(w) \/ ReadRowsFails(w) \/ Unregister(w) \/ AddTool(w)
         \/ Lookup(w) \/ EndCommand(w) \/ EndCall(w) \/ EndProfile(w)
  PROVE  Quiet(w) /\ drift \subseteq drift' /\ UNCHANGED <<rows, effect, confirmed, loaded>>
<1>0. ReqOK(req[w])
  BY DEF ReqInv
<1>1. CASE HookNotFound(w)
  BY <1>1, AnswerGoes DEF HookNotFound, history, managers
<1>2. CASE HookFails(w)
  BY <1>2, AnswerGoes DEF HookFails, managers
<1>3. CASE WriteFails(w) \/ Answered(w) \/ ReadRowsFails(w) \/ EndCommand(w) \/ EndCall(w) \/ EndProfile(w)
  BY <1>3, AnswerGoes DEF WriteFails, Answered, ReadRowsFails, EndCommand, EndCall, EndProfile, history, managers
<1>4. CASE Scan(w)
  <2>1. CASE Answer(w)
    BY <1>4, <2>1, AnswerGoes DEF Scan, history, managers
  <2>2. CASE ~Answer(w)
    <3> DEFINE found == [e \in Exts |-> IF disk[e] = "gone" THEN "absent" ELSE disk[e]]
               s == [req[w] EXCEPT !.step = "servers", !.server = 1, !.seen = found]
    <3>1. /\ Shaped(s) /\ s.op = req[w].op /\ s.arg = req[w].arg /\ s.on = req[w].on
          /\ s.alone = req[w].alone /\ s.step = "servers" /\ s.server = 1
      <4> HIDE DEF found
      <4>. QED  BY <1>0 DEF ReqOK, Shaped
    <3>2. req' = [req EXCEPT ![w] = s] /\ req[w].step = "scan"
      BY <1>4, <2>2 DEF Scan, Set, At
    <3> HIDE DEF s
    <3>3. ReqOK(s)
      BY <1>0, <3>1 DEF ReqOK
    <3>4. Quiet(w)
      BY <3>1, <3>2, <3>3 DEF Quiet, Goes, SameRequest, Later, Discovery, Registration
    <3>. QED  BY <1>4, <3>4 DEF Scan, history, managers
  <2>. QED  BY <2>1, <2>2
<1>5. CASE BeginListing(w)
  <2>1. PICK s : Goes(w, s) /\ s.step = "listing"
    BY <1>5, GotoGoes DEF BeginListing
  <2>2. Quiet(w)
    BY <1>5, <2>1 DEF BeginListing, At, Quiet, Later, Discovery, Registration
  <2>. QED  BY <1>5, <2>2 DEF BeginListing, history, managers
<1>6. CASE EndListing(w)
  <2> DEFINE listed == session[w].phase = "ok" /\ session[w].answer = "list"
             tools == IF listed THEN [req[w].tools EXCEPT ![NextServer(w)] = ServerTools[NextServer(w)]]
                                ELSE req[w].tools
             s == [req[w] EXCEPT !.step = "servers", !.server = @ + 1, !.tools = tools]
  <2>1. /\ Shaped(s) /\ s.op = req[w].op /\ s.arg = req[w].arg /\ s.on = req[w].on
        /\ s.alone = req[w].alone /\ s.step = "servers" /\ s.server = req[w].server + 1
    <3> HIDE DEF tools
    <3>. QED  BY <1>0 DEF ReqOK, Shaped
  <2>2. req' = [req EXCEPT ![w] = s] /\ req[w].step = "listing"
    BY <1>6 DEF EndListing, Set, At
  <2> HIDE DEF s
  <2>3. ReqOK(s)
    BY <1>0, <2>1 DEF ReqOK
  <2>4. Quiet(w)
    BY <2>1, <2>2, <2>3 DEF Quiet, Goes, SameRequest, Later, Discovery, Registration
  <2>. QED  BY <1>6, <2>4 DEF EndListing, history, managers
<1>7. CASE Unregister(w)
  <2> DEFINE todo == ClaimsOf(P(w))
             s == [req[w] EXCEPT !.step = "register", !.todo = todo]
  <2>1. /\ Shaped(s) /\ s.op = req[w].op /\ s.arg = req[w].arg /\ s.on = req[w].on
        /\ s.alone = req[w].alone /\ s.step = "register" /\ s.server = req[w].server
    <3> HIDE DEF todo
    <3>. QED  BY <1>0 DEF ReqOK, Shaped
  <2>2. req' = [req EXCEPT ![w] = s] /\ req[w].step = "unregister"
    BY <1>7 DEF Unregister, Set, At
  <2> HIDE DEF s
  <2>3. ReqOK(s)
    BY <1>0, <2>1 DEF ReqOK
  <2>4. Quiet(w)
    BY <2>1, <2>2, <2>3 DEF Quiet, Goes, SameRequest, Later, Discovery, Registration
  <2>. QED  BY <1>7, <2>4 DEF Unregister, history
<1>8. CASE AddTool(w)
  <2>1. PICK c : req' = [req EXCEPT ![w] = [req[w] EXCEPT !.todo = @ \ {c}]] /\ req[w].step = "register"
    BY <1>8 DEF AddTool, Set, At
  <2> DEFINE todo == req[w].todo \ {c}
             s == [req[w] EXCEPT !.todo = todo]
  <2>2. /\ Shaped(s) /\ s.op = req[w].op /\ s.arg = req[w].arg /\ s.on = req[w].on
        /\ s.alone = req[w].alone /\ s.step = req[w].step /\ s.server = req[w].server
    <3> HIDE DEF todo
    <3>. QED  BY <1>0 DEF ReqOK, Shaped
  <2>3. req' = [req EXCEPT ![w] = s]
    BY <2>1, <1>0 DEF ReqOK, Shaped
  <2> HIDE DEF s
  <2>4. ReqOK(s)
    BY <1>0, <2>2 DEF ReqOK
  <2>5. Quiet(w)
    BY <2>1, <2>2, <2>3, <2>4 DEF Quiet, Goes, SameRequest
  <2>. QED  BY <1>8, <2>5 DEF AddTool, history
<1>9. CASE Lookup(w)
  <2>1. Answer(w) \/ \E step \in {"command", "calling", "profile"} : Goto(w, step)
    BY <1>9 DEF Lookup
  <2>2. ASSUME NEW step \in {"command", "calling", "profile"}, Goto(w, step) PROVE Quiet(w)
    <3>1. PICK s : Goes(w, s) /\ s.step = step
      BY <2>2, GotoGoes
    <3>. QED  BY <3>1 DEF Quiet, Later, Discovery, Registration
  <2>3. Quiet(w)
    BY <2>1, <2>2, AnswerGoes
  <2>. QED  BY <1>9, <2>3 DEF Lookup, history, managers
<1>. QED  BY <1>1, <1>2, <1>3, <1>4, <1>5, <1>6, <1>7, <1>8, <1>9

\* App.New begins over an empty manager.
LEMMA StartGoes ==
  ASSUME NEW w \in Workers, Start(w)
  PROVE  Quiet(w) /\ UNCHANGED <<rows, effect, drift, confirmed, loaded>>
<1> DEFINE r == [NoRequest EXCEPT !.op = "start", !.step = "scan", !.arg = Nobody]
<1>1. ReqOK(r) /\ r.op = "start" /\ r.step = "scan"
  BY BeginFacts
<1>2. [NoRequest EXCEPT !.op = "start", !.step = "scan"] = r
  BY NoRequestFacts DEF ReqOK, Shaped
<1>3. req' = [req EXCEPT ![w] = r]
  BY <1>2 DEF Start, Set
<1> HIDE DEF r
<1>. QED  BY <1>1, <1>3 DEF Quiet, Goes, SameRequest, Start, history, managers

LEMMA RegisteredGoes ==
  ASSUME ReqInv, NEW w \in Workers, Registered(w)
  PROVE  Quiet(w) /\ UNCHANGED <<rows, effect, drift, loaded>>
<1>1. CASE Answer(w)
  BY <1>1, AnswerGoes DEF Registered, managers
<1>2. CASE Set(w, NoRequest)
  BY <1>2, NoRequestFacts DEF Registered, managers, Set, Quiet, Goes, SameRequest
<1>. QED  BY <1>1, <1>2 DEF Registered

LEMMA ReadRowsGoes ==
  ASSUME ReqInv, NEW w \in Workers, ReadRows(w)
  PROVE  \E s : /\ Goes(w, s) /\ s.step = "adopt" /\ s.op = req[w].op /\ req[w].step = "servers"
                /\ \A e \in Exts : rows[e] # "none" => s.seen[e] \in {"absent", rows[e]}
<1> DEFINE old == req[w].seen
           seen == [e \in Exts |-> IF old[e] # "absent" /\ rows[e] # "none" THEN rows[e] ELSE old[e]]
           s == [req[w] EXCEPT !.step = "adopt", !.seen = seen]
<1>1. ReqOK(req[w])
  BY DEF ReqInv
<1>2. \A e \in Exts : rows[e] # "none" => seen[e] \in {"absent", rows[e]}
  OBVIOUS
<1>3. /\ Shaped(s) /\ s.op = req[w].op /\ s.arg = req[w].arg /\ s.on = req[w].on
      /\ s.alone = req[w].alone /\ s.step = "adopt" /\ s.server = req[w].server /\ s.seen = seen
  <2> HIDE DEF seen
  <2>. QED  BY <1>1 DEF ReqOK, Shaped
<1>4. [req[w] EXCEPT !.step = "adopt",
         !.seen = [e \in Exts |-> IF @[e] # "absent" /\ rows[e] # "none" THEN rows[e] ELSE @[e]]] = s
  BY <1>1 DEF ReqOK, Shaped
<1>5. req' = [req EXCEPT ![w] = s] /\ req[w].step = "servers"
  BY <1>4 DEF ReadRows, Set, At
<1> HIDE DEF s, seen
<1>6. ReqOK(s)
  BY <1>1, <1>3 DEF ReqOK
<1>. QED  BY <1>2, <1>3, <1>5, <1>6 DEF Goes, SameRequest

\* One hook more, or the end of the phase: its effect, and the step after it.
LEMMA RunHookGoes ==
  ASSUME ReqInv, NEW w \in Workers, RunHook(w)
  PROVE  LET r == req[w] IN
         \E s : /\ Goes(w, s) /\ s.op = r.op /\ s.arg = r.arg /\ s.on = r.on /\ s.alone = r.alone
                /\ s.step \notin Later
                /\ \/ r.step = "validate" /\ s.step # "write" /\ UNCHANGED <<drift, effect>>
                   \/ /\ r.op = "set" /\ s.step # "write"
                      /\ r.arg \in drift' /\ drift \subseteq drift' /\ UNCHANGED effect
                   \/ /\ r.op = "set" /\ s.step = "write"
                      /\ r.arg \in drift' /\ drift \subseteq drift'
                      /\ effect' = [effect EXCEPT ![r.arg] = IF r.on THEN "on_enable" ELSE "on_disable"]
<1> DEFINE r == req[w]
           phase == AfterPhase(w)
           t == [r EXCEPT !.hook = @ + 1]
           u == [r EXCEPT !.hook = 0, !.step = phase]
<1>1. ReqOK(r) /\ r.step \in Lifecycle
  BY DEF ReqInv, RunHook
<1>2. CASE r.hook < Hooks[r.arg][r.step]
  <2>1. /\ Shaped(t) /\ t.op = r.op /\ t.arg = r.arg /\ t.on = r.on
        /\ t.alone = r.alone /\ t.step = r.step /\ t.server = r.server
    BY <1>1 DEF ReqOK, Shaped
  <2>2. req' = [req EXCEPT ![w] = t] /\ UNCHANGED effect
    BY <1>2 DEF RunHook, Set
  <2> HIDE DEF t
  <2>3. ReqOK(t)
    BY <1>1, <2>1 DEF ReqOK
  <2>4. /\ Goes(w, t) /\ t.step \notin Later /\ t.step # "write"
        /\ r.step # "validate" => r.op = "set"
    BY <1>1, <2>1, <2>2, <2>3 DEF Goes, SameRequest, Lifecycle, Later, Discovery, Registration, ReqOK
  <2>5. IF r.step = "validate" THEN UNCHANGED drift ELSE r.arg \in drift' /\ drift \subseteq drift'
    BY DEF RunHook
  <2>. QED  BY <2>1, <2>2, <2>4, <2>5
<1>3. CASE ~(r.hook < Hooks[r.arg][r.step])
  <2>1. /\ Shaped(u) /\ u.op = r.op /\ u.arg = r.arg /\ u.on = r.on
        /\ u.alone = r.alone /\ u.step = phase /\ u.server = r.server
    <3> HIDE DEF phase
    <3>. QED  BY <1>1 DEF ReqOK, Shaped
  <2>2. /\ req' = [req EXCEPT ![w] = u]
        /\ effect' = IF r.step = "validate" THEN effect ELSE [effect EXCEPT ![r.arg] = r.step]
    BY <1>3 DEF RunHook, Set
  <2>3. /\ r.step = "validate" => phase = "answer" \/ (phase = "on_enable" /\ r.op = "set" /\ r.on)
        /\ r.step # "validate" => /\ phase = "write" /\ r.op = "set"
                                  /\ r.step = IF r.on THEN "on_enable" ELSE "on_disable"
    BY <1>1 DEF AfterPhase, ReqOK, Lifecycle
  <2> HIDE DEF u, phase
  <2>4. ReqOK(u)
    BY <1>1, <2>1, <2>3 DEF ReqOK
  <2>5. Goes(w, u) /\ u.step \notin Later
    BY <2>1, <2>2, <2>3, <2>4 DEF Goes, SameRequest, Later, Discovery, Registration
  <2>6. IF r.step = "validate" THEN UNCHANGED drift ELSE r.arg \in drift' /\ drift \subseteq drift'
    BY DEF RunHook
  <2>7. CASE r.step = "validate"
    BY <2>1, <2>2, <2>3, <2>5, <2>6, <2>7
  <2>8. CASE r.step # "validate"
    BY <2>1, <2>2, <2>3, <2>5, <2>6, <2>8
  <2>. QED  BY <2>7, <2>8
<1>. QED  BY <1>2, <1>3

LEMMA WriteRowGoes ==
  ASSUME ReqInv, NEW w \in Workers, WriteRow(w)
  PROVE  LET r == req[w] IN
         /\ r.op = "set" /\ r.arg \in Exts /\ r.step = "write"
         /\ \E s : Goes(w, s) /\ s.step = "scan" /\ s.op = "set"
<1>1. ReqOK(req[w]) /\ req[w].step = "write"
  BY DEF ReqInv, WriteRow, At
<1>2. PICK s : Goes(w, s) /\ s.step = "scan" /\ s.op = req[w].op
  BY GotoGoes DEF WriteRow
<1>. QED  BY <1>1, <1>2 DEF ReqOK

\* The request, and what it does to those for the same extension.
LEMMA AskSetGoes ==
  ASSUME ReqInv, NEW w \in Workers, NEW e \in Exts, NEW on \in BOOLEAN, AskSet(w, e, on)
  PROVE  /\ ReqInv' /\ UNCHANGED <<rows, effect, drift, confirmed, loaded>>
         /\ ~Setting(w, e)
         /\ \E r : /\ req' = [v \in Workers |-> IF v = w THEN r ELSE
                        IF Setting(v, e) THEN [req[v] EXCEPT !.alone = FALSE] ELSE req[v]]
                   /\ r.op = "set" /\ r.arg = e /\ r.step \in {"validate", "on_disable"}
                   /\ r.alone => \A v \in Workers : ~Setting(v, e)
<1> DEFINE alone == {v \in Workers : Setting(v, e)} = {}
           step == IF on THEN "validate" ELSE "on_disable"
           r == [NoRequest EXCEPT !.op = "set", !.arg = e, !.on = on, !.alone = alone, !.step = step]
           lost(v) == [req[v] EXCEPT !.alone = FALSE]
<1>1. /\ Shaped(r) /\ r.op = "set" /\ r.arg = e /\ r.on = on /\ r.alone = alone /\ r.step = step
      /\ r.server \in Nat \ {0} /\ alone \in BOOLEAN /\ step \in {"validate", "on_disable"}
      /\ step = IF on THEN "validate" ELSE "on_disable"
  BY NoRequestFacts DEF ReqOK, Shaped
<1>2. /\ req' = [v \in Workers |-> IF v = w THEN r ELSE IF Setting(v, e) THEN lost(v) ELSE req[v]]
      /\ UNCHANGED <<rows, effect, drift, confirmed, loaded>>
  BY DEF AskSet, history, managers
<1>3. ReqOK(r)
  <2> HIDE DEF r, step, alone
  <2>. QED  BY <1>1 DEF ReqOK
<1>4. ASSUME NEW v \in Workers PROVE ReqOK(lost(v))
  <2>1. ReqOK(req[v])
    BY DEF ReqInv
  <2>2. /\ Shaped(lost(v)) /\ lost(v).op = req[v].op /\ lost(v).arg = req[v].arg
        /\ lost(v).on = req[v].on /\ lost(v).alone = FALSE /\ lost(v).step = req[v].step
        /\ lost(v).server = req[v].server
    BY <2>1 DEF ReqOK, Shaped
  <2> HIDE DEF lost
  <2>. QED  BY <2>1, <2>2 DEF ReqOK
<1>5. ~Setting(w, e)
  BY DEF AskSet, Idle, Setting
<1>6. r.alone => \A v \in Workers : ~Setting(v, e)
  BY <1>1
<1>7. ReqInv'
  <2> HIDE DEF r, lost
  <2>. QED  BY <1>2, <1>3, <1>4 DEF ReqInv
<1>8. \A v \in Workers : lost(v) = [req[v] EXCEPT !.alone = FALSE]
  OBVIOUS
<1> HIDE DEF r, lost
<1>. QED  BY <1>1, <1>2, <1>5, <1>6, <1>7, <1>8

\* A process that ends has no requests and nothing loaded.
LEMMA DownGoes ==
  ASSUME ReqInv, NEW p \in Procs, Down(p)
  PROVE  /\ ReqInv' /\ UNCHANGED <<rows, effect, drift, confirmed>>
         /\ req' = [w \in Workers |-> IF P(w) = p THEN NoRequest ELSE req[w]]
         /\ loaded' = [loaded EXCEPT ![p] = NothingLoaded]
<1>1. req' = [w \in Workers |-> IF P(w) = p THEN NoRequest ELSE req[w]]
  BY DEF Down
<1>2. ReqInv'
  BY <1>1, NoRequestFacts DEF ReqInv
<1>. QED  BY <1>1, <1>2 DEF Down, history

-----------------------------------------------------------------------------
(* Hooks and rows.                                                         *)

HookFor(on) == IF on THEN "on_enable" ELSE "on_disable"

\* A request alone with its extension is the only one to set its state.
AloneInv ==
  \A v, w \in Workers : \A e \in Exts :
    Setting(v, e) /\ Setting(w, e) /\ req[v].alone => v = w

\* About to write, a request has run its hooks.
WriteInv ==
  \A w \in Workers : req[w].step = "write" =>
    /\ req[w].arg \in drift
    /\ req[w].alone => effect[req[w].arg] = HookFor(req[w].on)

\* The inductive invariant for the hooks.
HookInv ==
  /\ ReqInv /\ AloneInv /\ WriteInv /\ HooksAgreeWithRow
  /\ rows \in [Exts -> {"none", "on", "off"}]
  /\ effect \in [Exts -> {"none", "on_enable", "on_disable"}]

\* A step after which nobody new is about to write.
LEMMA HookQuiet ==
  ASSUME HookInv, NEW w \in Workers, NEW s, Goes(w, s), s.step # "write",
         drift \subseteq drift', UNCHANGED <<rows, effect>>
  PROVE  HookInv'
<1>1. ReqInv'
  BY GoesReq DEF HookInv
<1>2. AloneInv'
  BY DEF HookInv, AloneInv, ReqInv, ReqOK, Goes, SameRequest, Setting
<1>3. WriteInv'
  BY DEF HookInv, WriteInv, ReqInv, Goes
<1>4. HooksAgreeWithRow'
  BY DEF HookInv, HooksAgreeWithRow
<1>. QED  BY <1>1, <1>2, <1>3, <1>4 DEF HookInv

LEMMA HookRunHook ==
  ASSUME HookInv, NEW w \in Workers, RunHook(w)
  PROVE  HookInv'
<1> DEFINE r == req[w]
<1>1. PICK s : /\ Goes(w, s) /\ s.op = r.op /\ s.arg = r.arg /\ s.on = r.on /\ s.alone = r.alone
               /\ \/ r.step = "validate" /\ s.step # "write" /\ UNCHANGED <<drift, effect>>
                  \/ /\ r.op = "set" /\ s.step # "write"
                     /\ r.arg \in drift' /\ drift \subseteq drift' /\ UNCHANGED effect
                  \/ /\ r.op = "set" /\ s.step = "write"
                     /\ r.arg \in drift' /\ drift \subseteq drift'
                     /\ effect' = [effect EXCEPT ![r.arg] = HookFor(r.on)]
  BY RunHookGoes DEF HookInv, HookFor
<1>2. UNCHANGED rows
  BY DEF RunHook
<1>3. CASE s.step # "write"
  BY <1>1, <1>2, <1>3, HookQuiet
<1>4. CASE s.step = "write"
  <2>1. /\ r.op = "set" /\ r.arg \in Exts /\ r.on \in BOOLEAN
        /\ r.arg \in drift' /\ drift \subseteq drift'
        /\ effect' = [effect EXCEPT ![r.arg] = HookFor(r.on)]
    BY <1>1, <1>4 DEF HookInv, ReqInv, ReqOK
  <2>2. ReqInv'
    BY <1>1, GoesReq DEF HookInv
  <2>3. AloneInv'
    BY <1>1 DEF HookInv, AloneInv, ReqInv, ReqOK, Goes, SameRequest, Setting
  <2>4. effect' \in [Exts -> {"none", "on_enable", "on_disable"}]
    BY <2>1 DEF HookInv, HookFor
  <2>5. ASSUME NEW v \in Workers, req'[v].step = "write"
        PROVE  req'[v].arg \in drift' /\ (req'[v].alone => effect'[req'[v].arg] = HookFor(req'[v].on))
    <3>1. CASE v = w
      <4>1. req'[v] = s
        BY <3>1, <1>1 DEF HookInv, ReqInv, Goes
      <4>. QED  BY <4>1, <2>1, <1>1 DEF HookInv
    <3>2. CASE v # w
      <4>1. req'[v] = req[v] /\ req[v].op = "set" /\ req[v].arg \in Exts /\ req[v].step = "write"
        BY <3>2, <2>5, <1>1 DEF HookInv, ReqInv, ReqOK, Goes
      <4>2. req[v].alone => req[v].arg # r.arg
        BY <4>1, <3>2, <2>1 DEF HookInv, AloneInv, Setting
      <4>. QED  BY <4>1, <4>2, <2>1 DEF HookInv, WriteInv
    <3>. QED  BY <3>1, <3>2
  <2>6. HooksAgreeWithRow'
    BY <2>1, <1>2 DEF HookInv, HooksAgreeWithRow
  <2>. QED  BY <1>2, <2>2, <2>3, <2>4, <2>5, <2>6 DEF HookInv, WriteInv
<1>. QED  BY <1>3, <1>4

LEMMA HookWriteRow ==
  ASSUME HookInv, NEW w \in Workers, WriteRow(w)
  PROVE  HookInv'
<1> DEFINE r == req[w]
<1>1. PICK s : Goes(w, s) /\ s.step = "scan"
  BY WriteRowGoes DEF HookInv
<1>2. /\ r.op = "set" /\ r.arg \in Exts /\ r.step = "write" /\ r.on \in BOOLEAN
      /\ rows' = [rows EXCEPT ![r.arg] = IF r.on THEN "on" ELSE "off"]
      /\ drift' = (IF r.alone THEN drift \ {r.arg} ELSE drift) /\ UNCHANGED effect
      /\ r.arg \in drift /\ (r.alone => effect[r.arg] = HookFor(r.on))
  BY WriteRowGoes DEF HookInv, ReqInv, ReqOK, WriteRow, WriteInv
<1>3. ReqInv'
  BY <1>1, GoesReq DEF HookInv
<1>4. AloneInv'
  BY <1>1 DEF HookInv, AloneInv, ReqInv, ReqOK, Goes, SameRequest, Setting
<1>5. ASSUME NEW v \in Workers, req'[v].step = "write"
      PROVE  req'[v].arg \in drift' /\ (req'[v].alone => effect'[req'[v].arg] = HookFor(req'[v].on))
  <2>1. v # w
    BY <1>1, <1>5 DEF HookInv, ReqInv, Goes
  <2>2. req'[v] = req[v] /\ req[v].op = "set" /\ req[v].arg \in Exts /\ req[v].step = "write"
    BY <2>1, <1>5, <1>1 DEF HookInv, ReqInv, ReqOK, Goes
  <2>3. r.alone => req[v].arg # r.arg
    BY <2>1, <2>2, <1>2 DEF HookInv, AloneInv, Setting
  <2>. QED  BY <2>2, <2>3, <1>2 DEF HookInv, WriteInv
<1>6. HooksAgreeWithRow'
  <2> SUFFICES ASSUME NEW e \in Exts, rows'[e] # "none", e \notin drift'
               PROVE  effect'[e] = (IF rows'[e] = "on" THEN "on_enable" ELSE "on_disable")
    BY DEF HooksAgreeWithRow
  <2>1. CASE e = r.arg
    BY <2>1, <1>2 DEF HookInv, HookFor
  <2>2. CASE e # r.arg
    <3>1. rows'[e] = rows[e] /\ e \notin drift
      BY <2>2, <1>2 DEF HookInv
    <3>. QED  BY <3>1, <1>2 DEF HookInv, HooksAgreeWithRow
  <2>. QED  BY <2>1, <2>2
<1>7. rows' \in [Exts -> {"none", "on", "off"}]
  BY <1>2 DEF HookInv
<1>. QED  BY <1>2, <1>3, <1>4, <1>5, <1>6, <1>7 DEF HookInv, WriteInv

LEMMA HookAskSet ==
  ASSUME HookInv, NEW w \in Workers, NEW e \in Exts, NEW on \in BOOLEAN, AskSet(w, e, on)
  PROVE  HookInv'
<1>1. PICK r : /\ req' = [v \in Workers |-> IF v = w THEN r ELSE
                      IF Setting(v, e) THEN [req[v] EXCEPT !.alone = FALSE] ELSE req[v]]
               /\ r.op = "set" /\ r.arg = e /\ r.step \in {"validate", "on_disable"}
               /\ r.alone => \A v \in Workers : ~Setting(v, e)
  BY AskSetGoes DEF HookInv
<1>2. ReqInv' /\ UNCHANGED <<rows, effect, drift>> /\ ~Setting(w, e)
  BY AskSetGoes DEF HookInv
<1>3. ASSUME NEW v \in Workers, v # w
      PROVE  /\ req'[v].op = req[v].op /\ req'[v].arg = req[v].arg /\ req'[v].on = req[v].on
             /\ req'[v].step = req[v].step
             /\ req'[v].alone => req[v].alone /\ ~Setting(v, e)
  <2>1. Shaped(req[v])
    BY DEF HookInv, ReqInv, ReqOK
  <2>2. CASE Setting(v, e)
    <3>1. req'[v] = [req[v] EXCEPT !.alone = FALSE]
      BY <1>1, <1>3, <2>2
    <3>. QED  BY <3>1, <2>1 DEF Shaped
  <2>3. CASE ~Setting(v, e)
    BY <1>1, <1>3, <2>3
  <2>. QED  BY <2>2, <2>3
<1>4. req'[w] = r
  BY <1>1
<1>5. ASSUME NEW v \in Workers, NEW u \in Workers, NEW f \in Exts,
             Setting(v, f)', Setting(u, f)', req'[v].alone
      PROVE  v = u
  <2>1. CASE v = w /\ u # w
    <3>1. Setting(u, e)
      BY <2>1, <1>1, <1>3, <1>4, <1>5 DEF Setting
    <3>. QED  BY <3>1, <2>1, <1>1, <1>4, <1>5
  <2>2. CASE v # w /\ u = w
    <3>1. Setting(v, e)
      BY <2>2, <1>1, <1>3, <1>4, <1>5 DEF Setting
    <3>. QED  BY <3>1, <2>2, <1>3, <1>5
  <2>3. CASE v # w /\ u # w
    <3>1. Setting(v, f) /\ Setting(u, f) /\ req[v].alone
      BY <2>3, <1>3, <1>5 DEF Setting
    <3>. QED  BY <3>1 DEF HookInv, AloneInv
  <2>. QED  BY <2>1, <2>2, <2>3
<1>6. WriteInv'
  <2> SUFFICES ASSUME NEW v \in Workers, req'[v].step = "write"
               PROVE  req'[v].arg \in drift /\ (req'[v].alone => effect[req'[v].arg] = HookFor(req'[v].on))
    BY <1>2 DEF WriteInv
  <2>1. v # w
    BY <1>1, <1>4
  <2>. QED  BY <2>1, <1>3 DEF HookInv, WriteInv
<1>7. HooksAgreeWithRow'
  BY <1>2 DEF HookInv, HooksAgreeWithRow
<1>. QED  BY <1>2, <1>5, <1>6, <1>7 DEF HookInv, AloneInv

LEMMA HookDown ==
  ASSUME HookInv, NEW p \in Procs, Down(p)
  PROVE  HookInv'
<1>1. /\ ReqInv' /\ UNCHANGED <<rows, effect, drift>>
      /\ req' = [w \in Workers |-> IF P(w) = p THEN NoRequest ELSE req[w]]
  BY DownGoes DEF HookInv
<1>2. AloneInv'
  <2> SUFFICES ASSUME NEW v \in Workers, NEW w \in Workers, NEW e \in Exts,
                      Setting(v, e)', Setting(w, e)', req'[v].alone
               PROVE  v = w
    BY DEF AloneInv
  <2>1. req'[v] = req[v] /\ req'[w] = req[w]
    BY <1>1, NoRequestFacts DEF Setting
  <2>. QED  BY <2>1 DEF HookInv, AloneInv, Setting
<1>3. WriteInv'
  <2> SUFFICES ASSUME NEW v \in Workers, req'[v].step = "write"
               PROVE  req'[v].arg \in drift /\ (req'[v].alone => effect[req'[v].arg] = HookFor(req'[v].on))
    BY <1>1 DEF WriteInv
  <2>1. req'[v] = req[v]
    BY <1>1, NoRequestFacts
  <2>. QED  BY <2>1 DEF HookInv, WriteInv
<1>4. HooksAgreeWithRow'
  BY <1>1 DEF HookInv, HooksAgreeWithRow
<1>. QED  BY <1>1, <1>2, <1>3, <1>4 DEF HookInv

-----------------------------------------------------------------------------
(* Confirmed states.                                                       *)

\* A process handles one request at a time (a console, a command).
OneWorker == \A v, w \in Workers : P(v) = P(w) => v = w

\* The states a process may go by: none, or that of the row.
Follows(state, row) == state \in {"absent", row}

\* What is discovered matters for what this process has confirmed, and for
\* what the request is about to confirm.
Confirming(w, e) == Setting(w, e) /\ req[w].alone
Concerned(w, e)  == confirmed[e] = P(w) \/ Confirming(w, e)

WrittenInv ==
  \A w \in Workers : \A e \in Exts :
    Confirming(w, e) /\ req[w].step \in Later => rows[e] # "none"

SeenInv ==
  \A w \in Workers : \A e \in Exts :
    req[w].step = "adopt" /\ Concerned(w, e) => Follows(req[w].seen[e], rows[e])

AdoptedInv ==
  \A w \in Workers : \A e \in Exts :
    req[w].step \in Registration /\ Confirming(w, e) => Follows(loaded[P(w)][e], rows[e])

KeptInv ==
  \A e \in Exts : \A p \in Procs :
    confirmed[e] = p => rows[e] # "none" /\ Follows(loaded[p][e], rows[e])

\* The inductive invariant for confirmed states.
ConfInv ==
  /\ HookInv /\ WrittenInv /\ SeenInv /\ AdoptedInv /\ KeptInv
  /\ loaded = [p \in Procs |-> loaded[p]]
  /\ confirmed \in [Exts -> Procs \union {Nobody}]

LEMMA WorkersProcs ==
  ASSUME NEW w \in Workers
  PROVE  P(w) \in Procs /\ P(w) # Nobody
BY ExtensionsAssumption DEF ExtensionsAssumption, P

\* A step that brings no request to a place where loaded extensions matter.
LEMMA ConfQuiet ==
  ASSUME ConfInv, HookInv', NEW w \in Workers, NEW s, Goes(w, s), s.step # "adopt",
         s.op = "set" => /\ s.step \in Later => req[w].step \in Later
                         /\ s.step \in Registration => req[w].step \in Registration,
         UNCHANGED <<rows, confirmed, loaded>>
  PROVE  ConfInv'
<1>1. /\ req'[w] = s /\ \A v \in Workers : v # w => req'[v] = req[v]
  BY DEF ConfInv, HookInv, ReqInv, Goes
<1>2. \A v \in Workers : \A e \in Exts : Confirming(v, e)' => Confirming(v, e)
  BY <1>1 DEF Confirming, Setting, Goes, SameRequest
<1>3. WrittenInv'
  BY <1>1, <1>2 DEF ConfInv, WrittenInv, Confirming, Setting
<1>4. SeenInv'
  <2> SUFFICES ASSUME NEW v \in Workers, NEW e \in Exts, req'[v].step = "adopt", Concerned(v, e)'
               PROVE  Follows(req'[v].seen[e], rows'[e])
    BY DEF SeenInv
  <2>1. v # w /\ req'[v] = req[v] /\ Concerned(v, e)
    BY <1>1, <1>2 DEF Concerned
  <2>. QED  BY <2>1 DEF ConfInv, SeenInv, Follows
<1>5. AdoptedInv'
  BY <1>1, <1>2 DEF ConfInv, AdoptedInv, Confirming, Setting, Follows
<1>6. KeptInv'
  BY DEF ConfInv, KeptInv, Follows
<1>. QED  BY <1>3, <1>4, <1>5, <1>6 DEF ConfInv

LEMMA ConfWriteRow ==
  ASSUME ConfInv, HookInv', NEW w \in Workers, WriteRow(w)
  PROVE  ConfInv'
<1> DEFINE r == req[w]
<1>1. PICK s : Goes(w, s) /\ s.step = "scan"
  BY WriteRowGoes DEF ConfInv, HookInv
<1>2. /\ r.op = "set" /\ r.arg \in Exts /\ r.step = "write"
      /\ rows' = [rows EXCEPT ![r.arg] = IF r.on THEN "on" ELSE "off"]
      /\ confirmed' = [confirmed EXCEPT ![r.arg] = Nobody] /\ UNCHANGED loaded
  BY WriteRowGoes DEF ConfInv, HookInv, WriteRow, managers
<1>3. /\ req'[w] = s /\ \A v \in Workers : v # w => req'[v] = req[v]
  BY <1>1 DEF ConfInv, HookInv, ReqInv, Goes
<1>4. /\ rows'[r.arg] # "none" /\ confirmed'[r.arg] = Nobody
      /\ \A e \in Exts : e # r.arg => rows'[e] = rows[e] /\ confirmed'[e] = confirmed[e]
  BY <1>2 DEF ConfInv, HookInv
<1>5. ASSUME NEW v \in Workers, NEW e \in Exts, v # w, Confirming(v, e)
      PROVE  e # r.arg
  BY <1>2, <1>5 DEF ConfInv, HookInv, AloneInv, Confirming, Setting
<1>6. WrittenInv'
  <2> SUFFICES ASSUME NEW v \in Workers, NEW e \in Exts, Confirming(v, e)', req'[v].step \in Later
               PROVE  rows'[e] # "none"
    BY DEF WrittenInv
  <2>1. CASE e = r.arg
    BY <2>1, <1>4
  <2>2. CASE e # r.arg /\ v # w
    BY <2>2, <1>3, <1>4 DEF ConfInv, WrittenInv, Confirming, Setting
  <2>3. CASE e # r.arg /\ v = w
    BY <2>3, <1>1, <1>2, <1>3 DEF Confirming, Setting, Goes, SameRequest
  <2>. QED  BY <2>1, <2>2, <2>3
<1>7. SeenInv'
  <2> SUFFICES ASSUME NEW v \in Workers, NEW e \in Exts, req'[v].step = "adopt", Concerned(v, e)'
               PROVE  Follows(req'[v].seen[e], rows'[e])
    BY DEF SeenInv
  <2>1. v # w /\ req'[v] = req[v]
    BY <1>1, <1>3
  <2>2. e # r.arg /\ Concerned(v, e)
    BY <2>1, <1>4, <1>5, WorkersProcs DEF Concerned, Confirming, Setting
  <2>. QED  BY <2>1, <2>2, <1>4 DEF ConfInv, SeenInv, Follows
<1>8. AdoptedInv'
  <2> SUFFICES ASSUME NEW v \in Workers, NEW e \in Exts, req'[v].step \in Registration, Confirming(v, e)'
               PROVE  Follows(loaded'[P(v)][e], rows'[e])
    BY DEF AdoptedInv
  <2>1. v # w /\ req'[v] = req[v]
    BY <1>1, <1>3 DEF Registration
  <2>2. e # r.arg /\ Confirming(v, e)
    BY <2>1, <1>5 DEF Confirming, Setting
  <2>. QED  BY <2>1, <2>2, <1>2, <1>4 DEF ConfInv, AdoptedInv, Follows
<1>9. KeptInv'
  <2> SUFFICES ASSUME NEW e \in Exts, NEW p \in Procs, confirmed'[e] = p
               PROVE  rows'[e] # "none" /\ Follows(loaded'[p][e], rows'[e])
    BY DEF KeptInv
  <2>1. e # r.arg
    BY <1>4, ExtensionsAssumption DEF ExtensionsAssumption
  <2>. QED  BY <2>1, <1>2, <1>4 DEF ConfInv, KeptInv, Follows
<1>10. confirmed' \in [Exts -> Procs \union {Nobody}]
  BY <1>2 DEF ConfInv
<1>. QED  BY <1>2, <1>6, <1>7, <1>8, <1>9, <1>10 DEF ConfInv

LEMMA ConfReadRows ==
  ASSUME ConfInv, HookInv', NEW w \in Workers, ReadRows(w)
  PROVE  ConfInv'
<1>1. PICK s : /\ Goes(w, s) /\ s.step = "adopt" /\ s.op = req[w].op /\ req[w].step = "servers"
               /\ \A e \in Exts : rows[e] # "none" => s.seen[e] \in {"absent", rows[e]}
  BY ReadRowsGoes DEF ConfInv, HookInv
<1>2. UNCHANGED <<rows, confirmed, loaded>>
  BY DEF ReadRows, history, managers
<1>3. /\ req'[w] = s /\ \A v \in Workers : v # w => req'[v] = req[v]
  BY <1>1 DEF ConfInv, HookInv, ReqInv, Goes
<1>4. \A v \in Workers : \A e \in Exts : Confirming(v, e)' => Confirming(v, e)
  BY <1>1, <1>3 DEF Confirming, Setting, Goes, SameRequest
<1>5. WrittenInv'
  BY <1>1, <1>2, <1>3, <1>4 DEF ConfInv, WrittenInv, Confirming, Setting, Later, Discovery
<1>6. SeenInv'
  <2> SUFFICES ASSUME NEW v \in Workers, NEW e \in Exts, req'[v].step = "adopt", Concerned(v, e)'
               PROVE  Follows(req'[v].seen[e], rows'[e])
    BY DEF SeenInv
  <2>1. Concerned(v, e)
    BY <1>2, <1>4 DEF Concerned
  <2>2. CASE v = w
    <3>1. rows[e] # "none"
      <4>1. CASE confirmed[e] = P(w)
        BY <4>1, WorkersProcs DEF ConfInv, KeptInv
      <4>2. CASE Confirming(w, e)
        BY <4>2, <1>1 DEF ConfInv, WrittenInv, Later, Discovery
      <4>. QED  BY <4>1, <4>2, <2>1, <2>2 DEF Concerned
    <3>. QED  BY <3>1, <2>2, <1>1, <1>2, <1>3 DEF Follows
  <2>3. CASE v # w
    BY <2>1, <2>3, <1>2, <1>3 DEF ConfInv, SeenInv, Follows
  <2>. QED  BY <2>2, <2>3
<1>7. AdoptedInv'
  BY <1>1, <1>2, <1>3, <1>4 DEF ConfInv, AdoptedInv, Registration, Follows
<1>8. KeptInv'
  BY <1>2 DEF ConfInv, KeptInv, Follows
<1>. QED  BY <1>2, <1>5, <1>6, <1>7, <1>8 DEF ConfInv

LEMMA ConfAdopt ==
  ASSUME OneWorker, ConfInv, HookInv', NEW w \in Workers, Adopt(w)
  PROVE  ConfInv'
<1> DEFINE p == P(w)
<1>1. PICK s : Goes(w, s) /\ s.step = "unregister" /\ s.op = req[w].op
  BY GotoGoes DEF Adopt, ConfInv, HookInv
<1>2. /\ UNCHANGED <<rows, confirmed>> /\ loaded' = [loaded EXCEPT ![p] = req[w].seen]
      /\ req[w].step = "adopt"
  BY DEF Adopt, history, At
<1>3. /\ req'[w] = s /\ \A v \in Workers : v # w => req'[v] = req[v]
  BY <1>1 DEF ConfInv, HookInv, ReqInv, Goes
<1>4. \A v \in Workers : \A e \in Exts : Confirming(v, e)' => Confirming(v, e)
  BY <1>1, <1>3 DEF Confirming, Setting, Goes, SameRequest
<1>5. /\ p \in Procs /\ loaded'[p] = req[w].seen
      /\ \A q \in Procs : q # p => loaded'[q] = loaded[q]
      /\ loaded' = [q \in Procs |-> loaded'[q]]
  BY <1>2, WorkersProcs DEF ConfInv
<1>6. WrittenInv'
  BY <1>1, <1>2, <1>3, <1>4 DEF ConfInv, WrittenInv, Later, Discovery
<1>7. SeenInv'
  <2> SUFFICES ASSUME NEW v \in Workers, NEW e \in Exts, req'[v].step = "adopt", Concerned(v, e)'
               PROVE  Follows(req'[v].seen[e], rows'[e])
    BY DEF SeenInv
  <2>1. v # w /\ req'[v] = req[v] /\ Concerned(v, e)
    BY <1>1, <1>2, <1>3, <1>4 DEF Concerned
  <2>. QED  BY <2>1, <1>2 DEF ConfInv, SeenInv
<1>8. AdoptedInv'
  <2> SUFFICES ASSUME NEW v \in Workers, NEW e \in Exts, req'[v].step \in Registration, Confirming(v, e)'
               PROVE  Follows(loaded'[P(v)][e], rows'[e])
    BY DEF AdoptedInv
  <2>1. Confirming(v, e)
    BY <1>4
  <2>2. CASE v = w
    BY <2>1, <2>2, <1>2, <1>5 DEF ConfInv, SeenInv, Concerned
  <2>3. CASE v # w
    <3>1. P(v) # p /\ req'[v] = req[v] /\ P(v) \in Procs
      BY <2>3, <1>3, WorkersProcs DEF OneWorker
    <3>. QED  BY <3>1, <2>1, <1>2, <1>5 DEF ConfInv, AdoptedInv
  <2>. QED  BY <2>2, <2>3
<1>9. KeptInv'
  <2> SUFFICES ASSUME NEW e \in Exts, NEW q \in Procs, confirmed[e] = q
               PROVE  rows[e] # "none" /\ Follows(loaded'[q][e], rows[e])
    BY <1>2 DEF KeptInv
  <2>1. CASE q = p
    BY <2>1, <1>2, <1>5 DEF ConfInv, KeptInv, SeenInv, Concerned
  <2>2. CASE q # p
    BY <2>2, <1>5 DEF ConfInv, KeptInv
  <2>. QED  BY <2>1, <2>2
<1>. QED  BY <1>2, <1>5, <1>6, <1>7, <1>8, <1>9 DEF ConfInv

LEMMA ConfRegistered ==
  ASSUME OneWorker, ConfInv, HookInv', NEW w \in Workers, Registered(w)
  PROVE  ConfInv'
<1> DEFINE p == P(w)
<1>1. PICK s : /\ Goes(w, s) /\ s.step \notin {"write", "adopt"}
               /\ s.op = "set" => /\ s.step \in Later => req[w].step \in Later
                                  /\ s.step \in Registration => req[w].step \in Registration
  BY RegisteredGoes DEF ConfInv, HookInv, Quiet
<1>2. /\ UNCHANGED <<rows, loaded>> /\ req[w].step = "register"
      /\ confirmed' = IF req[w].op = "set" /\ req[w].alone
                        THEN [confirmed EXCEPT ![req[w].arg] = p] ELSE confirmed
  BY RegisteredGoes DEF Registered, At, ConfInv, HookInv
<1>3. /\ req'[w] = s /\ \A v \in Workers : v # w => req'[v] = req[v]
  BY <1>1 DEF ConfInv, HookInv, ReqInv, Goes
<1>4. \A v \in Workers : \A e \in Exts : Confirming(v, e)' => Confirming(v, e)
  BY <1>1, <1>3 DEF Confirming, Setting, Goes, SameRequest
<1>5. /\ \A e \in Exts : confirmed'[e] = confirmed[e] \/ (confirmed'[e] = p /\ Confirming(w, e))
      /\ confirmed' \in [Exts -> Procs \union {Nobody}]
  BY <1>2, WorkersProcs DEF ConfInv, Confirming, Setting
<1>6. WrittenInv'
  BY <1>1, <1>2, <1>3, <1>4 DEF ConfInv, WrittenInv, Confirming, Setting
<1>7. SeenInv'
  <2> SUFFICES ASSUME NEW v \in Workers, NEW e \in Exts, req'[v].step = "adopt", Concerned(v, e)'
               PROVE  Follows(req'[v].seen[e], rows'[e])
    BY DEF SeenInv
  <2>1. v # w /\ req'[v] = req[v] /\ P(v) # p
    BY <1>1, <1>3 DEF OneWorker
  <2>2. Concerned(v, e)
    BY <2>1, <1>4, <1>5 DEF Concerned
  <2>. QED  BY <2>1, <2>2, <1>2 DEF ConfInv, SeenInv
<1>8. AdoptedInv'
  BY <1>1, <1>2, <1>3, <1>4 DEF ConfInv, AdoptedInv, Confirming, Setting
<1>9. KeptInv'
  <2> SUFFICES ASSUME NEW e \in Exts, NEW q \in Procs, confirmed'[e] = q
               PROVE  rows[e] # "none" /\ Follows(loaded[q][e], rows[e])
    BY <1>2 DEF KeptInv
  <2>1. CASE confirmed[e] = q
    BY <2>1 DEF ConfInv, KeptInv
  <2>2. CASE q = p /\ Confirming(w, e)
    BY <2>2, <1>2 DEF ConfInv, WrittenInv, AdoptedInv, Later, Registration
  <2>. QED  BY <2>1, <2>2, <1>5
<1>. QED  BY <1>2, <1>5, <1>6, <1>7, <1>8, <1>9 DEF ConfInv

LEMMA ConfAskSet ==
  ASSUME ConfInv, HookInv', NEW w \in Workers, NEW e \in Exts, NEW on \in BOOLEAN, AskSet(w, e, on)
  PROVE  ConfInv'
<1>1. PICK r : /\ req' = [v \in Workers |-> IF v = w THEN r ELSE
                      IF Setting(v, e) THEN [req[v] EXCEPT !.alone = FALSE] ELSE req[v]]
               /\ r.step \in {"validate", "on_disable"}
  BY AskSetGoes DEF ConfInv, HookInv
<1>2. UNCHANGED <<rows, confirmed, loaded>>
  BY AskSetGoes DEF ConfInv, HookInv
<1>3. ASSUME NEW v \in Workers, v # w
      PROVE  /\ req'[v].op = req[v].op /\ req'[v].arg = req[v].arg /\ req'[v].seen = req[v].seen
             /\ req'[v].step = req[v].step
             /\ req'[v].alone => req[v].alone
  <2>1. Shaped(req[v])
    BY DEF ConfInv, HookInv, ReqInv, ReqOK
  <2>2. CASE Setting(v, e)
    <3>1. req'[v] = [req[v] EXCEPT !.alone = FALSE]
      BY <1>1, <1>3, <2>2
    <3>. QED  BY <3>1, <2>1 DEF Shaped
  <2>3. CASE ~Setting(v, e)
    BY <1>1, <1>3, <2>3
  <2>. QED  BY <2>2, <2>3
<1>4. req'[w] = r /\ r.step \notin Later
  BY <1>1 DEF Later, Discovery, Registration
<1>5. \A v \in Workers : \A f \in Exts : v # w /\ Confirming(v, f)' => Confirming(v, f)
  BY <1>3 DEF Confirming, Setting
<1>6. WrittenInv'
  <2> SUFFICES ASSUME NEW v \in Workers, NEW f \in Exts, Confirming(v, f)', req'[v].step \in Later
               PROVE  rows[f] # "none"
    BY <1>2 DEF WrittenInv
  <2>. QED  BY <1>3, <1>4, <1>5 DEF ConfInv, WrittenInv
<1>7. SeenInv'
  <2> SUFFICES ASSUME NEW v \in Workers, NEW f \in Exts, req'[v].step = "adopt", Concerned(v, f)'
               PROVE  Follows(req'[v].seen[f], rows'[f])
    BY DEF SeenInv
  <2>1. v # w
    BY <1>4 DEF Later, Discovery
  <2>2. Concerned(v, f) /\ req'[v].seen = req[v].seen /\ req[v].step = "adopt"
    BY <2>1, <1>2, <1>3, <1>5 DEF Concerned
  <2>. QED  BY <2>2, <1>2 DEF ConfInv, SeenInv
<1>8. AdoptedInv'
  <2> SUFFICES ASSUME NEW v \in Workers, NEW f \in Exts, req'[v].step \in Registration, Confirming(v, f)'
               PROVE  Follows(loaded[P(v)][f], rows[f])
    BY <1>2 DEF AdoptedInv
  <2>. QED  BY <1>3, <1>4, <1>5 DEF ConfInv, AdoptedInv, Later
<1>9. KeptInv'
  BY <1>2 DEF ConfInv, KeptInv
<1>. QED  BY <1>2, <1>6, <1>7, <1>8, <1>9 DEF ConfInv

LEMMA ConfDown ==
  ASSUME ConfInv, HookInv', NEW p \in Procs, Down(p)
  PROVE  ConfInv'
<1>1. /\ UNCHANGED <<rows, confirmed>>
      /\ req' = [w \in Workers |-> IF P(w) = p THEN NoRequest ELSE req[w]]
      /\ loaded' = [loaded EXCEPT ![p] = NothingLoaded]
  BY DownGoes DEF ConfInv, HookInv
<1>2. /\ \A e \in Exts : Follows(loaded'[p][e], rows[e])
      /\ \A q \in Procs : q # p => loaded'[q] = loaded[q]
      /\ loaded' = [q \in Procs |-> loaded'[q]]
  BY <1>1 DEF ConfInv, NothingLoaded, Follows
<1>3. ASSUME NEW v \in Workers, req'[v].step \in Later
      PROVE  req'[v] = req[v]
  BY <1>1, <1>3, NoRequestFacts DEF Later, Discovery, Registration
<1>4. WrittenInv'
  BY <1>1, <1>3 DEF ConfInv, WrittenInv, Confirming, Setting
<1>5. SeenInv'
  <2> SUFFICES ASSUME NEW v \in Workers, NEW e \in Exts, req'[v].step = "adopt", Concerned(v, e)'
               PROVE  Follows(req'[v].seen[e], rows'[e])
    BY DEF SeenInv
  <2>1. req'[v] = req[v]
    BY <1>3 DEF Later, Discovery
  <2>. QED  BY <2>1, <1>1 DEF ConfInv, SeenInv, Concerned, Confirming, Setting
<1>6. AdoptedInv'
  <2> SUFFICES ASSUME NEW v \in Workers, NEW e \in Exts, req'[v].step \in Registration, Confirming(v, e)'
               PROVE  Follows(loaded'[P(v)][e], rows'[e])
    BY DEF AdoptedInv
  <2>1. req'[v] = req[v] /\ P(v) \in Procs
    BY <1>3, WorkersProcs DEF Later
  <2>. QED  BY <2>1, <1>1, <1>2 DEF ConfInv, AdoptedInv, Confirming, Setting
<1>7. KeptInv'
  BY <1>1, <1>2 DEF ConfInv, KeptInv
<1>. QED  BY <1>1, <1>2, <1>4, <1>5, <1>6, <1>7 DEF ConfInv

-----------------------------------------------------------------------------
(* Every step keeps both invariants.                                       *)

LEMMA HookNext == HookInv /\ [Next]_vars => HookInv'
<1> SUFFICES ASSUME HookInv, [Next]_vars PROVE HookInv'
  OBVIOUS
<1>0. ReqInv
  BY DEF HookInv
<1>1. ASSUME NEW w \in Workers, Quiet(w), drift \subseteq drift', UNCHANGED <<rows, effect>>
      PROVE  HookInv'
  BY <1>1, HookQuiet DEF Quiet
<1>2. ASSUME UNCHANGED <<req, rows, effect, drift>> PROVE HookInv'
  BY <1>2 DEF HookInv, ReqInv, AloneInv, WriteInv, HooksAgreeWithRow, Setting
<1>3. CASE UNCHANGED vars
  BY <1>2, <1>3 DEF vars, history
<1>4. ASSUME NEW w \in Workers, Start(w) \/ Arrive(w) PROVE HookInv'
  BY <1>1, <1>4, StartGoes, ArriveGoes, HookAskSet DEF Arrive
<1>5. ASSUME NEW w \in Workers, Handle(w) PROVE HookInv'
  <2>1. CASE RunHook(w) \/ WriteRow(w)
    BY <2>1, HookRunHook, HookWriteRow
  <2>2. CASE ReadRows(w)
    BY <2>2, <1>0, ReadRowsGoes, HookQuiet DEF ReadRows, history
  <2>3. CASE Adopt(w)
    BY <2>3, <1>0, GotoGoes, HookQuiet DEF Adopt, history
  <2>4. CASE Registered(w)
    BY <2>4, <1>0, <1>1, RegisteredGoes
  <2>. QED  BY <1>0, <1>1, <1>5, <2>1, <2>2, <2>3, <2>4, HandleGoes DEF Handle
<1>6. ASSUME NEW w \in Workers, McpStep(w) \/ ExecStep(w) PROVE HookInv'
  BY <1>2, <1>6 DEF McpStep, ExecStep, history
<1>7. ASSUME NEW w \in Workers, Exit(w) PROVE HookInv'
  BY <1>7, HookDown, WorkersProcs DEF Exit
<1>8. ASSUME NEW p \in Procs, Crash(p) PROVE HookInv'
  BY <1>8, HookDown DEF Crash
<1>9. ASSUME NEW e, NEW manifest, Edit(e, manifest) PROVE HookInv'
  BY <1>2, <1>9 DEF Edit, history
<1>. QED  BY <1>3, <1>4, <1>5, <1>6, <1>7, <1>8, <1>9 DEF Next

LEMMA ConfNext == OneWorker /\ ConfInv /\ [Next]_vars => ConfInv'
<1> SUFFICES ASSUME OneWorker, ConfInv, [Next]_vars PROVE ConfInv'
  OBVIOUS
<1>0. ReqInv /\ HookInv'
  BY HookNext DEF ConfInv, HookInv
<1>1. ASSUME NEW w \in Workers, Quiet(w), UNCHANGED <<rows, confirmed, loaded>>
      PROVE  ConfInv'
  BY <1>0, <1>1, ConfQuiet DEF Quiet
<1>2. ASSUME UNCHANGED <<req, rows, confirmed, loaded>> PROVE ConfInv'
  BY <1>0, <1>2 DEF ConfInv, WrittenInv, SeenInv, AdoptedInv, KeptInv, Concerned, Confirming, Setting
<1>3. CASE UNCHANGED vars
  BY <1>2, <1>3 DEF vars, history, managers
<1>4. ASSUME NEW w \in Workers, Start(w) \/ Arrive(w) PROVE ConfInv'
  BY <1>0, <1>1, <1>4, StartGoes, ArriveGoes, ConfAskSet DEF Arrive
<1>5. ASSUME NEW w \in Workers, Handle(w) PROVE ConfInv'
  <2>1. CASE RunHook(w)
    <3>1. PICK s : Goes(w, s) /\ s.step \notin Later
      BY <2>1, <1>0, RunHookGoes
    <3>2. UNCHANGED <<rows, confirmed, loaded>>
      BY <2>1 DEF RunHook, managers
    <3>. QED  BY <3>1, <3>2, <1>0, ConfQuiet DEF Later, Discovery
  <2>2. CASE WriteRow(w) \/ ReadRows(w) \/ Adopt(w) \/ Registered(w)
    BY <2>2, <1>0, ConfWriteRow, ConfReadRows, ConfAdopt, ConfRegistered
  <2>. QED  BY <1>0, <1>1, <1>5, <2>1, <2>2, HandleGoes DEF Handle
<1>6. ASSUME NEW w \in Workers, McpStep(w) \/ ExecStep(w) PROVE ConfInv'
  BY <1>2, <1>6 DEF McpStep, ExecStep, history, managers
<1>7. ASSUME NEW w \in Workers, Exit(w) PROVE ConfInv'
  BY <1>0, <1>7, ConfDown, WorkersProcs DEF Exit
<1>8. ASSUME NEW p \in Procs, Crash(p) PROVE ConfInv'
  BY <1>0, <1>8, ConfDown DEF Crash
<1>9. ASSUME NEW e, NEW manifest, Edit(e, manifest) PROVE ConfInv'
  BY <1>2, <1>9 DEF Edit, history, managers
<1>. QED  BY <1>3, <1>4, <1>5, <1>6, <1>7, <1>8, <1>9 DEF Next

LEMMA InitHookInv == Init => HookInv
BY NoRequestFacts DEF Init, HookInv, ReqInv, AloneInv, WriteInv, HooksAgreeWithRow, Setting

LEMMA InitConfInv == Init => ConfInv
<1> SUFFICES ASSUME Init PROVE ConfInv
  OBVIOUS
<1>1. \A w \in Workers : req[w] = NoRequest
  BY DEF Init
<1>2. WrittenInv /\ SeenInv /\ AdoptedInv
  BY <1>1, NoRequestFacts DEF WrittenInv, SeenInv, AdoptedInv, Later, Discovery, Registration
<1>3. /\ KeptInv /\ loaded = [p \in Procs |-> loaded[p]]
      /\ confirmed \in [Exts -> Procs \union {Nobody}]
  BY ExtensionsAssumption DEF Init, KeptInv, ExtensionsAssumption
<1>. QED  BY <1>2, <1>3, InitHookInv DEF ConfInv

\* The hooks that have run and the stored state agree, however requests,
\* crashes and failures interleave, outside the drift the code allows
\* (manager.go:227).
THEOREM HooksAlwaysAgree == Spec => []HooksAgreeWithRow
<1>1. HookInv => HooksAgreeWithRow
  BY DEF HookInv
<1>. QED  BY <1>1, InitHookInv, HookNext, PTL DEF Spec

\* A process that handles one request at a time goes by the state it has
\* confirmed, whatever other processes, edits and restarts do
\* (manager.go:208, "persists extension state and refreshes discovery").
THEOREM ConfirmedAlwaysKept ==
  ASSUME OneWorker
  PROVE  Spec => []ConfirmedStateKept
<1>1. ConfInv => ConfirmedStateKept
  <2> SUFFICES ASSUME ConfInv, NEW e \in Exts, confirmed[e] # Nobody,
                      loaded[confirmed[e]][e] # "absent"
               PROVE  loaded[confirmed[e]][e] = rows[e]
    BY DEF ConfirmedStateKept
  <2>. QED  BY DEF ConfInv, KeptInv, Follows
<1>. QED  BY <1>1, InitConfInv, ConfNext, PTL DEF Spec

-----------------------------------------------------------------------------
(* Every request keeps its shape.                                          *)

LEMMA ReqNext == ReqInv /\ [Next]_vars => ReqInv'
<1> SUFFICES ASSUME ReqInv, [Next]_vars PROVE ReqInv'
  OBVIOUS
<1>1. ASSUME NEW w \in Workers, Quiet(w) PROVE ReqInv'
  BY <1>1, GoesReq DEF Quiet
<1>2. ASSUME UNCHANGED req PROVE ReqInv'
  BY <1>2 DEF ReqInv
<1>3. ASSUME NEW w \in Workers, Start(w) \/ Arrive(w) PROVE ReqInv'
  BY <1>1, <1>3, StartGoes, ArriveGoes, AskSetGoes DEF Arrive
<1>4. ASSUME NEW w \in Workers, Handle(w) PROVE ReqInv'
  <2>1. CASE RunHook(w) \/ WriteRow(w) \/ ReadRows(w)
    BY <2>1, RunHookGoes, WriteRowGoes, ReadRowsGoes, GoesReq
  <2>2. CASE Adopt(w)
    BY <2>2, GotoGoes, GoesReq DEF Adopt
  <2>. QED  BY <1>1, <1>4, <2>1, <2>2, RegisteredGoes, HandleGoes DEF Handle
<1>5. ASSUME NEW w \in Workers, McpStep(w) \/ ExecStep(w) PROVE ReqInv'
  BY <1>2, <1>5 DEF McpStep, ExecStep
<1>6. ASSUME NEW w \in Workers, Exit(w) PROVE ReqInv'
  BY <1>6, DownGoes, WorkersProcs DEF Exit
<1>7. ASSUME NEW p \in Procs, Crash(p) PROVE ReqInv'
  BY <1>7, DownGoes DEF Crash
<1>8. ASSUME NEW e, NEW manifest, Edit(e, manifest) PROVE ReqInv'
  BY <1>2, <1>8 DEF Edit
<1>. QED  BY <1>2, <1>3, <1>4, <1>5, <1>6, <1>7, <1>8 DEF Next, vars

LEMMA InitReqInv == Init => ReqInv
BY NoRequestFacts DEF Init, ReqInv

-----------------------------------------------------------------------------
(* The registry.                                                           *)

ToolLists == [Servers -> Seq(Names)]

\* Among these claims to its name, the last: the one the name goes to.
Wins(c, claims) == c \in claims /\ \A d \in claims \ {c} : d.name = c.name => Before(d, c)

\* The table offers the tools of these claims, under the registered names.
Holds(table, names, claims) ==
  /\ names = {c.name : c \in claims}
  /\ \A n \in names : \E c \in claims : Wins(c, claims) /\ c.name = n /\ table[n] = c.owner

\* Names that are not registered are built-in tools that were never taken.
Rests(table, names, taken) ==
  /\ \A n \in Names \ names : table[n] = (IF n \in Builtins \ taken THEN "builtin" ELSE "none")
  /\ names \intersect Builtins \subseteq taken

\* While a process registers, it holds the claims before those to do.
Midway(w) ==
  LET claims == ClaimsOf(P(w))  todo == req[w].todo IN
  /\ todo \subseteq claims
  /\ \A c \in claims \ todo : \A d \in todo : Before(c, d)
  /\ Holds(registry[P(w)], registered[P(w)], claims \ todo)

\* The inductive invariant for the registry.
RegInv ==
  /\ ReqInv
  /\ served \in [Procs -> ToolLists] /\ \A w \in Workers : req[w].tools \in ToolLists
  /\ loaded = [p \in Procs |-> loaded[p]] /\ up = [p \in Procs |-> up[p]]
  /\ registered = [p \in Procs |-> registered[p]] /\ claimed = [p \in Procs |-> claimed[p]]
  /\ registry = [p \in Procs |-> [n \in Names |-> registry[p][n]]]
  /\ \A p \in Procs : Rests(registry[p], registered[p], claimed[p])
  /\ \A w \in Workers : req[w].step = "register" => Midway(w)
  /\ \A p \in Procs : up[p] /\ ~Registering(p) => Holds(registry[p], registered[p], ClaimsOf(p))

LEMMA ClaimFacts ==
  ASSUME served \in [Procs -> ToolLists], NEW p \in Procs
  PROVE  /\ \A c \in ClaimsOf(p) : c.list \in Nat /\ c.item \in Nat /\ c.name \in Names
         /\ \A c, d \in ClaimsOf(p) : c.list = d.list /\ c.item = d.item => c = d
<1> DEFINE offer(k, i, name, owner) == [list |-> k, item |-> i, name |-> name, owner |-> owner]
           enabled == {k \in DOMAIN Order : loaded[p][Order[k]] = "on" /\ ToolOf[Order[k]] # NoTool}
           tools(k) == served[p][ServerOrder[p][k]]
           Own(c, k) == c = offer(k, 1, ToolOf[Order[k]], Order[k])
           Ext(c, k, i) == c = offer(Len(Order) + k, i, tools(k)[i], ServerOrder[p][k])
<1>1. /\ Order \in Seq(Exts) /\ ServerOrder[p] \in Seq(Servers)
      /\ Len(Order) \in Nat /\ DOMAIN Order = 1..Len(Order)
      /\ Len(ServerOrder[p]) \in Nat /\ DOMAIN ServerOrder[p] = 1..Len(ServerOrder[p])
  BY ExtensionsAssumption DEF ExtensionsAssumption
<1>2. \A k \in DOMAIN ServerOrder[p] : tools(k) \in Seq(Names)
  BY <1>1 DEF ToolLists
<1>3. \A c \in ClaimsOf(p) :
        \/ \E k \in enabled : Own(c, k)
        \/ \E k \in DOMAIN ServerOrder[p] : \E i \in DOMAIN tools(k) : Ext(c, k, i)
  BY DEF ClaimsOf
<1>4. \A c, k : Own(c, k) => c.list = k /\ c.item = 1 /\ c.name = ToolOf[Order[k]] /\ c.owner = Order[k]
  OBVIOUS
<1>5. \A c, k, i : Ext(c, k, i) =>
        c.list = Len(Order) + k /\ c.item = i /\ c.name = tools(k)[i] /\ c.owner = ServerOrder[p][k]
  OBVIOUS
<1>6. \A k \in enabled : k \in 1..Len(Order) /\ ToolOf[Order[k]] \in Names
  BY <1>1 DEF Names
<1>7. \A k \in DOMAIN ServerOrder[p] : \A i \in DOMAIN tools(k) :
        k \in Nat \ {0} /\ i \in Nat /\ tools(k)[i] \in Names
  BY <1>1, <1>2
<1>8. \A c, d, k : Own(c, k) /\ Own(d, k) => c = d
  OBVIOUS
<1>9. \A c, d, k, i : Ext(c, k, i) /\ Ext(d, k, i) => c = d
  OBVIOUS
<1> HIDE DEF Own, Ext, enabled, tools
<1>10. ASSUME NEW c \in ClaimsOf(p) PROVE c.list \in Nat /\ c.item \in Nat /\ c.name \in Names
  BY <1>1, <1>3, <1>4, <1>5, <1>6, <1>7
<1>11. ASSUME NEW c \in ClaimsOf(p), NEW d \in ClaimsOf(p), c.list = d.list, c.item = d.item
       PROVE  c = d
  <2>1. CASE c.list \in 1..Len(Order)
    <3>1. ASSUME NEW b \in ClaimsOf(p), b.list = c.list PROVE Own(b, c.list)
      BY <1>1, <1>3, <1>4, <1>5, <1>6, <1>7, <2>1, <3>1
    <3>. QED  BY <1>8, <1>11, <3>1
  <2>2. CASE c.list \notin 1..Len(Order)
    <3>1. ASSUME NEW b \in ClaimsOf(p), b.list = c.list PROVE Ext(b, c.list - Len(Order), b.item)
      <4>1. PICK k \in DOMAIN ServerOrder[p] : \E i \in DOMAIN tools(k) : Ext(b, k, i)
        BY <1>3, <1>4, <1>6, <2>2, <3>1
      <4>2. b.list = Len(Order) + k /\ Ext(b, k, b.item) /\ k \in Nat
        BY <1>5, <1>7, <4>1
      <4>3. k = c.list - Len(Order)
        BY <1>1, <3>1, <4>2
      <4>. QED  BY <4>2, <4>3
    <3>. QED  BY <1>9, <1>11, <3>1
  <2>. QED  BY <2>1, <2>2
<1>. QED  BY <1>10, <1>11

\* Claims are in one order, which the two facts above make strict and total.
LEMMA BeforeFacts ==
  ASSUME served \in [Procs -> ToolLists], NEW p \in Procs,
         NEW c \in ClaimsOf(p), NEW d \in ClaimsOf(p), c # d
  PROVE  (Before(c, d) \/ Before(d, c)) /\ ~(Before(c, d) /\ Before(d, c))
<1>1. /\ c.list \in Nat /\ c.item \in Nat /\ d.list \in Nat /\ d.item \in Nat
      /\ ~(c.list = d.list /\ c.item = d.item)
  BY ClaimFacts
<1>. QED  BY <1>1 DEF Before

\* Adding a claim after all those held replaces what its name stood for.
LEMMA HoldsMore ==
  ASSUME NEW table, NEW names, NEW taken, NEW claims, NEW c, c.name \in Names, c \notin claims,
         table = [n \in Names |-> table[n]],
         Holds(table, names, claims), Rests(table, names, taken),
         \A d \in claims : d # c /\ Before(d, c) /\ ~Before(c, d)
  PROVE  /\ Holds([table EXCEPT ![c.name] = c.owner], names \union {c.name}, claims \union {c})
         /\ Rests([table EXCEPT ![c.name] = c.owner], names \union {c.name},
                  taken \union ({c.name} \intersect Builtins))
<1> DEFINE t == [table EXCEPT ![c.name] = c.owner]
           all == claims \union {c}
<1>1. t[c.name] = c.owner /\ \A n \in Names : n # c.name => t[n] = table[n]
  OBVIOUS
<1>2. \A n : n # c.name /\ n \in Names => t[n] = table[n]
  BY <1>1
<1>2a. \A n \in names : n # c.name => t[n] = table[n]
  <2>1. t = [n \in Names |-> IF n = c.name THEN c.owner ELSE table[n]]
    OBVIOUS
  <2>. QED  BY <2>1
<1> HIDE DEF t
<1>3. names \union {c.name} = {d.name : d \in all}
  BY DEF Holds
<1>4. Wins(c, all)
  BY DEF Wins
<1>5. ASSUME NEW n \in names, n # c.name
      PROVE  \E d \in all : Wins(d, all) /\ d.name = n /\ t[n] = d.owner
  <2>1. PICK d \in claims : Wins(d, claims) /\ d.name = n /\ table[n] = d.owner
    BY DEF Holds
  <2>2. Wins(d, all)
    BY <2>1, <1>5 DEF Wins
  <2>. QED  BY <1>2a, <1>5, <2>1, <2>2
<1>6. Holds(t, names \union {c.name}, all)
  BY <1>1, <1>3, <1>4, <1>5 DEF Holds
<1>7. Rests(t, names \union {c.name}, taken \union ({c.name} \intersect Builtins))
  BY <1>2 DEF Rests
<1>. QED  BY <1>6, <1>7 DEF t

\* A worker moves its request outside registration, and no other.
Aside(w) ==
  /\ req[w].step \notin Registration /\ req'[w].step \notin Registration
  /\ req'[w].tools \in ToolLists
  /\ \A v \in Workers \ {w} :
       req'[v].step = req[v].step /\ req'[v].todo = req[v].todo /\ req'[v].tools = req[v].tools
  /\ UNCHANGED <<managers, up>>

LEMMA SetAside ==
  ASSUME RegInv, NEW w \in Workers, NEW s, Set(w, s), req[w].step \notin Registration,
         s.step \notin Registration, s.tools \in ToolLists, UNCHANGED <<managers, up>>
  PROVE  Aside(w)
<1>1. req'[w] = s /\ \A v \in Workers \ {w} : req'[v] = req[v]
  BY DEF RegInv, ReqInv, Set
<1>. QED  BY <1>1 DEF Aside

LEMMA NoRequestTools ==
  LET s == [NoRequest EXCEPT !.step = "exit"] IN
  /\ NoRequest.step \notin Registration /\ NoRequest.tools \in ToolLists
  /\ s.step \notin Registration /\ s.tools \in ToolLists
<1>1. NoRequest.step = "none" /\ NoRequest.tools \in ToolLists /\ Shaped(NoRequest)
  BY DEF NoRequest, ToolLists, Shaped
<1>2. [NoRequest EXCEPT !.step = "exit"].step = "exit" /\ [NoRequest EXCEPT !.step = "exit"].tools = NoRequest.tools
  BY <1>1 DEF Shaped
<1>. QED  BY <1>1, <1>2 DEF Registration

LEMMA AnswerAside ==
  ASSUME RegInv, NEW w \in Workers, Answer(w), req[w].step \notin Registration, UNCHANGED <<managers, up>>
  PROVE  Aside(w)
<1> DEFINE s == IF P(w) \in Commands THEN [NoRequest EXCEPT !.step = "exit"] ELSE NoRequest
<1>1. s.step \notin Registration /\ s.tools \in ToolLists
  BY NoRequestTools
<1>2. Set(w, s)
  BY DEF Answer
<1> HIDE DEF s
<1>. QED  BY <1>1, <1>2, SetAside

LEMMA GotoAside ==
  ASSUME RegInv, NEW w \in Workers, NEW step, Goto(w, step), step \notin Registration,
         req[w].step \notin Registration, UNCHANGED <<managers, up>>
  PROVE  Aside(w)
<1> DEFINE s == [req[w] EXCEPT !.step = step]
<1>1. Shaped(req[w]) /\ req[w].tools \in ToolLists
  BY DEF RegInv, ReqInv, ReqOK
<1>2. s.step = step /\ s.tools \in ToolLists
  BY <1>1 DEF Shaped
<1>3. Set(w, s)
  BY DEF Goto
<1> HIDE DEF s
<1>. QED  BY <1>2, <1>3, SetAside

LEMMA AskAside ==
  ASSUME RegInv, NEW w \in Workers, NEW r, Ask(w, r), r.step \notin Registration, r.tools \in ToolLists
  PROVE  Aside(w)
<1>1. Set(w, r) /\ UNCHANGED <<managers, up>> /\ req[w].step \notin Registration
  BY DEF Ask, Idle, Registration
<1>. QED  BY <1>1, SetAside

LEMMA AskSetAside ==
  ASSUME RegInv, NEW w \in Workers, NEW e \in Exts, NEW on \in BOOLEAN, AskSet(w, e, on)
  PROVE  Aside(w)
<1> DEFINE alone == {v \in Workers : Setting(v, e)} = {}
           step == IF on THEN "validate" ELSE "on_disable"
           r == [NoRequest EXCEPT !.op = "set", !.arg = e, !.on = on, !.alone = alone, !.step = step]
           lost(v) == [req[v] EXCEPT !.alone = FALSE]
<1>1. r.step = step /\ step \notin Registration /\ r.tools = NoRequest.tools
  BY NoRequestFacts DEF ReqOK, Shaped, Registration
<1>2. /\ req' = [v \in Workers |-> IF v = w THEN r ELSE IF Setting(v, e) THEN lost(v) ELSE req[v]]
      /\ UNCHANGED <<rows, loaded, served, registered, registry, claimed, up>>
  BY DEF AskSet, history, managers
<1>2a. Idle(w)
  BY DEF AskSet
<1>3. ASSUME NEW v \in Workers
      PROVE  lost(v).step = req[v].step /\ lost(v).todo = req[v].todo /\ lost(v).tools = req[v].tools
  <2>1. Shaped(req[v])
    BY DEF RegInv, ReqInv, ReqOK
  <2>. QED  BY <2>1 DEF Shaped
<1> HIDE DEF r, lost, step
<1>4. req'[w] = r /\ \A v \in Workers \ {w} : req'[v] \in {lost(v), req[v]}
  BY <1>2
<1>5. r.step \notin Registration /\ r.tools \in ToolLists /\ req[w].step \notin Registration
  BY <1>1, <1>2a, NoRequestTools DEF Idle, Registration
<1>. QED  BY <1>2, <1>3, <1>4, <1>5 DEF Aside, managers

\* Requests begin outside registration.
LEMMA ArriveAside ==
  ASSUME RegInv, NEW w \in Workers, Start(w) \/ Arrive(w)
  PROVE  Aside(w)
<1>1. Shaped(NoRequest) /\ NoRequest.tools \in ToolLists
  BY NoRequestFacts, NoRequestTools DEF ReqOK
<1>2. CASE Start(w)
  <2> DEFINE r == [NoRequest EXCEPT !.op = "start", !.step = "scan"]
  <2>1. r.step = "scan" /\ r.tools = NoRequest.tools
    BY <1>1 DEF Shaped
  <2>2. Set(w, r) /\ UNCHANGED <<managers, up>> /\ Idle(w)
    BY <1>2 DEF Start
  <2> HIDE DEF r
  <2>. QED  BY <1>1, <2>1, <2>2, SetAside DEF Idle, Registration
<1>3. CASE AskRefresh(w)
  <2> DEFINE r == [NoRequest EXCEPT !.op = "refresh", !.step = "scan"]
  <2>1. r.step = "scan" /\ r.tools = NoRequest.tools
    BY <1>1 DEF Shaped
  <2>2. Ask(w, r)
    BY <1>3 DEF AskRefresh
  <2> HIDE DEF r
  <2>. QED  BY <1>1, <2>1, <2>2, AskAside DEF Registration
<1>4. ASSUME NEW e \in Exts, AskValidate(w, e) PROVE Aside(w)
  <2> DEFINE r == [NoRequest EXCEPT !.op = "validate", !.step = "validate", !.arg = e]
  <2>1. r.step = "validate" /\ r.tools = NoRequest.tools
    BY <1>1 DEF Shaped
  <2>2. Ask(w, r)
    BY <1>4 DEF AskValidate
  <2> HIDE DEF r
  <2>. QED  BY <1>1, <2>1, <2>2, AskAside DEF Registration
<1>5. ASSUME NEW n, AskExecute(w, n) PROVE Aside(w)
  <2> DEFINE r == [NoRequest EXCEPT !.op = "execute", !.step = "lookup", !.arg = n]
  <2>1. r.step = "lookup" /\ r.tools = NoRequest.tools
    BY <1>1 DEF Shaped
  <2>2. Ask(w, r)
    BY <1>5 DEF AskExecute
  <2> HIDE DEF r
  <2>. QED  BY <1>1, <2>1, <2>2, AskAside DEF Registration
<1>. QED  BY <1>2, <1>3, <1>4, <1>5, AskSetAside DEF Arrive

\* A listing ends with the tools of the server, or with none of them.
LEMMA DiscoverAside ==
  ASSUME RegInv, NEW w \in Workers, Scan(w) \/ EndListing(w) \/ ReadRows(w)
  PROVE  Aside(w)
<1> DEFINE r == req[w]
<1>1. Shaped(r) /\ r.tools \in ToolLists
  BY DEF RegInv, ReqInv, ReqOK
<1>2. r.step \notin Registration /\ UNCHANGED <<managers, up>>
  BY DEF Scan, EndListing, ReadRows, At, Registration
<1>3. CASE Scan(w)
  <2>1. CASE Answer(w)
    BY <1>2, <2>1, AnswerAside
  <2>2. CASE ~Answer(w)
    <3> DEFINE seen == [e \in Exts |-> IF disk[e] = "gone" THEN "absent" ELSE disk[e]]
               s == [r EXCEPT !.step = "servers", !.server = 1, !.seen = seen]
    <3>1. s.step = "servers" /\ s.tools = r.tools
      <4> HIDE DEF seen
      <4>. QED  BY <1>1 DEF Shaped
    <3>2. Set(w, s)
      BY <1>3, <2>2 DEF Scan
    <3> HIDE DEF s
    <3>. QED  BY <1>1, <1>2, <3>1, <3>2, SetAside DEF Registration
  <2>. QED  BY <2>1, <2>2
<1>4. CASE EndListing(w)
  <2> DEFINE name == NextServer(w)
             listed == session[w].phase = "ok" /\ session[w].answer = "list"
             tools == IF listed THEN [r.tools EXCEPT ![name] = ServerTools[name]] ELSE r.tools
             s == [r EXCEPT !.step = "servers", !.server = @ + 1, !.tools = tools]
  <2>1. Set(w, s)
    BY <1>4 DEF EndListing
  <2>2. \A x \in Servers : ServerTools[x] \in Seq(Names)
    BY ExtensionsAssumption DEF ExtensionsAssumption
  <2>3. tools \in ToolLists
    <3> HIDE DEF name
    <3>. QED  BY <1>1, <2>2 DEF ToolLists
  <2>4. s.step = "servers" /\ s.tools = tools
    <3> HIDE DEF tools
    <3>. QED  BY <1>1 DEF Shaped
  <2> HIDE DEF s, tools
  <2>. QED  BY <1>2, <2>1, <2>3, <2>4, SetAside DEF Registration
<1>5. CASE ReadRows(w)
  <2> DEFINE seen == [e \in Exts |-> IF r.seen[e] # "absent" /\ rows[e] # "none" THEN rows[e] ELSE r.seen[e]]
             s == [r EXCEPT !.step = "adopt", !.seen = seen]
  <2>1. Set(w, s)
    BY <1>5 DEF ReadRows
  <2>2. s.step = "adopt" /\ s.tools = r.tools
    <3> HIDE DEF seen
    <3>. QED  BY <1>1 DEF Shaped
  <2> HIDE DEF s
  <2>. QED  BY <1>1, <1>2, <2>1, <2>2, SetAside DEF Registration
<1>. QED  BY <1>3, <1>4, <1>5

\* Hooks, rows and calls are outside registration.
LEMMA WorkAside ==
  ASSUME RegInv, NEW w \in Workers,
         \/ HookNotFound(w) \/ RunHook(w) \/ HookFails(w) \/ WriteRow(w) \/ WriteFails(w) \/ Answered(w)
         \/ BeginListing(w) \/ ReadRowsFails(w)
         \/ Lookup(w) \/ EndCommand(w) \/ EndCall(w) \/ EndProfile(w)
  PROVE  Aside(w)
<1>1. /\ Shaped(req[w]) /\ req[w].tools \in ToolLists
  BY DEF RegInv, ReqInv, ReqOK
<1>2. CASE HookNotFound(w) \/ HookFails(w)
  <2>1. Answer(w) /\ req[w].step \in Lifecycle /\ UNCHANGED <<managers, up>>
    BY <1>2 DEF HookNotFound, HookFails
  <2>. QED  BY <2>1, AnswerAside DEF Lifecycle, Registration
<1>3. CASE WriteFails(w) \/ Answered(w) \/ ReadRowsFails(w) \/ EndCommand(w) \/ EndCall(w) \/ EndProfile(w)
  <2>1. /\ Answer(w) /\ UNCHANGED <<managers, up>>
        /\ req[w].step \in {"write", "answer", "servers", "command", "calling", "profile"}
    BY <1>3 DEF WriteFails, Answered, ReadRowsFails, EndCommand, EndCall, EndProfile, At
  <2>. QED  BY <2>1, AnswerAside DEF Registration
<1>4. CASE WriteRow(w) \/ BeginListing(w) \/ (Lookup(w) /\ ~Answer(w))
  <2>1. /\ UNCHANGED <<managers, up>> /\ req[w].step \in {"write", "servers", "lookup"}
        /\ \E step \in {"scan", "listing", "command", "calling", "profile"} : Goto(w, step)
    BY <1>4 DEF WriteRow, BeginListing, Lookup, At
  <2>. QED  BY <2>1, GotoAside DEF Registration
<1>5. CASE Lookup(w) /\ Answer(w)
  BY <1>5, AnswerAside DEF Lookup, At, Registration
<1>6. CASE RunHook(w)
  <2> DEFINE r == req[w]
             phase == AfterPhase(w)
             t == [r EXCEPT !.hook = @ + 1]
             u == [r EXCEPT !.hook = 0, !.step = phase]
  <2>1. r.step \in Lifecycle /\ UNCHANGED <<managers, up>> /\ (Set(w, t) \/ Set(w, u))
    BY <1>6 DEF RunHook
  <2>2. t.step = r.step /\ t.tools = r.tools /\ u.step = phase /\ u.tools = r.tools
    <3> HIDE DEF phase
    <3>. QED  BY <1>1 DEF Shaped
  <2>3. phase \notin Registration
    BY DEF AfterPhase, Registration
  <2> HIDE DEF t, u, phase
  <2>. QED  BY <1>1, <2>1, <2>2, <2>3, SetAside DEF Lifecycle, Registration
<1>. QED  BY <1>2, <1>3, <1>4, <1>5, <1>6

LEMMA RegAside ==
  ASSUME RegInv, ReqInv', NEW w \in Workers, Aside(w)
  PROVE  RegInv'
<1>1. UNCHANGED <<loaded, served, registered, registry, claimed, up>>
  BY DEF Aside, managers
<1>2. \A p \in Procs : ClaimsOf(p)' = ClaimsOf(p)
  BY <1>1 DEF ClaimsOf
<1>3. ASSUME NEW v \in Workers, req'[v].step = "register" PROVE Midway(v)'
  <2>1. v # w
    BY <1>3 DEF Aside, Registration
  <2>2. Midway(v) /\ req'[v].todo = req[v].todo /\ P(v) \in Procs
    BY <1>3, <2>1, WorkersProcs DEF RegInv, Aside
  <2>. QED  BY <1>1, <1>2, <2>2 DEF Midway, Holds, P
<1>4. \A p \in Procs : Registering(p)' <=> Registering(p)
  BY DEF Registering, Registration, Aside, P
<1>5. \A v \in Workers : req'[v].tools \in ToolLists
  BY DEF RegInv, Aside
<1>6. ASSUME NEW p \in Procs, up'[p], ~Registering(p)'
      PROVE  Holds(registry[p], registered[p], ClaimsOf(p))
  BY <1>1, <1>4, <1>6 DEF RegInv
<1>7. \A p \in Procs : Rests(registry[p], registered[p], claimed[p])
  BY DEF RegInv
<1>. QED  BY <1>1, <1>2, <1>3, <1>5, <1>6, <1>7 DEF RegInv

\* A step of the only worker of its process, between other processes' views.
Elsewhere(w) == \A q \in Procs \ {P(w)} :
  /\ loaded'[q] = loaded[q] /\ served'[q] = served[q] /\ up'[q] = up[q]
  /\ registered'[q] = registered[q] /\ registry'[q] = registry[q] /\ claimed'[q] = claimed[q]

\* What a process is doing after a step, it alone is concerned with.
Placed(w) ==
  /\ req'[w].step = "register" => Midway(w)'
  /\ up'[P(w)] /\ req'[w].step \notin Registration =>
       Holds(registry'[P(w)], registered'[P(w)], ClaimsOf(P(w))')

LEMMA RegAlone ==
  ASSUME OneWorker, RegInv, ReqInv', NEW w \in Workers, NEW s, Set(w, s), s.tools \in ToolLists,
         Elsewhere(w), Placed(w), served' \in [Procs -> ToolLists],
         loaded' = [p \in Procs |-> loaded'[p]], up' = [p \in Procs |-> up'[p]],
         registered' = [p \in Procs |-> registered'[p]], claimed' = [p \in Procs |-> claimed'[p]],
         registry' = [p \in Procs |-> [n \in Names |-> registry'[p][n]]],
         Rests(registry'[P(w)], registered'[P(w)], claimed'[P(w)])
  PROVE  RegInv'
<1>1. /\ P(w) \in Procs /\ req'[w] = s /\ \A v \in Workers \ {w} : req'[v] = req[v]
      /\ \A v \in Workers \ {w} : P(v) # P(w) /\ P(v) \in Procs
  BY WorkersProcs DEF RegInv, ReqInv, Set, OneWorker
<1>2. \A q \in Procs \ {P(w)} : ClaimsOf(q)' = ClaimsOf(q)
  BY DEF ClaimsOf, Elsewhere
<1>3. \A v \in Workers : req'[v].tools \in ToolLists
  BY <1>1 DEF RegInv
<1>4. \A q \in Procs : Rests(registry'[q], registered'[q], claimed'[q])
  BY DEF Elsewhere, RegInv
<1>5. ASSUME NEW v \in Workers, req'[v].step = "register" PROVE Midway(v)'
  <2>1. CASE v = w
    BY <1>5, <2>1 DEF Placed
  <2>2. CASE v # w
    <3>1. Midway(v) /\ req'[v] = req[v] /\ ClaimsOf(P(v))' = ClaimsOf(P(v))
      BY <1>1, <1>2, <1>5, <2>2 DEF RegInv
    <3>2. registry'[P(v)] = registry[P(v)] /\ registered'[P(v)] = registered[P(v)]
      BY <1>1, <2>2 DEF Elsewhere
    <3>. QED  BY <3>1, <3>2 DEF Midway, P
  <2>. QED  BY <2>1, <2>2
<1>6. ASSUME NEW p \in Procs, up'[p], ~Registering(p)'
      PROVE  Holds(registry'[p], registered'[p], ClaimsOf(p)')
  <2>1. CASE p = P(w)
    BY <1>6, <2>1 DEF Placed, Registering, Registration, P
  <2>2. CASE p # P(w)
    <3>1. up[p] /\ ClaimsOf(p)' = ClaimsOf(p)
      BY <1>2, <1>6, <2>2 DEF Elsewhere
    <3>2. ~Registering(p)
      BY <1>1, <1>6, <2>2 DEF Registering, P
    <3>3. registry'[p] = registry[p] /\ registered'[p] = registered[p]
      BY <2>2 DEF Elsewhere
    <3>. QED  BY <3>1, <3>2, <3>3 DEF RegInv
  <2>. QED  BY <2>1, <2>2
<1>. QED  BY <1>3, <1>4, <1>5, <1>6 DEF RegInv

\* What was discovered is what is going to be registered.
LEMMA RegAdopt ==
  ASSUME OneWorker, RegInv, ReqInv', NEW w \in Workers, Adopt(w)
  PROVE  RegInv'
<1> DEFINE r == req[w]
           s == [r EXCEPT !.step = "unregister"]
<1>1. Shaped(r) /\ r.tools \in ToolLists /\ P(w) \in Procs
  BY WorkersProcs DEF RegInv, ReqInv, ReqOK
<1>2. s.step = "unregister" /\ s.tools = r.tools
  BY <1>1 DEF Shaped
<1>3. /\ Set(w, s) /\ UNCHANGED <<registered, registry, claimed, up>>
      /\ loaded' = [loaded EXCEPT ![P(w)] = r.seen] /\ served' = [served EXCEPT ![P(w)] = r.tools]
  BY DEF Adopt, Goto
<1> HIDE DEF s
<1>4. Elsewhere(w) /\ served' \in [Procs -> ToolLists] /\ loaded' = [p \in Procs |-> loaded'[p]]
  BY <1>1, <1>3 DEF Elsewhere, RegInv
<1>5. req'[w] = s
  BY <1>3 DEF Set, RegInv, ReqInv
<1>6. Placed(w)
  BY <1>2, <1>5 DEF Placed, Registration
<1>7. /\ up' = [p \in Procs |-> up'[p]]
      /\ registered' = [p \in Procs |-> registered'[p]] /\ claimed' = [p \in Procs |-> claimed'[p]]
      /\ registry' = [p \in Procs |-> [n \in Names |-> registry'[p][n]]]
      /\ Rests(registry'[P(w)], registered'[P(w)], claimed'[P(w)])
  BY <1>1, <1>3 DEF RegInv
<1>8. s.tools \in ToolLists
  BY <1>1, <1>2
<1>. QED  BY <1>3, <1>4, <1>6, <1>7, <1>8, RegAlone

\* Nothing is registered and everything is to do.
LEMMA RegUnregister ==
  ASSUME OneWorker, RegInv, ReqInv', NEW w \in Workers, Unregister(w)
  PROVE  RegInv'
<1> DEFINE r == req[w]
           p == P(w)
           todo == ClaimsOf(p)
           s == [r EXCEPT !.step = "register", !.todo = todo]
           table == [n \in Names |-> IF n \in registered[p] THEN "none" ELSE registry[p][n]]
<1>1. Shaped(r) /\ r.tools \in ToolLists /\ p \in Procs
  BY WorkersProcs DEF RegInv, ReqInv, ReqOK
<1>2. s.step = "register" /\ s.tools = r.tools /\ s.todo = todo
  <2> HIDE DEF todo
  <2>. QED  BY <1>1 DEF Shaped
<1>3. /\ Set(w, s) /\ UNCHANGED <<loaded, served, claimed, up>>
      /\ registry' = [registry EXCEPT ![p] = [n \in Names |-> IF n \in registered[p] THEN "none" ELSE @[n]]]
      /\ registered' = [registered EXCEPT ![p] = {}]
  BY DEF Unregister
<1> HIDE DEF s
<1>4. registry' = [registry EXCEPT ![p] = table]
  BY <1>3
<1>5. table = [n \in Names |-> table[n]] /\ \A n \in Names : table[n] = IF n \in registered[p] THEN "none" ELSE registry[p][n]
  OBVIOUS
<1> HIDE DEF table
<1>6. /\ Elsewhere(w) /\ registry'[p] = table /\ registered'[p] = {} /\ claimed'[p] = claimed[p]
      /\ registered' = [q \in Procs |-> registered'[q]]
  BY <1>1, <1>3, <1>4 DEF Elsewhere, RegInv
<1>7. registry' = [q \in Procs |-> [n \in Names |-> registry'[q][n]]]
  <2>1. \A q \in Procs : registry'[q] = IF q = p THEN table ELSE registry[q]
    BY <1>4 DEF RegInv
  <2>2. registry' = [q \in Procs |-> registry'[q]]
    BY <1>4 DEF RegInv
  <2>3. \A q \in Procs : registry[q] = [n \in Names |-> registry[q][n]]
    BY DEF RegInv
  <2>4. \A q \in Procs : registry'[q] = [n \in Names |-> registry'[q][n]]
    BY <1>5, <2>1, <2>3
  <2>. QED  BY <2>2, <2>4
<1>8. Rests(table, {}, claimed[p])
  BY <1>1, <1>5 DEF RegInv, Rests
<1>9. Holds(table, {}, {})
  BY DEF Holds
<1>10. req'[w] = s /\ ClaimsOf(p)' = todo
  BY <1>3 DEF Set, RegInv, ReqInv, ClaimsOf
<1>11. Midway(w)'
  <2>1. P(w)' = p
    BY DEF P
  <2>2. ClaimsOf(p)' \ req'[w].todo = {}
    BY <1>2, <1>10
  <2>. QED  BY <1>2, <1>6, <1>9, <1>10, <2>1, <2>2 DEF Midway
<1>12. Placed(w)
  BY <1>2, <1>10, <1>11 DEF Placed, Registration
<1>13. /\ up' = [q \in Procs |-> up'[q]] /\ loaded' = [q \in Procs |-> loaded'[q]]
       /\ claimed' = [q \in Procs |-> claimed'[q]] /\ served' \in [Procs -> ToolLists]
  BY <1>3 DEF RegInv
<1>14. s.tools \in ToolLists /\ Rests(registry'[p], registered'[p], claimed'[p])
  BY <1>1, <1>2, <1>6, <1>8
<1>. QED  BY <1>3, <1>6, <1>7, <1>12, <1>13, <1>14, RegAlone

\* The next claim comes after all those held.
LEMMA RegAddTool ==
  ASSUME OneWorker, RegInv, ReqInv', NEW w \in Workers, AddTool(w)
  PROVE  RegInv'
<1> DEFINE r == req[w]
           p == P(w)
           claims == ClaimsOf(p)
           done == claims \ r.todo
<1>1. Shaped(r) /\ r.tools \in ToolLists /\ p \in Procs
  BY WorkersProcs DEF RegInv, ReqInv, ReqOK
<1>2. PICK c \in r.todo :
        /\ r.step = "register" /\ \A d \in r.todo \ {c} : Before(c, d)
        /\ registry' = [registry EXCEPT ![p][c.name] = c.owner]
        /\ registered' = [registered EXCEPT ![p] = @ \union {c.name}]
        /\ claimed' = [claimed EXCEPT ![p] = @ \union ({c.name} \intersect Builtins)]
        /\ Set(w, [r EXCEPT !.todo = @ \ {c}])
        /\ UNCHANGED <<loaded, served, up>>
  BY DEF AddTool, At
<1> DEFINE left == r.todo \ {c}
           s == [r EXCEPT !.todo = left]
           table == [registry[p] EXCEPT ![c.name] = c.owner]
           names == registered[p] \union {c.name}
           taken == claimed[p] \union ({c.name} \intersect Builtins)
<1>3. s.step = "register" /\ s.tools = r.tools /\ s.todo = left
  <2> HIDE DEF left
  <2>. QED  BY <1>1, <1>2 DEF Shaped
<1>4. Set(w, s)
  BY <1>1, <1>2 DEF Shaped
<1> HIDE DEF s
<1>5. /\ registry' = [registry EXCEPT ![p] = table]
      /\ registered' = [registered EXCEPT ![p] = names] /\ claimed' = [claimed EXCEPT ![p] = taken]
  BY <1>2
<1>6. registry[p] = [n \in Names |-> registry[p][n]]
  BY <1>1 DEF RegInv
<1>7. table = [n \in Names |-> table[n]]
  BY <1>6
<1>8. Midway(w) /\ Rests(registry[p], registered[p], claimed[p])
  BY <1>1, <1>2 DEF RegInv
<1>9. /\ c \in claims /\ c \notin done /\ c.name \in Names
      /\ \A d \in done : d # c /\ Before(d, c) /\ ~Before(c, d)
  <2>1. c \in claims /\ \A d \in done : d \in claims /\ d # c /\ Before(d, c)
    BY <1>8 DEF Midway
  <2>2. served \in [Procs -> ToolLists]
    BY DEF RegInv
  <2>. QED  BY <1>1, <2>1, <2>2, ClaimFacts, BeforeFacts
<1>10. Holds(registry[p], registered[p], done)
  BY <1>8 DEF Midway
<1>11. claims \ left = done \union {c}
  BY <1>9
<1>12. Holds(table, names, done \union {c}) /\ Rests(table, names, taken)
  <2> HIDE DEF done, claims
  <2>. QED  BY <1>6, <1>8, <1>9, <1>10, HoldsMore
<1> HIDE DEF table, names, taken
<1>13. /\ Elsewhere(w) /\ registry'[p] = table /\ registered'[p] = names /\ claimed'[p] = taken
       /\ registered' = [q \in Procs |-> registered'[q]] /\ claimed' = [q \in Procs |-> claimed'[q]]
  BY <1>1, <1>2, <1>5 DEF Elsewhere, RegInv
<1>14. registry' = [q \in Procs |-> [n \in Names |-> registry'[q][n]]]
  <2>1. \A q \in Procs : registry'[q] = IF q = p THEN table ELSE registry[q]
    BY <1>5 DEF RegInv
  <2>2. registry' = [q \in Procs |-> registry'[q]]
    BY <1>5 DEF RegInv
  <2>3. \A q \in Procs : registry[q] = [n \in Names |-> registry[q][n]]
    BY DEF RegInv
  <2>4. \A q \in Procs : registry'[q] = [n \in Names |-> registry'[q][n]]
    BY <1>7, <2>1, <2>3
  <2>. QED  BY <2>2, <2>4
<1>15. req'[w] = s /\ ClaimsOf(p)' = claims
  BY <1>2, <1>4 DEF Set, RegInv, ReqInv, ClaimsOf
<1>16. Midway(w)'
  <2>1. left \subseteq claims /\ \A d \in claims \ left : \A x \in left : Before(d, x)
    BY <1>2, <1>8, <1>11 DEF Midway
  <2>2. P(w)' = p
    BY DEF P
  <2> HIDE DEF left, claims, done
  <2>. QED  BY <1>3, <1>11, <1>12, <1>13, <1>15, <2>1, <2>2 DEF Midway, Before
<1>17. Placed(w)
  BY <1>3, <1>15, <1>16 DEF Placed, Registration
<1>18. /\ up' = [q \in Procs |-> up'[q]] /\ loaded' = [q \in Procs |-> loaded'[q]]
       /\ served' \in [Procs -> ToolLists]
  BY <1>2 DEF RegInv
<1>19. s.tools \in ToolLists /\ Rests(registry'[p], registered'[p], claimed'[p])
  BY <1>1, <1>3, <1>12, <1>13
<1>. QED  BY <1>4, <1>13, <1>14, <1>17, <1>18, <1>19, RegAlone

\* The answer: everything is done.
LEMMA RegRegistered ==
  ASSUME OneWorker, RegInv, ReqInv', NEW w \in Workers, Registered(w)
  PROVE  RegInv'
<1> DEFINE p == P(w)
<1>1. p \in Procs /\ req[w].step = "register" /\ req[w].todo = {}
  BY WorkersProcs DEF Registered, At
<1>2. PICK s : Set(w, s) /\ s.step \notin Registration /\ s.tools \in ToolLists
  <2>1. CASE Answer(w)
    <3> DEFINE s == IF P(w) \in Commands THEN [NoRequest EXCEPT !.step = "exit"] ELSE NoRequest
    <3>1. s.step \notin Registration /\ s.tools \in ToolLists
      BY NoRequestTools
    <3>2. Set(w, s)
      BY <2>1 DEF Answer
    <3> HIDE DEF s
    <3>. QED  BY <3>1, <3>2
  <2>2. CASE Set(w, NoRequest)
    BY <2>2, NoRequestTools
  <2>. QED  BY <2>1, <2>2 DEF Registered
<1>3. UNCHANGED <<loaded, served, registered, registry, claimed>> /\ up' = [up EXCEPT ![p] = TRUE]
  BY DEF Registered, managers
<1>4. Elsewhere(w) /\ up' = [q \in Procs |-> up'[q]]
  BY <1>1, <1>3 DEF Elsewhere, RegInv
<1>5. req'[w] = s /\ ClaimsOf(p)' = ClaimsOf(p)
  BY <1>2, <1>3 DEF Set, RegInv, ReqInv, ClaimsOf
<1>6. Holds(registry[p], registered[p], ClaimsOf(p))
  <2>1. Midway(w) /\ ClaimsOf(p) \ {} = ClaimsOf(p)
    BY <1>1 DEF RegInv
  <2>. QED  BY <1>1, <2>1 DEF Midway
<1>7. Placed(w)
  BY <1>2, <1>3, <1>5, <1>6 DEF Placed, Registration
<1>8. /\ served' \in [Procs -> ToolLists] /\ loaded' = [q \in Procs |-> loaded'[q]]
      /\ registered' = [q \in Procs |-> registered'[q]] /\ claimed' = [q \in Procs |-> claimed'[q]]
      /\ registry' = [q \in Procs |-> [n \in Names |-> registry'[q][n]]]
      /\ Rests(registry'[p], registered'[p], claimed'[p])
  BY <1>1, <1>3 DEF RegInv
<1>. QED  BY <1>2, <1>4, <1>7, <1>8, RegAlone

\* A process that has ended has its built-in tools again, all of them.
LEMMA RegDown ==
  ASSUME RegInv, ReqInv', NEW p \in Procs, Down(p)
  PROVE  RegInv'
<1>1. /\ req' = [w \in Workers |-> IF P(w) = p THEN NoRequest ELSE req[w]]
      /\ up' = [up EXCEPT ![p] = FALSE] /\ loaded' = [loaded EXCEPT ![p] = NothingLoaded]
      /\ served' = [served EXCEPT ![p] = NothingServed] /\ registered' = [registered EXCEPT ![p] = {}]
      /\ registry' = [registry EXCEPT ![p] = OnlyBuiltins] /\ claimed' = [claimed EXCEPT ![p] = {}]
  BY DEF Down
<1>2. NothingServed \in ToolLists /\ OnlyBuiltins = [n \in Names |-> OnlyBuiltins[n]]
  BY DEF NothingServed, ToolLists, OnlyBuiltins
<1>3. Rests(OnlyBuiltins, {}, {})
  BY DEF Rests, OnlyBuiltins
<1>4. ~up'[p] /\ registry'[p] = OnlyBuiltins /\ registered'[p] = {} /\ claimed'[p] = {}
  BY <1>1 DEF RegInv
<1>5. \A q \in Procs \ {p} :
        /\ up'[q] = up[q] /\ registry'[q] = registry[q] /\ registered'[q] = registered[q]
        /\ claimed'[q] = claimed[q] /\ loaded'[q] = loaded[q] /\ served'[q] = served[q]
  BY <1>1 DEF RegInv
<1>6. /\ served' \in [Procs -> ToolLists] /\ loaded' = [q \in Procs |-> loaded'[q]]
      /\ up' = [q \in Procs |-> up'[q]] /\ registered' = [q \in Procs |-> registered'[q]]
      /\ claimed' = [q \in Procs |-> claimed'[q]]
  BY <1>1, <1>2 DEF RegInv
<1>7. registry' = [q \in Procs |-> [n \in Names |-> registry'[q][n]]]
  <2>1. registry' = [q \in Procs |-> registry'[q]]
    BY <1>1 DEF RegInv
  <2>2. \A q \in Procs : registry'[q] = [n \in Names |-> registry'[q][n]]
    BY <1>2, <1>4, <1>5 DEF RegInv
  <2>. QED  BY <2>1, <2>2
<1>8. \A q \in Procs : Rests(registry'[q], registered'[q], claimed'[q])
  BY <1>3, <1>4, <1>5 DEF RegInv
<1>9. \A w \in Workers : req'[w].tools \in ToolLists
  BY <1>1, NoRequestTools DEF RegInv
<1>10. \A q \in Procs \ {p} : ClaimsOf(q)' = ClaimsOf(q)
  BY <1>5 DEF ClaimsOf
<1>11. ASSUME NEW w \in Workers, req'[w].step = "register" PROVE Midway(w)'
  <2>1. P(w) # p /\ req'[w] = req[w] /\ P(w) \in Procs
    BY <1>1, <1>11, NoRequestTools, WorkersProcs DEF Registration
  <2>2. Midway(w)
    BY <1>11, <2>1 DEF RegInv
  <2>3. /\ registry'[P(w)] = registry[P(w)] /\ registered'[P(w)] = registered[P(w)]
        /\ ClaimsOf(P(w))' = ClaimsOf(P(w))
    BY <1>5, <1>10, <2>1
  <2>. QED  BY <2>1, <2>2, <2>3 DEF Midway, P
<1>12. ASSUME NEW q \in Procs, up'[q], ~Registering(q)'
       PROVE  Holds(registry'[q], registered'[q], ClaimsOf(q)')
  <2>1. q # p /\ up[q]
    BY <1>4, <1>5, <1>12
  <2>2. ~Registering(q)
    BY <1>1, <1>12, <2>1 DEF Registering, P
  <2>3. registry'[q] = registry[q] /\ registered'[q] = registered[q] /\ ClaimsOf(q)' = ClaimsOf(q)
    BY <1>5, <1>10, <2>1
  <2>. QED  BY <2>1, <2>2, <2>3 DEF RegInv
<1>. QED  BY <1>6, <1>7, <1>8, <1>9, <1>11, <1>12 DEF RegInv

LEMMA RegStutter ==
  ASSUME RegInv, UNCHANGED <<req, managers, up>>
  PROVE  RegInv'
<1>1. UNCHANGED <<loaded, served, registered, registry, claimed, up, req>>
  BY DEF managers
<1>2. \A p \in Procs : ClaimsOf(p)' = ClaimsOf(p)
  BY <1>1 DEF ClaimsOf
<1>3. \A p \in Procs : Registering(p)' <=> Registering(p)
  BY <1>1 DEF Registering, P
<1>4. ASSUME NEW w \in Workers, req'[w].step = "register" PROVE Midway(w)'
  <2>1. Midway(w) /\ P(w) \in Procs
    BY <1>1, <1>4, WorkersProcs DEF RegInv
  <2>. QED  BY <1>1, <1>2, <2>1 DEF Midway, P
<1>5. ASSUME NEW p \in Procs, up'[p], ~Registering(p)'
      PROVE  Holds(registry'[p], registered'[p], ClaimsOf(p)')
  BY <1>1, <1>2, <1>3, <1>5 DEF RegInv
<1>6. ReqInv'
  BY <1>1 DEF RegInv, ReqInv
<1>7. /\ served' \in [Procs -> ToolLists] /\ \A w \in Workers : req'[w].tools \in ToolLists
      /\ loaded' = [p \in Procs |-> loaded'[p]] /\ up' = [p \in Procs |-> up'[p]]
      /\ registered' = [p \in Procs |-> registered'[p]] /\ claimed' = [p \in Procs |-> claimed'[p]]
      /\ registry' = [p \in Procs |-> [n \in Names |-> registry'[p][n]]]
      /\ \A p \in Procs : Rests(registry'[p], registered'[p], claimed'[p])
  BY <1>1 DEF RegInv
<1>. QED  BY <1>4, <1>5, <1>6, <1>7 DEF RegInv

LEMMA RegNext == OneWorker /\ RegInv /\ [Next]_vars => RegInv'
<1> SUFFICES ASSUME OneWorker, RegInv, [Next]_vars PROVE RegInv'
  OBVIOUS
<1>0. ReqInv'
  BY ReqNext DEF RegInv
<1>1. CASE UNCHANGED vars
  BY <1>1, RegStutter DEF vars
<1>2. ASSUME NEW w \in Workers, Start(w) \/ Arrive(w) PROVE RegInv'
  BY <1>0, <1>2, ArriveAside, RegAside
<1>3. ASSUME NEW w \in Workers, Handle(w) PROVE RegInv'
  <2>1. CASE Scan(w) \/ EndListing(w) \/ ReadRows(w)
    BY <1>0, <2>1, DiscoverAside, RegAside
  <2>2. CASE Adopt(w) \/ Unregister(w) \/ AddTool(w) \/ Registered(w)
    BY <1>0, <2>2, RegAdopt, RegUnregister, RegAddTool, RegRegistered
  <2>. QED  BY <1>0, <1>3, <2>1, <2>2, WorkAside, RegAside DEF Handle
<1>4. ASSUME NEW w \in Workers, McpStep(w) \/ ExecStep(w) PROVE RegInv'
  BY <1>4, RegStutter DEF McpStep, ExecStep
<1>5. ASSUME NEW w \in Workers, Exit(w) PROVE RegInv'
  BY <1>0, <1>5, RegDown, WorkersProcs DEF Exit
<1>6. ASSUME NEW p \in Procs, Crash(p) PROVE RegInv'
  BY <1>0, <1>6, RegDown DEF Crash
<1>7. ASSUME NEW e, NEW manifest, Edit(e, manifest) PROVE RegInv'
  BY <1>7, RegStutter DEF Edit
<1>. QED  BY <1>1, <1>2, <1>3, <1>4, <1>5, <1>6, <1>7 DEF Next

LEMMA InitRegInv == Init => RegInv
<1> SUFFICES ASSUME Init PROVE RegInv
  OBVIOUS
<1>1. /\ req = [w \in Workers |-> NoRequest] /\ up = [p \in Procs |-> FALSE]
      /\ loaded = [p \in Procs |-> NothingLoaded] /\ served = [p \in Procs |-> NothingServed]
      /\ registered = [p \in Procs |-> {}] /\ registry = [p \in Procs |-> OnlyBuiltins]
      /\ claimed = [p \in Procs |-> {}]
  BY DEF Init
<1>2. NothingServed \in ToolLists /\ OnlyBuiltins = [n \in Names |-> OnlyBuiltins[n]]
  BY DEF NothingServed, ToolLists, OnlyBuiltins
<1>3. Rests(OnlyBuiltins, {}, {})
  BY DEF Rests, OnlyBuiltins
<1>4. \A w \in Workers : req[w].step # "register" /\ req[w].tools \in ToolLists
  BY <1>1, NoRequestTools DEF Registration
<1>5. served \in [Procs -> ToolLists]
  BY <1>1, <1>2
<1>6. registry = [p \in Procs |-> [n \in Names |-> registry[p][n]]]
  BY <1>1, <1>2
<1>7. \A p \in Procs : Rests(registry[p], registered[p], claimed[p]) /\ ~up[p]
  BY <1>1, <1>3
<1>8. /\ loaded = [p \in Procs |-> loaded[p]] /\ up = [p \in Procs |-> up[p]]
      /\ registered = [p \in Procs |-> registered[p]] /\ claimed = [p \in Procs |-> claimed[p]]
  BY <1>1
<1>. QED  BY <1>4, <1>5, <1>6, <1>7, <1>8, InitReqInv DEF RegInv

\* Between the requests of a process that handles one at a time, its registry
\* offers the enabled tools of what was last discovered, the last claimant of
\* a name first, and the built-in tools no extension has taken
\* (registry.go:31, "adds or replaces").
THEOREM RegistryAlwaysFollows ==
  ASSUME OneWorker
  PROVE  Spec => []RegistryFollowsLoaded
<1>1. RegInv => RegistryFollowsLoaded
  <2> SUFFICES ASSUME RegInv, NEW p \in Procs, up[p], ~Registering(p), NEW n \in Names
               PROVE  registry[p][n] = Expected(p, n)
    BY DEF RegistryFollowsLoaded
  <2>1. /\ Holds(registry[p], registered[p], ClaimsOf(p))
        /\ Rests(registry[p], registered[p], claimed[p]) /\ served \in [Procs -> ToolLists]
    BY DEF RegInv
  <2> DEFINE claims == {c \in ClaimsOf(p) : c.name = n}
             Latest(c) == \A d \in claims \ {c} : Before(d, c)
  <2>2. CASE n \in registered[p]
    <3>1. PICK c \in ClaimsOf(p) : Wins(c, ClaimsOf(p)) /\ c.name = n /\ registry[p][n] = c.owner
      BY <2>1, <2>2 DEF Holds
    <3>2. c \in claims /\ Latest(c)
      BY <3>1 DEF Wins
    <3>3. ASSUME NEW d \in claims, Latest(d) PROVE d = c
      BY <2>1, <3>2, <3>3, BeforeFacts
    <3> HIDE DEF claims
    <3>4. (CHOOSE d \in claims : Latest(d)) = c
      BY <3>2, <3>3
    <3>. QED  BY <3>1, <3>2, <3>4 DEF Expected, claims
  <2>3. CASE n \notin registered[p]
    <3>1. claims = {}
      BY <2>1, <2>3 DEF Holds
    <3>2. registry[p][n] = IF n \in Builtins \ claimed[p] THEN "builtin" ELSE "none"
      BY <2>1, <2>3 DEF Rests
    <3>. QED  BY <3>1, <3>2 DEF Expected
  <2>. QED  BY <2>2, <2>3
<1>. QED  BY <1>1, InitRegInv, RegNext, PTL DEF Spec

-----------------------------------------------------------------------------
(* Sessions with servers: what the client takes for an answer is the answer *)
(* to its own request, as one session per listing or call makes up for ids  *)
(* that are not compared.                                                   *)

Frame(a, good) == [to |-> a, good |-> good]

\* The server has yet to answer a, or the client to read the answer.
Exchange(s, a) ==
  \/ s.pipe = <<a>> /\ s.out = <<>>
  \/ s.pipe = <<>> /\ \E good \in BOOLEAN : s.out = <<Frame(a, good)>>

\* As long as the server has not spoken unasked, one exchange is under way.
SessionInv(s) ==
  /\ s.phase = "closed" => s = Mcp!Closed
  /\ s.strays = 0 =>
       /\ s.phase = "initialize" /\ s.transport = "stdio" => Exchange(s, "initialize")
       /\ s.phase = "ask" /\ s.transport = "stdio" => Exchange(s, s.what)
       /\ s.phase = "ok" => s.answer = s.what

\* The inductive invariant.
SessionsInv == Mcp!McpAssumption /\ Mcp!TypeOK /\ \A w \in Workers : SessionInv(session[w])

LEMMA ClosedFacts ==
  ASSUME Mcp!McpAssumption
  PROVE  /\ Mcp!Closed \in Mcp!Sessions /\ SessionInv(Mcp!Closed)
         /\ [Mcp!Closed EXCEPT !.phase = "error"] \in Mcp!Sessions
         /\ SessionInv([Mcp!Closed EXCEPT !.phase = "error"])
<1>1. <<>> \in Seq(Mcp!Asked \union {"initialize"}) /\ <<>> \in Seq(Mcp!Frames)
  OBVIOUS
<1>2. 0 \in 0..MaxStrays
  BY DEF Mcp!McpAssumption
<1>3. Mcp!Closed \in Mcp!Sessions /\ [Mcp!Closed EXCEPT !.phase = "error"] \in Mcp!Sessions
  BY <1>1, <1>2 DEF Mcp!Closed, Mcp!Sessions, Mcp!Transports, Mcp!Asked
<1>4. SessionInv(Mcp!Closed) /\ SessionInv([Mcp!Closed EXCEPT !.phase = "error"])
  BY DEF Mcp!Closed, SessionInv
<1>. QED  BY <1>3, <1>4

\* A step that gives one session a good value keeps the invariant.
LEMMA OneSession ==
  ASSUME SessionsInv, NEW w \in Workers, NEW s \in Mcp!Sessions, SessionInv(s),
         session' = [session EXCEPT ![w] = s]
  PROVE  SessionsInv'
<1>1. Mcp!TypeOK'
  BY DEF SessionsInv, Mcp!TypeOK
<1>2. ASSUME NEW v \in Workers PROVE SessionInv(session'[v])
  BY DEF SessionsInv, Mcp!TypeOK
<1>. QED  BY <1>1, <1>2 DEF SessionsInv

LEMMA FailStep == ASSUME SessionsInv, NEW w \in Workers, Mcp!Fail(w) PROVE SessionsInv'
BY OneSession, ClosedFacts DEF SessionsInv, Mcp!Fail

-----------------------------------------------------------------------------
(* The client.                                                             *)

LEMMA OpenStep ==
  ASSUME SessionsInv, NEW w \in Workers, NEW t \in Mcp!Transports, NEW a \in Mcp!Asked, Mcp!Open(w, t, a)
  PROVE  SessionsInv'
<1>1. session[w] = Mcp!Closed
  BY DEF SessionsInv, SessionInv, Mcp!Open
<1>2. /\ session[w] \in Mcp!Sessions /\ session[w].out = <<>>
      /\ Append(session[w].pipe, "initialize") = <<"initialize">>
  BY <1>1, ClosedFacts DEF SessionsInv, Mcp!Closed
<1>3. Mcp!Begun(w, t, a) \in Mcp!Sessions
  <2>1. Append(session[w].pipe, "initialize") \in Seq(Mcp!Asked \union {"initialize"})
    BY <1>2 DEF Mcp!Sessions
  <2>2. 0 \in 0..MaxStrays
    BY DEF SessionsInv, Mcp!McpAssumption
  <2>. QED  BY <1>2, <2>1, <2>2 DEF Mcp!Begun, Mcp!Sessions
<1>4. SessionInv(Mcp!Begun(w, t, a))
  BY <1>2, <1>3 DEF Mcp!Begun, SessionInv, Exchange, Mcp!Sessions
<1>. QED  BY <1>3, <1>4, OneSession DEF Mcp!Open

LEMMA ReadInitializeStep ==
  ASSUME SessionsInv, NEW w \in Workers, Mcp!ReadInitialize(w)
  PROVE  SessionsInv'
<1> DEFINE s == session[w]
           t == [s EXCEPT !.phase = "ask", !.out = Tail(s.out), !.pipe = Append(s.pipe, s.what)]
<1>1. s \in Mcp!Sessions /\ SessionInv(s) /\ s.out # <<>> /\ s.transport = "stdio"
      /\ s.phase = "initialize"
  BY DEF SessionsInv, Mcp!TypeOK, Mcp!ReadInitialize
<1>2. CASE s.alive /\ Head(s.out).good
  <2>1. session' = [session EXCEPT ![w] = t]
    BY <1>2, <1>1 DEF Mcp!ReadInitialize
  <2>2. Tail(s.out) \in Seq(Mcp!Frames) /\ Append(s.pipe, s.what) \in Seq(Mcp!Asked \union {"initialize"})
    BY <1>1 DEF Mcp!Sessions
  <2>3. t \in Mcp!Sessions
    BY <1>1, <2>2 DEF Mcp!Sessions
  <2>4. ASSUME s.strays = 0
        PROVE  Tail(s.out) = <<>> /\ Append(s.pipe, s.what) = <<s.what>>
    <3>1. PICK good \in BOOLEAN : s.pipe = <<>> /\ s.out = <<Frame("initialize", good)>>
      BY <2>4, <1>1 DEF SessionInv, Exchange
    <3>. QED  BY <3>1
  <2>5. SessionInv(t)
    BY <1>1, <2>3, <2>4 DEF SessionInv, Exchange, Mcp!Sessions
  <2>. QED  BY <2>1, <2>3, <2>5, OneSession
<1>3. CASE ~(s.alive /\ Head(s.out).good)
  BY <1>3, FailStep DEF Mcp!ReadInitialize
<1>. QED  BY <1>2, <1>3

LEMMA ReadAnswerStep ==
  ASSUME SessionsInv, NEW w \in Workers, Mcp!ReadAnswer(w)
  PROVE  SessionsInv'
<1> DEFINE s == session[w]
           f == Head(s.out)
           t == [s EXCEPT !.phase = "ok", !.out = Tail(s.out), !.answer = f.to]
<1>1. s \in Mcp!Sessions /\ SessionInv(s) /\ s.out # <<>> /\ s.transport = "stdio" /\ s.phase = "ask"
  BY DEF SessionsInv, Mcp!TypeOK, Mcp!ReadAnswer
<1>2. f \in Mcp!Frames /\ Tail(s.out) \in Seq(Mcp!Frames)
  BY <1>1 DEF Mcp!Sessions
<1>3. CASE f.good /\ f.to # "stray"
  <2>1. session' = [session EXCEPT ![w] = t]
    BY <1>3, <1>1 DEF Mcp!ReadAnswer
  <2>2. t \in Mcp!Sessions
    BY <1>1, <1>2, <1>3 DEF Mcp!Sessions, Mcp!Frames
  <2>3. ASSUME s.strays = 0 PROVE f.to = s.what
    <3>1. PICK good \in BOOLEAN : s.out = <<Frame(s.what, good)>>
      BY <2>3, <1>1 DEF SessionInv, Exchange
    <3>2. f = Frame(s.what, good)
      BY <3>1
    <3>. QED  BY <3>2 DEF Frame
  <2>4. SessionInv(t)
    BY <1>1, <2>2, <2>3 DEF SessionInv, Mcp!Sessions
  <2>. QED  BY <2>1, <2>2, <2>4, OneSession
<1>4. CASE ~(f.good /\ f.to # "stray")
  BY <1>4, FailStep DEF Mcp!ReadAnswer
<1>. QED  BY <1>3, <1>4

LEMMA PostStep ==
  ASSUME SessionsInv, NEW w \in Workers, NEW good \in BOOLEAN, Mcp!Post(w, good)
  PROVE  SessionsInv'
<1> DEFINE s == session[w]
           Stepped(phase) == [s EXCEPT !.phase = phase]
           t == [s EXCEPT !.phase = "ok", !.answer = s.what]
<1>1. s \in Mcp!Sessions /\ SessionInv(s) /\ s.transport = "http" /\ Mcp!Active(w)
  BY DEF SessionsInv, Mcp!TypeOK, Mcp!Post
<1>2. CASE ~good
  BY <1>2, FailStep DEF Mcp!Post
<1>3. CASE good /\ s.phase = "initialize"
  <2>1. Stepped("notify") \in Mcp!Sessions /\ SessionInv(Stepped("notify"))
    BY <1>1 DEF Mcp!Sessions, SessionInv
  <2>. QED  BY <1>3, <2>1, OneSession DEF Mcp!Post
<1>4. CASE good /\ s.phase = "notify"
  <2>1. Stepped("ask") \in Mcp!Sessions /\ SessionInv(Stepped("ask"))
    BY <1>1 DEF Mcp!Sessions, SessionInv
  <2>. QED  BY <1>4, <2>1, OneSession DEF Mcp!Post
<1>5. CASE good /\ s.phase \notin {"initialize", "notify"}
  <2>1. t \in Mcp!Sessions /\ SessionInv(t)
    BY <1>1 DEF Mcp!Sessions, SessionInv
  <2>2. session' = [session EXCEPT ![w] = t]
    BY <1>5 DEF Mcp!Post
  <2>. QED  BY <2>1, <2>2, OneSession
<1>. QED  BY <1>2, <1>3, <1>4, <1>5

-----------------------------------------------------------------------------
(* The server.                                                             *)

LEMMA AnswerStep ==
  ASSUME SessionsInv, NEW w \in Workers, NEW good \in BOOLEAN, Mcp!Answer(w, good)
  PROVE  SessionsInv'
<1> DEFINE s == session[w]
           f == Frame(Head(s.pipe), good)
           t == [s EXCEPT !.pipe = Tail(s.pipe), !.out = Append(s.out, f)]
<1>1. s \in Mcp!Sessions /\ SessionInv(s) /\ s.pipe # <<>> /\ Mcp!Active(w) /\ s.transport = "stdio"
  BY DEF SessionsInv, Mcp!TypeOK, Mcp!Answer, Mcp!Serves
<1>2. session' = [session EXCEPT ![w] = t]
  BY DEF Mcp!Answer, Frame
<1>3. t \in Mcp!Sessions
  <2>1. Head(s.pipe) \in Mcp!Asked \union {"initialize"} /\ Tail(s.pipe) \in Seq(Mcp!Asked \union {"initialize"})
    BY <1>1 DEF Mcp!Sessions
  <2>2. f \in Mcp!Frames
    BY <2>1 DEF Mcp!Frames, Frame
  <2>3. Append(s.out, f) \in Seq(Mcp!Frames)
    BY <1>1, <2>2 DEF Mcp!Sessions
  <2>. QED  BY <1>1, <2>1, <2>3 DEF Mcp!Sessions
<1>4. ASSUME NEW a, s.pipe # <<>>, Exchange(s, a) PROVE Exchange(t, a)
  <2>1. s.pipe = <<a>> /\ s.out = <<>>
    BY <1>4 DEF Exchange
  <2>2. Tail(s.pipe) = <<>> /\ Append(s.out, f) = <<Frame(a, good)>>
    BY <2>1
  <2>. QED  BY <2>2, <1>1 DEF Exchange, Mcp!Sessions
<1>5. SessionInv(t)
  BY <1>1, <1>3, <1>4 DEF SessionInv, Mcp!Sessions, Mcp!Active
<1>. QED  BY <1>2, <1>3, <1>5, OneSession

LEMMA StrayStep ==
  ASSUME SessionsInv, NEW w \in Workers, Mcp!Stray(w)
  PROVE  SessionsInv'
<1> DEFINE s == session[w]
           t == [s EXCEPT !.strays = @ + 1, !.out = Append(s.out, Frame("stray", TRUE))]
<1>1. s \in Mcp!Sessions /\ SessionInv(s) /\ s.strays < MaxStrays /\ Mcp!Active(w)
  BY DEF SessionsInv, Mcp!TypeOK, Mcp!Stray, Mcp!Serves
<1>2. session' = [session EXCEPT ![w] = t]
  BY DEF Mcp!Stray, Frame
<1>3. Append(s.out, Frame("stray", TRUE)) \in Seq(Mcp!Frames)
  BY <1>1 DEF Mcp!Sessions, Mcp!Frames, Frame
<1>4. s.strays + 1 \in 0..MaxStrays /\ s.strays + 1 # 0
  BY <1>1 DEF SessionsInv, Mcp!McpAssumption, Mcp!Sessions
<1>5. t \in Mcp!Sessions
  BY <1>1, <1>3, <1>4 DEF Mcp!Sessions
<1>6. SessionInv(t)
  BY <1>1, <1>4, <1>5 DEF SessionInv, Mcp!Sessions, Mcp!Active
<1>. QED  BY <1>2, <1>5, <1>6, OneSession

LEMMA DieStep ==
  ASSUME SessionsInv, NEW w \in Workers, Mcp!Die(w)
  PROVE  SessionsInv'
<1> DEFINE t == [session[w] EXCEPT !.alive = FALSE]
<1>1. session[w] \in Mcp!Sessions /\ SessionInv(session[w]) /\ Mcp!Active(w)
  BY DEF SessionsInv, Mcp!TypeOK, Mcp!Die, Mcp!Serves
<1>2. t \in Mcp!Sessions /\ SessionInv(t)
  BY <1>1 DEF Mcp!Sessions, SessionInv, Exchange, Mcp!Active
<1>3. session' = [session EXCEPT ![w] = t]
  BY DEF Mcp!Die
<1>. QED  BY <1>2, <1>3, OneSession

LEMMA HaltStep ==
  ASSUME SessionsInv, NEW ws \in SUBSET Workers, Mcp!Halt(ws)
  PROVE  SessionsInv'
BY ClosedFacts DEF SessionsInv, Mcp!TypeOK, Mcp!Halt

-----------------------------------------------------------------------------
LEMMA McpInvNext == SessionsInv /\ [Mcp!Next]_session => SessionsInv'
<1> SUFFICES ASSUME SessionsInv, [Mcp!Next]_session PROVE SessionsInv'
  OBVIOUS
<1>1. CASE UNCHANGED session
  BY <1>1 DEF SessionsInv, Mcp!TypeOK
<1>2. ASSUME NEW w \in Workers, Mcp!ClientStep(w) PROVE SessionsInv'
  BY <1>2, ReadInitializeStep, ReadAnswerStep, PostStep, FailStep DEF Mcp!ClientStep, Mcp!ReadEnd
<1>3. ASSUME NEW w \in Workers, Mcp!Step(w) PROVE SessionsInv'
  BY <1>2, <1>3, StrayStep, DieStep, AnswerStep DEF Mcp!Step
<1>4. ASSUME NEW w \in Workers, Mcp!Close(w) \/ Mcp!CannotOpen(w) PROVE SessionsInv'
  BY <1>4, FailStep, OneSession, ClosedFacts DEF SessionsInv, Mcp!Close, Mcp!CannotOpen
<1>. QED  BY <1>1, <1>3, <1>4, OpenStep, HaltStep DEF Mcp!Next

LEMMA SessionsInvariance ==
  ASSUME Mcp!McpAssumption
  PROVE  Mcp!Spec => []SessionsInv
<1>1. Mcp!Init => SessionsInv
  BY ClosedFacts DEF Mcp!Init, SessionsInv, Mcp!TypeOK
<1>. QED  BY <1>1, McpInvNext, PTL DEF Mcp!Spec

\* Every session keeps its shape: one process, its pipes, one request of the
\* client (mcp_stdio.go, mcpClient).
THEOREM SessionsTypeCorrect ==
  ASSUME Mcp!McpAssumption
  PROVE  Mcp!Spec => []Mcp!TypeOK
<1>1. SessionsInv => Mcp!TypeOK
  BY DEF SessionsInv
<1>. QED  BY <1>1, SessionsInvariance, PTL

\* The client compares no ids (mcp_stdio.go:284), yet what it returns answers
\* its own request unless the server has spoken unasked: every request has a
\* process and pipes of its own, and initialize is read before it is sent.
THEOREM AnswersAlwaysPaired ==
  ASSUME Mcp!McpAssumption
  PROVE  Mcp!Spec => []Mcp!AnswersPaired
<1>1. SessionsInv => Mcp!AnswersPaired
  <2> SUFFICES ASSUME SessionsInv, NEW w \in Workers, session[w].phase = "ok"
               PROVE  session[w].answer = session[w].what \/ session[w].strays > 0
    BY DEF Mcp!AnswersPaired
  <2>1. session[w].strays \in Nat
    BY DEF SessionsInv, Mcp!McpAssumption, Mcp!TypeOK, Mcp!Sessions
  <2>. QED  BY <2>1 DEF SessionsInv, SessionInv
<1>. QED  BY <1>1, SessionsInvariance, PTL

-----------------------------------------------------------------------------
(* Profile runs: the order of commands and rollbacks, for any number of     *)
(* steps, any rollback profile, with and without continue_on_error.         *)

LastEvent(r) == r.log[Len(r.log)]

LogOrdered(r) == \A i \in 1..(Len(r.log) - 1) : Exec!MayFollow(r.profile, r.log[i], r.log[i + 1])

\* Where a run is, its log allows it to go on or to end.
RunInv(r) ==
  /\ r.phase = "idle" => r = Exec!Idle
  /\ r.phase # "idle" => r.profile \in Profiles
  /\ LogOrdered(r)
  /\ r.phase = "steps" =>
       /\ r.at <= Length[r.profile] /\ r.undoAt = 1
       /\ r.log # <<>> => Exec!MayFollow(r.profile, LastEvent(r), Exec!Event("step", r.at, "ok"))
  /\ r.phase = "undo" =>
       /\ r.log # <<>> /\ r.undoAt <= Exec!UndoLength(r.profile)
       /\ Exec!MayFollow(r.profile, LastEvent(r), Exec!Event("undo", r.undoAt, "ok"))
  /\ r.phase = "ended" /\ r.log # <<>> => Exec!MayEnd(r.profile, LastEvent(r))

\* The inductive invariant.
ProfilesInv == Exec!ExecutorAssumption /\ Exec!TypeOK /\ \A w \in Workers : RunInv(run[w])

LEMMA LengthFacts ==
  ASSUME Exec!ExecutorAssumption, NEW p \in Profiles
  PROVE  Length[p] \in Nat /\ Exec!UndoLength(p) \in Nat
BY DEF Exec!ExecutorAssumption, Exec!UndoLength, Exec!HasRollback

LEMMA IdleFacts == Exec!Idle \in Exec!Runs /\ RunInv(Exec!Idle)
<1>1. <<>> \in Seq(Exec!Events) /\ Len(<<>>) = 0
  OBVIOUS
<1>2. Exec!Idle \in Exec!Runs
  BY <1>1 DEF Exec!Idle, Exec!Runs
<1>. QED  BY <1>1, <1>2 DEF Exec!Idle, RunInv, LogOrdered

LEMMA EventFacts ==
  ASSUME NEW k \in {"step", "undo"}, NEW a \in Nat \ {0}, NEW o \in Exec!Outcomes
  PROVE  /\ Exec!Event(k, a, o) \in Exec!Events
         /\ Exec!Event(k, a, o).kind = k /\ Exec!Event(k, a, o).at = a /\ Exec!Event(k, a, o).outcome = o
BY DEF Exec!Event, Exec!Events

\* Whether an event may follow does not depend on how it will end.
LEMMA OutcomeIrrelevant ==
  ASSUME NEW p, NEW e, NEW k, NEW a, NEW o, Exec!MayFollow(p, e, Exec!Event(k, a, "ok"))
  PROVE  Exec!MayFollow(p, e, Exec!Event(k, a, o))
BY DEF Exec!MayFollow, Exec!Event

\* The log with one more event.
LEMMA LoggedFacts ==
  ASSUME NEW r \in Exec!Runs, LogOrdered(r), NEW e \in Exec!Events,
         r.log # <<>> => Exec!MayFollow(r.profile, LastEvent(r), e)
  PROVE  LET l == [r EXCEPT !.log = Append(@, e)] IN
         /\ l \in Exec!Runs /\ LogOrdered(l) /\ l.log # <<>> /\ LastEvent(l) = e
         /\ l.profile = r.profile /\ l.phase = r.phase
         /\ l.at = r.at /\ l.undoAt = r.undoAt
<1> DEFINE l == [r EXCEPT !.log = Append(@, e)]
<1>1. /\ r.log \in Seq(Exec!Events) /\ Append(r.log, e) \in Seq(Exec!Events)
      /\ l.log = Append(r.log, e) /\ l \in Exec!Runs
      /\ l.profile = r.profile /\ l.phase = r.phase /\ l.at = r.at /\ l.undoAt = r.undoAt
  BY DEF Exec!Runs
<1>2. /\ Len(r.log) \in Nat /\ Len(l.log) = Len(r.log) + 1
      /\ l.log[Len(r.log) + 1] = e
      /\ \A i \in 1..Len(r.log) : l.log[i] = r.log[i]
  BY <1>1
<1>3. ASSUME NEW i \in 1..Len(r.log)
      PROVE  Exec!MayFollow(l.profile, l.log[i], l.log[i + 1])
  <2>1. CASE i = Len(r.log)
    <3>1. r.log # <<>> /\ l.log[i] = LastEvent(r) /\ l.log[i + 1] = e
      BY <2>1, <1>1, <1>2 DEF LastEvent
    <3>. QED  BY <3>1, <1>1
  <2>2. CASE i # Len(r.log)
    <3>1. i \in 1..(Len(r.log) - 1) /\ l.log[i] = r.log[i] /\ l.log[i + 1] = r.log[i + 1]
      BY <2>2, <1>2
    <3>. QED  BY <3>1, <1>1 DEF LogOrdered
  <2>. QED  BY <2>1, <2>2
<1>4. LogOrdered(l)
  BY <1>2, <1>3 DEF LogOrdered
<1>5. l.log # <<>> /\ LastEvent(l) = e
  BY <1>1, <1>2 DEF LastEvent
<1>. QED  BY <1>1, <1>4, <1>5

-----------------------------------------------------------------------------
(* Where a run goes next.                                                  *)

LEMMA ResumedInv ==
  ASSUME Exec!ExecutorAssumption, NEW r \in Exec!Runs, r.profile \in Profiles, LogOrdered(r), NEW a \in Nat \ {0},
         r.log # <<>> => /\ Exec!MayFollow(r.profile, LastEvent(r), Exec!Event("step", a, "ok"))
                         /\ a > Length[r.profile] => Exec!MayEnd(r.profile, LastEvent(r))
  PROVE  Exec!Resumed(r, a) \in Exec!Runs /\ RunInv(Exec!Resumed(r, a))
<1> DEFINE phase == IF a <= Length[r.profile] THEN "steps" ELSE "ended"
           s == [r EXCEPT !.at = a, !.undoAt = 1, !.phase = phase]
<1>0. Exec!Resumed(r, a) = s
  BY DEF Exec!Resumed
<1>1. /\ s \in Exec!Runs /\ s.log = r.log /\ s.profile = r.profile /\ s.at = a
      /\ s.undoAt = 1 /\ s.phase = phase
  <2>1. phase \in {"steps", "ended"} /\ 1 \in Nat \ {0}
    OBVIOUS
  <2> HIDE DEF phase
  <2>. QED  BY <2>1 DEF Exec!Runs
<1>2. LogOrdered(s) /\ LastEvent(s) = LastEvent(r)
  BY <1>1 DEF LogOrdered, LastEvent
<1>3. Length[r.profile] \in Nat
  BY LengthFacts
<1>4. RunInv(s)
  BY <1>1, <1>2, <1>3 DEF RunInv
<1>. QED  BY <1>0, <1>1, <1>4

LEMMA EndedInv ==
  ASSUME NEW r \in Exec!Runs, r.profile \in Profiles, LogOrdered(r),
         r.log # <<>> => Exec!MayEnd(r.profile, LastEvent(r))
  PROVE  LET s == [r EXCEPT !.phase = "ended"] IN s \in Exec!Runs /\ RunInv(s)
<1> DEFINE s == [r EXCEPT !.phase = "ended"]
<1>1. s \in Exec!Runs /\ s.log = r.log /\ s.profile = r.profile /\ s.phase = "ended"
  BY DEF Exec!Runs
<1>2. LogOrdered(s) /\ LastEvent(s) = LastEvent(r)
  BY <1>1 DEF LogOrdered, LastEvent
<1>. QED  BY <1>1, <1>2 DEF RunInv

LEMMA SettleInv ==
  ASSUME Exec!ExecutorAssumption, NEW r \in Exec!Runs, r.profile \in Profiles, LogOrdered(r), r.log # <<>>,
         Exec!Settled(r.profile, LastEvent(r))
  PROVE  Exec!Settle(r) \in Exec!Runs /\ RunInv(Exec!Settle(r))
<1>1. Exec!MayEnd(r.profile, LastEvent(r)) /\ r.at + 1 \in Nat \ {0}
  BY DEF Exec!MayEnd, Exec!Runs
<1>2. CASE r.profile \in ContinueOnError
  <2>1. Exec!MayFollow(r.profile, LastEvent(r), Exec!Event("step", r.at + 1, "ok"))
    BY <1>2 DEF Exec!MayFollow, Exec!Event
  <2>. QED  BY <1>1, <1>2, <2>1, ResumedInv DEF Exec!Settle
<1>3. CASE r.profile \notin ContinueOnError
  BY <1>1, <1>3, EndedInv DEF Exec!Settle
<1>. QED  BY <1>2, <1>3

-----------------------------------------------------------------------------
(* The steps.                                                              *)

LEMMA OneRun ==
  ASSUME ProfilesInv, NEW w \in Workers, NEW r \in Exec!Runs, RunInv(r), run' = [run EXCEPT ![w] = r]
  PROVE  ProfilesInv'
<1>1. Exec!TypeOK'
  BY DEF ProfilesInv, Exec!TypeOK
<1>2. ASSUME NEW v \in Workers PROVE RunInv(run'[v])
  BY DEF ProfilesInv, Exec!TypeOK
<1>. QED  BY <1>1, <1>2 DEF ProfilesInv

LEMMA BeginStep ==
  ASSUME ProfilesInv, NEW w \in Workers, NEW p \in Profiles, NEW a \in BOOLEAN, NEW t \in BOOLEAN,
         Exec!Begin(w, p, a, t)
  PROVE  ProfilesInv'
<1> DEFINE r == [Exec!Idle EXCEPT !.profile = p]
<1>1. Exec!ExecutorAssumption /\ r \in Exec!Runs /\ r.profile = p /\ r.log = <<>>
  BY IdleFacts DEF ProfilesInv, Exec!Idle, Exec!Runs
<1>5. LogOrdered(r)
  BY <1>1 DEF LogOrdered
<1>2. Exec!Resumed(r, 1) \in Exec!Runs /\ RunInv(Exec!Resumed(r, 1))
  <2> HIDE DEF r
  <2>. QED  BY <1>1, <1>5, ResumedInv
<1>3. [r EXCEPT !.phase = "ended"] \in Exec!Runs /\ RunInv([r EXCEPT !.phase = "ended"])
  BY <1>1, <1>5, EndedInv
<1>4. [Exec!Idle EXCEPT !.phase = "ended", !.profile = p] = [r EXCEPT !.phase = "ended"]
  BY DEF Exec!Idle
<1>. QED  BY <1>2, <1>3, <1>4, OneRun DEF Exec!Begin

LEMMA RunStepStep ==
  ASSUME ProfilesInv, NEW w \in Workers, NEW o \in Exec!Outcomes, Exec!RunStep(w, o)
  PROVE  ProfilesInv'
<1> DEFINE r == run[w]
           e == Exec!Event("step", r.at, o)
           l == [r EXCEPT !.log = Append(@, e)]
<1>1. /\ Exec!ExecutorAssumption /\ r \in Exec!Runs /\ RunInv(r) /\ r.phase = "steps" /\ r.profile \in Profiles
      /\ r.at \in Nat \ {0} /\ r.at <= Length[r.profile] /\ LogOrdered(r)
  BY DEF ProfilesInv, Exec!TypeOK, Exec!RunStep, RunInv, Exec!Runs
<1>2. e \in Exec!Events /\ e.kind = "step" /\ e.at = r.at /\ e.outcome = o
  BY <1>1, EventFacts
<1>3. r.log # <<>> => Exec!MayFollow(r.profile, LastEvent(r), e)
  BY <1>1, OutcomeIrrelevant DEF RunInv
<1>4. /\ l \in Exec!Runs /\ LogOrdered(l) /\ l.log # <<>> /\ LastEvent(l) = e
      /\ l.profile = r.profile /\ l.at = r.at /\ l.undoAt = r.undoAt
  BY <1>1, <1>2, <1>3, LoggedFacts
<1>5. Length[r.profile] \in Nat /\ Exec!UndoLength(r.profile) \in Nat
  BY <1>1, LengthFacts
<1>6. CASE o = "ok"
  <2>1. Exec!MayFollow(l.profile, e, Exec!Event("step", r.at + 1, "ok"))
    BY <1>2, <1>6 DEF Exec!MayFollow, Exec!Event
  <2>2. r.at + 1 > Length[r.profile] => Exec!MayEnd(l.profile, e)
    BY <1>1, <1>2, <1>4, <1>5, <1>6 DEF Exec!MayEnd
  <2>3. Exec!Resumed(l, r.at + 1) \in Exec!Runs /\ RunInv(Exec!Resumed(l, r.at + 1))
    <3>1. r.at + 1 \in Nat \ {0}
      BY <1>1
    <3> HIDE DEF r, e, l
    <3>. QED  BY <3>1, <2>1, <2>2, <1>1, <1>4, ResumedInv
  <2>. QED  BY <2>3, <1>6, OneRun DEF Exec!RunStep
<1>7. CASE o = "unrendered"
  <2>1. Exec!MayEnd(l.profile, e)
    BY <1>2, <1>7 DEF Exec!MayEnd
  <2>2. [l EXCEPT !.phase = "ended"] \in Exec!Runs /\ RunInv([l EXCEPT !.phase = "ended"])
    BY <2>1, <1>1, <1>4, EndedInv
  <2>. QED  BY <2>2, <1>7, OneRun DEF Exec!RunStep
<1>8. CASE o = "failed" /\ Exec!UndoLength(r.profile) > 0
  <2> DEFINE u == [l EXCEPT !.phase = "undo"]
  <2>1. /\ u \in Exec!Runs /\ u.log = l.log /\ u.profile = r.profile /\ u.phase = "undo"
        /\ LogOrdered(u) /\ LastEvent(u) = e
    BY <1>4 DEF Exec!Runs, LogOrdered, LastEvent
  <2>2. u.undoAt = 1
    BY <1>1, <1>4 DEF RunInv, Exec!Runs
  <2>3. Exec!MayFollow(u.profile, e, Exec!Event("undo", 1, "ok"))
    BY <1>2, <1>8 DEF Exec!MayFollow, Exec!Event
  <2>4. RunInv(u)
    BY <2>1, <2>2, <2>3, <1>1, <1>4, <1>5, <1>8 DEF RunInv
  <2>. QED  BY <2>1, <2>4, <1>8, OneRun DEF Exec!RunStep
<1>9. CASE o = "failed" /\ ~(Exec!UndoLength(r.profile) > 0)
  <2>1. Exec!Settled(l.profile, e)
    BY <1>2, <1>4, <1>5, <1>9 DEF Exec!Settled
  <2>2. Exec!Settle(l) \in Exec!Runs /\ RunInv(Exec!Settle(l))
    BY <2>1, <1>1, <1>4, SettleInv
  <2>. QED  BY <2>2, <1>9, OneRun DEF Exec!RunStep
<1>. QED  BY <1>6, <1>7, <1>8, <1>9 DEF Exec!Outcomes

LEMMA RunUndoStep ==
  ASSUME ProfilesInv, NEW w \in Workers, NEW o \in Exec!Outcomes, Exec!RunUndo(w, o)
  PROVE  ProfilesInv'
<1> DEFINE r == run[w]
           e == Exec!Event("undo", r.undoAt, o)
           l == [r EXCEPT !.log = Append(@, e)]
<1>1. /\ Exec!ExecutorAssumption /\ r \in Exec!Runs /\ RunInv(r) /\ r.phase = "undo" /\ r.profile \in Profiles
      /\ r.undoAt \in Nat \ {0} /\ r.undoAt <= Exec!UndoLength(r.profile) /\ LogOrdered(r)
      /\ r.log # <<>>
  BY DEF ProfilesInv, Exec!TypeOK, Exec!RunUndo, RunInv, Exec!Runs
<1>2. e \in Exec!Events /\ e.kind = "undo" /\ e.at = r.undoAt /\ e.outcome = o
  BY <1>1, EventFacts
<1>3. Exec!MayFollow(r.profile, LastEvent(r), e)
  BY <1>1, OutcomeIrrelevant DEF RunInv
<1>4. /\ l \in Exec!Runs /\ LogOrdered(l) /\ l.log # <<>> /\ LastEvent(l) = e
      /\ l.profile = r.profile /\ l.undoAt = r.undoAt /\ l.phase = "undo"
  BY <1>1, <1>2, <1>3, LoggedFacts
<1>5. Exec!UndoLength(r.profile) \in Nat
  BY <1>1, LengthFacts
<1>6. CASE o = "ok" /\ r.undoAt < Exec!UndoLength(r.profile)
  <2> DEFINE u == [l EXCEPT !.undoAt = @ + 1]
  <2>1. /\ u \in Exec!Runs /\ u.log = l.log /\ u.profile = r.profile /\ u.phase = "undo"
        /\ u.undoAt = r.undoAt + 1 /\ LogOrdered(u) /\ LastEvent(u) = e
    <3>1. r.undoAt + 1 \in Nat \ {0}
      BY <1>1
    <3> HIDE DEF r, e, l
    <3>. QED  BY <3>1, <1>4 DEF Exec!Runs, LogOrdered, LastEvent
  <2>2. Exec!MayFollow(u.profile, e, Exec!Event("undo", r.undoAt + 1, "ok"))
    BY <1>2, <1>6 DEF Exec!MayFollow, Exec!Event
  <2>3. RunInv(u)
    BY <2>1, <2>2, <1>1, <1>4, <1>5, <1>6 DEF RunInv
  <2>. QED  BY <2>1, <2>3, <1>6, OneRun DEF Exec!RunUndo
<1>7. CASE ~(o = "ok" /\ r.undoAt < Exec!UndoLength(r.profile))
  <2>1. Exec!Settled(l.profile, e)
    BY <1>1, <1>2, <1>4, <1>5, <1>7 DEF Exec!Settled
  <2>2. Exec!Settle(l) \in Exec!Runs /\ RunInv(Exec!Settle(l))
    BY <2>1, <1>1, <1>4, SettleInv
  <2>. QED  BY <2>2, <1>7, OneRun DEF Exec!RunUndo
<1>. QED  BY <1>6, <1>7

LEMMA LeaveStep ==
  ASSUME ProfilesInv, NEW w \in Workers, Exec!Leave(w)
  PROVE  ProfilesInv'
<1> DEFINE t == [run[w] EXCEPT !.gone = TRUE]
<1>1. run[w] \in Exec!Runs /\ RunInv(run[w]) /\ run[w].phase # "idle"
  BY DEF ProfilesInv, Exec!TypeOK, Exec!Leave, Exec!Active
<1>2. t \in Exec!Runs
  BY <1>1 DEF Exec!Runs
<1>3. RunInv(t)
  BY <1>1, <1>2 DEF RunInv, LogOrdered, LastEvent, Exec!Runs
<1>. QED  BY <1>2, <1>3, OneRun DEF Exec!Leave

-----------------------------------------------------------------------------
LEMMA ExecInvNext == ProfilesInv /\ [Exec!Next]_run => ProfilesInv'
<1> SUFFICES ASSUME ProfilesInv, [Exec!Next]_run PROVE ProfilesInv'
  OBVIOUS
<1>1. CASE UNCHANGED run
  BY <1>1 DEF ProfilesInv, Exec!TypeOK
<1>2. ASSUME NEW w \in Workers, Exec!Step(w) PROVE ProfilesInv'
  BY <1>2, RunStepStep, RunUndoStep DEF Exec!Step
<1>3. ASSUME NEW w \in Workers, Exec!Reset(w) PROVE ProfilesInv'
  BY <1>3, IdleFacts, OneRun DEF Exec!Reset
<1>4. ASSUME NEW ws \in SUBSET Workers, Exec!Halt(ws) PROVE ProfilesInv'
  BY <1>4, IdleFacts DEF Exec!Halt, ProfilesInv, Exec!TypeOK
<1>. QED  BY <1>1, <1>2, <1>3, <1>4, BeginStep, LeaveStep DEF Exec!Next

LEMMA ProfilesInvariance ==
  ASSUME Exec!ExecutorAssumption
  PROVE  Exec!Spec => []ProfilesInv
<1>1. Exec!Init => ProfilesInv
  BY IdleFacts DEF Exec!Init, ProfilesInv, Exec!TypeOK
<1>. QED  BY <1>1, ExecInvNext, PTL DEF Exec!Spec

\* Steps and rollbacks are counted from 1 and a run is in one phase
\* (executor.go:68).
THEOREM ProfilesTypeCorrect ==
  ASSUME Exec!ExecutorAssumption
  PROVE  Exec!Spec => []Exec!TypeOK
<1>1. ProfilesInv => Exec!TypeOK
  BY DEF ProfilesInv
<1>. QED  BY <1>1, ProfilesInvariance, PTL

\* A failing step is rolled back from the first command of the rollback
\* profile on, before anything else of the chain, whatever the profiles, the
\* callers and the failures (executor.go:109).
THEOREM AlwaysRollsBack ==
  ASSUME Exec!ExecutorAssumption
  PROVE  Exec!Spec => []Exec!RollbackDiscipline
<1>1. ProfilesInv => Exec!RollbackDiscipline
  BY DEF ProfilesInv, RunInv, LogOrdered, LastEvent, Exec!RollbackDiscipline
<1>. QED  BY <1>1, ProfilesInvariance, PTL

-----------------------------------------------------------------------------
(* The components in the composition.                                      *)

\* The steps that touch neither a session nor a run.
LEMMA Untouched ==
  ASSUME NEW w \in Workers,
         \/ Start(w) \/ Arrive(w) \/ HookNotFound(w) \/ RunHook(w) \/ HookFails(w) \/ WriteRow(w)
         \/ WriteFails(w) \/ Answered(w) \/ Scan(w) \/ ReadRows(w) \/ ReadRowsFails(w) \/ Adopt(w)
         \/ Unregister(w) \/ AddTool(w) \/ Registered(w) \/ EndCommand(w)
  PROVE  UNCHANGED <<session, run>>
BY DEF Start, Arrive, AskRefresh, AskValidate, AskExecute, AskSet, Ask, HookNotFound, RunHook,
       HookFails, WriteRow, WriteFails, Answered, Scan, ReadRows, ReadRowsFails, Adopt,
       Unregister, AddTool, Registered, EndCommand

LEMMA ServerFacts ==
  ASSUME ReqInv, NEW w \in Workers, req[w].server <= Len(ServerOrder[P(w)])
  PROVE  NextServer(w) \in Servers
<1>1. req[w].server \in Nat \ {0} /\ P(w) \in Procs
  BY WorkersProcs DEF ReqInv, ReqOK
<1>2. ServerOrder[P(w)] \in Seq(Servers)
  BY <1>1, ExtensionsAssumption DEF ExtensionsAssumption
<1>. QED  BY <1>1, <1>2 DEF NextServer

LEMMA SessionStep == ReqInv /\ [Next]_vars => [Mcp!Next]_session
<1> SUFFICES ASSUME ReqInv, [Next]_vars PROVE [Mcp!Next]_session
  OBVIOUS
<1>1. ASSUME NEW w \in Workers, BeginListing(w) PROVE Mcp!Next
  <2>1. Transport[NextServer(w)] \in Mcp!Transports /\ "list" \in Mcp!Asked
    BY <1>1, ServerFacts, ExtensionsAssumption DEF BeginListing, ExtensionsAssumption, Mcp!Asked
  <2>. QED  BY <1>1, <2>1 DEF BeginListing, Mcp!Next
<1>2. ASSUME NEW w \in Workers, EndListing(w) \/ EndCall(w) PROVE Mcp!Next
  BY <1>2 DEF EndListing, EndCall, Mcp!Next
<1>3. ASSUME NEW w \in Workers, Lookup(w) PROVE UNCHANGED session \/ Mcp!Next
  <2> DEFINE owner == registry[P(w)][req[w].arg]
  <2>1. CASE owner \in Servers
    <3>1. Transport[owner] \in Mcp!Transports /\ "call" \in Mcp!Asked
      BY <2>1, ExtensionsAssumption DEF ExtensionsAssumption, Mcp!Asked
    <3>. QED  BY <1>3, <3>1 DEF Lookup, Mcp!Next
  <2>2. CASE owner \notin Servers
    BY <1>3, <2>2 DEF Lookup
  <2>. QED  BY <2>1, <2>2
<1>4. ASSUME NEW p \in Procs, Down(p) PROVE Mcp!Next
  <2>1. {w \in Workers : P(w) = p} \in SUBSET Workers
    OBVIOUS
  <2>. QED  BY <1>4, <2>1 DEF Down, Mcp!Next
<1>5. ASSUME NEW w \in Workers, McpStep(w) PROVE Mcp!Next
  BY <1>5 DEF McpStep, Mcp!Next
<1>6. ASSUME NEW w \in Workers, Handle(w) PROVE UNCHANGED session \/ Mcp!Next
  BY <1>1, <1>2, <1>3, <1>6, Untouched DEF Handle, EndProfile
<1>7. ASSUME NEW w \in Workers, Start(w) \/ Arrive(w) \/ ExecStep(w) PROVE UNCHANGED session
  BY <1>7, Untouched DEF ExecStep
<1>8. ASSUME NEW w \in Workers, Exit(w) PROVE Mcp!Next
  BY <1>4, <1>8, WorkersProcs DEF Exit
<1>. QED  BY <1>4, <1>5, <1>6, <1>7, <1>8 DEF Next, Crash, Edit, vars

LEMMA ProfileStep == [Next]_vars => [Exec!Next]_run
<1> SUFFICES ASSUME [Next]_vars PROVE [Exec!Next]_run
  OBVIOUS
<1>1. ASSUME NEW w \in Workers, Lookup(w) PROVE UNCHANGED run \/ Exec!Next
  <2>1. CASE \E p \in AskedProfiles, approved, token \in BOOLEAN : Exec!Begin(w, p, approved, token)
    BY <2>1, ExtensionsAssumption DEF ExtensionsAssumption, Exec!Next
  <2>2. CASE ~\E p \in AskedProfiles, approved, token \in BOOLEAN : Exec!Begin(w, p, approved, token)
    BY <1>1, <2>2 DEF Lookup
  <2>. QED  BY <2>1, <2>2
<1>2. ASSUME NEW w \in Workers, EndProfile(w) \/ ExecStep(w) PROVE Exec!Next
  BY <1>2 DEF EndProfile, ExecStep, Exec!Next
<1>3. ASSUME NEW p \in Procs, Down(p) PROVE Exec!Next
  <2>1. {w \in Workers : P(w) = p} \in SUBSET Workers
    OBVIOUS
  <2>. QED  BY <1>3, <2>1 DEF Down, Exec!Next
<1>4. ASSUME NEW w \in Workers, Handle(w) PROVE UNCHANGED run \/ Exec!Next
  BY <1>1, <1>2, <1>4, Untouched DEF Handle, BeginListing, EndListing, EndCall
<1>5. ASSUME NEW w \in Workers, Start(w) \/ Arrive(w) \/ McpStep(w) PROVE UNCHANGED run
  BY <1>5, Untouched DEF McpStep
<1>6. ASSUME NEW w \in Workers, Exit(w) PROVE Exec!Next
  BY <1>3, <1>6, WorkersProcs DEF Exit
<1>. QED  BY <1>2, <1>3, <1>4, <1>5, <1>6 DEF Next, Crash, Edit, vars

\* Whatever the requests, a session does what McpClient allows: one listing
\* or call each, closed before the next (registry.go:52, manager.go:340).
THEOREM RefinesMcpClient == Spec => Mcp!Spec
<1>1. Init => Mcp!Init
  BY DEF Init
<1>. QED  BY <1>1, InitReqInv, ReqNext, SessionStep, PTL DEF Spec, Mcp!Spec

\* Whatever the requests, a profile runs as Executor allows (executor.go:68).
THEOREM RefinesExecutor == Spec => Exec!Spec
<1>1. Init => Exec!Init
  BY DEF Init
<1>. QED  BY <1>1, ProfileStep, PTL DEF Spec, Exec!Spec

\* No request is ever given the answer to another one, unless the server has
\* put a frame of its own in between (mcp_stdio.go:284).
THEOREM AnswersPairedHere == Spec => []AnswersPaired
<1>1. Mcp!Spec => []Mcp!AnswersPaired
  BY AnswersAlwaysPaired, ExtensionsAssumption DEF ExtensionsAssumption
<1>2. Mcp!AnswersPaired => AnswersPaired
  BY DEF AnswersPaired
<1>. QED  BY <1>1, <1>2, RefinesMcpClient, PTL

\* Failing profiles are rolled back whatever else the process does, a crash
\* included: what a crash cuts short is not gone on with (executor.go:109).
THEOREM RollbackHere == Spec => []RollbackDiscipline
<1>1. Exec!Spec => []Exec!RollbackDiscipline
  BY AlwaysRollsBack, ExtensionsAssumption DEF ExtensionsAssumption
<1>2. Exec!RollbackDiscipline => RollbackDiscipline
  BY DEF RollbackDiscipline
<1>. QED  BY <1>1, <1>2, RefinesExecutor, PTL
=============================================================================
