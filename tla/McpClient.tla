----------------------------- MODULE McpClient -----------------------------
(***************************************************************************)
(* internal/extensions/mcp_stdio.go: one session with an MCP server.       *)
(* Every listing of tools and every call of a tool opens a session of its  *)
(* own: "stdio" starts a server process and writes to and reads from its   *)
(* pipes, "http" posts each message.  A session initializes the server,    *)
(* tells it so, asks one thing and closes.                                 *)
(*                                                                         *)
(* The client takes the next frame as the answer to whatever it has just   *)
(* asked, whatever the id of the frame.  The server (external) answers its *)
(* requests in order; it may also write frames of its own (notifications,  *)
(* requests), answer with an error, stop answering or die.                 *)
(***************************************************************************)
EXTENDS Naturals, Sequences

CONSTANTS
  Callers,       \* goroutines that open sessions
  MaxStrays      \* bound: frames of its own a server writes in a session

\* What the module that opens the sessions assumes.
McpAssumption == MaxStrays \in Nat

VARIABLE session

Transports == {"stdio", "http"}
Asked      == {"list", "call"}

Frames == [to : Asked \union {"initialize", "stray"}, good : BOOLEAN]

\* alive: the process runs; pipe: requests it has not answered; out: frames
\* the client has not read; answer: the request whose answer was taken.
Sessions ==
  [phase : {"closed", "initialize", "notify", "ask", "ok", "error"},
   transport : Transports, what : Asked, alive : BOOLEAN,
   pipe : Seq(Asked \union {"initialize"}), out : Seq(Frames),
   strays : 0..MaxStrays, answer : Asked \union {"initialize", "none"}]

Closed ==
  [phase |-> "closed", transport |-> "stdio", what |-> "list",
   alive |-> FALSE, pipe |-> <<>>, out |-> <<>>, strays |-> 0,
   answer |-> "none"]

Init == session = [w \in Callers |-> Closed]

Active(w)  == session[w].phase \in {"initialize", "notify", "ask"}
Ended(w)   == session[w].phase \in {"ok", "error"}

\* The caller closes a session that has failed: nothing of it is read again.
Fail(w) == session' = [session EXCEPT ![w] = [Closed EXCEPT !.phase = "error"]]

-----------------------------------------------------------------------------
(* The client.                                                             *)

Begun(w, transport, what) ==
  [session[w] EXCEPT !.phase = "initialize", !.transport = transport, !.what = what,
     !.alive = TRUE, !.pipe = Append(@, "initialize"), !.strays = 0]

\* newMCPClient and the first message; the command may not start, the URL
\* may be missing.
Open(w, transport, what) ==
  /\ session[w].phase = "closed"
  /\ session' = [session EXCEPT ![w] = Begun(w, transport, what)]

CannotOpen(w) ==
  /\ session[w].phase = "closed"
  /\ Fail(w)

\* request "initialize" has its frame; then notify and the one request.
ReadInitialize(w) ==
  LET s == session[w] IN
  /\ s.phase = "initialize" /\ s.transport = "stdio" /\ s.out # <<>>
  /\ IF s.alive /\ Head(s.out).good
       THEN session' = [session EXCEPT ![w].phase = "ask", ![w].out = Tail(s.out),
                          ![w].pipe = Append(s.pipe, s.what)]
       ELSE Fail(w)

\* The frame taken for the answer; without a result it cannot be decoded.
ReadAnswer(w) ==
  LET s == session[w]
      f == Head(s.out) IN
  /\ s.phase = "ask" /\ s.transport = "stdio" /\ s.out # <<>>
  /\ IF f.good /\ f.to # "stray"
       THEN session' = [session EXCEPT ![w].phase = "ok", ![w].out = Tail(s.out),
                          ![w].answer = f.to]
       ELSE Fail(w)

\* A read of a pipe nobody writes to any more.
ReadEnd(w) ==
  LET s == session[w] IN
  /\ s.phase \in {"initialize", "ask"} /\ s.transport = "stdio"
  /\ ~s.alive /\ s.out = <<>>
  /\ Fail(w)

\* One POST and its response; any of the three may fail or time out.
Post(w, good) ==
  LET s == session[w] IN
  /\ Active(w) /\ s.transport = "http"
  /\ CASE ~good                    -> Fail(w)
       [] good /\ s.phase = "initialize" -> session' = [session EXCEPT ![w].phase = "notify"]
       [] good /\ s.phase = "notify"     -> session' = [session EXCEPT ![w].phase = "ask"]
       [] OTHER -> session' = [session EXCEPT ![w].phase = "ok", ![w].answer = s.what]

\* Variant, not the code: one client kept for the next call.
KeepsClient(w) ==
  /\ Ended(w)
  /\ session' = [session EXCEPT ![w].phase = "closed"]

\* The deferred close: the process is killed, its pipes are gone.
Close(w) ==
  /\ Ended(w)
  /\ session' = [session EXCEPT ![w] = Closed]

-----------------------------------------------------------------------------
(* The server and the session's timer (external).                          *)

Serves(w) == session[w].alive /\ session[w].transport = "stdio" /\ Active(w)

Answer(w, good) ==
  LET s == session[w] IN
  /\ Serves(w) /\ s.pipe # <<>>
  /\ session' = [session EXCEPT ![w].pipe = Tail(s.pipe),
       ![w].out = Append(s.out, [to |-> Head(s.pipe), good |-> good])]

Stray(w) ==
  LET s == session[w] IN
  /\ Serves(w) /\ s.strays < MaxStrays
  /\ session' = [session EXCEPT ![w].strays = @ + 1,
       ![w].out = Append(s.out, [to |-> "stray", good |-> TRUE])]

\* Variant, not the code: a deadline for the first answer only.
DiesWhileStarting(w) ==
  /\ Serves(w) /\ session[w].phase = "initialize"
  /\ session' = [session EXCEPT ![w].alive = FALSE]

\* The context's deadline kills the process, or it ends by itself.
Die(w) ==
  /\ Serves(w)
  /\ session' = [session EXCEPT ![w].alive = FALSE]

\* The process of some callers ends, and their server processes with it.
Halt(ws) == session' = [w \in Callers |-> IF w \in ws THEN Closed ELSE session[w]]

ClientStep(w) ==
  \/ ReadInitialize(w) \/ ReadAnswer(w) \/ ReadEnd(w)
  \/ \E good \in BOOLEAN : Post(w, good)

Step(w) ==
  \/ ClientStep(w) \/ Stray(w) \/ Die(w)
  \/ \E good \in BOOLEAN : Answer(w, good)

Next ==
  \/ \E w \in Callers :
       \/ Step(w) \/ Close(w) \/ CannotOpen(w)
       \/ \E t \in Transports, a \in Asked : Open(w, t, a)
  \/ \E ws \in SUBSET Callers : Halt(ws)

Spec == Init /\ [][Next]_session

-----------------------------------------------------------------------------
TypeOK == session \in [Callers -> Sessions]

\* A result is the answer to the request of this session, unless the server
\* has put a frame of its own before it; an answer a timed out call has left
\* behind never reaches a later call (mcp_stdio.go:284, ids are not compared).
AnswersPaired ==
  \A w \in Callers : session[w].phase = "ok" =>
    session[w].answer = session[w].what \/ session[w].strays > 0
=============================================================================
