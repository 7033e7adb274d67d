------------------------------ MODULE Gateway ------------------------------
(***************************************************************************)
(* internal/gateway: inbound updates of the messaging platforms.  A        *)
(* platform delivers an update in an HTTP request and delivers it again    *)
(* until a request of it is answered with success; each request is one     *)
(* handler goroutine.  Handlers deduplicate through                        *)
(* processed_gateway_updates, route the text to a chat turn (or a plan)    *)
(* and send the reply.  The process may crash; SQLite keeps its rows.      *)
(*                                                                         *)
(* Platforms: "telegram" and "slack" (events), which mark an update before *)
(* they route it; "weixin", which routes first; "command" (Slack slash     *)
(* commands) and "webhook", which do not deduplicate and are not retried.  *)
(* Requests a handler refuses (signature, method, decoding) leave no trace *)
(* and are not delivered here.                                             *)
(***************************************************************************)
EXTENDS Naturals, FiniteSets

CONSTANTS
  Updates,        \* messages users send
  Platform,       \* the platform of each
  Unnumbered,     \* updates without an id of their own (weixin, slack)
  Textless,       \* updates that carry no text for the agent
  MaxRequests,    \* bound: deliveries
  MaxCrashes      \* bound: crashes of hermesd

ASSUME GatewayAssumption ==
  /\ Platform \in [Updates -> {"telegram", "slack", "weixin", "command", "webhook"}]
  /\ Unnumbered \subseteq {u \in Updates : Platform[u] \in {"weixin", "slack"}}
  /\ Textless \subseteq {u \in Updates : Platform[u] \in {"telegram", "slack", "weixin"}}
  /\ MaxRequests \in Nat /\ MaxCrashes \in Nat

Requests == 1..MaxRequests

VARIABLES
  pc, upd, gone,   \* per request: its step, its update, the client has left
  sends,           \* per request: attempts to send the reply
  processed,       \* rows of processed_gateway_updates
  turns,           \* per update: sessions its text has produced
  replies,         \* per update: replies its chat has received
  acked,           \* updates the platform knows to be delivered
  crashes

vars == <<pc, upd, gone, sends, processed, turns, replies, acked, crashes>>

Init ==
  /\ pc = [r \in Requests |-> "unused"]
  /\ upd = [r \in Requests |-> "none"]
  /\ gone = [r \in Requests |-> FALSE]
  /\ sends = [r \in Requests |-> 0]
  /\ processed = {} /\ acked = {} /\ crashes = 0
  /\ turns = [u \in Updates |-> 0] /\ replies = [u \in Updates |-> 0]

From(r) == Platform[upd[r]]

MarksFirst   == {"telegram", "slack"}
Deduplicates == MarksFirst \union {"weixin"}
RepliesInBand == {"weixin", "command", "webhook"}   \* in the HTTP response
RoutesDetached == {"telegram", "webhook"}           \* context.Background()

-----------------------------------------------------------------------------
(* The platform and the client side of a request (external).               *)

Live(r) == pc[r] \notin {"unused", "ended"}

\* A delivery, or a redelivery after a failure or a time-out.
Deliver(u) ==
  \E r \in Requests :
    /\ pc[r] = "unused" /\ \A q \in Requests : q < r => pc[q] # "unused"
    /\ u \notin acked
    /\ \A q \in Requests : pc[q] # "unused" /\ upd[q] = u =>
         /\ Platform[u] \in Deduplicates
         /\ Live(q) => gone[q]
    /\ upd' = [upd EXCEPT ![r] = u]
    /\ pc' = [pc EXCEPT ![r] = "received"]
    /\ UNCHANGED <<gone, sends, processed, turns, replies, acked, crashes>>

\* The client gives up waiting: r.Context() is cancelled.
GiveUp(r) ==
  /\ Live(r) /\ ~gone[r]
  /\ gone' = [gone EXCEPT ![r] = TRUE]
  /\ UNCHANGED <<pc, upd, sends, processed, turns, replies, acked, crashes>>

Crash ==
  /\ crashes < MaxCrashes
  /\ crashes' = crashes + 1
  /\ pc' = [r \in Requests |-> IF Live(r) THEN "ended" ELSE pc[r]]
  /\ UNCHANGED <<upd, gone, sends, processed, turns, replies, acked>>

-----------------------------------------------------------------------------
(* The handlers.                                                           *)

Step(r, from, to) ==
  /\ pc[r] = from
  /\ pc' = [pc EXCEPT ![r] = to]
  /\ UNCHANGED <<upd, gone, crashes>>

\* The HTTP answer: the platform learns of a success unless it has left.
Answer(r, from, ok) ==
  /\ Step(r, from, "ended")
  /\ acked' = IF ok /\ ~gone[r] THEN acked \union {upd[r]} ELSE acked

\* Only slack looks at the text after it has marked the update.
Receive(r) ==
  LET u == upd[r] IN
  /\ IF u \in Textless /\ From(r) # "slack"
       THEN Answer(r, "received", TRUE)                         \* ignored
       ELSE /\ Step(r, "received", IF From(r) \in MarksFirst
                                     /\ ~(From(r) = "slack" /\ u \in Unnumbered)
                                   THEN "mark" ELSE "route")
            /\ UNCHANGED acked
  /\ UNCHANGED <<sends, processed, turns, replies>>

\* A weixin message without an id is marked under a fresh one.
IsNew(u) == u \in Unnumbered \/ u \notin processed

\* Variant, not the code: a new update is not recorded.
MarksNothing(r) ==
  /\ \/ /\ IsNew(upd[r]) /\ ~gone[r]
        /\ Step(r, "mark", IF From(r) = "weixin" THEN "reply" ELSE "route")
        /\ UNCHANGED acked
     \/ ~IsNew(upd[r]) /\ ~gone[r] /\ Answer(r, "mark", TRUE)
     \/ Answer(r, "mark", FALSE)
  /\ UNCHANGED <<sends, processed, turns, replies>>

\* MarkGatewayUpdateProcessed, one INSERT OR IGNORE: a new update goes on, a
\* duplicate is answered with success, and an error with 500.
Mark(r) ==
  /\ \/ /\ IsNew(upd[r]) /\ ~gone[r]
        /\ processed' = processed \union {upd[r]}
        /\ Step(r, "mark", IF From(r) = "weixin" THEN "reply" ELSE "route")
        /\ UNCHANGED acked
     \/ ~IsNew(upd[r]) /\ ~gone[r] /\ Answer(r, "mark", TRUE) /\ UNCHANGED processed
     \/ Answer(r, "mark", FALSE) /\ UNCHANGED processed
  /\ UNCHANGED <<sends, turns, replies>>

\* routeMessage: the turn is recorded and returned, or an error is answered
\* with 502, before or after the session row was written.
RouteOk(r) ==
  /\ upd[r] \notin Textless
  /\ gone[r] => From(r) \in RoutesDetached
  /\ turns' = [turns EXCEPT ![upd[r]] = @ + 1]
  /\ Step(r, "route", CASE From(r) = "weixin"    -> "mark"
                        [] From(r) \in MarksFirst -> "send"
                        [] OTHER                 -> "reply")
  /\ UNCHANGED <<sends, processed, replies, acked>>

\* Variant, not the code: a routing error is answered with success.
RouteErrorsAcknowledged(r) ==
  /\ upd[r] \notin Textless
  /\ Answer(r, "route", TRUE)
  /\ UNCHANGED <<sends, processed, turns, replies>>

RouteFails(r) ==
  /\ upd[r] \notin Textless
  /\ Answer(r, "route", FALSE)
  /\ \/ UNCHANGED turns
     \/ /\ gone[r] => From(r) \in RoutesDetached
        /\ turns' = [turns EXCEPT ![upd[r]] = @ + 1]
  /\ UNCHANGED <<sends, processed, replies>>

\* A slack event that turns out to have no text.
Ignore(r) ==
  /\ upd[r] \in Textless
  /\ Answer(r, "route", TRUE)
  /\ UNCHANGED <<sends, processed, turns, replies>>

SendAttempts(p) == IF p = "telegram" THEN 3 ELSE 1

\* One POST of the reply fails, although the message may have arrived (its
\* answer was lost); the last failure is answered with 502.
SendFails(r) ==
  /\ \/ ~gone[r] /\ replies' = [replies EXCEPT ![upd[r]] = @ + 1]
     \/ UNCHANGED replies
  /\ sends' = [sends EXCEPT ![r] = @ + 1]
  /\ IF sends[r] + 1 = SendAttempts(From(r))
       THEN Answer(r, "send", FALSE)
       ELSE Step(r, "send", "send") /\ UNCHANGED acked
  /\ UNCHANGED <<processed, turns>>

\* No bot token in the environment: nothing is posted.
SendRefused(r) ==
  /\ sends[r] = 0
  /\ Answer(r, "send", FALSE)
  /\ UNCHANGED <<sends, processed, turns, replies>>

SendOk(r) ==
  /\ ~gone[r]
  /\ replies' = [replies EXCEPT ![upd[r]] = @ + 1]
  /\ Answer(r, "send", TRUE)
  /\ UNCHANGED <<sends, processed, turns>>

\* The reply is the body of the HTTP response.
Reply(r) ==
  /\ Answer(r, "reply", TRUE)
  /\ replies' = IF gone[r] THEN replies ELSE [replies EXCEPT ![upd[r]] = @ + 1]
  /\ UNCHANGED <<sends, processed, turns>>

Handle(r) ==
  /\ Live(r)
  /\ \/ Receive(r) \/ Mark(r) \/ RouteOk(r) \/ RouteFails(r) \/ Ignore(r)
     \/ SendFails(r) \/ SendRefused(r) \/ SendOk(r) \/ Reply(r)

Next ==
  \/ \E u \in Updates : Deliver(u)
  \/ \E r \in Requests : GiveUp(r) \/ Handle(r)
  \/ Crash

Spec == Init /\ [][Next]_vars

-----------------------------------------------------------------------------
(* Properties.                                                             *)

\* Types of the variables.
TypeOK ==
  /\ pc \in [Requests -> {"unused", "received", "mark", "route", "send", "reply", "ended"}]
  /\ upd \in [Requests -> Updates \union {"none"}]
  /\ gone \in [Requests -> BOOLEAN]
  /\ sends \in [Requests -> 0..3]
  /\ processed \subseteq Updates /\ acked \subseteq Updates
  /\ turns \in [Updates -> Nat] /\ replies \in [Updates -> Nat]
  /\ crashes \in 0..MaxCrashes

\* Redelivered, delivered concurrently or delivered again after a crash, an
\* update of a platform that marks first enters the agent at most once, and the
\* user sees as many replies as one turn can produce: the attempts of the one
\* sendMessage, or the one HTTP response that was not a duplicate's
\* (telegram.go:93, telegram.go:135, slack.go:167).
RoutedAtMostOnce ==
  \A u \in Updates \ Unnumbered :
    /\ Platform[u] \in MarksFirst => turns[u] <= 1
    /\ replies[u] <= IF Platform[u] = "telegram" THEN 3 ELSE 1
    /\ replies[u] > 0 => turns[u] > 0

\* A platform that is told to stop delivering an update can rely on it having
\* been routed: what it forgets, the agent has ("routes the message into chat
\* or multi-agent execution, and sends the reply", telegram.go:63).
AcknowledgedIsRouted ==
  \A u \in acked \ Textless : turns[u] > 0

\* The same for the platforms that are not marked before they are routed: the
\* order of the Weixin handler pays for its duplicates with this.
RoutedBeforeAcknowledged ==
  \A u \in acked \ Textless : Platform[u] \notin MarksFirst => turns[u] > 0
=============================================================================
