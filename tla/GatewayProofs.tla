--------------------------- MODULE GatewayProofs ---------------------------
(***************************************************************************)
(* Deduplication and acknowledgement of the gateway for any number of      *)
(* updates, deliveries and crashes.  At most one request of an update gets *)
(* past the point where the update is told from its duplicates; what it    *)
(* does from there on bounds turns and replies.                            *)
(***************************************************************************)
EXTENDS Gateway, TLAPS

\* The steps of a handler after the point that only one request of an update
\* passes: marking, or for what is not deduplicated the delivery.
Beyond(platform) ==
  IF platform \in MarksFirst THEN {"route", "send"}
  ELSE IF platform = "weixin" THEN {"reply"} ELSE {"received", "route", "reply"}

\* A request of an update with an id of its own has passed it.
Past(r) == pc[r] # "unused" /\ pc[r] \in Beyond(From(r)) /\ upd[r] \notin Unnumbered

\* A request of the update has passed it.
Chosen(u) ==
  IF Platform[u] \in Deduplicates THEN u \in processed
  ELSE \E r \in Requests : pc[r] # "unused" /\ upd[r] = u

\* Only one request of an update with an id has passed it, and an update that is
\* not deduplicated has one request altogether.
PassInv ==
  /\ \A r \in Requests : Past(r) => Chosen(upd[r])
  /\ \A r, q \in Requests : Past(r) /\ Past(q) /\ upd[q] = upd[r] => r = q
  /\ \A r, q \in Requests :
       pc[r] # "unused" /\ pc[q] # "unused" /\ upd[r] = upd[q] /\ From(r) \notin Deduplicates => r = q

\* Before it nothing has been replied, and where the update is marked first
\* nothing has been routed.
FreshInv ==
  /\ \A u \in Updates \ Unnumbered : ~Chosen(u) =>
       replies[u] = 0 /\ (Platform[u] \in MarksFirst => turns[u] = 0)
  /\ \A r \in Requests : Past(r) /\ pc[r] # "send" =>
       replies[upd[r]] = 0 /\ (From(r) \in MarksFirst => turns[upd[r]] = 0)

\* The reply is sent after the turn, as often as sends counts.
SendInv ==
  \A r \in Requests :
    /\ Past(r) /\ pc[r] = "send" =>
         /\ replies[upd[r]] <= sends[r] /\ sends[r] < SendAttempts(From(r))
    /\ pc[r] \in {"send", "reply"} \/ (pc[r] = "mark" /\ From(r) = "weixin") => turns[upd[r]] > 0
    /\ pc[r] \in {"unused", "received", "mark", "route"} => sends[r] = 0

\* Steps only some platforms take, and updates of the requests.
ShapeInv ==
  \A r \in Requests :
    /\ pc[r] # "unused" => upd[r] \in Updates
    /\ pc[r] = "mark" => From(r) \in Deduplicates
    /\ pc[r] = "send" => From(r) \in MarksFirst
    /\ pc[r] = "reply" => From(r) \notin MarksFirst
    /\ pc[r] \in {"mark", "route"} /\ From(r) # "slack" => upd[r] \notin Textless
    /\ pc[r] \in {"send", "reply"} => upd[r] \notin Textless

\* Types of the variables the argument uses; sends has no bound here.
Types ==
  /\ pc \in [Requests -> {"unused", "received", "mark", "route", "send", "reply", "ended"}]
  /\ upd \in [Requests -> Updates \union {"none"}]
  /\ sends \in [Requests -> Nat]
  /\ turns \in [Updates -> Nat] /\ replies \in [Updates -> Nat]
  /\ acked \subseteq Updates

\* The inductive invariant.
IInv == Types /\ ShapeInv /\ PassInv /\ FreshInv /\ SendInv
        /\ RoutedAtMostOnce /\ RoutedBeforeAcknowledged

-----------------------------------------------------------------------------

USE GatewayAssumption

\* The invariant holds initially: no request is used and no update marked.
LEMMA InitIInv == Init => IInv
BY DEF Init, IInv, Types, ShapeInv, PassInv, FreshInv, SendInv, RoutedAtMostOnce,
     RoutedBeforeAcknowledged, Past

\* A delivery takes an unused request: the only one of an update that is not
\* deduplicated, and otherwise one that has not passed.
LEMMA DeliverIInv == ASSUME NEW u \in Updates, IInv, Deliver(u) PROVE IInv'
<1>1. Types'
  BY DEF IInv, Types, Deliver
<1>2. ShapeInv'
  BY DEF IInv, Types, ShapeInv, From, Deliver
<1>3. PassInv'
  BY DEF IInv, Types, PassInv, Past, Chosen, Beyond, From, Deduplicates, Deliver
<1>4. FreshInv'
  BY DEF IInv, Types, FreshInv, Past, Chosen, Beyond, From, Deduplicates, Deliver
<1>5. SendInv'
  BY DEF IInv, SendInv, Past, From, Deliver
<1>6. RoutedAtMostOnce'
  BY DEF IInv, RoutedAtMostOnce, Deliver
<1>7. RoutedBeforeAcknowledged'
  BY DEF IInv, RoutedBeforeAcknowledged, Deliver
<1> QED BY <1>1, <1>2, <1>3, <1>4, <1>5, <1>6, <1>7 DEF IInv

\* The client leaves; nothing else changes.
LEMMA GiveUpIInv == ASSUME NEW r \in Requests, IInv, GiveUp(r) PROVE IInv'
<1>1. Types'
  BY DEF IInv, Types, GiveUp
<1>2. ShapeInv'
  BY DEF IInv, ShapeInv, From, GiveUp
<1>3. PassInv'
  BY DEF IInv, PassInv, Past, Chosen, From, GiveUp
<1>4. FreshInv'
  BY DEF IInv, FreshInv, Past, Chosen, From, GiveUp
<1>5. SendInv'
  BY DEF IInv, SendInv, Past, From, GiveUp
<1>6. RoutedAtMostOnce'
  BY DEF IInv, RoutedAtMostOnce, GiveUp
<1>7. RoutedBeforeAcknowledged'
  BY DEF IInv, RoutedBeforeAcknowledged, GiveUp
<1> QED BY <1>1, <1>2, <1>3, <1>4, <1>5, <1>6, <1>7 DEF IInv

\* A crash ends requests, and an ended request has passed nothing.
LEMMA CrashIInv == ASSUME IInv, Crash PROVE IInv'
<1>1. Types'
  BY DEF IInv, Types, Crash
<1>2. ShapeInv'
  BY DEF IInv, ShapeInv, Live, Crash
<1>3. PassInv'
  BY DEF IInv, PassInv, Past, Beyond, From, Live, Crash
<1>4. FreshInv'
  BY DEF IInv, FreshInv, Past, Chosen, Beyond, Live, Crash
<1>5. SendInv'
  BY DEF IInv, SendInv, Live, Crash
<1>6. RoutedAtMostOnce'
  BY DEF IInv, RoutedAtMostOnce, Crash
<1>7. RoutedBeforeAcknowledged'
  BY DEF IInv, RoutedBeforeAcknowledged, Crash
<1> QED BY <1>1, <1>2, <1>3, <1>4, <1>5, <1>6, <1>7 DEF IInv

\* A request is ignored or goes on to its first step.
LEMMA ReceiveIInv == ASSUME NEW r \in Requests, IInv, Live(r), Receive(r) PROVE IInv'
<1>1. Types'
  BY DEF IInv, Types, Step, Answer, Receive
<1>2. ShapeInv'
  BY DEF IInv, Types, ShapeInv, From, Deduplicates, Step, Answer, Receive
<1>3. PassInv'
  BY DEF IInv, Types, PassInv, Past, Chosen, Beyond, From, Step, Answer, Receive
<1>4. FreshInv'
  BY DEF IInv, Types, FreshInv, Past, Chosen, Beyond, From, Step, Answer, Receive
<1>5. SendInv'
  BY DEF IInv, Types, SendInv, Past, From, MarksFirst, Step, Answer, Receive
<1>6. RoutedAtMostOnce'
  BY DEF IInv, RoutedAtMostOnce, Receive
<1>7. RoutedBeforeAcknowledged'
  BY DEF IInv, RoutedBeforeAcknowledged, Answer, Receive
<1> QED BY <1>1, <1>2, <1>3, <1>4, <1>5, <1>6, <1>7 DEF IInv

\* The mark lets one request of an update past, the one that finds no row.
LEMMA MarkIInv == ASSUME NEW r \in Requests, IInv, Live(r), Mark(r) PROVE IInv'
<1>1. Types'
  BY DEF IInv, Types, ShapeInv, Step, Answer, Mark
<1>2. ShapeInv'
  BY DEF IInv, Types, ShapeInv, From, MarksFirst, Step, Answer, Mark
<1>3. PassInv'
  BY DEF IInv, Types, PassInv, Past, Chosen, Beyond, From, Step, Answer, IsNew, Mark
<1>4. FreshInv'
  BY DEF IInv, Types, ShapeInv, FreshInv, Past, Chosen, Beyond, From, Step, Answer, IsNew,
       Mark
<1>5. SendInv'
  BY DEF IInv, Types, SendInv, Past, From, Step, Answer, Mark
<1>6. RoutedAtMostOnce'
  BY DEF IInv, RoutedAtMostOnce, Mark
<1>7. RoutedBeforeAcknowledged'
  BY DEF IInv, ShapeInv, SendInv, RoutedBeforeAcknowledged, From, Deduplicates, Step,
       Answer, Mark
<1> QED BY <1>1, <1>2, <1>3, <1>4, <1>5, <1>6, <1>7 DEF IInv

\* The turn of a request that has passed is the first of its update.
LEMMA RouteOkIInv == ASSUME NEW r \in Requests, IInv, Live(r), RouteOk(r) PROVE IInv'
<1>1. Types'
  BY DEF IInv, Types, ShapeInv, Step, RouteOk
<1>2. ShapeInv'
  BY DEF IInv, ShapeInv, From, Deduplicates, Step, RouteOk
<1>3. PassInv'
  BY DEF IInv, PassInv, Past, Chosen, Beyond, From, Step, RouteOk
<1>4. FreshInv'
  BY DEF IInv, Types, PassInv, FreshInv, Past, Chosen, Beyond, From, Step, RouteOk
<1>5. SendInv'
  BY DEF IInv, Types, ShapeInv, FreshInv, SendInv, Past, Beyond, From, Step, SendAttempts,
       RouteOk
<1>6. RoutedAtMostOnce'
  BY DEF IInv, Types, FreshInv, RoutedAtMostOnce, Past, Beyond, From, Step, RouteOk
<1>7. RoutedBeforeAcknowledged'
  BY DEF IInv, Types, RoutedBeforeAcknowledged, RouteOk
<1> QED BY <1>1, <1>2, <1>3, <1>4, <1>5, <1>6, <1>7 DEF IInv

\* A failed turn ends the request; its session may have been written.
LEMMA RouteFailsIInv == ASSUME NEW r \in Requests, IInv, Live(r), RouteFails(r) PROVE IInv'
<1>1. Types'
  BY DEF IInv, Types, Step, Answer, RouteFails
<1>2. ShapeInv'
  BY DEF IInv, ShapeInv, From, Step, Answer, RouteFails
<1>3. PassInv'
  BY DEF IInv, PassInv, Past, Chosen, Beyond, From, Step, Answer, RouteFails
<1>4. FreshInv'
  BY DEF IInv, Types, ShapeInv, PassInv, FreshInv, Past, Chosen, Beyond, From, Step,
       Answer, RouteFails
<1>5. SendInv'
  BY DEF IInv, Types, ShapeInv, SendInv, Past, From, Step, Answer, RouteFails
<1>6. RoutedAtMostOnce'
  BY DEF IInv, Types, FreshInv, RoutedAtMostOnce, Past, Beyond, From, Step, Answer,
       RouteFails
<1>7. RoutedBeforeAcknowledged'
  <2>1. acked' = acked
    BY DEF RouteFails, Answer
  <2>2. \A u \in Updates : turns'[u] >= turns[u]
    BY DEF RouteFails, Answer, IInv, Types
  <2>3. acked \subseteq Updates
    BY DEF IInv, Types
  <2> QED BY <2>1, <2>2, <2>3 DEF IInv, Types, RoutedBeforeAcknowledged, RouteFails
<1> QED BY <1>1, <1>2, <1>3, <1>4, <1>5, <1>6, <1>7 DEF IInv

\* An update without text is answered and forgotten.
LEMMA IgnoreIInv == ASSUME NEW r \in Requests, IInv, Live(r), Ignore(r) PROVE IInv'
<1>1. Types'
  BY DEF IInv, Types, Step, Answer, Ignore
<1>2. ShapeInv'
  BY DEF IInv, ShapeInv, From, Step, Answer, Ignore
<1>3. PassInv'
  BY DEF IInv, PassInv, Past, Chosen, Beyond, From, Step, Answer, Ignore
<1>4. FreshInv'
  BY DEF IInv, FreshInv, Past, Chosen, Beyond, From, Step, Answer, Ignore
<1>5. SendInv'
  BY DEF IInv, SendInv, Past, From, Step, Answer, Ignore
<1>6. RoutedAtMostOnce'
  BY DEF IInv, RoutedAtMostOnce, Ignore
<1>7. RoutedBeforeAcknowledged'
  BY DEF IInv, RoutedBeforeAcknowledged, Answer, Ignore
<1> QED BY <1>1, <1>2, <1>3, <1>4, <1>5, <1>6, <1>7 DEF IInv

\* A failed attempt counts, whether or not the reply arrived.
LEMMA SendFailsIInv == ASSUME NEW r \in Requests, IInv, Live(r), SendFails(r) PROVE IInv'
<1>1. Types'
  BY DEF IInv, Types, Step, Answer, SendFails
<1>2. ShapeInv'
  BY DEF IInv, Types, ShapeInv, From, Step, Answer, SendFails
<1>3. PassInv'
  BY DEF IInv, Types, PassInv, Past, Chosen, Beyond, From, Step, Answer, SendFails
<1>4. FreshInv'
  BY DEF IInv, Types, ShapeInv, FreshInv, SendInv, Past, Chosen, Beyond, From, Step,
       Answer, SendFails
<1>5. SendInv'
  BY DEF IInv, Types, ShapeInv, PassInv, SendInv, Past, From, Step, Answer, SendAttempts,
       SendFails
<1>6. RoutedAtMostOnce'
  BY DEF IInv, Types, ShapeInv, SendInv, RoutedAtMostOnce, Past, Beyond, From, Step,
       Answer, SendAttempts, SendFails
<1>7. RoutedBeforeAcknowledged'
  BY DEF IInv, RoutedBeforeAcknowledged, Answer, SendFails
<1> QED BY <1>1, <1>2, <1>3, <1>4, <1>5, <1>6, <1>7 DEF IInv

\* Without a token nothing is posted.
LEMMA SendRefusedIInv == ASSUME NEW r \in Requests, IInv, Live(r), SendRefused(r) PROVE IInv'
<1>1. Types'
  BY DEF IInv, Types, Step, Answer, SendRefused
<1>2. ShapeInv'
  BY DEF IInv, ShapeInv, From, Step, Answer, SendRefused
<1>3. PassInv'
  BY DEF IInv, PassInv, Past, Chosen, Beyond, From, Step, Answer, SendRefused
<1>4. FreshInv'
  BY DEF IInv, FreshInv, Past, Chosen, Beyond, From, Step, Answer, SendRefused
<1>5. SendInv'
  BY DEF IInv, SendInv, Past, From, Step, Answer, SendRefused
<1>6. RoutedAtMostOnce'
  BY DEF IInv, RoutedAtMostOnce, SendRefused
<1>7. RoutedBeforeAcknowledged'
  BY DEF IInv, RoutedBeforeAcknowledged, Answer, SendRefused
<1> QED BY <1>1, <1>2, <1>3, <1>4, <1>5, <1>6, <1>7 DEF IInv

\* The attempt that succeeds is the last.
LEMMA SendOkIInv == ASSUME NEW r \in Requests, IInv, Live(r), SendOk(r) PROVE IInv'
<1>1. Types'
  BY DEF IInv, Types, ShapeInv, Step, Answer, SendOk
<1>2. ShapeInv'
  BY DEF IInv, ShapeInv, From, Step, Answer, SendOk
<1>3. PassInv'
  BY DEF IInv, PassInv, Past, Chosen, Beyond, From, Step, Answer, SendOk
<1>4. FreshInv'
  BY DEF IInv, ShapeInv, FreshInv, SendInv, Past, Chosen, Beyond, From, Step, Answer,
       SendOk
<1>5. SendInv'
  BY DEF IInv, Types, PassInv, SendInv, Past, From, Step, Answer, SendOk
<1>6. RoutedAtMostOnce'
  BY DEF IInv, Types, ShapeInv, SendInv, RoutedAtMostOnce, Past, Beyond, From, Step,
       Answer, SendAttempts, SendOk
<1>7. RoutedBeforeAcknowledged'
  BY DEF IInv, SendInv, RoutedBeforeAcknowledged, Step, Answer, SendOk
<1> QED BY <1>1, <1>2, <1>3, <1>4, <1>5, <1>6, <1>7 DEF IInv

\* The response of a request that has passed is the only reply.
LEMMA ReplyIInv == ASSUME NEW r \in Requests, IInv, Live(r), Reply(r) PROVE IInv'
<1>1. Types'
  BY DEF IInv, Types, ShapeInv, Step, Answer, Reply
<1>2. ShapeInv'
  BY DEF IInv, ShapeInv, From, Step, Answer, Reply
<1>3. PassInv'
  BY DEF IInv, PassInv, Past, Chosen, Beyond, From, Step, Answer, Reply
<1>4. FreshInv'
  BY DEF IInv, Types, PassInv, FreshInv, SendInv, Past, Chosen, Beyond, From, Step,
       Answer, Reply
<1>5. SendInv'
  BY DEF IInv, ShapeInv, SendInv, Past, From, Step, Answer, Reply
<1>6. RoutedAtMostOnce'
  BY DEF IInv, ShapeInv, FreshInv, SendInv, RoutedAtMostOnce, Past, Beyond, Step, Answer,
       Reply
<1>7. RoutedBeforeAcknowledged'
  BY DEF IInv, SendInv, RoutedBeforeAcknowledged, Step, Answer, Reply
<1> QED BY <1>1, <1>2, <1>3, <1>4, <1>5, <1>6, <1>7 DEF IInv

\* Every step preserves the invariant.
LEMMA NextIInv == IInv /\ [Next]_vars => IInv'
<1> SUFFICES ASSUME IInv, [Next]_vars PROVE IInv'
  OBVIOUS
<1>1. ASSUME NEW u \in Updates, Deliver(u) PROVE IInv'
  BY <1>1, DeliverIInv
<1>2. ASSUME NEW r \in Requests, GiveUp(r) PROVE IInv'
  BY <1>2, GiveUpIInv
<1>3. ASSUME NEW r \in Requests, Handle(r) PROVE IInv'
  BY <1>3, ReceiveIInv, MarkIInv, RouteOkIInv, RouteFailsIInv, IgnoreIInv, SendFailsIInv,
     SendRefusedIInv, SendOkIInv, ReplyIInv DEF Handle
<1>4. CASE Crash
  BY <1>4, CrashIInv
<1>5. CASE UNCHANGED vars
  BY <1>5 DEF vars, IInv, Types, ShapeInv, PassInv, FreshInv, SendInv, RoutedAtMostOnce,
     RoutedBeforeAcknowledged, Past, Chosen, Beyond, From
<1> QED BY <1>1, <1>2, <1>3, <1>4, <1>5 DEF Next

\* The inductive invariant holds in every state.
LEMMA AlwaysIInv == Spec => []IInv
BY InitIInv, NextIInv, PTL DEF Spec

\* However an update is redelivered, in parallel or after a crash, the agent
\* gets it once where it is marked first, and the user's replies are those of
\* one turn: MarkGatewayUpdateProcessed lets one request past (telegram.go:93,
\* slack.go:167), and weixin answers the duplicates it has routed without a
\* reply (weixin.go:103).
THEOREM AlwaysRoutedAtMostOnce == Spec => []RoutedAtMostOnce
<1>1. IInv => RoutedAtMostOnce
  BY DEF IInv
<1> QED BY <1>1, AlwaysIInv, PTL

\* What a platform that is routed before it is marked stops delivering has
\* produced a turn: weixin.go:98 routes before it marks, and an error of either
\* is not answered with success.
THEOREM AlwaysRoutedBeforeAcknowledged == Spec => []RoutedBeforeAcknowledged
<1>1. IInv => RoutedBeforeAcknowledged
  BY DEF IInv
<1> QED BY <1>1, AlwaysIInv, PTL
=============================================================================
