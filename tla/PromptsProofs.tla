---------------------------- MODULE PromptsProofs ----------------------------
(***************************************************************************)
(* The notes for any number of writers, texts and requests: writers that   *)
(* overlap, writes that fail half way and processes that end are included. *)
(* Prompt plans for any number of turns, processes and models: the notes   *)
(* beneath them behave as Memory says, a plan is made of what its build    *)
(* has read, and while requests do not overlap the summary only grows and  *)
(* every message is in a session's window or in its summary.               *)
(***************************************************************************)
EXTENDS Prompts, SequenceTheorems, FiniteSetTheorems, WellFoundedInduction, TLAPS

-----------------------------------------------------------------------------
(* The notes, for any number of writers.                                   *)

Actions  == {"add", "replace", "remove"}
Requests == [step : {"idle", "read", "open", "fill"}, action : Actions,
             content : Texts \union {0}, match : Texts \union {0},
             next : Seq(Texts), alone : BOOLEAN]

RequestInv(r) ==
  /\ r.step # "idle" => r.content \in Texts /\ r.match \in Texts
  /\ r.step \in {"open", "fill"} => Len(r.next) <= Limit

\* What a request reads and what it will write respect the limit.
SizeInv ==
  /\ Mem!MemoryAssumption
  /\ file \in Seq(Texts) /\ Len(file) <= Limit
  /\ kept \subseteq Texts
  /\ write \in [Writers -> Requests]
  /\ \A w \in Writers : RequestInv(write[w])

\* A writer that has been alone so far.
Alone(w) == Mem!Writing(w) /\ write[w].alone

\* Where the acknowledged notes are while a lone writer is at work; nothing
\* counts as acknowledged while two are.
KeptInv ==
  /\ \A v, w \in Writers : Alone(v) /\ Mem!Writing(w) => v = w
  /\ (\E w \in Writers : Mem!Writing(w) /\ ~Alone(w)) => kept = {}
  /\ (\A w \in Writers : ~Mem!Writing(w)) => kept \subseteq Mem!Range(file)
  /\ \A w \in Writers : Alone(w) =>
       /\ write[w].step \in {"read", "open"} => kept \subseteq Mem!Range(file)
       /\ write[w].step \in {"open", "fill"} => Mem!Acknowledge(write[w]) \subseteq Mem!Range(write[w].next)
       /\ write[w].step = "fill" => file = <<>>

-----------------------------------------------------------------------------
(* Lists.                                                                  *)

LEMMA RangeFacts ==
  ASSUME NEW S, NEW s \in Seq(S)
  PROVE  /\ Mem!Range(s) = {s[i] : i \in 1..Len(s)}
         /\ Mem!Range(s) \subseteq S
         /\ Len(s) \in Nat
BY DEF Mem!Range

LEMMA FirstMatchFound ==
  ASSUME NEW S, NEW s \in Seq(S), NEW m \in Mem!Range(s)
  PROVE  Mem!FirstMatch(s, m) \in 1..Len(s) /\ s[Mem!FirstMatch(s, m)] = m
<1> DEFINE R == {ss \in Nat \X Nat : ss[1] < ss[2]}
           T == {i \in 1..Len(s) : s[i] = m}
           First(i) == s[i] = m /\ \A j \in 1..(i - 1) : s[j] # m
<1>1. IsWellFoundedOn(R, Nat)
  BY NatLessThanWellFounded DEF OpToRel
<1>2. T \subseteq Nat /\ T # {}
  BY RangeFacts
<1>3. PICK i \in T : \A j \in T : <<j, i>> \notin R
  <2> HIDE DEF R, T
  <2>. QED  BY <1>1, <1>2, WFMin
<1>4. i \in DOMAIN s /\ First(i)
  <2>1. ASSUME NEW j \in 1..(i - 1), s[j] = m PROVE FALSE
    <3>1. j \in T /\ j < i /\ j \in Nat /\ i \in Nat
      BY <2>1, <1>3, RangeFacts
    <3>. QED  BY <3>1, <1>3
  <2>. QED  BY <2>1, <1>3
<1>5. Mem!FirstMatch(s, m) = CHOOSE k \in DOMAIN s : First(k)
  BY DEF Mem!FirstMatch
<1>6. Mem!FirstMatch(s, m) \in DOMAIN s /\ First(Mem!FirstMatch(s, m))
  BY <1>4, <1>5
<1>. QED  BY <1>6

LEMMA RemovedFacts ==
  ASSUME NEW S, NEW s \in Seq(S), NEW i \in 1..Len(s)
  PROVE  /\ Mem!RemoveAt(s, i) \in Seq(S) /\ Len(Mem!RemoveAt(s, i)) = Len(s) - 1
         /\ \A x \in Mem!Range(s) : x # s[i] => x \in Mem!Range(Mem!RemoveAt(s, i))
<1> DEFINE a == SubSeq(s, 1, i - 1)
           b == SubSeq(s, i + 1, Len(s))
<1>1. /\ a \in Seq(S) /\ Len(a) = i - 1 /\ \A k \in 1..(i - 1) : a[k] = s[k]
      /\ b \in Seq(S) /\ Len(b) = Len(s) - i /\ \A k \in 1..(Len(s) - i) : b[k] = s[i + k]
  OBVIOUS
<1>2. i \in Nat /\ i >= 1 /\ i <= Len(s) /\ Len(s) \in Nat
  OBVIOUS
<1> DEFINE c == a \o b
<1>3. c = Mem!RemoveAt(s, i)
  BY DEF Mem!RemoveAt
<1> HIDE DEF a, b
<1>4. /\ c \in Seq(S) /\ Len(c) = Len(a) + Len(b)
      /\ \A k \in 1..(Len(a) + Len(b)) : c[k] = IF k <= Len(a) THEN a[k] ELSE b[k - Len(a)]
  BY <1>1, ConcatProperties
<1> HIDE DEF c
<1>5. Len(c) = Len(s) - 1
  BY <1>1, <1>2, <1>4
<1>7. /\ Mem!Range(c) = {c[j] : j \in 1..Len(c)}
      /\ Mem!Range(s) = {s[j] : j \in 1..Len(s)}
  BY <1>4, RangeFacts
<1>6. ASSUME NEW k \in 1..Len(s), k # i
      PROVE  \E j \in 1..Len(c) : c[j] = s[k]
  <2>1. CASE k < i
    <3>1. k \in 1..(i - 1) /\ k \in 1..Len(c) /\ k <= Len(a)
      BY <2>1, <1>1, <1>2, <1>5
    <3>2. c[k] = s[k]
      BY <3>1, <1>1, <1>2, <1>4, <1>5
    <3>. QED  BY <3>1, <3>2
  <2>2. CASE k > i
    <3>1. /\ k - 1 \in 1..Len(c) /\ ~(k - 1 <= Len(a))
          /\ k - i \in 1..(Len(s) - i) /\ (k - 1) - Len(a) = k - i
      BY <2>2, <1>1, <1>2, <1>5
    <3>2. c[k - 1] = b[(k - 1) - Len(a)]
      BY <3>1, <1>1, <1>2, <1>4, <1>5
    <3>3. b[k - i] = s[i + (k - i)] /\ i + (k - i) = k
      BY <3>1, <1>1, <1>2
    <3>. QED  BY <3>1, <3>2, <3>3
  <2>. QED  BY <1>6, <2>1, <2>2
<1>8. ASSUME NEW x \in Mem!Range(s), x # s[i] PROVE x \in Mem!Range(c)
  <2>1. PICK k \in 1..Len(s) : x = s[k]
    BY <1>7
  <2>. QED  BY <2>1, <1>6, <1>7, <1>8
<1>. QED  BY <1>3, <1>4, <1>5, <1>8

\* The list a request that is not refused wants written.
LEMMA ChangedFacts ==
  ASSUME Mem!MemoryAssumption, NEW s \in Seq(Texts), Len(s) <= Limit,
         NEW r \in Requests, r.content \in Texts, r.match \in Texts, ~Mem!Refused(r, s)
  PROVE  /\ Mem!Changed(r, s) \in Seq(Texts) /\ Len(Mem!Changed(r, s)) <= Limit
         /\ \A x \in Mem!Range(s) : (r.action = "add" \/ x # r.match) => x \in Mem!Range(Mem!Changed(r, s))
         /\ r.action # "remove" => r.content \in Mem!Range(Mem!Changed(r, s))
<1>1. r.action \in Actions /\ Limit \in Nat /\ Len(s) \in Nat
  BY DEF Requests, Mem!MemoryAssumption
<1>2. CASE r.action = "add"
  <2> DEFINE t == Append(s, r.content)
  <2>1. Mem!Changed(r, s) = t /\ Len(s) + 1 <= Limit
    BY <1>1, <1>2 DEF Mem!Changed, Mem!Refused
  <2>2. /\ t \in Seq(Texts) /\ Len(t) = Len(s) + 1 /\ t[Len(s) + 1] = r.content
        /\ \A k \in 1..Len(s) : t[k] = s[k]
    OBVIOUS
  <2> HIDE DEF t
  <2>. QED  BY <1>1, <1>2, <2>1, <2>2, RangeFacts
<1>3. CASE r.action = "replace"
  <2> DEFINE i == Mem!FirstMatch(s, r.match)
             t == [s EXCEPT ![i] = r.content]
  <2>1. Mem!Changed(r, s) = t /\ r.match \in Mem!Range(s)
    BY <1>3 DEF Mem!Changed, Mem!Refused
  <2>2. i \in 1..Len(s) /\ s[i] = r.match
    BY <2>1, FirstMatchFound
  <2> HIDE DEF i
  <2>3. /\ t \in Seq(Texts) /\ Len(t) = Len(s) /\ t[i] = r.content
        /\ \A k \in 1..Len(s) : k # i => t[k] = s[k]
    BY <2>2
  <2> HIDE DEF t
  <2>. QED  BY <1>3, <2>1, <2>2, <2>3, RangeFacts
<1>4. CASE r.action = "remove"
  <2> DEFINE i == Mem!FirstMatch(s, r.match)
  <2>1. Mem!Changed(r, s) = Mem!RemoveAt(s, i) /\ r.match \in Mem!Range(s)
    BY <1>4 DEF Mem!Changed, Mem!Refused
  <2>2. i \in 1..Len(s) /\ s[i] = r.match
    BY <2>1, FirstMatchFound
  <2> HIDE DEF i
  <2>. QED  BY <1>1, <1>4, <2>1, <2>2, RemovedFacts
<1>. QED  BY <1>1, <1>2, <1>3, <1>4 DEF Actions

\* What a write leaves when another has filled the file in between.
LEMMA OverwrittenFacts ==
  ASSUME NEW S, NEW s \in Seq(S), NEW t \in Seq(S), NEW n \in Nat, Len(s) <= n, Len(t) <= n
  PROVE  LET f == t \o SubSeq(s, Len(t) + 1, Len(s)) IN f \in Seq(S) /\ Len(f) <= n
<1> DEFINE b == SubSeq(s, Len(t) + 1, Len(s))
<1>1. b \in Seq(S) /\ Len(b) = IF Len(t) + 1 <= Len(s) THEN Len(s) - Len(t) ELSE 0
  BY SubSeqProperties
<1> HIDE DEF b
<1>2. t \o b \in Seq(S) /\ Len(t \o b) = Len(t) + Len(b)
  BY <1>1, ConcatProperties
<1>. QED  BY <1>1, <1>2 DEF b

-----------------------------------------------------------------------------
(* The limit.                                                              *)

LEMMA IdleRequest == Mem!NotWriting \in Requests /\ RequestInv(Mem!NotWriting)
<1>1. <<>> \in Seq(Texts)
  OBVIOUS
<1>. QED  BY <1>1 DEF Mem!NotWriting, Requests, Actions, RequestInv

\* A step that gives one writer a good request keeps the others' as they are.
LEMMA OneWriter ==
  ASSUME SizeInv, NEW w \in Writers, NEW r \in Requests, RequestInv(r),
         write' = [write EXCEPT ![w] = r]
  PROVE  write' \in [Writers -> Requests] /\ \A v \in Writers : RequestInv(write'[v])
BY DEF SizeInv

LEMMA AcknowledgeType ==
  ASSUME kept \subseteq Texts, NEW r \in Requests, r.content \in Texts
  PROVE  Mem!Acknowledge(r) \subseteq Texts
BY DEF Mem!Acknowledge

LEMMA BeginSize ==
  ASSUME SizeInv, NEW w \in Writers, Mem!Ask(w)
  PROVE  SizeInv'
<1>1. PICK c \in Changes : Mem!Begin(w, c[1], c[2], c[3])
  BY DEF Mem!Ask
<1>2. c[1] \in Actions /\ c[2] \in Texts /\ c[3] \in Texts
  BY DEF SizeInv, Mem!MemoryAssumption, Actions
<1> DEFINE others == {v \in Writers : Mem!Writing(v)}
           r == [Mem!NotWriting EXCEPT !.step = "read", !.action = c[1], !.content = c[2],
                   !.match = c[3], !.alone = (others = {})]
<1>3. r \in Requests /\ RequestInv(r)
  <2>1. (others = {}) \in BOOLEAN
    OBVIOUS
  <2> HIDE DEF others
  <2>. QED  BY <1>2, <2>1, IdleRequest DEF Mem!NotWriting, Requests, RequestInv
<1>4. ASSUME NEW v \in Writers
      PROVE  LET q == [write[v] EXCEPT !.alone = @ /\ v \notin others] IN
             q \in Requests /\ RequestInv(q)
  BY DEF SizeInv, Requests, RequestInv
<1>5. write' = [v \in Writers |-> IF v = w THEN r
                                  ELSE [write[v] EXCEPT !.alone = @ /\ v \notin others]]
  BY <1>1 DEF Mem!Begin
<1>6. file' = file /\ kept' \subseteq kept
  BY <1>1 DEF Mem!Begin
<1> HIDE DEF r, others
<1>7. write' \in [Writers -> Requests] /\ \A v \in Writers : RequestInv(write'[v])
  BY <1>3, <1>4, <1>5
<1>. QED  BY <1>6, <1>7 DEF SizeInv

LEMMA ReadSize ==
  ASSUME SizeInv, NEW w \in Writers, Mem!Read(w)
  PROVE  SizeInv'
<1> DEFINE r == write[w]
           t == [r EXCEPT !.step = "open", !.next = Mem!Changed(r, file)]
<1>1. /\ r \in Requests /\ r.content \in Texts /\ r.match \in Texts
      /\ Mem!MemoryAssumption /\ file \in Seq(Texts) /\ Len(file) <= Limit
  BY DEF SizeInv, RequestInv, Mem!Read
<1>2. kept' \subseteq Texts /\ file' = file
  BY <1>1, AcknowledgeType DEF Mem!Read, SizeInv
<1>3. CASE Mem!Known(r, file) \/ Mem!Refused(r, file)
  <2>1. write' = [write EXCEPT ![w] = Mem!NotWriting]
    BY <1>3 DEF Mem!Read
  <2>. QED  BY <1>2, <2>1, IdleRequest, OneWriter DEF SizeInv
<1>4. CASE ~(Mem!Known(r, file) \/ Mem!Refused(r, file))
  <2>1. Mem!Changed(r, file) \in Seq(Texts) /\ Len(Mem!Changed(r, file)) <= Limit
    BY <1>1, <1>4, ChangedFacts
  <2>2. write' = [write EXCEPT ![w] = t]
    BY <1>4 DEF Mem!Read
  <2>3. t \in Requests /\ RequestInv(t)
    BY <1>1, <2>1 DEF Requests, RequestInv
  <2>. QED  BY <1>2, <2>2, <2>3, OneWriter DEF SizeInv
<1>. QED  BY <1>3, <1>4

LEMMA TruncateSize ==
  ASSUME SizeInv, NEW w \in Writers, Mem!Truncate(w)
  PROVE  SizeInv'
<1> DEFINE t == [write[w] EXCEPT !.step = "fill"]
<1>1. t \in Requests /\ RequestInv(t)
  BY DEF SizeInv, Requests, RequestInv, Mem!Truncate
<1>2. write' = [write EXCEPT ![w] = t] /\ kept' = kept /\ file' = <<>>
  BY DEF Mem!Truncate
<1>3. <<>> \in Seq(Texts) /\ Len(<<>>) <= Limit
  BY DEF SizeInv, Mem!MemoryAssumption
<1>. QED  BY <1>1, <1>2, <1>3, OneWriter DEF SizeInv

LEMMA FillSize ==
  ASSUME SizeInv, NEW w \in Writers, Mem!Fill(w)
  PROVE  SizeInv'
<1> DEFINE r == write[w]
<1>1. r \in Requests /\ r.content \in Texts /\ Len(r.next) <= Limit /\ r.next \in Seq(Texts)
  BY DEF SizeInv, Requests, RequestInv, Mem!Fill
<1>2. file' \in Seq(Texts) /\ Len(file') <= Limit
  BY <1>1, OverwrittenFacts DEF SizeInv, Mem!MemoryAssumption, Mem!Fill
<1>3. kept' \subseteq Texts
  BY <1>1, AcknowledgeType DEF SizeInv, Mem!Fill
<1>. QED  BY <1>2, <1>3, IdleRequest, OneWriter DEF SizeInv, Mem!Fill

LEMMA SizeStep == SizeInv /\ [Mem!Next]_<<file, write, kept>> => SizeInv'
<1> SUFFICES ASSUME SizeInv, [Mem!Next]_<<file, write, kept>> PROVE SizeInv'
  OBVIOUS
<1>1. CASE UNCHANGED <<file, write, kept>>
  BY <1>1 DEF SizeInv
<1>2. ASSUME NEW w \in Writers, Mem!Fails(w) PROVE SizeInv'
  BY <1>2, IdleRequest, OneWriter DEF SizeInv, Mem!Fails
<1>3. ASSUME NEW w \in Writers, Mem!Step(w) PROVE SizeInv'
  BY <1>2, <1>3, ReadSize, TruncateSize, FillSize DEF Mem!Step
<1>4. ASSUME NEW ws \in SUBSET Writers, Mem!Halt(ws) PROVE SizeInv'
  BY <1>4, IdleRequest DEF SizeInv, Mem!Halt
<1>. QED  BY <1>1, <1>3, <1>4, BeginSize DEF Mem!Next

LEMMA SizeInvariance ==
  ASSUME Mem!MemoryAssumption
  PROVE  Mem!Spec => []SizeInv
<1>1. Mem!Init => SizeInv
  BY IdleRequest, RangeFacts DEF Mem!Init, SizeInv, Mem!MemoryAssumption
<1>. QED  BY <1>1, SizeStep, PTL DEF Mem!Spec

\* A request checks the limit against the list it has read only, and writes of
\* overlapping requests are laid over each other: the file still stays within
\* memory_char_limit (file_provider.go:103).
THEOREM AlwaysWithinLimit ==
  ASSUME Mem!MemoryAssumption
  PROVE  Mem!Spec => []Mem!WithinLimit
<1>1. SizeInv => Mem!WithinLimit
  BY DEF SizeInv, Mem!WithinLimit
<1>. QED  BY <1>1, SizeInvariance, PTL

\* The file, the requests and the acknowledged entries keep their types.
THEOREM NotesTypeCorrect ==
  ASSUME Mem!MemoryAssumption
  PROVE  Mem!Spec => []Mem!TypeOK
<1>1. SizeInv => Mem!TypeOK
  BY DEF SizeInv, Mem!TypeOK, Requests
<1>. QED  BY <1>1, SizeInvariance, PTL

-----------------------------------------------------------------------------
(* What was acknowledged.                                                  *)

\* The list a lone request will write holds what it will leave acknowledged.
LEMMA ChangedKeeps ==
  ASSUME SizeInv, NEW r \in Requests, r.content \in Texts, r.match \in Texts,
         r.alone, ~Mem!Refused(r, file), kept \subseteq Mem!Range(file)
  PROVE  Mem!Acknowledge(r) \subseteq Mem!Range(Mem!Changed(r, file))
<1>1. /\ \A x \in Mem!Range(file) : (r.action = "add" \/ x # r.match) => x \in Mem!Range(Mem!Changed(r, file))
      /\ r.action # "remove" => r.content \in Mem!Range(Mem!Changed(r, file))
  BY ChangedFacts DEF SizeInv
<1>2. ASSUME NEW x \in Mem!Acknowledge(r)
      PROVE  \/ x \in kept /\ (r.action = "add" \/ x # r.match)
             \/ r.action # "remove" /\ x = r.content
  BY <1>2 DEF Mem!Acknowledge
<1>. QED  BY <1>1, <1>2

\* A lone writer answers for all there is.
LEMMA LoneWriter ==
  ASSUME KeptInv, NEW w \in Writers, Mem!Writing(w)
  PROVE  /\ Alone(w) => \A v \in Writers : Mem!Writing(v) => v = w
         /\ ~Alone(w) => kept = {} /\ \A v \in Writers : ~Alone(v)
BY DEF KeptInv

\* A writer is done, whether it was alone or not.
LEMMA DoneKeeps ==
  ASSUME SizeInv, KeptInv, NEW w \in Writers, Mem!Writing(w),
         write' = [write EXCEPT ![w] = Mem!NotWriting],
         Alone(w) => kept' \subseteq Mem!Range(file'),
         ~Alone(w) => kept' = {}
  PROVE  KeptInv'
<1>1. \A v \in Writers : v # w => write'[v] = write[v]
  BY DEF SizeInv
<1>2. ~Mem!Writing(w)' /\ ~Alone(w)'
  BY DEF SizeInv, Mem!Writing, Alone, Mem!NotWriting
<1>3. \A v \in Writers : v # w => (Mem!Writing(v)' <=> Mem!Writing(v)) /\ (Alone(v)' <=> Alone(v))
  BY <1>1 DEF Mem!Writing, Alone
<1>4. CASE Alone(w)
  <2>1. \A v \in Writers : ~Mem!Writing(v)' /\ ~Alone(v)'
    BY <1>2, <1>3, <1>4, LoneWriter DEF Alone
  <2>. QED  BY <2>1, <1>4 DEF KeptInv
<1>5. CASE ~Alone(w)
  <2>1. kept' = {} /\ \A v \in Writers : ~Alone(v)'
    BY <1>2, <1>3, <1>5, LoneWriter
  <2>. QED  BY <2>1 DEF KeptInv
<1>. QED  BY <1>4, <1>5

\* A writer goes on; its request is still the one it began.
LEMMA GoesOnKeeps ==
  ASSUME SizeInv, KeptInv, NEW w \in Writers, Mem!Writing(w), NEW r \in Requests,
         write' = [write EXCEPT ![w] = r], r.step # "idle", r.alone = write[w].alone,
         kept' = kept,
         Alone(w) =>
           /\ r.step \in {"read", "open"} => kept \subseteq Mem!Range(file')
           /\ r.step \in {"open", "fill"} => Mem!Acknowledge(r) \subseteq Mem!Range(r.next)
           /\ r.step = "fill" => file' = <<>>
  PROVE  KeptInv'
<1>1. write'[w] = r /\ \A v \in Writers : v # w => write'[v] = write[v]
  BY DEF SizeInv
<1>2. \A v \in Writers : (Mem!Writing(v)' <=> Mem!Writing(v)) /\ (Alone(v)' <=> Alone(v))
  BY <1>1 DEF Mem!Writing, Alone
<1>3. Mem!Acknowledge(r)' = Mem!Acknowledge(r)
  BY DEF Mem!Acknowledge
<1>4. CASE Alone(w)
  <2>1. \A v \in Writers : Mem!Writing(v)' => v = w
    BY <1>2, <1>4, LoneWriter
  <2>2. Mem!Acknowledge(write[w])' = Mem!Acknowledge(r)
    BY <1>1, <1>3 DEF Mem!Acknowledge
  <2>. QED  BY <2>1, <2>2, <1>1, <1>2, <1>4 DEF KeptInv, Alone
<1>5. CASE ~Alone(w)
  <2>1. kept' = {} /\ \A v \in Writers : ~Alone(v)'
    BY <1>2, <1>5, LoneWriter
  <2>. QED  BY <2>1 DEF KeptInv
<1>. QED  BY <1>4, <1>5

LEMMA BeginKeeps ==
  ASSUME SizeInv, KeptInv, NEW w \in Writers, Mem!Ask(w)
  PROVE  KeptInv'
<1>1. PICK c \in Changes : Mem!Begin(w, c[1], c[2], c[3])
  BY DEF Mem!Ask
<1> DEFINE others == {v \in Writers : Mem!Writing(v)}
           r == [Mem!NotWriting EXCEPT !.step = "read", !.action = c[1], !.content = c[2],
                   !.match = c[3], !.alone = (others = {})]
<1>2. ~Mem!Writing(w) /\ file' = file
  BY <1>1 DEF Mem!Begin
<1>3. write' = [v \in Writers |-> IF v = w THEN r
                                  ELSE [write[v] EXCEPT !.alone = @ /\ v \notin others]]
  BY <1>1 DEF Mem!Begin
<1>4. /\ write'[w] = r /\ r.step = "read" /\ (r.alone <=> others = {})
      /\ \A v \in Writers : v # w =>
           /\ write'[v].step = write[v].step
           /\ write'[v].alone <=> (write[v].alone /\ v \notin others)
  BY <1>3 DEF SizeInv, Requests, Mem!NotWriting
<1>5. CASE others = {}
  <2>1. /\ Mem!Writing(w)' /\ Alone(w)'
        /\ \A v \in Writers : v # w => ~Mem!Writing(v)' /\ ~Alone(v)'
    BY <1>4, <1>5 DEF Mem!Writing, Alone
  <2>2. kept' = kept /\ kept \subseteq Mem!Range(file)
    BY <1>1, <1>5 DEF Mem!Begin, KeptInv
  <2>3. write'[w].step = "read"
    BY <1>4
  <2>. QED  BY <2>1, <2>2, <2>3, <1>2 DEF KeptInv
<1>6. CASE others # {}
  <2>1. kept' = {}
    BY <1>1, <1>6 DEF Mem!Begin
  <2>2. \A v \in Writers : ~Alone(v)'
    BY <1>4, <1>6 DEF Mem!Writing, Alone
  <2>. QED  BY <2>1, <2>2 DEF KeptInv
<1>. QED  BY <1>5, <1>6

LEMMA ReadKeeps ==
  ASSUME SizeInv, KeptInv, NEW w \in Writers, Mem!Read(w)
  PROVE  KeptInv'
<1> DEFINE r == write[w]
           t == [r EXCEPT !.step = "open", !.next = Mem!Changed(r, file)]
<1>1. /\ r \in Requests /\ r.content \in Texts /\ r.match \in Texts /\ r.step = "read"
      /\ Mem!Writing(w) /\ file' = file /\ (Alone(w) <=> r.alone)
  BY DEF SizeInv, RequestInv, Mem!Read, Mem!Writing, Alone
<1>2. Alone(w) => kept \subseteq Mem!Range(file)
  BY <1>1 DEF KeptInv
<1>3. ~Alone(w) => kept = {}
  BY <1>1, LoneWriter
<1>4. CASE Mem!Known(r, file)
  <2>1. Alone(w) => Mem!Acknowledge(r) \subseteq Mem!Range(file)
    BY <1>2, <1>4 DEF Mem!Acknowledge, Mem!Known
  <2>2. ~Alone(w) => Mem!Acknowledge(r) = {}
    BY <1>1, <1>3 DEF Mem!Acknowledge
  <2>. QED  BY <1>1, <1>4, <2>1, <2>2, DoneKeeps DEF Mem!Read
<1>5. CASE ~Mem!Known(r, file) /\ Mem!Refused(r, file)
  BY <1>1, <1>2, <1>3, <1>5, DoneKeeps DEF Mem!Read
<1>6. CASE ~Mem!Known(r, file) /\ ~Mem!Refused(r, file)
  <2>1. /\ Mem!Changed(r, file) \in Seq(Texts)
        /\ Alone(w) => Mem!Acknowledge(r) \subseteq Mem!Range(Mem!Changed(r, file))
    BY <1>1, <1>2, <1>6, ChangedFacts, ChangedKeeps DEF SizeInv
  <2>2. /\ t \in Requests /\ t.step = "open" /\ t.alone = r.alone /\ t.next = Mem!Changed(r, file)
        /\ Mem!Acknowledge(t) = Mem!Acknowledge(r)
    BY <1>1, <2>1 DEF Requests, Mem!Acknowledge
  <2>3. write' = [write EXCEPT ![w] = t] /\ kept' = kept
    BY <1>6 DEF Mem!Read
  <2> HIDE DEF t
  <2>. QED  BY <1>1, <1>2, <2>1, <2>2, <2>3, GoesOnKeeps
<1>. QED  BY <1>4, <1>5, <1>6

LEMMA TruncateKeeps ==
  ASSUME SizeInv, KeptInv, NEW w \in Writers, Mem!Truncate(w)
  PROVE  KeptInv'
<1> DEFINE r == write[w]
           t == [r EXCEPT !.step = "fill"]
<1>1. /\ r \in Requests /\ Mem!Writing(w) /\ file' = <<>> /\ kept' = kept
      /\ write' = [write EXCEPT ![w] = t]
  BY DEF SizeInv, Mem!Truncate, Mem!Writing
<1>2. Alone(w) => Mem!Acknowledge(r) \subseteq Mem!Range(r.next)
  BY DEF KeptInv, Mem!Truncate
<1>3. /\ t \in Requests /\ t.step = "fill" /\ t.alone = r.alone /\ t.next = r.next
      /\ Mem!Acknowledge(t) = Mem!Acknowledge(r)
  BY <1>1 DEF Requests, Mem!Acknowledge
<1> HIDE DEF t
<1>. QED  BY <1>1, <1>2, <1>3, GoesOnKeeps

LEMMA FillKeeps ==
  ASSUME SizeInv, KeptInv, NEW w \in Writers, Mem!Fill(w)
  PROVE  KeptInv'
<1> DEFINE r == write[w]
<1>1. /\ r \in Requests /\ r.next \in Seq(Texts) /\ Mem!Writing(w) /\ (Alone(w) <=> r.alone)
      /\ r.step = "fill" /\ write' = [write EXCEPT ![w] = Mem!NotWriting]
      /\ kept' = Mem!Acknowledge(r) /\ file' = r.next \o SubSeq(file, Len(r.next) + 1, Len(file))
  BY DEF SizeInv, Requests, Mem!Fill, Mem!Writing, Alone
<1>2. CASE Alone(w)
  <2>1. file = <<>> /\ Mem!Acknowledge(r) \subseteq Mem!Range(r.next)
    BY <1>1, <1>2 DEF KeptInv
  <2>2. SubSeq(<<>>, Len(r.next) + 1, 0) = <<>> /\ r.next \o <<>> = r.next
    BY <1>1
  <2>3. file' = r.next
    BY <1>1, <2>1, <2>2
  <2>. QED  BY <1>1, <1>2, <2>1, <2>3, DoneKeeps
<1>3. CASE ~Alone(w)
  <2>1. kept' = {}
    BY <1>1, <1>3, LoneWriter DEF Mem!Acknowledge
  <2>. QED  BY <1>1, <1>3, <2>1, DoneKeeps
<1>. QED  BY <1>2, <1>3

LEMMA FailsKeeps ==
  ASSUME SizeInv, KeptInv, NEW w \in Writers, Mem!Fails(w)
  PROVE  KeptInv'
<1>1. Mem!Writing(w) /\ write' = [write EXCEPT ![w] = Mem!NotWriting] /\ file' = file
  BY DEF Mem!Fails, Mem!Writing
<1>2. Alone(w) => kept' \subseteq Mem!Range(file')
  BY <1>1 DEF KeptInv, Mem!Fails
<1>3. ~Alone(w) => kept' = {}
  BY <1>1, LoneWriter DEF Mem!Fails
<1>. QED  BY <1>1, <1>2, <1>3, DoneKeeps

LEMMA HaltKeeps ==
  ASSUME SizeInv, KeptInv, NEW ws \in SUBSET Writers, Mem!Halt(ws)
  PROVE  KeptInv'
<1>1. /\ \A v \in Writers : v \notin ws => write'[v] = write[v]
      /\ \A v \in ws : write'[v] = Mem!NotWriting
      /\ file' = file /\ kept' \subseteq kept
      /\ kept' = {} \/ (kept' = kept /\ \A v \in ws : write[v].step # "fill")
  BY DEF Mem!Halt
<1>2. \A v \in Writers : /\ Mem!Writing(v)' => v \notin ws /\ Mem!Writing(v)
                         /\ Alone(v)' => v \notin ws /\ Alone(v)
                         /\ Mem!Writing(v)' => (Alone(v)' <=> Alone(v))
  BY <1>1 DEF Mem!Writing, Alone, Mem!NotWriting
<1>3. ASSUME \A v \in Writers : ~Mem!Writing(v)'
      PROVE  kept' \subseteq Mem!Range(file)
  <2>1. CASE kept' = {} \/ \A v \in Writers : ~Mem!Writing(v)
    BY <1>1, <2>1 DEF KeptInv
  <2>2. CASE kept' # {} /\ \E v \in Writers : Mem!Writing(v)
    <3>1. PICK v \in Writers : Mem!Writing(v)
      BY <2>2
    <3>2. v \in ws /\ write[v].step # "fill" /\ write[v].step \in {"read", "open"} /\ kept' = kept
      BY <3>1, <2>2, <1>1, <1>3 DEF Mem!Writing, SizeInv, Requests
    <3>3. Alone(v)
      BY <3>1, <3>2, <2>2, LoneWriter
    <3>. QED  BY <3>2, <3>3 DEF KeptInv
  <2>. QED  BY <2>1, <2>2
<1>4. ASSUME NEW v \in Writers, Alone(v)'
      PROVE  /\ write'[v].step \in {"read", "open"} => kept' \subseteq Mem!Range(file')
             /\ write'[v].step \in {"open", "fill"} => Mem!Acknowledge(write[v])' \subseteq Mem!Range(write'[v].next)
             /\ write'[v].step = "fill" => file' = <<>>
  <2>1. v \notin ws /\ Alone(v) /\ write'[v] = write[v] /\ Mem!Writing(v)
    BY <1>1, <1>2, <1>4 DEF Alone
  <2>2. kept' = kept
    <3>1. \A u \in ws : ~Mem!Writing(u)
      BY <2>1, LoneWriter
    <3>. QED  BY <3>1 DEF Mem!Halt, Mem!Writing
  <2>3. Mem!Acknowledge(write[v])' = Mem!Acknowledge(write[v])
    BY <2>1, <2>2 DEF Mem!Acknowledge
  <2>. QED  BY <2>1, <2>2, <2>3, <1>1 DEF KeptInv
<1>5. \A u, v \in Writers : Alone(u)' /\ Mem!Writing(v)' => u = v
  BY <1>2 DEF KeptInv
<1>6. (\E v \in Writers : Mem!Writing(v)' /\ ~Alone(v)') => kept' = {}
  BY <1>1, <1>2 DEF KeptInv
<1>. QED  BY <1>1, <1>3, <1>4, <1>5, <1>6 DEF KeptInv

LEMMA KeptStep == SizeInv /\ KeptInv /\ [Mem!Next]_<<file, write, kept>> => KeptInv'
<1> SUFFICES ASSUME SizeInv, KeptInv, [Mem!Next]_<<file, write, kept>> PROVE KeptInv'
  OBVIOUS
<1>1. CASE UNCHANGED <<file, write, kept>>
  BY <1>1 DEF KeptInv, Alone, Mem!Writing, Mem!Acknowledge
<1>2. ASSUME NEW w \in Writers, Mem!Ask(w) \/ Mem!Step(w) PROVE KeptInv'
  BY <1>2, BeginKeeps, ReadKeeps, TruncateKeeps, FillKeeps, FailsKeeps DEF Mem!Step
<1>. QED  BY <1>1, <1>2, HaltKeeps DEF Mem!Next

\* However many writers there are, an acknowledged entry is in the file until
\* a request names it, unless requests overlapped or a write was cut off; the
\* file is emptied before it is filled (file_provider.go:206).
THEOREM AlwaysKept ==
  ASSUME Mem!MemoryAssumption
  PROVE  Mem!Spec => []Mem!AcknowledgedKept
<1>1. Mem!Init => KeptInv
  BY DEF Mem!Init, KeptInv, Mem!Writing, Alone, Mem!NotWriting
<1>2. SizeInv /\ KeptInv => Mem!AcknowledgedKept
  <2> SUFFICES ASSUME SizeInv, KeptInv, ~Mem!Emptied PROVE kept \subseteq Mem!Range(file)
    BY DEF Mem!AcknowledgedKept
  <2>1. CASE \A w \in Writers : ~Mem!Writing(w)
    BY <2>1 DEF KeptInv
  <2>2. ASSUME NEW w \in Writers, Mem!Writing(w) PROVE kept \subseteq Mem!Range(file)
    <3>1. CASE Alone(w)
      BY <2>2, <3>1 DEF KeptInv, Mem!Emptied, Mem!Writing, SizeInv, Requests
    <3>2. CASE ~Alone(w)
      BY <2>2, <3>2 DEF KeptInv
    <3>. QED  BY <3>1, <3>2
  <2>. QED  BY <2>1, <2>2
<1>. QED  BY <1>1, <1>2, KeptStep, SizeInvariance, PTL DEF Mem!Spec

-----------------------------------------------------------------------------
(* Memory in the prompt builder.                                           *)

\* The steps that neither change the notes nor end a process.
LEMMA NotesUntouched ==
  ASSUME NEW w \in Workers, Step(w) \/ \E op \in {"turn", "inspect"} : \E s \in 0..sessions : Ask(w, op, s)
  PROVE  UNCHANGED notes
BY DEF Step, Ask, Prefetch, GetSummary, ListRecent, ReadFails, PersistSummary, PersistFails,
       Plan, Answered, EnterSession, AddMessage

LEMMA NotesStep == [Next]_vars => [Mem!Next]_notes
<1> SUFFICES ASSUME [Next]_vars PROVE [Mem!Next]_notes
  OBVIOUS
<1>1. CASE UNCHANGED vars
  BY <1>1 DEF vars
<1>2. ASSUME NEW m \in Writers, WriteNotes(m) PROVE Mem!Next
  BY <1>2 DEF WriteNotes, Mem!Next
<1>3. ASSUME NEW p \in Procs, Forget(p) \/ \E m \in Models : Switch(p, m) PROVE UNCHANGED notes
  BY <1>3 DEF Forget, Switch
<1>4. ASSUME NEW p \in Procs, Crash(p) PROVE Mem!Next
  <2>1. {m \in Writers : P(m) = p} \in SUBSET Writers
    OBVIOUS
  <2>. QED  BY <1>4, <2>1 DEF Crash, Mem!Next
<1>. QED  BY <1>1, <1>2, <1>3, <1>4, NotesUntouched DEF Next

\* Turns, inspections, switches and crashes do to the notes what Memory
\* allows: everything proved of Memory holds here (app.go, builder.go).
THEOREM RefinesMemory == Spec => Mem!Spec
<1>1. Init => Mem!Init
  BY DEF Init
<1>. QED  BY <1>1, NotesStep, PTL DEF Spec, Mem!Spec, notes

\* Notes that were acknowledged stay until a request names them, whatever else
\* the processes do (file_provider.go:206).
THEOREM NotesAlwaysKept == Spec => []NotesKept
<1>1. Mem!MemoryAssumption
  BY PromptsAssumption DEF PromptsAssumption
<1>2. Mem!Spec => []Mem!AcknowledgedKept
  BY <1>1, AlwaysKept
<1>3. Mem!AcknowledgedKept => NotesKept
  BY DEF NotesKept
<1>. QED  BY <1>2, <1>3, RefinesMemory, PTL

-----------------------------------------------------------------------------
(* Plans and the cache.                                                    *)

\* A build has its fields, whatever their values.
Shaped(b) ==
  b \in [op : {b.op}, step : {b.step}, session : {b.session}, model : {b.model},
         recalled : {b.recalled}, stored : {b.stored}, history : {b.history},
         folded : {b.folded}, plan : {b.plan}]

\* The plan a key stands for.
PlanOf(key) ==
  [memory |-> key[3], summary |-> key[4], history |-> Trimmed(key[3], key[4], key[5]),
   model |-> key[2]]

\* A plan is that of its key, in the cache as well as where it is served.
PlanInv ==
  /\ build = [w \in Workers |-> build[w]] /\ cache = [p \in Procs |-> cache[p]]
  /\ \A w \in Workers : Shaped(build[w])
  /\ \A w \in Workers : ~Active(w) => build[w].step = "none"
  /\ \A w \in Workers : Served(w) => build[w].plan = Assembled(build[w])
  /\ \A p \in Procs : \A c \in cache[p] : c.plan = PlanOf(c.key)

LEMMA NoBuildFacts == Shaped(NoBuild) /\ NoBuild.op = "none" /\ NoBuild.step = "none"
BY DEF Shaped, NoBuild

LEMMA KeyDecides == ASSUME NEW b PROVE PlanOf(Key(b)) = Assembled(b)
BY DEF PlanOf, Key, Assembled

\* A build takes a step that does not serve it.
LEMMA OneBuild ==
  ASSUME PlanInv, NEW w \in Workers, NEW b, Shaped(b), build' = [build EXCEPT ![w] = b],
         cache' = cache, b.step # "served", b.op = "none" => b.step = "none"
  PROVE  PlanInv'
<1>1. build'[w] = b /\ \A v \in Workers : v # w => build'[v] = build[v]
  BY DEF PlanInv
<1>2. build' = [v \in Workers |-> build'[v]] /\ cache' = [p \in Procs |-> cache'[p]]
  BY DEF PlanInv
<1>3. ASSUME NEW v \in Workers
      PROVE  /\ Shaped(build'[v]) /\ (~Active(v)' => build'[v].step = "none")
             /\ Served(v)' => build'[v].plan = Assembled(build'[v])
  BY <1>1 DEF PlanInv, Active, Served
<1>4. \A p \in Procs : \A c \in cache'[p] : c.plan = PlanOf(c.key)
  BY DEF PlanInv
<1>5. ASSUME NEW v \in Workers, Served(v)' PROVE build'[v].plan = Assembled(build[v])'
  BY <1>3, <1>5 DEF Assembled
<1>. QED  BY <1>2, <1>3, <1>4, <1>5 DEF PlanInv

LEMMA AskPlans ==
  ASSUME PlanInv, NEW w \in Workers, NEW op \in {"turn", "inspect"}, NEW s, Ask(w, op, s)
  PROVE  PlanInv'
<1> DEFINE b == [NoBuild EXCEPT !.op = op, !.step = "memory", !.session = s, !.model = model[P(w)]]
<1>1. Shaped(b) /\ b.step = "memory" /\ b.op = op
  BY NoBuildFacts DEF Shaped
<1>2. build' = [build EXCEPT ![w] = b] /\ cache' = cache
  BY DEF Ask, Set
<1> HIDE DEF b
<1>. QED  BY <1>1, <1>2, OneBuild

LEMMA ReadPlans ==
  ASSUME PlanInv, NEW w \in Workers,
         Prefetch(w) \/ GetSummary(w) \/ ListRecent(w) \/ PersistSummary(w) \/ AddMessage(w)
  PROVE  PlanInv'
<1> DEFINE b == build'[w]
<1>1. Shaped(build[w]) /\ build[w].op # "none"
  BY DEF PlanInv, Active, Prefetch, GetSummary, ListRecent, PersistSummary, AddMessage, At
<1>2. cache' = cache /\ build' = [build EXCEPT ![w] = b]
  BY DEF PlanInv, Prefetch, GetSummary, ListRecent, PersistSummary, AddMessage, Set
<1>3. /\ b.step \in {"summary", "recent", "persist", "plan", "answer", "none"}
      /\ b.op = build[w].op \/ b = NoBuild
      /\ Shaped(b)
  <2>1. CASE Prefetch(w)
    BY <2>1, <1>1 DEF PlanInv, Prefetch, Set, Shaped
  <2>2. CASE GetSummary(w)
    BY <2>2, <1>1 DEF PlanInv, GetSummary, Set, Shaped
  <2>3. CASE ListRecent(w)
    BY <2>3, <1>1 DEF PlanInv, ListRecent, Set, Shaped
  <2>4. CASE PersistSummary(w)
    BY <2>4, <1>1 DEF PlanInv, PersistSummary, Set, Shaped
  <2>5. CASE AddMessage(w)
    BY <2>5, <1>1, NoBuildFacts DEF PlanInv, AddMessage, Set, Shaped
  <2>. QED  BY <2>1, <2>2, <2>3, <2>4, <2>5
<1> HIDE DEF b
<1>. QED  BY <1>1, <1>2, <1>3, OneBuild, NoBuildFacts

LEMMA EndPlans ==
  ASSUME PlanInv, NEW w \in Workers, ReadFails(w) \/ PersistFails(w) \/ Answered(w)
  PROVE  PlanInv'
BY NoBuildFacts, OneBuild DEF ReadFails, PersistFails, Answered, Set

LEMMA EnterPlans ==
  ASSUME PlanInv, NEW w \in Workers, EnterSession(w)
  PROVE  PlanInv'
<1> DEFINE entered(s) == [NoBuild EXCEPT !.op = "turn", !.step = "question", !.session = s]
<1>1. \A s : Shaped(entered(s)) /\ entered(s).step = "question" /\ entered(s).op = "turn"
  BY NoBuildFacts DEF Shaped
<1>2. cache' = cache /\ \E s : build' = [build EXCEPT ![w] = entered(s)]
  BY DEF EnterSession, Set
<1> HIDE DEF entered
<1>. QED  BY <1>1, <1>2, OneBuild

LEMMA PlanPlans ==
  ASSUME PlanInv, NEW w \in Workers, Plan(w)
  PROVE  PlanInv'
<1> DEFINE b == build[w]
           p == P(w)
           hits == {c \in cache[p] : c.key = Key(b)}
           served == IF hits # {} THEN (CHOOSE c \in hits : TRUE).plan ELSE Assembled(b)
           t == [b EXCEPT !.step = "served", !.plan = served]
           entry == [key |-> Key(b), plan |-> Assembled(b)]
<1>1. p \in Procs /\ Shaped(b) /\ b.op # "none"
  BY PromptsAssumption DEF PromptsAssumption, PlanInv, P, Plan, At, Active
<1>2. served = Assembled(b)
  <2>1. ASSUME NEW c \in hits PROVE c.plan = Assembled(b)
    BY <2>1, <1>1, KeyDecides DEF PlanInv
  <2> HIDE DEF hits
  <2>. QED  BY <2>1
<1>3. build' = [build EXCEPT ![w] = t]
  BY DEF Plan, Set
<1>4. /\ Shaped(t) /\ t.op = b.op /\ t.step = "served" /\ t.plan = served
      /\ Assembled(t) = Assembled(b)
  <2> HIDE DEF served, b
  <2>1. /\ Shaped(t) /\ t.op = b.op /\ t.step = "served" /\ t.plan = served
        /\ t.recalled = b.recalled /\ t.stored = b.stored /\ t.folded = b.folded
        /\ t.history = b.history /\ t.model = b.model
    BY <1>1 DEF Shaped
  <2> HIDE DEF t
  <2>. QED  BY <2>1 DEF Assembled
<1>5. \A c \in {entry} : c.plan = PlanOf(c.key)
  BY KeyDecides
<1>6. cache' = cache \/ cache' = [cache EXCEPT ![p] = @ \union {entry}]
  BY DEF Plan
<1> HIDE DEF t, b, p, served, hits, entry
<1>7. /\ cache' = [q \in Procs |-> cache'[q]]
      /\ \A q \in Procs : \A c \in cache'[q] : c.plan = PlanOf(c.key)
  BY <1>5, <1>6 DEF PlanInv
<1>8. /\ build' = [v \in Workers |-> build'[v]]
      /\ build'[w] = t /\ \A v \in Workers : v # w => build'[v] = build[v]
  BY <1>3 DEF PlanInv
<1>9. ASSUME NEW v \in Workers
      PROVE  /\ Shaped(build'[v]) /\ (~Active(v)' => build'[v].step = "none")
             /\ Served(v)' => build'[v].plan = Assembled(build'[v])
  BY <1>1, <1>2, <1>4, <1>8 DEF PlanInv, Active, Served, b
<1>10. ASSUME NEW v \in Workers, Served(v)' PROVE build'[v].plan = Assembled(build[v])'
  BY <1>9, <1>10 DEF Assembled
<1>. QED  BY <1>7, <1>8, <1>9, <1>10 DEF PlanInv

LEMMA AroundPlans ==
  ASSUME PlanInv, (\E m \in Writers : WriteNotes(m)) \/ \E p \in Procs : Forget(p) \/ Crash(p) \/ \E m \in Models : Switch(p, m)
  PROVE  PlanInv'
<1>1. CASE UNCHANGED <<build, cache>>
  BY <1>1 DEF PlanInv, Active, Served, Assembled
<1>2. ASSUME NEW p \in Procs, Forget(p) PROVE PlanInv'
  <2>1. build' = build /\ cache' = [q \in Procs |-> cache'[q]]
    BY <1>2 DEF Forget, PlanInv
  <2>2. \A q \in Procs : cache'[q] \subseteq cache[q]
    BY <1>2 DEF Forget, PlanInv
  <2>. QED  BY <2>1, <2>2 DEF PlanInv, Active, Served, Assembled
<1>3. ASSUME NEW p \in Procs, Crash(p) PROVE PlanInv'
  <2>1. /\ \A v \in Workers : build'[v] = build[v] \/ build'[v] = NoBuild
        /\ build' = [v \in Workers |-> build'[v]]
        /\ cache' = [q \in Procs |-> cache'[q]]
        /\ \A q \in Procs : cache'[q] \subseteq cache[q]
    BY <1>3 DEF Crash, PlanInv
  <2>2. ASSUME NEW v \in Workers
        PROVE  /\ Shaped(build'[v]) /\ (~Active(v)' => build'[v].step = "none")
               /\ Served(v)' => build'[v].plan = Assembled(build[v])'
    BY <2>1, NoBuildFacts DEF PlanInv, Active, Served, Assembled
  <2>. QED  BY <2>1, <2>2 DEF PlanInv
<1>. QED  BY <1>1, <1>2, <1>3 DEF WriteNotes, Switch

LEMMA PlanStep == PlanInv /\ [Next]_vars => PlanInv'
<1> SUFFICES ASSUME PlanInv, [Next]_vars PROVE PlanInv'
  OBVIOUS
<1>1. CASE UNCHANGED vars
  BY <1>1 DEF vars, PlanInv, Active, Served, Assembled
<1>2. ASSUME NEW w \in Workers, Step(w) PROVE PlanInv'
  BY <1>2, ReadPlans, EndPlans, EnterPlans, PlanPlans DEF Step
<1>. QED  BY <1>1, <1>2, AskPlans, AroundPlans DEF Next

LEMMA PlanInvariance == Spec => []PlanInv
<1>1. Init => PlanInv
  BY NoBuildFacts DEF Init, PlanInv, Active, Served
<1>. QED  BY <1>1, PlanStep, PTL DEF Spec

\* A cached plan is served for a key that decides all of it: it is the plan
\* this build would have made itself (builder.go:116).
THEOREM PlansAlwaysCurrent == Spec => []ServedPlanCurrent
<1>1. PlanInv => ServedPlanCurrent
  BY DEF PlanInv, ServedPlanCurrent
<1>. QED  BY <1>1, PlanInvariance, PTL

-----------------------------------------------------------------------------
(* The summary.                                                            *)

\* While requests do not overlap, one at most is at work, and the summary it
\* will replace is the one it has read.
SumInv ==
  overlapped \/ /\ \A v, w \in Workers : Active(v) /\ Active(w) => v = w
                /\ \A w \in Workers : build[w].step \in {"recent", "persist"} => build[w].stored = summary

Grows == overlapped' \/ summary \subseteq summary'

\* A build goes on, or ends, without touching the summary.
LEMMA OneSum ==
  ASSUME PlanInv, SumInv, NEW w \in Workers, Active(w), NEW b, build' = [build EXCEPT ![w] = b],
         overlapped' = overlapped, summary' = summary,
         b.step \in {"recent", "persist"} => b.stored = summary \/ overlapped
  PROVE  SumInv' /\ Grows
<1>1. build'[w] = b /\ \A v \in Workers : v # w => build'[v] = build[v]
  BY DEF PlanInv
<1>2. \A v \in Workers : Active(v)' => Active(v)
  BY <1>1 DEF Active
<1>. QED  BY <1>1, <1>2 DEF SumInv, Grows

LEMMA StepSum ==
  ASSUME PlanInv, SumInv, NEW w \in Workers, Step(w)
  PROVE  SumInv' /\ Grows
<1> DEFINE b == build[w]
<1>1. Shaped(b)
  BY DEF PlanInv
<1>2. b.step # "none" => Active(w)
  BY DEF PlanInv
<1>3. CASE Prefetch(w)
  <2>1. [b EXCEPT !.recalled = Mem!Recall, !.step = "summary"].step = "summary"
    BY <1>1 DEF Shaped
  <2>. QED  BY <1>2, <1>3, <2>1, OneSum DEF Prefetch, At, Set, rows
<1>4. CASE GetSummary(w)
  <2> DEFINE t == [b EXCEPT !.stored = summary, !.step = "recent"]
  <2>1. t.step = "recent" /\ t.stored = summary
    BY <1>1 DEF Shaped
  <2>2. build' = [build EXCEPT ![w] = t]
    BY <1>4 DEF GetSummary, Set
  <2> HIDE DEF t
  <2>. QED  BY <1>2, <1>4, <2>1, <2>2, OneSum DEF GetSummary, At, rows
<1>5. CASE ListRecent(w)
  <2>1. PICK h, f, s : build' = [build EXCEPT ![w] = [b EXCEPT !.history = h, !.folded = f, !.step = s]]
    BY <1>5 DEF ListRecent, Set
  <2> DEFINE t == [b EXCEPT !.history = h, !.folded = f, !.step = s]
  <2>2. t.stored = b.stored
    BY <1>1 DEF Shaped
  <2>3. b.stored = summary \/ overlapped
    BY <1>5 DEF ListRecent, At, SumInv
  <2> HIDE DEF t
  <2>. QED  BY <1>2, <1>5, <2>1, <2>2, <2>3, OneSum DEF ListRecent, At, t, rows
<1>6. CASE ReadFails(w) \/ PersistFails(w) \/ Answered(w)
  BY <1>2, <1>6, OneSum, NoBuildFacts DEF ReadFails, PersistFails, Answered, At, Set, rows
<1>7. CASE Plan(w)
  <2>1. PICK q : build' = [build EXCEPT ![w] = [b EXCEPT !.step = "served", !.plan = q]]
    BY <1>7 DEF Plan, Set
  <2>2. [b EXCEPT !.step = "served", !.plan = q].step = "served"
    BY <1>1 DEF Shaped
  <2>. QED  BY <1>2, <1>7, <2>1, <2>2, OneSum DEF Plan, At, rows
<1>8. CASE EnterSession(w)
  <2> DEFINE entered(s) == [NoBuild EXCEPT !.op = "turn", !.step = "question", !.session = s]
  <2>1. \A s : entered(s).step = "question"
    BY NoBuildFacts DEF Shaped
  <2>2. PICK s : build' = [build EXCEPT ![w] = entered(s)]
    BY <1>8 DEF EnterSession, Set
  <2> HIDE DEF entered
  <2>. QED  BY <1>2, <1>8, <2>1, <2>2, OneSum DEF EnterSession, At, rows
<1>9. CASE AddMessage(w)
  <2>1. [b EXCEPT !.step = "answer"].step = "answer"
    BY <1>1 DEF Shaped
  <2>. QED  BY <1>2, <1>9, <2>1, NoBuildFacts, OneSum DEF AddMessage, Set, rows
<1>10. CASE PersistSummary(w)
  <2>1. Active(w) /\ (overlapped \/ b.stored = summary) /\ overlapped' = overlapped
    BY <1>2, <1>10 DEF PersistSummary, At, SumInv
  <2>2. Grows
    BY <2>1, <1>10 DEF PersistSummary, Grows
  <2>3. [b EXCEPT !.step = "plan"].step = "plan"
    BY <1>1 DEF Shaped
  <2>4. build'[w].step = "plan" /\ \A v \in Workers : v # w => build'[v] = build[v]
    BY <2>3, <1>10 DEF PersistSummary, Set, PlanInv
  <2>5. ~overlapped => \A v \in Workers : v # w => ~Active(v) /\ build[v].step = "none"
    BY <2>1 DEF SumInv, PlanInv
  <2>. QED  BY <2>1, <2>2, <2>4, <2>5 DEF SumInv, Active
<1>. QED  BY <1>3, <1>4, <1>5, <1>6, <1>7, <1>8, <1>9, <1>10 DEF Step

LEMMA AskSum ==
  ASSUME PlanInv, SumInv, NEW w \in Workers, NEW op, NEW s, Ask(w, op, s)
  PROVE  SumInv' /\ Grows
<1>1. PICK b : b.step = "memory" /\ build' = [build EXCEPT ![w] = b]
  <2> DEFINE b == [NoBuild EXCEPT !.op = op, !.step = "memory", !.session = s, !.model = model[P(w)]]
  <2>1. b.step = "memory"
    BY NoBuildFacts DEF Shaped
  <2>. QED  BY <2>1 DEF Ask, Set
<1>2. build'[w] = b /\ \A v \in Workers : v # w => build'[v] = build[v]
  BY <1>1 DEF PlanInv
<1>3. ~overlapped' => \A v \in Workers : ~Active(v) /\ build[v].step = "none"
  BY DEF Ask, PlanInv
<1>4. summary' = summary
  BY DEF Ask, rows
<1>. QED  BY <1>1, <1>2, <1>3, <1>4 DEF SumInv, Grows, Active

LEMMA SumStep == PlanInv /\ SumInv /\ [Next]_vars => SumInv' /\ [Grows]_vars
<1> SUFFICES ASSUME PlanInv, SumInv, [Next]_vars PROVE SumInv' /\ (Grows \/ UNCHANGED vars)
  OBVIOUS
<1>1. CASE UNCHANGED <<build, overlapped, summary>>
  BY <1>1 DEF SumInv, Grows, Active
<1>2. ASSUME NEW p \in Procs, Crash(p) PROVE SumInv' /\ Grows
  <2>1. /\ \A v \in Workers : build'[v] = build[v] \/ build'[v] = NoBuild
        /\ summary' = summary /\ overlapped' = overlapped
    BY <1>2 DEF Crash, rows
  <2>. QED  BY <2>1, NoBuildFacts DEF SumInv, Grows, Active
<1>3. ASSUME NEW w \in Workers,
             Step(w) \/ \E op \in {"turn", "inspect"} : \E s \in 0..sessions : Ask(w, op, s)
      PROVE  SumInv' /\ Grows
  BY <1>3, StepSum, AskSum
<1>4. ASSUME (\E m \in Writers : WriteNotes(m)) \/ \E p \in Procs : Forget(p) \/ \E m \in Models : Switch(p, m)
      PROVE  UNCHANGED <<build, overlapped, summary>>
  BY <1>4 DEF WriteNotes, Forget, Switch, rows
<1>. QED  BY <1>1, <1>2, <1>3, <1>4 DEF Next, vars, rows

\* The summary is read before the compression and replaced after it, yet it
\* never loses what was folded into it while requests do not overlap
\* (builder.go:75).
THEOREM SummaryAlwaysGrows == Spec => SummaryGrows
<1>1. Init => SumInv
  BY NoBuildFacts DEF Init, SumInv, Active
<1>2. [Grows]_vars => [overlapped' \/ summary \subseteq summary']_vars
  BY DEF Grows
<1>. QED  BY <1>1, <1>2, SumStep, PlanInvariance, PTL DEF Spec, SummaryGrows

-----------------------------------------------------------------------------
(* What leaves the window.                                                 *)

MessagesIn(rowsOf, session) == {i \in DOMAIN rowsOf : session = NoSession \/ rowsOf[i] = session}

\* What has not been folded is among the n last messages.
Fits(ids, sum, n) == \A i \in ids \ sum : Cardinality(Newer(i, ids)) < n

\* What a turn has left out of its plan has been folded, and what it has not
\* folded leaves room for the two messages it will add.
BuildFits(b, ids, sum) ==
  /\ b.step \in {"persist", "plan", "served"} /\ b.session # NoSession =>
       /\ ids \ (b.stored \union b.folded) \subseteq b.history
       /\ Fits(ids, b.stored \union b.folded, Window - 2)
  /\ b.step \in {"plan", "served"} => b.stored \union b.folded \subseteq sum
  /\ b.step = "question" => Fits(ids, sum, Window - 2)
  /\ b.step = "answer" => Fits(ids, sum, Window - 1)

\* While requests do not overlap, what has not been folded fits into the window
\* of its session.
FitInv ==
  /\ sessions \in Nat /\ log \in Seq(1..sessions)
  /\ \A w \in Workers : build[w].session \in 0..sessions
  /\ \A w \in Workers : build[w].step \in {"question", "answer"} => build[w].session # NoSession
  /\ overlapped \/
       /\ \A s \in 1..sessions : Fits(MessagesIn(log, s), summary, Window)
       /\ \A w \in Workers : BuildFits(build[w], MessagesIn(log, build[w].session), summary)

LEMMA MessagesAre == ASSUME NEW s PROVE Messages(s) = MessagesIn(log, s)
BY DEF Messages, MessagesIn

\* The messages of a session are numbers, and finitely many.
LEMMA MessagesFinite ==
  ASSUME NEW l, NEW S, l \in Seq(S), NEW s
  PROVE  MessagesIn(l, s) \subseteq 1..Len(l) /\ Len(l) \in Nat /\ IsFiniteSet(MessagesIn(l, s))
<1>1. MessagesIn(l, s) \subseteq 1..Len(l) /\ Len(l) \in Nat
  BY DEF MessagesIn
<1>2. IsFiniteSet(1..Len(l))
  BY <1>1, FS_Interval
<1>. QED  BY <1>1, <1>2, FS_Subset

\* The newer ones of a finite set are counted.
LEMMA NewerFacts ==
  ASSUME NEW ids, IsFiniteSet(ids), NEW i
  PROVE  /\ Newer(i, ids) \subseteq ids /\ IsFiniteSet(Newer(i, ids))
         /\ Cardinality(Newer(i, ids)) \in Nat
<1>1. Newer(i, ids) \subseteq ids
  BY DEF Newer
<1>. QED  BY <1>1, FS_Subset, FS_CardinalityType

\* A larger summary and a wider window fit all the more.
LEMMA FitsMore ==
  ASSUME NEW ids, IsFiniteSet(ids), NEW sum, NEW more, sum \subseteq more,
         NEW m \in Int, NEW n \in Int, m <= n, Fits(ids, sum, m)
  PROVE  Fits(ids, more, n)
<1> SUFFICES ASSUME NEW i \in ids \ more  PROVE  Cardinality(Newer(i, ids)) < n
  BY DEF Fits
<1>1. Cardinality(Newer(i, ids)) < m
  BY DEF Fits
<1>. QED  BY <1>1, NewerFacts

\* A message more pushes each message one place back.
LEMMA FitsAppend ==
  ASSUME NEW ids, IsFiniteSet(ids), NEW k \in Nat, \A j \in ids : j \in Nat /\ j < k,
         NEW sum, NEW n \in Nat, Fits(ids, sum, n)
  PROVE  Fits(ids \union {k}, sum, n + 1)
<1> DEFINE more == ids \union {k}
<1> SUFFICES ASSUME NEW i \in more \ sum  PROVE  Cardinality(Newer(i, more)) < n + 1
  BY DEF Fits
<1>1. CASE i = k
  <2>1. Newer(k, more) = {}
    BY DEF Newer
  <2>. QED  BY <2>1, <1>1, FS_EmptySet
<1>2. CASE i \in ids
  <2>1. Newer(i, more) = Newer(i, ids) \union {k}
    BY <1>2 DEF Newer
  <2>2. k \notin Newer(i, ids)
    BY DEF Newer
  <2>3. Cardinality(Newer(i, more)) = Cardinality(Newer(i, ids)) + 1
    BY <2>1, <2>2, NewerFacts, FS_AddElement
  <2>4. Cardinality(Newer(i, ids)) < n
    BY <1>2 DEF Fits
  <2>. QED  BY <2>3, <2>4, NewerFacts
<1>. QED  BY <1>1, <1>2

\* What was in the window is folded, or kept with room for two messages.
LEMMA CompressFits ==
  ASSUME NEW ids, IsFiniteSet(ids), ids \subseteq Nat, NEW sum, Fits(ids, sum, Window),
         NEW recent, recent = LastOf(Window, ids)
  PROVE  /\ ids \ (sum \union Folded(recent)) \subseteq Kept(recent)
         /\ Fits(ids, sum \union Folded(recent), Window - 2)
<1> USE PromptsAssumption DEF PromptsAssumption
<1>0. Window \in Nat /\ Keep \in Nat /\ Threshold \in Nat
  OBVIOUS
<1>1. recent \subseteq ids /\ IsFiniteSet(recent)
  <2>1. recent \subseteq ids
    BY DEF LastOf
  <2>. QED  BY <2>1, FS_Subset
<1>2. ASSUME NEW i \in ids \ (sum \union Folded(recent))
      PROVE  i \in Kept(recent) /\ i \in recent
  BY <1>2 DEF Fits, LastOf, Folded
<1>3. ASSUME NEW i \in recent  PROVE  Newer(i, ids) = Newer(i, recent)
  <2>1. ASSUME NEW j \in Newer(i, ids)  PROVE  j \in recent
    <3>1. Newer(j, ids) \subseteq Newer(i, ids)
      <4>1. i \in Nat /\ j \in Nat /\ i < j
        BY <1>1 DEF Newer
      <4>2. ASSUME NEW k \in ids, j < k  PROVE  i < k
        <5>1. k \in Nat
          OBVIOUS
        <5>. QED  BY <4>1, <4>2, <5>1
      <4>. QED  BY <4>2 DEF Newer
    <3>2. Cardinality(Newer(j, ids)) <= Cardinality(Newer(i, ids))
      BY <3>1, NewerFacts, FS_Subset
    <3>3. Cardinality(Newer(i, ids)) < Window
      BY DEF LastOf
    <3>4. Cardinality(Newer(j, ids)) < Window
      BY <3>2, <3>3, <1>0, NewerFacts
    <3>. QED  BY <3>4 DEF LastOf, Newer
  <2>. QED  BY <2>1, <1>1 DEF Newer
<1>4. ASSUME NEW i \in Kept(recent), i \in recent  PROVE  Cardinality(Newer(i, ids)) < Window - 2
  <2>0. Cardinality(Newer(i, ids)) = Cardinality(Newer(i, recent)) /\ Cardinality(Newer(i, recent)) \in Nat
    BY <1>1, <1>3, <1>4, NewerFacts
  <2>1. CASE Folds(recent)
    <3>1. Cardinality(Newer(i, recent)) < Keep
      BY <2>1, <1>4 DEF Kept, LastOf
    <3>. QED  BY <3>1, <2>0, <1>0
  <2>2. CASE ~Folds(recent)
    <3>1. Cardinality(recent) \in Nat /\ Cardinality(recent) <= Threshold
      BY <2>2, <1>0, <1>1, FS_CardinalityType DEF Folds
    <3>2. Newer(i, recent) \subseteq recent \ {i}
      <4>1. i \in Nat /\ ~(i < i)
        BY <1>1, <1>4
      <4>. QED  BY <4>1 DEF Newer
    <3>3. IsFiniteSet(recent \ {i}) /\ Cardinality(recent \ {i}) = Cardinality(recent) - 1
      BY <1>1, <1>4, FS_RemoveElement
    <3>4. Cardinality(Newer(i, recent)) <= Cardinality(recent \ {i})
      BY <3>2, <3>3, FS_Subset
    <3>. QED  BY <3>1, <3>3, <3>4, <2>0, <1>0
  <2>. QED  BY <2>1, <2>2
<1>. QED  BY <1>2, <1>4 DEF Fits

\* While requests do not overlap the others are at rest.
LEMMA OthersRest ==
  ASSUME PlanInv, SumInv, NEW w \in Workers, Active(w), ~overlapped
  PROVE  \A v \in Workers : v # w => build[v].step = "none"
BY DEF PlanInv, SumInv

\* A build goes on, or ends, without a new message.
LEMMA OneFit ==
  ASSUME PlanInv, SumInv, FitInv, NEW w \in Workers, Active(w),
         NEW b, build' = [build EXCEPT ![w] = b],
         log' = log, sessions' = sessions, overlapped' = overlapped,
         b.session \in 0..sessions, b.step \in {"question", "answer"} => b.session # NoSession,
         ~overlapped => summary \subseteq summary' /\ BuildFits(b, MessagesIn(log, b.session), summary')
  PROVE  FitInv'
<1>1. build'[w] = b /\ \A v \in Workers : v # w => build'[v] = build[v]
  BY DEF PlanInv
<1>2. /\ \A v \in Workers : build'[v].session \in 0..sessions
      /\ \A v \in Workers : build'[v].step \in {"question", "answer"} => build'[v].session # NoSession
  BY <1>1 DEF FitInv
<1>3. ASSUME ~overlapped, NEW s \in 1..sessions  PROVE  Fits(MessagesIn(log, s), summary', Window)
  <2>1. Window \in Int /\ IsFiniteSet(MessagesIn(log, s))
    BY MessagesFinite, PromptsAssumption DEF FitInv, PromptsAssumption
  <2>. QED  BY <1>3, <2>1, FitsMore DEF FitInv
<1>4. ASSUME ~overlapped, NEW v \in Workers
      PROVE  BuildFits(build'[v], MessagesIn(log, build'[v].session), summary')
  <2>1. CASE v = w
    BY <1>1, <1>4, <2>1
  <2>2. CASE v # w
    <3>1. build'[v].step = "none"
      BY <1>1, <1>4, <2>2, OthersRest
    <3>. QED  BY <3>1 DEF BuildFits
  <2>. QED  BY <2>1, <2>2
<1>. QED  BY <1>2, <1>3, <1>4 DEF FitInv

LEMMA AskFits ==
  ASSUME PlanInv, FitInv, NEW w \in Workers, NEW op, NEW s \in 0..sessions, Ask(w, op, s)
  PROVE  FitInv'
<1> DEFINE b == [NoBuild EXCEPT !.op = op, !.step = "memory", !.session = s, !.model = model[P(w)]]
<1>1. b.step = "memory" /\ b.session = s
  BY DEF NoBuild
<1>2. build' = [build EXCEPT ![w] = b] /\ log' = log /\ sessions' = sessions /\ summary' = summary
  BY DEF Ask, Set, rows
<1> HIDE DEF b
<1>3. build'[w] = b /\ \A v \in Workers : v # w => build'[v] = build[v]
  BY <1>2 DEF PlanInv
<1>4. ~overlapped' => ~overlapped /\ \A v \in Workers : build[v].step = "none"
  BY DEF Ask, PlanInv
<1>5. ~overlapped' => \A v \in Workers : build'[v].step \in {"none", "memory"}
  BY <1>1, <1>3, <1>4
<1>. QED  BY <1>1, <1>2, <1>3, <1>4, <1>5 DEF FitInv, BuildFits

LEMMA ReadFits ==
  ASSUME PlanInv, SumInv, FitInv, NEW w \in Workers, Prefetch(w) \/ GetSummary(w)
  PROVE  FitInv'
<1> DEFINE b == build'[w]
<1>1. Shaped(build[w]) /\ Active(w)
  BY DEF PlanInv, Prefetch, GetSummary, At
<1>2. /\ build' = [build EXCEPT ![w] = b]
      /\ log' = log /\ sessions' = sessions /\ summary' = summary /\ overlapped' = overlapped
  BY DEF PlanInv, Prefetch, GetSummary, Set, rows
<1>3. b.session = build[w].session /\ b.step \in {"summary", "recent"}
  <2>1. CASE Prefetch(w)
    BY <2>1, <1>1 DEF PlanInv, Prefetch, Set, Shaped
  <2>2. CASE GetSummary(w)
    BY <2>2, <1>1 DEF PlanInv, GetSummary, Set, Shaped
  <2>. QED  BY <2>1, <2>2
<1> HIDE DEF b
<1>4. BuildFits(b, MessagesIn(log, b.session), summary')
  BY <1>3 DEF BuildFits
<1>. QED  BY <1>1, <1>2, <1>3, <1>4, OneFit DEF FitInv

LEMMA ListFits ==
  ASSUME PlanInv, SumInv, FitInv, NEW w \in Workers, ListRecent(w)
  PROVE  FitInv'
<1> DEFINE b == build[w]
           recent == Recent(b.session)
           t == [b EXCEPT !.history = Kept(recent), !.folded = Folded(recent),
                          !.step = IF Folds(recent) THEN "persist" ELSE "plan"]
           ids == MessagesIn(log, b.session)
<1>1. Shaped(b) /\ Active(w) /\ At(w, "recent")
  BY DEF PlanInv, ListRecent, At
<1>2. /\ build' = [build EXCEPT ![w] = t]
      /\ log' = log /\ sessions' = sessions /\ summary' = summary /\ overlapped' = overlapped
  BY DEF ListRecent, Set, rows
<1>3. /\ t.session = b.session /\ t.stored = b.stored
      /\ t.history = Kept(recent) /\ t.folded = Folded(recent)
      /\ t.step \in {"persist", "plan"} /\ (t.step = "plan" => ~Folds(recent))
  BY <1>1 DEF Shaped
<1>4. recent = LastOf(Window, ids)
  BY MessagesAre DEF Recent
<1>5. ids \subseteq 1..Len(log) /\ IsFiniteSet(ids) /\ b.session \in 0..sessions
  BY MessagesFinite DEF FitInv
<1>6. ids \subseteq Nat
  BY <1>5
<1>7. ASSUME ~overlapped  PROVE  BuildFits(t, MessagesIn(log, t.session), summary')
  <2>1. b.stored = summary
    BY <1>1, <1>7 DEF SumInv, At
  <2>2. ~Folds(recent) => Folded(recent) = {}
    BY DEF Folded, Kept
  <2>3. ASSUME b.session # NoSession
        PROVE  /\ ids \ (summary \union Folded(recent)) \subseteq Kept(recent)
               /\ Fits(ids, summary \union Folded(recent), Window - 2)
    <3>1. b.session \in 1..sessions
      BY <1>5, <2>3 DEF FitInv, NoSession
    <3>2. Fits(ids, summary, Window)
      BY <1>7, <3>1 DEF FitInv
    <3> HIDE DEF ids, recent
    <3>. QED  BY <1>4, <1>5, <1>6, <3>2, CompressFits
  <2> HIDE DEF t, recent
  <2>. QED  BY <1>2, <1>3, <2>1, <2>2, <2>3 DEF BuildFits
<1> HIDE DEF t
<1>8. t.session \in 0..sessions /\ t.step \notin {"question", "answer"}
  BY <1>3, <1>5
<1>. QED  BY <1>1, <1>2, <1>7, <1>8, OneFit

LEMMA PersistFits ==
  ASSUME PlanInv, SumInv, FitInv, NEW w \in Workers, PersistSummary(w)
  PROVE  FitInv'
<1> DEFINE b == build[w]
           t == [b EXCEPT !.step = "plan"]
<1>1. Shaped(b) /\ Active(w) /\ b.step = "persist"
  BY DEF PlanInv, PersistSummary, At
<1>2. /\ build' = [build EXCEPT ![w] = t]
      /\ log' = log /\ sessions' = sessions /\ overlapped' = overlapped
  BY DEF PersistSummary, Set
<1>a. \/ summary' = b.stored \union b.folded
      \/ b.folded \subseteq b.stored /\ summary' = summary
  BY DEF PersistSummary
<1>3. /\ t.session = b.session /\ t.stored = b.stored /\ t.history = b.history
      /\ t.folded = b.folded /\ t.step = "plan"
  BY <1>1 DEF Shaped
<1>4. ASSUME ~overlapped
      PROVE  summary \subseteq summary' /\ BuildFits(t, MessagesIn(log, t.session), summary')
  <2>1. b.stored = summary
    BY <1>1, <1>4 DEF SumInv
  <2>2. summary' = b.stored \union b.folded
    BY <1>a, <2>1
  <2>3. BuildFits(b, MessagesIn(log, b.session), summary)
    BY <1>4 DEF FitInv
  <2> HIDE DEF t, b
  <2>. QED  BY <1>1, <1>3, <2>1, <2>2, <2>3 DEF BuildFits
<1>5. b.session \in 0..sessions
  BY DEF FitInv
<1> HIDE DEF t, b
<1>6. t.session \in 0..sessions /\ t.step \notin {"question", "answer"}
  BY <1>3, <1>5
<1>. QED  BY <1>1, <1>2, <1>4, <1>6, OneFit

LEMMA PlanFits ==
  ASSUME PlanInv, SumInv, FitInv, NEW w \in Workers, Plan(w)
  PROVE  FitInv'
<1> DEFINE b == build[w]
<1>1. Shaped(b) /\ Active(w) /\ b.step = "plan"
  BY DEF PlanInv, Plan, At
<1>2. PICK q : build' = [build EXCEPT ![w] = [b EXCEPT !.step = "served", !.plan = q]]
  BY DEF Plan, Set
<1>3. log' = log /\ sessions' = sessions /\ summary' = summary /\ overlapped' = overlapped
  BY DEF Plan, rows
<1> DEFINE t == [b EXCEPT !.step = "served", !.plan = q]
<1>4. /\ t.session = b.session /\ t.stored = b.stored /\ t.history = b.history
      /\ t.folded = b.folded /\ t.step = "served"
  BY <1>1 DEF Shaped
<1>5. ASSUME ~overlapped  PROVE  BuildFits(t, MessagesIn(log, t.session), summary')
  <2>1. BuildFits(b, MessagesIn(log, b.session), summary)
    BY <1>5 DEF FitInv
  <2> HIDE DEF t, b
  <2>. QED  BY <1>1, <1>3, <1>4, <2>1 DEF BuildFits
<1>6. b.session \in 0..sessions
  BY DEF FitInv
<1>7. build' = [build EXCEPT ![w] = t]
  BY <1>2
<1> HIDE DEF t, b
<1>8. t.session \in 0..sessions /\ t.step \notin {"question", "answer"}
  BY <1>4, <1>6
<1>. QED  BY <1>1, <1>3, <1>5, <1>7, <1>8, OneFit

LEMMA EndFits ==
  ASSUME PlanInv, SumInv, FitInv, NEW w \in Workers, ReadFails(w) \/ PersistFails(w) \/ Answered(w)
  PROVE  FitInv'
<1>1. Active(w)
  BY DEF PlanInv, ReadFails, PersistFails, Answered, At
<1>2. /\ build' = [build EXCEPT ![w] = NoBuild]
      /\ log' = log /\ sessions' = sessions /\ summary' = summary /\ overlapped' = overlapped
  BY DEF ReadFails, PersistFails, Answered, Set, rows
<1>3. NoBuild.session = 0 /\ NoBuild.step = "none" /\ 0 \in 0..sessions
  BY DEF NoBuild, NoSession, FitInv
<1>4. BuildFits(NoBuild, MessagesIn(log, NoBuild.session), summary')
  BY <1>3 DEF BuildFits
<1>. QED  BY <1>1, <1>2, <1>3, <1>4, OneFit

LEMMA EnterFits ==
  ASSUME PlanInv, SumInv, FitInv, NEW w \in Workers, EnterSession(w)
  PROVE  FitInv'
<1> USE PromptsAssumption DEF PromptsAssumption
<1> DEFINE b == build[w]
           entered(s) == [NoBuild EXCEPT !.op = "turn", !.step = "question", !.session = s]
<1>1. b.step = "served" /\ Active(w)
  BY DEF PlanInv, EnterSession, At
<1>2. \A s : entered(s).step = "question" /\ entered(s).session = s
  BY DEF NoBuild
<1>3. log' = log /\ summary' = summary /\ overlapped' = overlapped
  BY DEF EnterSession
<1>4. b.session \in 0..sessions /\ sessions \in Nat /\ log \in Seq(1..sessions) /\ Window - 2 \in Nat
  BY DEF FitInv
<1>5. CASE b.session # NoSession
  <2>1. sessions' = sessions /\ build' = [build EXCEPT ![w] = entered(b.session)]
    BY <1>5 DEF EnterSession, Set
  <2> DEFINE t == entered(b.session)
  <2>2. ASSUME ~overlapped  PROVE  BuildFits(t, MessagesIn(log, t.session), summary')
    <3>1. BuildFits(b, MessagesIn(log, b.session), summary)
      BY <2>2 DEF FitInv
    <3>2. IsFiniteSet(MessagesIn(log, b.session))
      BY <1>4, MessagesFinite
    <3>3. Fits(MessagesIn(log, b.session), summary, Window - 2)
      <4>1. /\ Fits(MessagesIn(log, b.session), b.stored \union b.folded, Window - 2)
            /\ b.stored \union b.folded \subseteq summary
        BY <3>1, <1>1, <1>5 DEF BuildFits
      <4>2. Window - 2 \in Int /\ Window - 2 <= Window - 2
        BY <1>4
      <4> HIDE DEF b
      <4>. QED  BY <3>2, <4>1, <4>2, FitsMore
    <3>4. t.step = "question" /\ t.session = b.session
      BY <1>2
    <3> HIDE DEF t, b
    <3>. QED  BY <3>3, <3>4, <1>3 DEF BuildFits
  <2>3. t.session = b.session
    BY <1>2
  <2> HIDE DEF t, b
  <2>. QED  BY <1>1, <1>3, <1>4, <1>5, <2>1, <2>2, <2>3, OneFit DEF t
<1>6. CASE b.session = NoSession
  <2> DEFINE new == sessions + 1
  <2>1. sessions' = new /\ build' = [build EXCEPT ![w] = entered(new)]
    BY <1>6 DEF EnterSession, Set
  <2>2. build'[w] = entered(new) /\ \A v \in Workers : v # w => build'[v] = build[v]
    BY <2>1 DEF PlanInv
  <2>3. entered(new).step = "question" /\ entered(new).session = new
    BY <1>2
  <2>4. new \in Nat /\ log \in Seq(1..new) /\ \A s \in 0..sessions : s \in 0..new
    <3>1. \A i \in 1..Len(log) : log[i] \in 1..sessions
      BY <1>4
    <3>2. 1..sessions \subseteq 1..new
      BY <1>4
    <3>. QED  BY <1>4, <3>1, <3>2
  <2>5. MessagesIn(log, new) = {}
    <3>1. \A i \in DOMAIN log : log[i] \in 1..sessions
      BY <1>4
    <3>2. new # NoSession /\ new \notin 1..sessions
      BY <1>4 DEF NoSession
    <3>. QED  BY <3>1, <3>2 DEF MessagesIn
  <2>6. \A n : Fits(MessagesIn(log, new), summary, n)
    BY <2>5 DEF Fits
  <2> HIDE DEF entered
  <2>7. /\ \A v \in Workers : build'[v].session \in 0..new
        /\ \A v \in Workers : build'[v].step \in {"question", "answer"} => build'[v].session # NoSession
    <3>1. new # NoSession /\ new \in 0..new
      BY <2>4, <1>4 DEF NoSession
    <3>2. ASSUME NEW v \in Workers, v # w
          PROVE  /\ build'[v].session \in 0..new
                 /\ build'[v].step \in {"question", "answer"} => build'[v].session # NoSession
      BY <2>2, <2>4, <3>2 DEF FitInv
    <3>. QED  BY <3>1, <3>2, <2>2, <2>3
  <2>8. ASSUME ~overlapped, NEW s \in 1..new  PROVE  Fits(MessagesIn(log, s), summary, Window)
    <3>1. s \in 1..sessions \/ s = new
      BY <1>4
    <3>. QED  BY <3>1, <2>6, <2>8 DEF FitInv
  <2>9. ASSUME ~overlapped, NEW v \in Workers
        PROVE  BuildFits(build'[v], MessagesIn(log, build'[v].session), summary)
    <3>1. CASE v = w
      BY <3>1, <2>2, <2>3, <2>6 DEF BuildFits
    <3>2. CASE v # w
      <4>1. build'[v].step = "none"
        BY <3>2, <2>2, <2>9, <1>1, OthersRest
      <4>. QED  BY <4>1 DEF BuildFits
    <3>. QED  BY <3>1, <3>2
  <2>. QED  BY <1>3, <2>1, <2>4, <2>7, <2>8, <2>9 DEF FitInv
<1>. QED  BY <1>5, <1>6

LEMMA AddFits ==
  ASSUME PlanInv, SumInv, FitInv, NEW w \in Workers, AddMessage(w)
  PROVE  FitInv'
<1> USE PromptsAssumption DEF PromptsAssumption
<1> DEFINE b == build[w]
           s == b.session
           k == Len(log) + 1
           t == IF b.step = "question" THEN [b EXCEPT !.step = "answer"] ELSE NoBuild
           n == IF b.step = "question" THEN Window - 2 ELSE Window - 1
<1>1. Shaped(b) /\ Active(w) /\ b.step \in {"question", "answer"}
  BY DEF PlanInv, AddMessage
<1>2. /\ log' = Append(log, s) /\ build' = [build EXCEPT ![w] = t]
      /\ sessions' = sessions /\ summary' = summary /\ overlapped' = overlapped
  BY DEF AddMessage, Set
<1>3. /\ b.step = "question" => t.step = "answer" /\ t.session = s
      /\ b.step = "answer" => t.step = "none" /\ t.session = 0
  BY <1>1, NoBuildFacts DEF Shaped, NoBuild, NoSession
<1>4. s \in 1..sessions /\ sessions \in Nat /\ log \in Seq(1..sessions)
  BY <1>1 DEF FitInv, NoSession
<1>5. n \in Nat /\ n + 1 <= Window
  OBVIOUS
<1>6. log' \in Seq(1..sessions)
  BY <1>2, <1>4
<1>7. k \in Nat /\ k \notin DOMAIN log /\ DOMAIN log' = DOMAIN log \union {k}
      /\ log'[k] = s /\ \A i \in DOMAIN log : log'[i] = log[i]
  BY <1>2, <1>4
<1> HIDE DEF t, n, k, s, b
<1>8. MessagesIn(log', s) = MessagesIn(log, s) \union {k}
  BY <1>7 DEF MessagesIn
<1>9. ASSUME NEW q \in 1..sessions, q # s  PROVE  MessagesIn(log', q) = MessagesIn(log, q)
  BY <1>4, <1>7, <1>9 DEF MessagesIn, NoSession
<1>10. ASSUME ~overlapped  PROVE  Fits(MessagesIn(log', s), summary, n + 1)
  <2>1. BuildFits(b, MessagesIn(log, s), summary)
    BY <1>10 DEF FitInv, b, s
  <2>2. Fits(MessagesIn(log, s), summary, n)
    BY <2>1, <1>1 DEF BuildFits, n
  <2>3. MessagesIn(log, s) \subseteq 1..Len(log) /\ Len(log) \in Nat /\ IsFiniteSet(MessagesIn(log, s))
    BY <1>4, MessagesFinite
  <2>4. \A j \in MessagesIn(log, s) : j \in Nat /\ j < k
    BY <2>3 DEF k
  <2>. QED  BY <1>5, <1>7, <1>8, <2>2, <2>3, <2>4, FitsAppend
<1>11. build'[w] = t /\ \A v \in Workers : v # w => build'[v] = build[v]
  BY <1>2 DEF PlanInv
<1>12. /\ \A v \in Workers : build'[v].session \in 0..sessions
       /\ \A v \in Workers : build'[v].step \in {"question", "answer"} => build'[v].session # NoSession
  <2>1. t.session \in 0..sessions /\ (t.step \in {"question", "answer"} => t.session # NoSession)
    BY <1>1, <1>3, <1>4 DEF NoSession
  <2>. QED  BY <1>11, <2>1 DEF FitInv
<1>13. ASSUME ~overlapped, NEW q \in 1..sessions  PROVE  Fits(MessagesIn(log', q), summary, Window)
  <2>1. CASE q # s
    BY <2>1, <1>9, <1>13 DEF FitInv
  <2>2. CASE q = s
    <3>1. IsFiniteSet(MessagesIn(log', s))
      BY <1>6, MessagesFinite
    <3>2. n + 1 \in Int /\ Window \in Int
      BY <1>5
    <3>. QED  BY <2>2, <3>1, <3>2, <1>5, <1>10, <1>13, FitsMore
  <2>. QED  BY <2>1, <2>2
<1>14. ASSUME ~overlapped, NEW v \in Workers
       PROVE  BuildFits(build'[v], MessagesIn(log', build'[v].session), summary)
  <2>1. CASE v # w
    <3>1. build'[v].step = "none"
      BY <2>1, <1>1, <1>11, <1>14, OthersRest
    <3>. QED  BY <3>1 DEF BuildFits
  <2>2. CASE v = w /\ b.step = "question"
    <3>1. t.step = "answer" /\ t.session = s /\ n + 1 = Window - 1
      BY <2>2, <1>3 DEF n
    <3>2. Fits(MessagesIn(log', s), summary, Window - 1)
      BY <3>1, <1>10, <1>14
    <3>. QED  BY <2>2, <3>1, <3>2, <1>11 DEF BuildFits
  <2>3. CASE v = w /\ b.step = "answer"
    BY <2>3, <1>3, <1>11 DEF BuildFits
  <2>. QED  BY <2>1, <2>2, <2>3, <1>1
<1>. QED  BY <1>2, <1>4, <1>6, <1>12, <1>13, <1>14 DEF FitInv

LEMMA FitStep == PlanInv /\ SumInv /\ FitInv /\ [Next]_vars => FitInv'
<1> SUFFICES ASSUME PlanInv, SumInv, FitInv, [Next]_vars  PROVE FitInv'
  OBVIOUS
<1>1. CASE UNCHANGED <<build, overlapped, rows>>
  <2>1. /\ build' = build /\ overlapped' = overlapped /\ summary' = summary
        /\ log' = log /\ sessions' = sessions
    BY <1>1 DEF rows
  <2>. QED  BY <2>1 DEF FitInv
<1>2. ASSUME NEW p \in Procs, Crash(p)  PROVE FitInv'
  <2>1. /\ \A v \in Workers : build'[v] = build[v] \/ build'[v] = NoBuild
        /\ log' = log /\ sessions' = sessions /\ summary' = summary /\ overlapped' = overlapped
    BY <1>2 DEF Crash, rows
  <2>2. NoBuild.session = 0 /\ NoBuild.step = "none" /\ 0 \in 0..sessions
    BY DEF NoBuild, NoSession, FitInv
  <2>3. \A ids, sum : BuildFits(NoBuild, ids, sum)
    BY <2>2 DEF BuildFits
  <2>. QED  BY <2>1, <2>2, <2>3 DEF FitInv
<1>3. ASSUME NEW w \in Workers, Step(w)  PROVE FitInv'
  BY <1>3, ReadFits, ListFits, EndFits, PersistFits, PlanFits, EnterFits, AddFits DEF Step
<1>4. ASSUME NEW w \in Workers, NEW op \in {"turn", "inspect"}, NEW s \in 0..sessions, Ask(w, op, s)
      PROVE  FitInv'
  BY <1>4, AskFits
<1>5. ASSUME (\E m \in Writers : WriteNotes(m)) \/ \E p \in Procs : Forget(p) \/ \E m \in Models : Switch(p, m)
      PROVE  UNCHANGED <<build, overlapped, rows>>
  BY <1>5 DEF WriteNotes, Forget, Switch
<1>. QED  BY <1>1, <1>2, <1>3, <1>4, <1>5 DEF Next, vars

\* What no longer fits into the window of a session has been folded into the
\* summary its plan shows, for any number of sessions, turns and processes, and
\* any window that leaves room for a turn (builder.go:75, compressor.go:33).
THEOREM NothingEverForgotten == Spec => []NothingForgotten
<1>1. Init => SumInv
  BY NoBuildFacts DEF Init, SumInv, Active
<1>2. Init => FitInv
  <2> SUFFICES ASSUME Init  PROVE FitInv
    OBVIOUS
  <2>1. sessions = 0 /\ log = << >> /\ \A w \in Workers : build[w] = NoBuild
    BY DEF Init
  <2>2. NoBuild.session = 0 /\ NoBuild.step = "none"
    BY DEF NoBuild, NoSession
  <2>3. log \in Seq(1..sessions) /\ sessions \in Nat /\ 1..sessions = {}
    BY <2>1
  <2>. QED  BY <2>1, <2>2, <2>3 DEF FitInv, BuildFits
<1>3. PlanInv /\ FitInv => NothingForgotten
  <2> SUFFICES ASSUME PlanInv, FitInv, NEW w \in Workers,
                      Served(w), build[w].session # NoSession, ~overlapped
               PROVE  Messages(build[w].session) \subseteq build[w].history \union build[w].plan.summary
    BY DEF NothingForgotten
  <2>1. build[w].plan = Assembled(build[w])
    BY DEF PlanInv
  <2>2. build[w].plan.summary = build[w].stored \union build[w].folded
    BY <2>1 DEF Assembled
  <2>3. BuildFits(build[w], MessagesIn(log, build[w].session), summary)
    BY DEF FitInv
  <2>. QED  BY <2>2, <2>3, MessagesAre DEF BuildFits, Served
<1>. QED  BY <1>1, <1>2, <1>3, SumStep, FitStep, PlanInvariance, PTL DEF Spec

=============================================================================
