--------------------------- MODULE SessionsProofs ---------------------------
(***************************************************************************)
(* Proofs about Sessions, for any number of consoles, turns and sessions.  *)
(*                                                                         *)
(* What a console may do is settled by what it knows (Seat), and what a    *)
(* session of one console holds by the call that writes to it (View).  A   *)
(* step of one console leaves what the others know alone, and writes only  *)
(* to a session it has visited: so a session nobody else has visited       *)
(* changes by the steps of its own console, one call after the other.      *)
(***************************************************************************)
EXTENDS Sessions, NaturalsInduction, WellFoundedInduction, TLAPS

-----------------------------------------------------------------------------
(* The inductive invariant.                                                *)

\* Nobody but one console has ever used a session.
Private(users) == \A c, d \in users : c = d

\* Every answer directly follows its question.
Paired(log) ==
  \A k \in DOMAIN log : log[k].role = "assistant" =>
    k > 1 /\ log[k - 1] = [role |-> "user", turn |-> log[k].turn]

Writing(c, s) == pc[c] \in {"user", "assistant"} /\ job[c].session = s

\* What a console knows agrees with the session it works in, with the call it
\* is in and with who created the session.
Seat(c) ==
  /\ \A k \in DOMAIN turns[c] :
       turns[c][k].session = active[c] /\ turns[c][k].managed = owned[c]
  /\ active[c] = None => turns[c] = << >>
  /\ active[c] # None => c \in visitors[active[c]]
  /\ owned[c] => active[c] # None /\ creator[active[c]] = c
  /\ job[c].session <= created
  /\ pc[c] = "idle" => job[c].session = None /\ job[c].kind = "none"
  /\ pc[c] # "idle" => job[c].kind # "none" /\ job[c].turn # 0
  /\ pc[c] \in {"user", "assistant"} => job[c].session # None
  /\ job[c].session # None => c \in visitors[job[c].session]
  /\ pc[c] # "idle" /\ active[c] # None => job[c].session = active[c]
  /\ pc[c] = "asking" /\ active[c] = None => job[c].session = None
  /\ job[c].kind = "retry" => owned[c]
  /\ active[c] = None /\ job[c].session # None => creator[job[c].session] = c

\* What a session that only c has used holds, whatever call c is in.
View(s, c) ==
  /\ Paired(rows[s])
  /\ pc[c] = "assistant" /\ job[c].session = s =>
       rows[s] # << >> /\ rows[s][Len(rows[s])] = [role |-> "user", turn |-> job[c].turn]
  /\ Writing(c, s) => answer[s] = job[c].turn
  /\ ~Writing(c, s) => answer[s] = LastAnswer(rows[s]) \/ answer[s] \in failed
  /\ active[c] = s => Recalls(turns[c], rows[s], owned[c])
  /\ active[c] = None /\ job[c].session = s => Given(rows[s]) = {}

\* A session is empty until it is created, and then used by somebody.
Opened ==
  /\ \A s \in Ids : s > created => rows[s] = << >> /\ visitors[s] = {}
  /\ \A s \in 1..created : visitors[s] # {}

Views ==
  \A s \in 1..created : Private(visitors[s]) => \A c \in visitors[s] : View(s, c)

SessionsInv ==
  /\ TypeOK
  /\ \A c \in Consoles : Seat(c)
  /\ Opened
  /\ Views

-----------------------------------------------------------------------------
(* Lemmas about logs.                                                      *)

\* Where the answers of a log are.
LEMMA GivenFacts ==
  ASSUME NEW log \in Seq(MessageRows)
  PROVE  /\ Given(log) \subseteq 1..Len(log)
         /\ \A k \in 1..Len(log) : k \in Given(log) <=> log[k].role = "assistant"
         /\ \A k \in Given(log) : log[k].turn \in 1..MaxTurns
<1>1. DOMAIN log = 1..Len(log) /\ \A k \in 1..Len(log) : log[k] \in MessageRows
  OBVIOUS
<1>2. \A row \in MessageRows : row.turn \in 1..MaxTurns
  BY DEF MessageRows
<1>. QED  BY <1>1, <1>2 DEF Given

\* A new row is an answer or leaves the answers as they are.
LEMMA GivenAppend ==
  ASSUME NEW log \in Seq(MessageRows), NEW row \in MessageRows
  PROVE  /\ row.role = "user" => Given(Append(log, row)) = Given(log)
         /\ row.role = "assistant" => Given(Append(log, row)) = Given(log) \union {Len(log) + 1}
         /\ \A k \in Given(log) : Append(log, row)[k] = log[k]
<1> DEFINE longer == Append(log, row)
<1>1. /\ longer \in Seq(MessageRows) /\ Len(longer) = Len(log) + 1 /\ Len(log) \in Nat
      /\ longer[Len(log) + 1] = row
      /\ \A k \in 1..Len(log) : longer[k] = log[k]
  OBVIOUS
<1> HIDE DEF longer
<1>2. /\ Given(log) \subseteq 1..Len(log) /\ Given(longer) \subseteq 1..Len(longer)
      /\ \A k \in 1..Len(log) : k \in Given(log) <=> log[k].role = "assistant"
      /\ \A k \in 1..Len(longer) : k \in Given(longer) <=> longer[k].role = "assistant"
  BY <1>1, GivenFacts
<1>3. ASSUME row.role = "user"  PROVE  Given(longer) = Given(log)
  <2>1. Len(log) + 1 \notin Given(longer)
    BY <1>1, <1>2, <1>3
  <2>2. ASSUME NEW k \in 1..(Len(log) + 1)  PROVE  k \in Given(longer) <=> k \in Given(log)
    <3>1. CASE k \in 1..Len(log)
      BY <3>1, <1>1, <1>2
    <3>2. CASE k = Len(log) + 1
      BY <3>2, <2>1, <1>1, <1>2
    <3>. QED  BY <3>1, <3>2, <1>1
  <2>3. Given(longer) \subseteq 1..(Len(log) + 1)
    BY <1>1, <1>2
  <2>4. Given(log) \subseteq 1..(Len(log) + 1)
    BY <1>1, <1>2
  <2>. QED  BY <2>2, <2>3, <2>4
<1>4. ASSUME row.role = "assistant"  PROVE  Given(longer) = Given(log) \union {Len(log) + 1}
  BY <1>1, <1>2, <1>4
<1>5. \A k \in Given(log) : longer[k] = log[k]
  BY <1>1, <1>2
<1>. QED  BY <1>3, <1>4, <1>5 DEF longer

\* Without its last turn a log has lost its last answer.
LEMMA GivenCut ==
  ASSUME NEW log \in Seq(MessageRows), Len(log) >= 2,
         log[Len(log)].role = "assistant", log[Len(log) - 1].role = "user"
  PROVE  /\ SubSeq(log, 1, Len(log) - 2) \in Seq(MessageRows)
         /\ Given(SubSeq(log, 1, Len(log) - 2)) = Given(log) \ {Len(log)}
         /\ Len(log) \in Given(log)
         /\ \A k \in 1..Len(log) - 2 : SubSeq(log, 1, Len(log) - 2)[k] = log[k]
         /\ Len(SubSeq(log, 1, Len(log) - 2)) = Len(log) - 2
<1> DEFINE m == Len(log) - 2
           shorter == SubSeq(log, 1, m)
<1>1. m \in Nat /\ Len(log) = m + 2
  OBVIOUS
<1>a. log[m + 2].role = "assistant" /\ log[m + 1].role = "user"
  BY <1>1
<1> HIDE DEF m
<1>2. /\ shorter \in Seq(MessageRows) /\ Len(shorter) = m
      /\ \A k \in 1..m : shorter[k] = log[k]
  BY <1>1
<1> HIDE DEF shorter
<1>3. /\ Given(log) \subseteq 1..Len(log) /\ Given(shorter) \subseteq 1..Len(shorter)
      /\ \A k \in 1..Len(log) : k \in Given(log) <=> log[k].role = "assistant"
      /\ \A k \in 1..Len(shorter) : k \in Given(shorter) <=> shorter[k].role = "assistant"
  BY <1>2, GivenFacts
<1>4. m + 1 \notin Given(log) /\ m + 2 \in Given(log)
  BY <1>1, <1>a, <1>3
<1>5. ASSUME NEW k  PROVE  k \in Given(shorter) <=> k \in Given(log) \ {m + 2}
  <2>1. CASE k \in 1..m
    BY <2>1, <1>1, <1>2, <1>3
  <2>2. CASE k \notin 1..m
    <3>1. k \notin Given(shorter)
      BY <2>2, <1>2, <1>3
    <3>2. ASSUME k \in Given(log)  PROVE  k = m + 2
      <4>1. k \in 1..(m + 2)
        BY <3>2, <1>1, <1>3
      <4>2. k # m + 1
        BY <3>2, <1>4
      <4>. QED  BY <4>1, <4>2, <2>2, <1>1
    <3>. QED  BY <3>1, <3>2
  <2>. QED  BY <2>1, <2>2
<1>6. Given(shorter) = Given(log) \ {m + 2}
  BY <1>5
<1>. QED  BY <1>1, <1>2, <1>4, <1>6 DEF shorter, m

\* An appended answer is the last one.
LEMMA LastAnswerAppend ==
  ASSUME NEW log \in Seq(MessageRows), NEW row \in MessageRows, row.role = "assistant"
  PROVE  LastAnswer(Append(log, row)) = row.turn
<1> DEFINE longer == Append(log, row)
           n == Len(log) + 1
<1>1. /\ longer[n] = row /\ n \in Nat /\ Given(log) \subseteq 1..Len(log)
  BY GivenFacts
<1>2. Given(longer) = Given(log) \union {n}
  BY GivenAppend
<1>3. \A k \in Given(log) : k \in Nat /\ k < n
  BY <1>1
<1> HIDE DEF longer, n
<1>4. Max(Given(longer)) = n
  <2>1. \A k \in Given(longer) : k \in Nat /\ n >= k
    BY <1>1, <1>2, <1>3
  <2>2. \A x \in Given(longer) : (\A y \in Given(longer) : x >= y) => x = n
    BY <2>1, <1>2, <1>1
  <2>. QED  BY <2>1, <2>2, <1>2 DEF Max
<1>. QED  BY <1>1, <1>2, <1>4 DEF LastAnswer, longer

\* A log shows the turn of one of its answers, or none.
LEMMA LastAnswerType ==
  ASSUME NEW log \in Seq(MessageRows)
  PROVE  LastAnswer(log) \in 0..MaxTurns
<1> USE SessionsAssumption
<1>1. CASE Given(log) = {}
  BY <1>1 DEF LastAnswer
<1>2. CASE Given(log) # {}
  <2>1. PICK top \in Given(log) : \A k \in Given(log) : top >= k
    <3> DEFINE R == {ss \in Nat \X Nat : ss[1] < ss[2]}
               n == Len(log)
               Distances == {n - k : k \in Given(log)}
    <3>1. n \in Nat /\ Given(log) \subseteq 1..n
      BY GivenFacts
    <3>2. Distances \subseteq Nat /\ Distances # {}
      BY <3>1, <1>2
    <3>3. IsWellFoundedOn(R, Nat)
      BY NatLessThanWellFounded DEF OpToRel
    <3>4. PICK least \in Distances : \A d \in Distances : <<d, least>> \notin R
      <4> HIDE DEF R, Distances
      <4>. QED  BY <3>2, <3>3, WFMin
    <3>5. PICK top \in Given(log) : least = n - top
      BY <3>4
    <3>6. ASSUME NEW k \in Given(log)  PROVE  top >= k
      <4>1. n - k \in Distances /\ n - k \in Nat /\ least \in Nat
        BY <3>1, <3>2, <3>4
      <4>2. ~(n - k < least)
        BY <4>1, <3>4
      <4>3. n \in Nat /\ k \in Nat /\ top \in Nat
        BY <3>1, <3>5
      <4> HIDE DEF n
      <4>. QED  BY <4>2, <4>3, <3>5
    <3>. QED  BY <3>6
  <2>2. Max(Given(log)) \in Given(log)
    BY <2>1 DEF Max
  <2>. QED  BY <2>2, <1>2, GivenFacts DEF LastAnswer
<1>. QED  BY <1>1, <1>2

\* A log that gets answers only behind their questions keeps them there.
LEMMA PairedAppend ==
  ASSUME NEW log \in Seq(MessageRows), NEW row \in MessageRows, Paired(log),
         row.role = "assistant" =>
           log # << >> /\ log[Len(log)] = [role |-> "user", turn |-> row.turn]
  PROVE  Paired(Append(log, row))
<1> DEFINE longer == Append(log, row)
<1>1. /\ longer \in Seq(MessageRows) /\ Len(longer) = Len(log) + 1 /\ Len(log) \in Nat
      /\ longer[Len(log) + 1] = row
      /\ \A k \in 1..Len(log) : longer[k] = log[k]
  OBVIOUS
<1>2. DOMAIN longer = 1..(Len(log) + 1) /\ DOMAIN log = 1..Len(log)
  BY <1>1
<1> HIDE DEF longer
<1>3. ASSUME NEW k \in DOMAIN longer, longer[k].role = "assistant"
      PROVE  k > 1 /\ longer[k - 1] = [role |-> "user", turn |-> longer[k].turn]
  <2>1. CASE k \in 1..Len(log)
    BY <2>1, <1>1, <1>2, <1>3 DEF Paired
  <2>2. CASE k = Len(log) + 1
    <3>1. Len(log) > 0 /\ log[Len(log)] = [role |-> "user", turn |-> row.turn]
      BY <2>2, <1>1, <1>3
    <3>. QED  BY <3>1, <2>2, <1>1
  <2>. QED  BY <2>1, <2>2, <1>1, <1>2
<1>. QED  BY <1>3 DEF Paired, longer

\* So does every beginning of it.
LEMMA PairedCut ==
  ASSUME NEW log \in Seq(MessageRows), NEW m \in 0..Len(log), Paired(log)
  PROVE  Paired(SubSeq(log, 1, m))
<1> DEFINE shorter == SubSeq(log, 1, m)
<1>1. DOMAIN shorter = 1..m /\ \A k \in 1..m : shorter[k] = log[k]
  OBVIOUS
<1>2. 1..m \subseteq DOMAIN log
  OBVIOUS
<1> HIDE DEF shorter
<1>. QED  BY <1>1, <1>2 DEF Paired, shorter

-----------------------------------------------------------------------------
(* Lemmas about what a console remembers of a log.                         *)

\* A correspondence of remembered turns with the answers of a log.
Matches(f, seen, log, all) ==
  /\ f \in [DOMAIN seen -> Given(log)]
  /\ \A j, k \in DOMAIN seen : j < k => f[j] < f[k]
  /\ \A k \in DOMAIN seen : log[f[k]].turn = seen[k].turn
  /\ \A g \in Given(log) :
       (\E k \in DOMAIN seen : f[k] = g) \/ (~all /\ \A k \in DOMAIN seen : g < f[k])

LEMMA RecallsMatches ==
  ASSUME NEW seen, NEW log, NEW all
  PROVE  Recalls(seen, log, all) <=> \E f : Matches(f, seen, log, all)
<1>1. ASSUME NEW f \in [DOMAIN seen -> Given(log)], NEW g
      PROVE  g \in Range(f) <=> \E k \in DOMAIN seen : f[k] = g
  BY DEF Range
<1>. QED  BY <1>1 DEF Recalls, Matches

\* Nothing is remembered: of a log without answers, or of one that is not the
\* console's own.
LEMMA RecallsNothing ==
  ASSUME NEW log, NEW all \in BOOLEAN, all => Given(log) = {}
  PROVE  Recalls(<< >>, log, all)
<1> DEFINE f == [k \in DOMAIN << >> |-> 1]
<1>1. DOMAIN << >> = {}
  OBVIOUS
<1>2. f \in [DOMAIN << >> -> Given(log)]
  BY <1>1
<1> HIDE DEF f
<1>3. Matches(f, << >>, log, all)
  BY <1>1, <1>2 DEF Matches
<1>. QED  BY <1>3, RecallsMatches

\* A question alone changes nothing.
LEMMA RecallsQuestion ==
  ASSUME NEW log \in Seq(MessageRows), NEW row \in MessageRows, row.role = "user",
         NEW seen \in Seq(Remembered), NEW all \in BOOLEAN, Recalls(seen, log, all)
  PROVE  Recalls(seen, Append(log, row), all)
<1>1. PICK f : Matches(f, seen, log, all)
  BY RecallsMatches
<1>2. /\ Given(Append(log, row)) = Given(log)
      /\ \A k \in Given(log) : Append(log, row)[k] = log[k]
  BY GivenAppend
<1>3. Matches(f, seen, Append(log, row), all)
  <2>1. \A k \in DOMAIN seen : f[k] \in Given(log)
    BY <1>1 DEF Matches
  <2>2. \A k \in DOMAIN seen : Append(log, row)[f[k]] = log[f[k]]
    BY <2>1, <1>2
  <2>. QED  BY <1>1, <1>2, <2>2 DEF Matches
<1>. QED  BY <1>3, RecallsMatches

\* An answer and its memory are appended together.
LEMMA RecallsAnswer ==
  ASSUME NEW log \in Seq(MessageRows), NEW row \in MessageRows, row.role = "assistant",
         NEW seen \in Seq(Remembered), NEW memory \in Remembered, memory.turn = row.turn,
         NEW all \in BOOLEAN, Recalls(seen, log, all)
  PROVE  Recalls(Append(seen, memory), Append(log, row), all)
<1> DEFINE n == Len(seen)
           longer == Append(log, row)
           more == Append(seen, memory)
           new == Len(log) + 1
<1>1. PICK f : Matches(f, seen, log, all)
  BY RecallsMatches
<1>2. /\ n \in Nat /\ DOMAIN seen = 1..n /\ DOMAIN more = 1..(n + 1)
      /\ more[n + 1] = memory /\ \A k \in 1..n : more[k] = seen[k]
  OBVIOUS
<1>3. /\ Given(longer) = Given(log) \union {new}
      /\ \A k \in Given(log) : longer[k] = log[k]
      /\ longer[new] = row /\ new \in Nat
      /\ \A k \in Given(log) : k \in Nat /\ k < new
  <2>1. Given(log) \subseteq 1..Len(log)
    BY GivenFacts
  <2>2. longer[new] = row /\ new \in Nat
    OBVIOUS
  <2>. QED  BY <2>1, <2>2, GivenAppend
<1> HIDE DEF n, longer, more, new
<1> DEFINE h == [k \in 1..(n + 1) |-> IF k = n + 1 THEN new ELSE f[k]]
<1>4. \A k \in 1..n : f[k] \in Given(log) /\ h[k] = f[k] /\ k \in 1..(n + 1)
  BY <1>1, <1>2 DEF Matches
<1>5. h[n + 1] = new /\ n + 1 \in 1..(n + 1)
  BY <1>2
<1>6. \A k \in 1..(n + 1) : k \in 1..n \/ k = n + 1
  BY <1>2
<1>a. h \in [1..(n + 1) -> Given(longer)]
  BY <1>3, <1>4, <1>6
<1> HIDE DEF h
<1>7. ASSUME NEW j \in 1..(n + 1), NEW k \in 1..(n + 1), j < k  PROVE  h[j] < h[k]
  <2>1. j \in 1..n
    BY <1>2, <1>7
  <2>2. CASE k \in 1..n
    BY <2>1, <2>2, <1>1, <1>2, <1>4, <1>7 DEF Matches
  <2>3. CASE k = n + 1
    BY <2>1, <2>3, <1>3, <1>4, <1>5
  <2>. QED  BY <2>2, <2>3, <1>6
<1>8. ASSUME NEW k \in 1..(n + 1)  PROVE  longer[h[k]].turn = more[k].turn
  <2>1. CASE k \in 1..n
    BY <2>1, <1>1, <1>2, <1>3, <1>4 DEF Matches
  <2>2. CASE k = n + 1
    BY <2>2, <1>2, <1>3, <1>5
  <2>. QED  BY <2>1, <2>2, <1>6
<1>9. ASSUME NEW g \in Given(longer)
      PROVE  (\E k \in 1..(n + 1) : h[k] = g) \/ (~all /\ \A k \in 1..(n + 1) : g < h[k])
  <2>1. CASE g = new
    BY <2>1, <1>5
  <2>2. CASE g \in Given(log)
    <3>1. CASE \E k \in 1..n : f[k] = g
      BY <3>1, <1>4
    <3>2. CASE ~all /\ \A k \in 1..n : g < f[k]
      BY <3>2, <2>2, <1>3, <1>4, <1>5, <1>6
    <3>. QED  BY <3>1, <3>2, <2>2, <1>1, <1>2 DEF Matches
  <2>. QED  BY <2>1, <2>2, <1>3
<1>10. Matches(h, more, longer, all)
  BY <1>2, <1>a, <1>7, <1>8, <1>9 DEF Matches
<1>. QED  BY <1>10, RecallsMatches DEF longer, more

\* The last turn is deleted and forgotten together.
LEMMA RecallsCut ==
  ASSUME NEW log \in Seq(MessageRows), Len(log) >= 2,
         log[Len(log)].role = "assistant", log[Len(log) - 1].role = "user",
         NEW seen \in Seq(Remembered), seen # << >>,
         NEW all \in BOOLEAN, Recalls(seen, log, all)
  PROVE  Recalls(Front(seen), SubSeq(log, 1, Len(log) - 2), all)
<1> DEFINE n == Len(seen) - 1
           fewer == Front(seen)
           last == Len(log)
           shorter == SubSeq(log, 1, last - 2)
<1>1. PICK f : Matches(f, seen, log, all)
  BY RecallsMatches
<1>2. n \in Nat /\ Len(seen) = n + 1 /\ DOMAIN seen = 1..(n + 1)
  OBVIOUS
<1>a. fewer = SubSeq(seen, 1, n)
  BY DEF Front
<1>3. DOMAIN fewer = 1..n /\ \A k \in 1..n : fewer[k] = seen[k]
  <2> HIDE DEF n
  <2>. QED  BY <1>2, <1>a
<1>4. Given(log) \subseteq 1..last /\ last \in Nat
  BY GivenFacts
<1>5. /\ Given(shorter) = Given(log) \ {last} /\ last \in Given(log)
      /\ \A k \in 1..last - 2 : shorter[k] = log[k]
      /\ Len(shorter) = last - 2 /\ shorter \in Seq(MessageRows)
  BY GivenCut
<1>6. Given(shorter) \subseteq 1..last - 2
  BY <1>5, GivenFacts
<1> HIDE DEF n, fewer, last, shorter
<1>7. \A k \in 1..(n + 1) : f[k] \in Given(log) /\ f[k] \in Nat /\ f[k] <= last
  BY <1>1, <1>2, <1>4 DEF Matches
<1>8. PICK k \in 1..(n + 1) : f[k] = last
  <2>1. n + 1 \in DOMAIN seen /\ ~(last < f[n + 1])
    BY <1>2, <1>4, <1>7
  <2>. QED  BY <2>1, <1>1, <1>2, <1>5 DEF Matches
<1>9. k = n + 1
  <2>1. SUFFICES ASSUME k < n + 1 PROVE FALSE
    BY <1>2
  <2>0. k \in DOMAIN seen /\ n + 1 \in DOMAIN seen
    BY <1>2
  <2>2. f[k] < f[n + 1]
    BY <2>0, <2>1, <1>1 DEF Matches
  <2>. QED  BY <2>2, <1>2, <1>4, <1>7, <1>8
<1> DEFINE h == [i \in 1..n |-> f[i]]
<1>10. ASSUME NEW i \in 1..n
       PROVE  f[i] \in Given(shorter) /\ h[i] = f[i] /\ i \in 1..(n + 1)
  <2>1. i \in DOMAIN seen /\ n + 1 \in DOMAIN seen /\ i < n + 1
    BY <1>2
  <2>2. f[i] < f[n + 1]
    BY <2>1, <1>1 DEF Matches
  <2>3. f[i] # last
    BY <2>1, <2>2, <1>2, <1>4, <1>7, <1>8, <1>9
  <2>. QED  BY <2>1, <2>3, <1>2, <1>5, <1>7
<1>11. h \in [1..n -> Given(shorter)]
  BY <1>10
<1> HIDE DEF h
<1>12. ASSUME NEW i \in 1..n, NEW j \in 1..n, i < j  PROVE  h[i] < h[j]
  BY <1>1, <1>2, <1>10, <1>12 DEF Matches
<1>13. ASSUME NEW i \in 1..n  PROVE  shorter[h[i]].turn = fewer[i].turn
  <2>1. h[i] = f[i] /\ f[i] \in 1..last - 2
    BY <1>6, <1>10
  <2>2. log[f[i]].turn = seen[i].turn
    BY <1>1, <1>2, <1>10 DEF Matches
  <2>. QED  BY <2>1, <2>2, <1>3, <1>5
<1>14. ASSUME NEW g \in Given(shorter)
       PROVE  (\E i \in 1..n : h[i] = g) \/ (~all /\ \A i \in 1..n : g < h[i])
  <2>1. g \in Given(log) /\ g # last
    BY <1>5
  <2>2. CASE \E i \in 1..(n + 1) : f[i] = g
    <3>1. PICK i \in 1..(n + 1) : f[i] = g
      BY <2>2
    <3>2. i # n + 1
      BY <3>1, <2>1, <1>8, <1>9
    <3>3. i \in 1..n
      BY <3>2, <1>2
    <3>. QED  BY <3>1, <3>3, <1>10
  <2>3. CASE ~all /\ \A i \in 1..(n + 1) : g < f[i]
    BY <2>3, <1>10
  <2>. QED  BY <2>1, <2>2, <2>3, <1>1, <1>2 DEF Matches
<1>15. Matches(h, fewer, shorter, all)
  BY <1>3, <1>11, <1>12, <1>13, <1>14 DEF Matches
<1>. QED  BY <1>15, RecallsMatches DEF fewer, shorter, last

-----------------------------------------------------------------------------
(* Steps.                                                                  *)

\* Facts about the state a step begins in.
LEMMA StateFacts ==
  ASSUME SessionsInv, NEW c \in Consoles
  PROVE  /\ pc[c] \in {"idle", "asking", "user", "assistant"}
         /\ job[c] \in [kind : {"none", "chat", "retry"}, session : 0..MaxSessions, turn : 0..MaxTurns]
         /\ turns[c] \in Seq(Remembered)
         /\ active[c] \in 0..created /\ shown[c] \in 0..created /\ owned[c] \in BOOLEAN
         /\ created \in 0..MaxSessions /\ asked \in 0..MaxTurns
         /\ job[c].session \in 0..created
         /\ \A s \in 1..created :
              s \in Ids /\ rows[s] \in Seq(MessageRows) /\ answer[s] \in 0..MaxTurns
         /\ Seat(c)
<1>1. /\ pc[c] \in {"idle", "asking", "user", "assistant"}
      /\ job[c] \in [kind : {"none", "chat", "retry"}, session : 0..MaxSessions, turn : 0..MaxTurns]
      /\ turns[c] \in Seq(Remembered)
      /\ active[c] \in 0..created /\ shown[c] \in 0..created /\ owned[c] \in BOOLEAN
      /\ created \in 0..MaxSessions /\ asked \in 0..MaxTurns
  BY DEF SessionsInv, TypeOK
<1>2. Seat(c)
  BY DEF SessionsInv
<1>3. job[c].session \in 0..created
  BY <1>1, <1>2, SessionsAssumption DEF Seat
<1>4. \A s \in 1..created : s \in Ids
  BY <1>1, SessionsAssumption DEF Ids
<1>5. \A s \in 1..created : rows[s] \in Seq(MessageRows) /\ answer[s] \in 0..MaxTurns
  BY <1>4 DEF SessionsInv, TypeOK
<1>. QED  BY <1>1, <1>2, <1>3, <1>4, <1>5

\* A step of one console writes to a session it has visited or creates, and
\* leaves what the others know alone.
LEMMA OthersStay ==
  ASSUME SessionsInv, NEW c \in Consoles, NEW d \in Consoles, d # c,
         NEW s \in 0..created, s # None => c \in visitors[s],
         created' \in Nat, created <= created',
         \A t \in 1..created : t # s => rows'[t] = rows[t] /\ answer'[t] = answer[t],
         /\ pc'[d] = pc[d] /\ job'[d] = job[d] /\ turns'[d] = turns[d]
         /\ active'[d] = active[d] /\ owned'[d] = owned[d],
         \A t \in 1..created :
           /\ visitors[t] \subseteq visitors'[t]
           /\ \A e \in visitors'[t] : e \in visitors[t] \/ e = c,
         \A t \in 1..created : creator[t] = d => creator'[t] = d,
         failed \subseteq failed'
  PROVE  /\ Seat(d)'
         /\ \A t \in 1..created : d \in visitors'[t] /\ Private(visitors'[t]) => View(t, d)'
<1>1. /\ active[d] \in 0..created /\ job[d].session \in 0..created /\ created \in Nat
      /\ Seat(d)
  BY StateFacts
<1>2. Seat(d)'
  BY <1>1 DEF Seat, None
<1>3. ASSUME NEW t \in 1..created, d \in visitors'[t], Private(visitors'[t])  PROVE  View(t, d)'
  <2>1. d \in visitors[t] /\ Private(visitors[t]) /\ c \notin visitors[t]
    BY <1>3 DEF Private
  <2>2. View(t, d)
    BY <2>1 DEF SessionsInv, Views
  <2>3. t # s
    BY <2>1, <1>1 DEF None
  <2>4. rows'[t] = rows[t] /\ answer'[t] = answer[t]
    BY <2>3
  <2>. QED  BY <2>2, <2>4 DEF View, Writing
<1>. QED  BY <1>2, <1>3

\* So of a step it remains to be shown what becomes of its own console.
LEMMA StepKeeps ==
  ASSUME SessionsInv, TypeOK', NEW c \in Consoles,
         NEW s \in 0..created, s # None => c \in visitors[s],
         created <= created',
         \A t \in 1..created : t # s => rows'[t] = rows[t] /\ answer'[t] = answer[t],
         \A d \in Consoles : d # c =>
           /\ pc'[d] = pc[d] /\ job'[d] = job[d] /\ turns'[d] = turns[d]
           /\ active'[d] = active[d] /\ owned'[d] = owned[d],
         \A t \in 1..created :
           /\ visitors[t] \subseteq visitors'[t]
           /\ \A e \in visitors'[t] : e \in visitors[t] \/ e = c,
         \A t \in (1..created') \ (1..created) : visitors'[t] = {c},
         \A t \in 1..created, d \in Consoles : d # c /\ creator[t] = d => creator'[t] = d,
         failed \subseteq failed',
         \A t \in Ids : t > created' => rows'[t] = << >> /\ visitors'[t] = {},
         Seat(c)',
         \A t \in 1..created' : c \in visitors'[t] /\ Private(visitors'[t]) => View(t, c)'
  PROVE  SessionsInv'
<1>0. created \in Nat /\ created' \in Nat
  BY SessionsAssumption DEF SessionsInv, TypeOK
<1>1. ASSUME NEW d \in Consoles, d # c
      PROVE  /\ Seat(d)'
             /\ \A t \in 1..created : d \in visitors'[t] /\ Private(visitors'[t]) => View(t, d)'
  BY <1>0, <1>1, OthersStay
<1>2. \A d \in Consoles : Seat(d)'
  BY <1>1
<1>3. Opened'
  <2>1. \A t \in 1..created : visitors'[t] # {}
    BY DEF SessionsInv, Opened
  <2>. QED  BY <2>1 DEF Opened
<1>4. ASSUME NEW t \in 1..created', NEW d \in visitors'[t], Private(visitors'[t])
      PROVE  View(t, d)'
  <2>1. CASE d = c
    BY <2>1, <1>4
  <2>2. CASE d # c
    <3>1. t \in 1..created
      BY <2>2, <1>4
    <3>2. visitors'[t] \subseteq Consoles
      <4>1. /\ created' \in 0..MaxSessions
            /\ visitors' \in [Ids -> SUBSET Consoles]
        BY DEF TypeOK
      <4>2. t \in Ids
        BY <4>1, <1>4, SessionsAssumption DEF Ids
      <4>. QED  BY <4>1, <4>2
    <3>. QED  BY <3>1, <3>2, <2>2, <1>1, <1>4
  <2>. QED  BY <2>1, <2>2
<1>5. Views'
  BY <1>4 DEF Views
<1>. QED  BY <1>2, <1>3, <1>5 DEF SessionsInv

\* The steps of a chat call.

LEMMA SayKeeps ==
  ASSUME SessionsInv, NEW c \in Consoles, Say(c)
  PROVE  SessionsInv'
<1> USE SessionsAssumption
<1> DEFINE new == [kind |-> "chat", session |-> active[c], turn |-> asked + 1]
<1>1. /\ pc[c] = "idle" /\ asked < MaxTurns /\ asked' = asked + 1
      /\ job' = [job EXCEPT ![c] = new]
      /\ pc' = [pc EXCEPT ![c] = "asking"]
      /\ UNCHANGED <<rows, answer, created, turns, active, owned, shown, creator, visitors, failed>>
  BY DEF Say, Ask, store, console, observed
<1>2. /\ active[c] \in 0..created /\ created \in 0..MaxSessions /\ asked \in 0..MaxTurns
      /\ Seat(c)
  BY StateFacts
<1>3. new \in [kind : {"none", "chat", "retry"}, session : 0..MaxSessions, turn : 0..MaxTurns]
  BY <1>1, <1>2
<1>4. new.session = active[c] /\ new.kind = "chat" /\ new.turn # 0
  BY <1>2
<1> HIDE DEF new
<1>5. TypeOK'
  BY <1>1, <1>3 DEF SessionsInv, TypeOK
<1>6. job'[c] = new /\ pc'[c] = "asking"
  BY <1>1 DEF SessionsInv, TypeOK
<1>7. Seat(c)'
  BY <1>1, <1>2, <1>4, <1>6 DEF Seat, None
<1>8. ASSUME NEW t \in 1..created, c \in visitors[t], Private(visitors[t])  PROVE  View(t, c)'
  <2>1. View(t, c)
    BY <1>8 DEF SessionsInv, Views
  <2>. QED  BY <2>1, <1>1, <1>2, <1>4, <1>6 DEF View, Writing, None
<1>9. \A d \in Consoles : d # c => pc'[d] = pc[d] /\ job'[d] = job[d]
  BY <1>1 DEF SessionsInv, TypeOK
<1>10. \A t \in Ids : t > created => rows[t] = << >> /\ visitors[t] = {}
  BY DEF SessionsInv, Opened
<1>. QED  BY <1>1, <1>2, <1>5, <1>7, <1>8, <1>9, <1>10, StepKeeps DEF None

LEMMA CreateKeeps ==
  ASSUME SessionsInv, NEW c \in Consoles, Create(c)
  PROVE  SessionsInv'
<1> USE SessionsAssumption
<1> DEFINE s == created + 1
<1>1. /\ pc[c] = "asking" /\ job[c].session = None /\ created < MaxSessions
      /\ created' = s
      /\ answer' = [answer EXCEPT ![s] = job[c].turn]
      /\ job' = [job EXCEPT ![c].session = s]
      /\ pc' = [pc EXCEPT ![c] = "user"]
      /\ creator' = [creator EXCEPT ![s] = c]
      /\ visitors' = [visitors EXCEPT ![s] = {c}]
      /\ UNCHANGED <<rows, asked, turns, active, owned, shown, failed>>
  BY DEF Create, console
<1>2. /\ job[c] \in [kind : {"none", "chat", "retry"}, session : 0..MaxSessions, turn : 0..MaxTurns]
      /\ active[c] \in 0..created /\ created \in 0..MaxSessions
      /\ Seat(c)
  BY StateFacts
<1>3. /\ s \in Ids /\ s \in 1..created' /\ s \notin 1..created
      /\ \A t \in 1..created' : t \in 1..created \/ t = s
      /\ \A t \in 1..created : t # s /\ t \in Ids
  BY <1>1, <1>2 DEF Ids
<1>4. s # None /\ s \in 1..MaxSessions /\ s > created
  BY <1>1, <1>2 DEF None
<1>5. /\ job'[c].session = s /\ job'[c].turn = job[c].turn /\ job'[c].kind = job[c].kind
      /\ pc'[c] = "user"
      /\ \A d \in Consoles : d # c => pc'[d] = pc[d] /\ job'[d] = job[d]
  BY <1>1, <1>2 DEF SessionsInv, TypeOK
<1>6. /\ creator'[s] = c /\ visitors'[s] = {c} /\ answer'[s] = job[c].turn
      /\ \A t \in Ids : t # s =>
           creator'[t] = creator[t] /\ visitors'[t] = visitors[t] /\ answer'[t] = answer[t]
  BY <1>1, <1>3 DEF SessionsInv, TypeOK
<1>7. active[c] = None
  BY <1>1, <1>2 DEF Seat
<1>8. TypeOK'
  <2> DEFINE Jobs == [kind : {"none", "chat", "retry"}, session : 0..MaxSessions, turn : 0..MaxTurns]
  <2>a. job \in [Consoles -> Jobs] /\ s \in 0..MaxSessions
    BY <1>4 DEF SessionsInv, TypeOK
  <2>b. [job[c] EXCEPT !.session = s] \in Jobs
    BY <2>a
  <2>c. job' = [job EXCEPT ![c] = [job[c] EXCEPT !.session = s]]
    BY <1>1
  <2>1. job' \in [Consoles -> Jobs]
    <3> HIDE DEF Jobs
    <3>. QED  BY <2>a, <2>b, <2>c
  <2>2. \A d \in Consoles : active[d] \in 0..created /\ shown[d] \in 0..created
    BY StateFacts
  <2>3. active' \in [Consoles -> 0..created'] /\ shown' \in [Consoles -> 0..created']
    BY <2>2, <1>1, <1>2 DEF SessionsInv, TypeOK
  <2>4. created' \in 0..MaxSessions
    BY <1>1, <1>2
  <2>. QED  BY <2>1, <2>3, <2>4, <1>1, <1>2 DEF SessionsInv, TypeOK
<1> HIDE DEF s
<1>9. Seat(c)'
  <2>1. created \in Nat /\ s = created'
    BY <1>1, <1>2
  <2>. QED  BY <2>1, <1>1, <1>2, <1>3, <1>5, <1>6, <1>7 DEF Seat, None
<1>10. rows[s] = << >>
  BY <1>3, <1>4 DEF SessionsInv, Opened
<1>11. ASSUME NEW t \in 1..created', c \in visitors'[t], Private(visitors'[t])  PROVE  View(t, c)'
  <2>1. CASE t = s
    <3>1. Paired(rows'[s]) /\ Given(rows'[s]) = {}
      BY <1>1, <1>10 DEF Paired, Given
    <3>2. active'[c] # s
      BY <1>1, <1>4, <1>7
    <3>3. Writing(c, t)' /\ answer'[t] = job'[c].turn
      BY <2>1, <1>5, <1>6 DEF Writing
    <3>. QED  BY <2>1, <3>1, <3>2, <3>3, <1>5 DEF View, Writing
  <2>2. CASE t \in 1..created
    <3>1. visitors'[t] = visitors[t] /\ answer'[t] = answer[t] /\ t # s
      BY <2>2, <1>3, <1>6
    <3>2. View(t, c)
      BY <2>2, <3>1, <1>11 DEF SessionsInv, Views
    <3>3. ~Writing(c, t) /\ ~Writing(c, t)'
      BY <3>1, <1>1, <1>5 DEF Writing
    <3>4. active[c] # t
      BY <2>2, <1>7 DEF None
    <3>. QED  BY <3>1, <3>2, <3>3, <3>4, <1>1, <1>5 DEF View
  <2>. QED  BY <2>1, <2>2, <1>3
<1>12. \A t \in Ids : t > created' => rows'[t] = << >> /\ visitors'[t] = {}
  <2>1. ASSUME NEW t \in Ids, t > created'  PROVE  t > created /\ t # s
    BY <2>1, <1>1, <1>2, <1>4 DEF Ids
  <2>2. \A t \in Ids : t > created => rows[t] = << >> /\ visitors[t] = {}
    BY DEF SessionsInv, Opened
  <2>. QED  BY <2>1, <2>2, <1>1, <1>6
<1>13. created <= created' /\ None \in 0..created
  BY <1>1, <1>2, <1>3, <1>4 DEF None
<1>14. \A t \in (1..created') \ (1..created) : visitors'[t] = {c}
  BY <1>3, <1>6
<1>15. \A t \in 1..created :
         /\ rows'[t] = rows[t] /\ answer'[t] = answer[t]
         /\ visitors'[t] = visitors[t] /\ creator'[t] = creator[t]
  BY <1>1, <1>3, <1>6
<1>. QED
  <2> HIDE DEF s
  <2>. QED  BY <1>1, <1>5, <1>8, <1>9, <1>11, <1>12, <1>13, <1>14, <1>15, StepKeeps

LEMMA UpdateResponseKeeps ==
  ASSUME SessionsInv, NEW c \in Consoles, UpdateResponse(c)
  PROVE  SessionsInv'
<1> USE SessionsAssumption
<1> DEFINE s == job[c].session
<1>1. /\ pc[c] = "asking" /\ s # None
      /\ answer' = [answer EXCEPT ![s] = job[c].turn]
      /\ pc' = [pc EXCEPT ![c] = "user"]
      /\ UNCHANGED <<rows, created, asked, turns, active, owned, shown, job, creator, visitors, failed>>
  BY DEF UpdateResponse, console, observed
<1>2. /\ job[c] \in [kind : {"none", "chat", "retry"}, session : 0..MaxSessions, turn : 0..MaxTurns]
      /\ s \in 0..created /\ created \in 0..MaxSessions
      /\ Seat(c)
  BY StateFacts
<1>3. s \in 1..created /\ s \in Ids /\ c \in visitors[s] /\ \A t \in 1..created : t \in Ids
  BY <1>1, <1>2 DEF Seat, None, Ids
<1>4. TypeOK'
  BY <1>1, <1>2 DEF SessionsInv, TypeOK
<1>5. /\ pc'[c] = "user" /\ answer'[s] = job[c].turn
      /\ \A d \in Consoles : d # c => pc'[d] = pc[d]
      /\ \A t \in Ids : t # s => answer'[t] = answer[t]
  BY <1>1, <1>3 DEF SessionsInv, TypeOK
<1> HIDE DEF s
<1>6. Seat(c)'
  BY <1>1, <1>2, <1>5 DEF Seat, s
<1>7. ASSUME NEW t \in 1..created, c \in visitors[t], Private(visitors[t])  PROVE  View(t, c)'
  <2>1. View(t, c)
    BY <1>7 DEF SessionsInv, Views
  <2>2. CASE t = s
    <3>1. Writing(c, t)' /\ answer'[t] = job'[c].turn
      BY <2>2, <1>1, <1>5 DEF Writing, s
    <3>. QED  BY <3>1, <2>1, <1>1, <1>5 DEF View
  <2>3. CASE t # s
    <3>1. ~Writing(c, t) /\ ~Writing(c, t)' /\ answer'[t] = answer[t]
      BY <2>3, <1>1, <1>3, <1>5 DEF Writing, s
    <3>. QED  BY <3>1, <2>1, <1>1, <1>5 DEF View
  <2>. QED  BY <2>2, <2>3
<1>8. \A t \in Ids : t > created => rows[t] = << >> /\ visitors[t] = {}
  BY DEF SessionsInv, Opened
<1>9. \A t \in 1..created : t # s => rows'[t] = rows[t] /\ answer'[t] = answer[t]
  BY <1>1, <1>3, <1>5
<1>. QED  BY <1>1, <1>2, <1>3, <1>4, <1>5, <1>6, <1>7, <1>8, <1>9, StepKeeps

LEMMA AddUserKeeps ==
  ASSUME SessionsInv, NEW c \in Consoles, AddUser(c)
  PROVE  SessionsInv'
<1> USE SessionsAssumption
<1> DEFINE s == job[c].session
           row == [role |-> "user", turn |-> job[c].turn]
<1>1. /\ pc[c] = "user"
      /\ rows' = [rows EXCEPT ![s] = Append(@, row)]
      /\ pc' = [pc EXCEPT ![c] = "assistant"]
      /\ UNCHANGED <<answer, created, asked, turns, active, owned, shown, job, creator, visitors, failed>>
  BY DEF AddUser, AddMessage, console, observed
<1>2. /\ job[c] \in [kind : {"none", "chat", "retry"}, session : 0..MaxSessions, turn : 0..MaxTurns]
      /\ s \in 0..created /\ created \in 0..MaxSessions
      /\ turns[c] \in Seq(Remembered) /\ owned[c] \in BOOLEAN
      /\ \A t \in 1..created : t \in Ids /\ rows[t] \in Seq(MessageRows)
      /\ Seat(c)
  BY StateFacts
<1>3. s \in 1..created /\ s \in Ids /\ c \in visitors[s]
  BY <1>1, <1>2 DEF Seat, None
<1>4. row \in MessageRows /\ row.role = "user" /\ row.turn = job[c].turn
  BY <1>1, <1>2 DEF Seat, MessageRows
<1>a. rows[s] \in Seq(MessageRows)
  BY <1>2, <1>3
<1> HIDE DEF row, s
<1>5. /\ pc'[c] = "assistant" /\ rows'[s] = Append(rows[s], row)
      /\ \A d \in Consoles : d # c => pc'[d] = pc[d]
      /\ \A t \in Ids : t # s => rows'[t] = rows[t]
  BY <1>1, <1>3 DEF SessionsInv, TypeOK
<1>6. TypeOK'
  <2>1. Append(rows[s], row) \in Seq(MessageRows)
    BY <1>4, <1>a
  <2>. QED  BY <2>1, <1>1 DEF SessionsInv, TypeOK
<1>7. Seat(c)'
  BY <1>1, <1>2, <1>5 DEF Seat, s
<1>8. ASSUME NEW t \in 1..created, c \in visitors[t], Private(visitors[t])  PROVE  View(t, c)'
  <2>1. View(t, c)
    BY <1>8 DEF SessionsInv, Views
  <2>2. CASE t = s
    <3>1. Writing(c, t) /\ Writing(c, t)'
      BY <2>2, <1>1, <1>5 DEF Writing, s
    <3>2. Paired(rows'[t])
      BY <2>1, <2>2, <1>4, <1>5, <1>a, PairedAppend DEF View
    <3>3. rows'[t] # << >> /\ rows'[t][Len(rows'[t])] = row
      BY <2>2, <1>4, <1>5, <1>a
    <3>4. active[c] = t => Recalls(turns[c], rows'[t], owned[c])
      BY <2>1, <2>2, <1>2, <1>4, <1>5, <1>a, RecallsQuestion DEF View
    <3>5. Given(rows'[t]) = Given(rows[t])
      BY <2>2, <1>4, <1>5, <1>a, GivenAppend
    <3>6. active'[c] = None /\ job'[c].session = t => Given(rows'[t]) = {}
      BY <3>5, <2>1, <1>1 DEF View
    <3>7. answer'[t] = job'[c].turn
      BY <3>1, <2>1, <1>1 DEF View
    <3>. QED  BY <3>1, <3>2, <3>3, <3>4, <3>6, <3>7, <1>1 DEF View, row
  <2>3. CASE t # s
    <3>1. ~Writing(c, t) /\ ~Writing(c, t)' /\ rows'[t] = rows[t] /\ job'[c].session # t
      BY <2>3, <1>1, <1>2, <1>5 DEF Writing, s
    <3>. QED  BY <3>1, <2>1, <1>1 DEF View
  <2>. QED  BY <2>2, <2>3
<1>9. \A t \in Ids : t > created => rows'[t] = << >> /\ visitors[t] = {}
  BY <1>2, <1>3, <1>5 DEF SessionsInv, Opened
<1>10. \A t \in 1..created : t # s => rows'[t] = rows[t] /\ answer'[t] = answer[t]
  BY <1>1, <1>2, <1>5
<1>11. s \in 0..created /\ created <= created'
  BY <1>1, <1>2 DEF s
<1>. QED  BY <1>1, <1>3, <1>5, <1>6, <1>7, <1>8, <1>9, <1>10, <1>11, StepKeeps

LEMMA AddAssistantKeeps ==
  ASSUME SessionsInv, NEW c \in Consoles, AddAssistant(c)
  PROVE  SessionsInv'
<1> USE SessionsAssumption
<1> DEFINE s == job[c].session
           row == [role |-> "assistant", turn |-> job[c].turn]
           managed == Managed(c)
           memory == [session |-> s, turn |-> job[c].turn, managed |-> managed]
           starts == job[c].kind = "chat" /\ active[c] = None
<1>1. /\ pc[c] = "assistant"
      /\ rows' = [rows EXCEPT ![s] = Append(@, row)]
      /\ turns' = [turns EXCEPT ![c] = Append(@, memory)]
      /\ shown' = [shown EXCEPT ![c] = s]
      /\ pc' = [pc EXCEPT ![c] = "idle"]
      /\ job' = [job EXCEPT ![c] = NoJob]
      /\ UNCHANGED <<answer, created, asked, creator, visitors, failed>>
  BY DEF AddAssistant, AddMessage, Recorded, observed
<1>2. /\ starts => /\ active' = [active EXCEPT ![c] = s]
                   /\ owned' = [owned EXCEPT ![c] = TRUE]
      /\ ~starts => active' = active /\ owned' = owned
  BY DEF AddAssistant
<1>3. /\ job[c] \in [kind : {"none", "chat", "retry"}, session : 0..MaxSessions, turn : 0..MaxTurns]
      /\ s \in 0..created /\ created \in 0..MaxSessions /\ active[c] \in 0..created
      /\ turns[c] \in Seq(Remembered) /\ owned[c] \in BOOLEAN
      /\ \A t \in 1..created : t \in Ids /\ rows[t] \in Seq(MessageRows)
      /\ Seat(c)
  BY StateFacts
<1>4. s \in 1..created /\ s \in Ids /\ c \in visitors[s]
  BY <1>1, <1>3 DEF Seat, None
<1>5. row \in MessageRows /\ row.role = "assistant" /\ row.turn = job[c].turn
  BY <1>1, <1>3 DEF Seat, MessageRows
<1>6. rows[s] \in Seq(MessageRows)
  BY <1>3, <1>4
<1>7. starts <=> active[c] = None
  BY <1>1, <1>3 DEF Seat
<1>8. managed \in BOOLEAN
  BY DEF Managed
<1>9. managed = owned'[c] /\ active'[c] = s /\ owned'[c] \in BOOLEAN
  <2>1. CASE active[c] = None
    <3>1. owned'[c] = TRUE /\ active'[c] = s
      BY <2>1, <1>2, <1>7 DEF SessionsInv, TypeOK
    <3>2. managed <=> TRUE
      BY <2>1 DEF Managed
    <3>. QED  BY <3>1, <3>2
  <2>2. CASE active[c] # None
    <3>1. owned' = owned /\ active' = active
      BY <2>2, <1>2, <1>7
    <3>2. managed <=> owned[c]
      BY <2>2, <1>3 DEF Managed, Seat
    <3>3. active[c] = s
      BY <2>2, <1>1, <1>3 DEF Seat
    <3>. QED  BY <3>1, <3>2, <3>3, <1>3, <1>8
  <2>. QED  BY <2>1, <2>2
<1> HIDE DEF managed
<1>10. memory \in Remembered /\ memory.session = s /\ memory.turn = row.turn /\ memory.managed = managed
  BY <1>4, <1>5, <1>8 DEF Remembered, MessageRows
<1> HIDE DEF row, s, memory, starts
<1>11. /\ pc'[c] = "idle" /\ job'[c] = NoJob /\ rows'[s] = Append(rows[s], row)
       /\ turns'[c] = Append(turns[c], memory)
       /\ \A t \in Ids : t # s => rows'[t] = rows[t]
  BY <1>1, <1>4 DEF SessionsInv, TypeOK
<1>12. \A d \in Consoles : d # c =>
         /\ pc'[d] = pc[d] /\ job'[d] = job[d] /\ turns'[d] = turns[d]
         /\ active'[d] = active[d] /\ owned'[d] = owned[d]
  BY <1>1, <1>2 DEF SessionsInv, TypeOK
<1>13. NoJob.session = None /\ NoJob.kind = "none" /\ NoJob.turn = 0 /\
       NoJob \in [kind : {"none", "chat", "retry"}, session : 0..MaxSessions, turn : 0..MaxTurns]
  BY DEF NoJob, None
<1>14. TypeOK'
  <2>1. rows' \in [Ids -> Seq(MessageRows)]
    <3>1. Append(rows[s], row) \in Seq(MessageRows)
      BY <1>5, <1>6
    <3>. QED  BY <3>1, <1>1 DEF SessionsInv, TypeOK
  <2>2. turns' \in [Consoles -> Seq(Remembered)]
    <3>1. Append(turns[c], memory) \in Seq(Remembered)
      BY <1>3, <1>10
    <3>. QED  BY <3>1, <1>1 DEF SessionsInv, TypeOK
  <2>3. s \in 0..created /\ created' = created
    BY <1>1, <1>3 DEF s
  <2>4. active' \in [Consoles -> 0..created'] /\ shown' \in [Consoles -> 0..created']
    BY <2>3, <1>1, <1>2 DEF SessionsInv, TypeOK
  <2>5. owned' \in [Consoles -> BOOLEAN]
    BY <1>2 DEF SessionsInv, TypeOK
  <2>6. pc' \in [Consoles -> {"idle", "asking", "user", "assistant"}]
    BY <1>1 DEF SessionsInv, TypeOK
  <2>7. job' \in [Consoles -> [kind : {"none", "chat", "retry"}, session : 0..MaxSessions, turn : 0..MaxTurns]]
    BY <1>1, <1>13 DEF SessionsInv, TypeOK
  <2>. QED  BY <2>1, <2>2, <2>4, <2>5, <2>6, <2>7, <1>1 DEF SessionsInv, TypeOK
<1>15. ASSUME NEW k \in DOMAIN turns'[c]
       PROVE  turns'[c][k].session = active'[c] /\ turns'[c][k].managed = owned'[c]
  <2>1. /\ Len(turns[c]) \in Nat
        /\ \/ k \in 1..Len(turns[c]) /\ turns'[c][k] = turns[c][k]
           \/ k = Len(turns[c]) + 1 /\ turns'[c][k] = memory
    <3> DEFINE n == Len(turns[c])
    <3>1. n \in Nat /\ DOMAIN turns'[c] = 1..(n + 1)
      BY <1>3, <1>10, <1>11
    <3>2. turns'[c][n + 1] = memory /\ \A i \in 1..n : turns'[c][i] = turns[c][i]
      BY <1>3, <1>10, <1>11
    <3> HIDE DEF n
    <3>3. k \in 1..n \/ k = n + 1
      BY <3>1, <1>15
    <3>4. /\ n \in Nat
          /\ \/ k \in 1..n /\ turns'[c][k] = turns[c][k]
             \/ k = n + 1 /\ turns'[c][k] = memory
      BY <3>1, <3>2, <3>3
    <3>. QED  BY <3>4 DEF n
  <2>2. CASE turns'[c][k] = memory
    BY <2>2, <1>9, <1>10
  <2>3. CASE k \in 1..Len(turns[c]) /\ turns'[c][k] = turns[c][k]
    <3>1. k \in DOMAIN turns[c]
      BY <2>3, <1>3
    <3>2. active[c] # None
      BY <3>1, <1>3 DEF Seat
    <3>3. active' = active /\ owned' = owned
      BY <3>2, <1>2, <1>7
    <3>. QED  BY <2>3, <3>1, <3>3, <1>3 DEF Seat
  <2>. QED  BY <2>1, <2>2, <2>3
<1>16. owned'[c] => creator[s] = c
  BY <1>2, <1>3, <1>4, <1>7, <1>9 DEF Seat, s, None
<1>17. Seat(c)'
  <2>1. s # None
    BY <1>3, <1>4 DEF None
  <2>. QED  BY <2>1, <1>1, <1>3, <1>4, <1>9, <1>11, <1>13, <1>15, <1>16 DEF Seat, None
<1>18. ASSUME NEW t \in 1..created, c \in visitors[t], Private(visitors[t])  PROVE  View(t, c)'
  <2>1. View(t, c)
    BY <1>18 DEF SessionsInv, Views
  <2>2. ~Writing(c, t)'
    BY <1>11 DEF Writing
  <2>3. job'[c].session # t
    BY <1>11, <1>13 DEF None
  <2>4. CASE t = s
    <3>1. /\ rows[t] # << >> /\ rows[t][Len(rows[t])] = [role |-> "user", turn |-> row.turn]
          /\ answer[t] = row.turn
      BY <2>1, <2>4, <1>1, <1>5 DEF View, Writing, s
    <3>2. Paired(rows'[t])
      BY <3>1, <2>1, <2>4, <1>5, <1>6, <1>11, PairedAppend DEF View
    <3>3. LastAnswer(rows'[t]) = answer'[t]
      BY <3>1, <2>4, <1>1, <1>5, <1>6, <1>11, LastAnswerAppend
    <3>4. Recalls(turns[c], rows[t], owned'[c])
      <4>1. CASE active[c] = None
        <5>1. turns[c] = << >> /\ Given(rows[t]) = {}
          BY <4>1, <2>1, <2>4, <1>3 DEF Seat, View, s
        <5>. QED  BY <5>1, <1>9, RecallsNothing
      <4>2. CASE active[c] # None
        <5>1. owned'[c] = owned[c] /\ active[c] = t
          BY <4>2, <2>4, <1>2, <1>7, <1>9
        <5>. QED  BY <5>1, <2>1 DEF View
      <4>. QED  BY <4>1, <4>2
    <3>5. Recalls(turns'[c], rows'[t], owned'[c])
      BY <3>4, <2>4, <1>3, <1>5, <1>6, <1>9, <1>10, <1>11, RecallsAnswer
    <3>. QED  BY <2>2, <2>3, <3>2, <3>3, <3>5, <1>11 DEF View
  <2>5. CASE t # s
    <3>1. ~Writing(c, t) /\ rows'[t] = rows[t] /\ active'[c] # t
      BY <2>5, <1>3, <1>9, <1>11 DEF Writing, s
    <3>. QED  BY <3>1, <2>1, <2>2, <2>3, <1>1, <1>11 DEF View
  <2>. QED  BY <2>4, <2>5
<1>19. \A t \in Ids : t > created => rows'[t] = << >> /\ visitors[t] = {}
  BY <1>3, <1>4, <1>11 DEF SessionsInv, Opened
<1>20. \A t \in 1..created : t # s => rows'[t] = rows[t] /\ answer'[t] = answer[t]
  BY <1>1, <1>3, <1>11
<1>21. s \in 0..created /\ created <= created'
  BY <1>1, <1>3 DEF s
<1>. QED  BY <1>1, <1>4, <1>12, <1>14, <1>17, <1>18, <1>19, <1>20, <1>21, StepKeeps

LEMMA ChatFailsKeeps ==
  ASSUME SessionsInv, NEW c \in Consoles, ChatFails(c)
  PROVE  SessionsInv'
<1> USE SessionsAssumption
<1>1. /\ pc[c] # "idle"
      /\ failed' = failed \union {job[c].turn}
      /\ pc' = [pc EXCEPT ![c] = "idle"]
      /\ job' = [job EXCEPT ![c] = NoJob]
      /\ UNCHANGED <<rows, answer, created, asked, turns, active, owned, shown, creator, visitors>>
  BY DEF ChatFails, store, console
<1>2. /\ job[c] \in [kind : {"none", "chat", "retry"}, session : 0..MaxSessions, turn : 0..MaxTurns]
      /\ created \in 0..MaxSessions
      /\ Seat(c)
  BY StateFacts
<1>3. job[c].turn \in 1..MaxTurns
  BY <1>1, <1>2 DEF Seat
<1>4. /\ NoJob.session = None /\ NoJob.kind = "none"
      /\ NoJob \in [kind : {"none", "chat", "retry"}, session : 0..MaxSessions, turn : 0..MaxTurns]
  BY DEF NoJob, None
<1>5. TypeOK'
  BY <1>1, <1>3, <1>4 DEF SessionsInv, TypeOK
<1>6. /\ pc'[c] = "idle" /\ job'[c] = NoJob
      /\ \A d \in Consoles : d # c => pc'[d] = pc[d] /\ job'[d] = job[d]
  BY <1>1 DEF SessionsInv, TypeOK
<1>7. Seat(c)'
  BY <1>1, <1>2, <1>4, <1>6 DEF Seat, None
<1>8. ASSUME NEW t \in 1..created, c \in visitors[t], Private(visitors[t])  PROVE  View(t, c)'
  <2>1. View(t, c)
    BY <1>8 DEF SessionsInv, Views
  <2>2. ~Writing(c, t)' /\ job'[c].session # t
    BY <1>4, <1>6 DEF Writing, None
  <2>3. answer[t] = LastAnswer(rows[t]) \/ answer[t] \in failed'
    BY <2>1, <1>1 DEF View, Writing
  <2>. QED  BY <2>1, <2>2, <2>3, <1>1, <1>6 DEF View
<1>9. \A t \in Ids : t > created => rows[t] = << >> /\ visitors[t] = {}
  BY DEF SessionsInv, Opened
<1>10. None \in 0..created /\ created <= created'
  BY <1>1, <1>2 DEF None
<1>. QED  BY <1>1, <1>5, <1>6, <1>7, <1>8, <1>9, <1>10, StepKeeps

\* Steps that roll a turn back.

\* What a console may roll back is a turn of a session of its own, the one it
\* is in.
LEMMA RolledBack ==
  ASSUME SessionsInv, NEW c \in Consoles, MayRollBack(c)
  PROVE  /\ Last(turns[c]).session = active[c] /\ active[c] \in 1..created
         /\ owned[c] = TRUE /\ creator[active[c]] = c /\ c \in visitors[active[c]]
         /\ pc[c] = "idle" /\ job[c].session = None /\ job[c].kind # "retry"
         /\ Front(turns[c]) \in Seq(Remembered)
         /\ \A k \in DOMAIN Front(turns[c]) :
              k \in DOMAIN turns[c] /\ Front(turns[c])[k] = turns[c][k]
<1>1. /\ turns[c] \in Seq(Remembered) /\ turns[c] # << >> /\ Last(turns[c]).managed
      /\ pc[c] = "idle" /\ active[c] \in 0..created /\ owned[c] \in BOOLEAN
      /\ job[c] \in [kind : {"none", "chat", "retry"}, session : 0..MaxSessions, turn : 0..MaxTurns]
      /\ Seat(c)
  BY StateFacts DEF MayRollBack
<1> DEFINE seen == turns[c]
           n == Len(seen) - 1
<1>2. n \in Nat /\ Len(seen) = n + 1 /\ seen \in Seq(Remembered)
  BY <1>1
<1>3. Last(seen) = seen[n + 1] /\ Front(seen) = SubSeq(seen, 1, n) /\ n + 1 \in DOMAIN seen
  BY <1>2 DEF Last, Front
<1>4. Last(seen).session = active[c] /\ Last(seen).managed = owned[c] /\ active[c] # None
  BY <1>1, <1>3 DEF Seat
<1>5. owned[c] = TRUE
  BY <1>1, <1>4
<1>6. /\ Front(seen) \in Seq(Remembered) /\ DOMAIN Front(seen) = 1..n
      /\ \A k \in 1..n : Front(seen)[k] = seen[k] /\ k \in DOMAIN seen
  <2> HIDE DEF seen, n
  <2>. QED  BY <1>2, <1>3
<1>7. active[c] \in 1..created
  BY <1>1, <1>4 DEF None
<1>8. job[c].session = None /\ job[c].kind # "retry"
  BY <1>1 DEF Seat
<1>. QED  BY <1>1, <1>4, <1>5, <1>6, <1>7, <1>8 DEF Seat

\* What is deleted is the turn the console has seen last.
LEMMA Deleted ==
  ASSUME SessionsInv, NEW c \in Consoles, MayRollBack(c),
         DeleteLastTurn(Last(turns[c]).session), Forget(c),
         NEW s \in 1..created, s = active[c]
  PROVE  /\ created' = created
         /\ rows' \in [Ids -> Seq(MessageRows)] /\ answer' \in [Ids -> 0..MaxTurns]
         /\ turns' \in [Consoles -> Seq(Remembered)]
         /\ \A t \in Ids : t # s => rows'[t] = rows[t] /\ answer'[t] = answer[t]
         /\ turns'[c] = Front(turns[c]) /\ \A d \in Consoles : d # c => turns'[d] = turns[d]
         /\ answer'[s] = LastAnswer(rows'[s])
         /\ Private(visitors[s]) => Paired(rows'[s]) /\ Recalls(turns'[c], rows'[s], TRUE)
<1> DEFINE log == rows[s]
           cut == SubSeq(log, 1, Len(log) - 2)
<1>1. /\ Last(turns[c]).session = s /\ s \in 1..created /\ c \in visitors[s] /\ owned[c] = TRUE
      /\ Front(turns[c]) \in Seq(Remembered)
  BY RolledBack
<1>2. s \in Ids /\ log \in Seq(MessageRows) /\ turns[c] \in Seq(Remembered) /\ turns[c] # << >>
  BY <1>1, StateFacts DEF MayRollBack
<1>3. /\ IsLastTurn(s) /\ created' = created
      /\ rows' = [rows EXCEPT ![s] = cut]
      /\ answer' = [answer EXCEPT ![s] = LastAnswer(rows'[s])]
      /\ turns' = [turns EXCEPT ![c] = Front(turns[c])]
  BY <1>1 DEF DeleteLastTurn, Forget
<1>4. /\ Len(log) >= 2 /\ log[Len(log)].role = "assistant" /\ log[Len(log) - 1].role = "user"
  BY <1>3 DEF IsLastTurn
<1>5. cut \in Seq(MessageRows)
  BY <1>2, <1>4, GivenCut
<1> HIDE DEF cut
<1>6. rows' \in [Ids -> Seq(MessageRows)] /\ rows'[s] = cut /\ \A t \in Ids : t # s => rows'[t] = rows[t]
  BY <1>2, <1>3, <1>5 DEF SessionsInv, TypeOK
<1>7. LastAnswer(rows'[s]) \in 0..MaxTurns
  BY <1>5, <1>6, LastAnswerType
<1>8. /\ answer' \in [Ids -> 0..MaxTurns] /\ answer'[s] = LastAnswer(rows'[s])
      /\ \A t \in Ids : t # s => answer'[t] = answer[t]
  <2> DEFINE x == LastAnswer(rows'[s])
  <2>1. answer' = [answer EXCEPT ![s] = x] /\ x \in 0..MaxTurns
    BY <1>3, <1>7
  <2> HIDE DEF x
  <2>2. answer \in [Ids -> 0..MaxTurns]
    BY DEF SessionsInv, TypeOK
  <2>3. /\ answer' \in [Ids -> 0..MaxTurns] /\ answer'[s] = x
        /\ \A t \in Ids : t # s => answer'[t] = answer[t]
    BY <2>1, <2>2, <1>2
  <2>. QED  BY <2>3 DEF x
<1>9. /\ turns' \in [Consoles -> Seq(Remembered)] /\ turns'[c] = Front(turns[c])
      /\ \A d \in Consoles : d # c => turns'[d] = turns[d]
  BY <1>1, <1>3 DEF SessionsInv, TypeOK
<1>10. ASSUME Private(visitors[s])
       PROVE  Paired(rows'[s]) /\ Recalls(turns'[c], rows'[s], TRUE)
  <2>1. View(s, c)
    BY <1>1, <1>10 DEF SessionsInv, Views
  <2>2. Paired(log) /\ Recalls(turns[c], log, TRUE)
    BY <2>1, <1>1 DEF View
  <2>3. Paired(cut)
    <3>1. Len(log) - 2 \in 0..Len(log)
      BY <1>2, <1>4
    <3>. QED  BY <3>1, <2>2, <1>2, PairedCut DEF cut
  <2>4. Recalls(Front(turns[c]), cut, TRUE)
    BY <2>2, <1>2, <1>4, RecallsCut DEF cut
  <2>. QED  BY <2>3, <2>4, <1>6, <1>9
<1>. QED  BY <1>3, <1>6, <1>8, <1>9, <1>10

LEMMA UndoKeeps ==
  ASSUME SessionsInv, NEW c \in Consoles, Undo(c)
  PROVE  SessionsInv'
<1> USE SessionsAssumption
<1>1. PICK s : s = active[c]
  OBVIOUS
<1>2. /\ MayRollBack(c) /\ DeleteLastTurn(Last(turns[c]).session) /\ Forget(c)
      /\ UNCHANGED <<asked, pc, job, creator, visitors, failed>>
  BY DEF Undo, observed
<1>3. /\ Last(turns[c]).session = s /\ s \in 1..created
      /\ owned[c] = TRUE /\ creator[s] = c /\ c \in visitors[s]
      /\ pc[c] = "idle" /\ job[c].session = None /\ job[c].kind # "retry"
      /\ Front(turns[c]) \in Seq(Remembered)
      /\ \A k \in DOMAIN Front(turns[c]) :
           k \in DOMAIN turns[c] /\ Front(turns[c])[k] = turns[c][k]
  BY <1>1, <1>2, RolledBack
<1>4. /\ created' = created
      /\ rows' \in [Ids -> Seq(MessageRows)] /\ answer' \in [Ids -> 0..MaxTurns]
      /\ turns' \in [Consoles -> Seq(Remembered)]
      /\ \A t \in Ids : t # s => rows'[t] = rows[t] /\ answer'[t] = answer[t]
      /\ turns'[c] = Front(turns[c]) /\ \A d \in Consoles : d # c => turns'[d] = turns[d]
      /\ answer'[s] = LastAnswer(rows'[s])
      /\ Private(visitors[s]) => Paired(rows'[s]) /\ Recalls(turns'[c], rows'[s], TRUE)
  BY <1>1, <1>2, <1>3, Deleted
<1>5. created \in 0..MaxSessions /\ s \in Ids /\ turns[c] \in Seq(Remembered) /\ Seat(c)
      /\ \A t \in 1..created : t \in Ids
  BY <1>3, StateFacts
<1>6. \/ active'[c] = s /\ owned'[c] = TRUE
      \/ turns'[c] = << >> /\ active'[c] = None /\ owned'[c] = FALSE
  <2> DEFINE rest == Front(turns[c])
             before == IF rest = << >> THEN None ELSE Last(rest).session
  <2>1. PICK ok \in BOOLEAN :
           IF ok /\ (rest = << >> \/ active[c] = s)
             THEN /\ shown' = [shown EXCEPT ![c] = s]
                  /\ active' = [active EXCEPT ![c] = s]
                  /\ owned' = [owned EXCEPT ![c] = TRUE]
             ELSE /\ shown' = [shown EXCEPT ![c] = before]
                  /\ IF rest = << >>
                       THEN /\ active' = [active EXCEPT ![c] = None]
                            /\ owned' = [owned EXCEPT ![c] = FALSE]
                       ELSE UNCHANGED <<active, owned>>
    BY <1>3 DEF Undo
  <2> HIDE DEF rest, before
  <2>. QED  BY <2>1, <1>1, <1>3, <1>4 DEF SessionsInv, TypeOK, rest
<1>7. /\ active' \in [Consoles -> 0..created] /\ shown' \in [Consoles -> 0..created]
      /\ owned' \in [Consoles -> BOOLEAN]
      /\ \A d \in Consoles : d # c => active'[d] = active[d] /\ owned'[d] = owned[d]
  <2> DEFINE rest == Front(turns[c])
             before == IF rest = << >> THEN None ELSE Last(rest).session
  <2>1. before \in 0..created
    <3>1. CASE rest = << >>
      BY <3>1, <1>5 DEF None
    <3>2. CASE rest # << >>
      <4>1. Last(rest) = rest[Len(rest)] /\ Len(rest) \in DOMAIN rest
        BY <3>2, <1>3 DEF Last
      <4>2. Last(rest).session = s
        BY <4>1, <1>1, <1>3, <1>5 DEF Seat
      <4>. QED  BY <4>2, <3>2, <1>3
    <3>. QED  BY <3>1, <3>2
  <2>2. /\ \E x \in {s, before} : shown' = [shown EXCEPT ![c] = x]
        /\ active' = active \/ \E x \in {s, None} : active' = [active EXCEPT ![c] = x]
        /\ owned' = owned \/ \E x \in BOOLEAN : owned' = [owned EXCEPT ![c] = x]
    BY <1>3 DEF Undo
  <2>3. s \in 0..created /\ None \in 0..created
    BY <1>3, <1>5 DEF None
  <2> HIDE DEF before
  <2>4. active \in [Consoles -> 0..created] /\ shown \in [Consoles -> 0..created] /\ owned \in [Consoles -> BOOLEAN]
    BY DEF SessionsInv, TypeOK
  <2>5. shown' \in [Consoles -> 0..created]
    BY <2>1, <2>2, <2>3, <2>4
  <2>6. active' \in [Consoles -> 0..created] /\ \A d \in Consoles : d # c => active'[d] = active[d]
    BY <2>2, <2>3, <2>4
  <2>7. owned' \in [Consoles -> BOOLEAN] /\ \A d \in Consoles : d # c => owned'[d] = owned[d]
    BY <2>2, <2>4
  <2>. QED  BY <2>5, <2>6, <2>7
<1>8. TypeOK'
  BY <1>2, <1>4, <1>7 DEF SessionsInv, TypeOK
<1>9. Seat(c)'
  <2>1. CASE active'[c] = s /\ owned'[c] = TRUE
    <3>1. s # None /\ \A k \in DOMAIN turns'[c] : turns'[c][k].session = s /\ turns'[c][k].managed = TRUE
      BY <1>1, <1>3, <1>4, <1>5 DEF Seat, None
    <3>. QED  BY <2>1, <3>1, <1>2, <1>3, <1>4, <1>5 DEF Seat
  <2>2. CASE turns'[c] = << >> /\ active'[c] = None /\ owned'[c] = FALSE
    <3>1. DOMAIN turns'[c] = {}
      BY <2>2
    <3>. QED  BY <2>2, <3>1, <1>2, <1>3, <1>4, <1>5 DEF Seat
  <2>. QED  BY <2>1, <2>2, <1>6
<1>10. ASSUME NEW t \in 1..created, c \in visitors[t], Private(visitors[t])  PROVE  View(t, c)'
  <2>1. View(t, c) /\ ~Writing(c, t) /\ ~Writing(c, t)' /\ job'[c].session # t
    BY <1>2, <1>3, <1>10 DEF SessionsInv, Views, Writing, None
  <2>2. active[c] = s /\ t # None
    BY <1>1, <1>10 DEF None
  <2>3. CASE t = s
    <3>1. active'[c] = t => Recalls(turns'[c], rows'[t], owned'[c])
      BY <2>2, <2>3, <1>4, <1>6, <1>10
    <3>. QED  BY <2>1, <2>3, <3>1, <1>2, <1>3, <1>4, <1>10 DEF View
  <2>4. CASE t # s
    <3>1. active'[c] # t /\ rows'[t] = rows[t] /\ answer'[t] = answer[t]
      BY <2>2, <2>4, <1>4, <1>5, <1>6
    <3>. QED  BY <2>1, <3>1, <1>2, <1>3 DEF View
  <2>. QED  BY <2>3, <2>4
<1>11. \A t \in Ids : t > created => rows'[t] = << >> /\ visitors[t] = {}
  BY <1>3, <1>4, <1>5 DEF SessionsInv, Opened
<1>12. s \in 0..created /\ created <= created'
  BY <1>3, <1>4, <1>5
<1>13. \A d \in Consoles : d # c =>
         /\ pc'[d] = pc[d] /\ job'[d] = job[d] /\ turns'[d] = turns[d]
         /\ active'[d] = active[d] /\ owned'[d] = owned[d]
  BY <1>2, <1>4, <1>7
<1>14. \A t \in 1..created : t # s => rows'[t] = rows[t] /\ answer'[t] = answer[t]
  BY <1>4, <1>5
<1>15. /\ visitors' = visitors /\ creator' = creator /\ failed' = failed /\ created' = created
       /\ c \in visitors[s]
  BY <1>2, <1>3, <1>4
<1>. QED  BY <1>8, <1>9, <1>10, <1>11, <1>12, <1>13, <1>14, <1>15, StepKeeps

LEMMA RetryKeeps ==
  ASSUME SessionsInv, NEW c \in Consoles, Retry(c)
  PROVE  SessionsInv'
<1> USE SessionsAssumption
<1>1. PICK s : s = active[c]
  OBVIOUS
<1> DEFINE new == [kind |-> "retry", session |-> s, turn |-> asked + 1]
<1>2. /\ MayRollBack(c) /\ DeleteLastTurn(Last(turns[c]).session) /\ Forget(c)
      /\ UNCHANGED <<active, owned, shown, creator, visitors, failed>>
  BY DEF Retry, observed
<1>3. /\ Last(turns[c]).session = s /\ s \in 1..created
      /\ owned[c] = TRUE /\ creator[s] = c /\ c \in visitors[s]
      /\ pc[c] = "idle"
      /\ Front(turns[c]) \in Seq(Remembered)
      /\ \A k \in DOMAIN Front(turns[c]) :
           k \in DOMAIN turns[c] /\ Front(turns[c])[k] = turns[c][k]
  BY <1>1, <1>2, RolledBack
<1>4. /\ created' = created
      /\ rows' \in [Ids -> Seq(MessageRows)] /\ answer' \in [Ids -> 0..MaxTurns]
      /\ turns' \in [Consoles -> Seq(Remembered)]
      /\ \A t \in Ids : t # s => rows'[t] = rows[t] /\ answer'[t] = answer[t]
      /\ turns'[c] = Front(turns[c]) /\ \A d \in Consoles : d # c => turns'[d] = turns[d]
      /\ answer'[s] = LastAnswer(rows'[s])
      /\ Private(visitors[s]) => Paired(rows'[s]) /\ Recalls(turns'[c], rows'[s], TRUE)
  BY <1>1, <1>2, <1>3, Deleted
<1>5. /\ created \in 0..MaxSessions /\ s \in Ids /\ asked \in 0..MaxTurns /\ Seat(c)
      /\ \A t \in 1..created : t \in Ids
  BY <1>3, StateFacts
<1>6. /\ asked < MaxTurns /\ asked' = asked + 1
      /\ job' = [job EXCEPT ![c] = new] /\ pc' = [pc EXCEPT ![c] = "asking"]
  BY <1>3 DEF Retry, Ask
<1>7. new \in [kind : {"none", "chat", "retry"}, session : 0..MaxSessions, turn : 0..MaxTurns]
  BY <1>3, <1>5, <1>6
<1>8. new.kind = "retry" /\ new.session = s /\ new.turn # 0
  BY <1>5
<1> HIDE DEF new
<1>9. /\ job'[c] = new /\ pc'[c] = "asking"
      /\ \A d \in Consoles : d # c => pc'[d] = pc[d] /\ job'[d] = job[d]
  BY <1>6 DEF SessionsInv, TypeOK
<1>10. TypeOK'
  <2>1. pc' \in [Consoles -> {"idle", "asking", "user", "assistant"}]
    BY <1>6 DEF SessionsInv, TypeOK
  <2>2. job' \in [Consoles -> [kind : {"none", "chat", "retry"}, session : 0..MaxSessions, turn : 0..MaxTurns]]
    BY <1>6, <1>7 DEF SessionsInv, TypeOK
  <2>3. asked' \in 0..MaxTurns
    BY <1>5, <1>6
  <2>. QED  BY <2>1, <2>2, <2>3, <1>2, <1>4 DEF SessionsInv, TypeOK
<1>11. Seat(c)'
  <2>1. s # None /\ \A k \in DOMAIN turns'[c] : turns'[c][k].session = s /\ turns'[c][k].managed = owned[c]
    BY <1>1, <1>3, <1>4, <1>5 DEF Seat, None
  <2>. QED  BY <2>1, <1>1, <1>2, <1>3, <1>4, <1>5, <1>8, <1>9 DEF Seat
<1>12. ASSUME NEW t \in 1..created, c \in visitors[t], Private(visitors[t])  PROVE  View(t, c)'
  <2>1. View(t, c) /\ ~Writing(c, t) /\ ~Writing(c, t)'
    BY <1>3, <1>9, <1>12 DEF SessionsInv, Views, Writing
  <2>2. active[c] = s /\ s # None /\ active' = active /\ owned' = owned
    BY <1>1, <1>2, <1>3 DEF None
  <2>3. CASE t = s
    BY <2>1, <2>2, <2>3, <1>2, <1>3, <1>4, <1>9, <1>12 DEF View
  <2>4. CASE t # s
    <3>1. rows'[t] = rows[t] /\ answer'[t] = answer[t]
      BY <2>4, <1>4, <1>5
    <3>. QED  BY <2>1, <2>2, <2>4, <3>1, <1>2, <1>9 DEF View
  <2>. QED  BY <2>3, <2>4
<1>13. \A t \in Ids : t > created => rows'[t] = << >> /\ visitors[t] = {}
  BY <1>3, <1>4, <1>5 DEF SessionsInv, Opened
<1>14. s \in 0..created /\ created <= created'
  BY <1>3, <1>4, <1>5
<1>15. \A d \in Consoles : d # c =>
         /\ pc'[d] = pc[d] /\ job'[d] = job[d] /\ turns'[d] = turns[d]
         /\ active'[d] = active[d] /\ owned'[d] = owned[d]
  BY <1>2, <1>4, <1>9
<1>16. \A t \in 1..created : t # s => rows'[t] = rows[t] /\ answer'[t] = answer[t]
  BY <1>4, <1>5
<1>17. /\ visitors' = visitors /\ creator' = creator /\ failed' = failed /\ created' = created
       /\ c \in visitors[s]
  BY <1>2, <1>3, <1>4
<1>. QED  BY <1>10, <1>11, <1>12, <1>13, <1>14, <1>15, <1>16, <1>17, StepKeeps

\* Steps that begin afresh.

LEMMA FreshFacts ==
  ASSUME SessionsInv, NEW c \in Consoles, NEW s \in 0..created, Fresh(c, s)
  PROVE  /\ turns' \in [Consoles -> Seq(Remembered)]
         /\ active' \in [Consoles -> 0..created] /\ shown' \in [Consoles -> 0..created]
         /\ owned' \in [Consoles -> BOOLEAN]
         /\ turns'[c] = << >> /\ active'[c] = s /\ owned'[c] = FALSE
         /\ \A d \in Consoles : d # c =>
              turns'[d] = turns[d] /\ active'[d] = active[d] /\ owned'[d] = owned[d]
BY DEF SessionsInv, TypeOK, Fresh

\* Who begins afresh remembers nothing, and agrees with any session; the turn
\* it may have been writing counts as failed.
LEMMA FreshView ==
  ASSUME SessionsInv, NEW c \in Consoles, NEW s \in 0..created, Fresh(c, s),
         NEW t \in 1..created, View(t, c),
         rows' = rows, answer' = answer, pc'[c] = "idle", job'[c].session = None,
         failed \subseteq failed',
         Writing(c, t) => job[c].turn \in failed'
  PROVE  View(t, c)'
<1>1. turns'[c] = << >> /\ active'[c] = s /\ owned'[c] = FALSE
  BY FreshFacts
<1>2. ~Writing(c, t)' /\ job'[c].session # t
  BY DEF Writing, None
<1>3. answer[t] = LastAnswer(rows[t]) \/ answer[t] \in failed'
  BY DEF View
<1>4. Recalls(<< >>, rows[t], FALSE)
  BY RecallsNothing
<1>. QED  BY <1>1, <1>2, <1>3, <1>4 DEF View

LEMMA ResetKeeps ==
  ASSUME SessionsInv, NEW c \in Consoles, ResetTurnState(c)
  PROVE  SessionsInv'
<1> USE SessionsAssumption
<1>1. /\ pc[c] = "idle" /\ Fresh(c, None)
      /\ UNCHANGED <<rows, answer, created, asked, pc, job, creator, visitors, failed>>
  BY DEF ResetTurnState, store, observed
<1>2. /\ created \in 0..MaxSessions /\ Seat(c)
      /\ job[c].session = None /\ job[c].kind = "none"
  BY <1>1, StateFacts DEF Seat
<1>3. None \in 0..created /\ created <= created'
  BY <1>1, <1>2 DEF None
<1>4. /\ turns' \in [Consoles -> Seq(Remembered)]
      /\ active' \in [Consoles -> 0..created] /\ shown' \in [Consoles -> 0..created]
      /\ owned' \in [Consoles -> BOOLEAN]
      /\ turns'[c] = << >> /\ active'[c] = None /\ owned'[c] = FALSE
      /\ \A d \in Consoles : d # c =>
           turns'[d] = turns[d] /\ active'[d] = active[d] /\ owned'[d] = owned[d]
  BY <1>1, <1>3, FreshFacts
<1>5. TypeOK'
  BY <1>1, <1>4 DEF SessionsInv, TypeOK
<1>6. Seat(c)'
  BY <1>1, <1>2, <1>4 DEF Seat
<1>7. ASSUME NEW t \in 1..created, c \in visitors[t], Private(visitors[t])  PROVE  View(t, c)'
  <2>1. View(t, c) /\ ~Writing(c, t)
    BY <1>1, <1>7 DEF SessionsInv, Views, Writing
  <2>. QED  BY <2>1, <1>1, <1>2, <1>3, FreshView
<1>8. \A t \in Ids : t > created => rows[t] = << >> /\ visitors[t] = {}
  BY DEF SessionsInv, Opened
<1>. QED  BY <1>1, <1>3, <1>4, <1>5, <1>6, <1>7, <1>8, StepKeeps

LEMMA ResumeKeeps ==
  ASSUME SessionsInv, NEW c \in Consoles, NEW s \in Ids, Resume(c, s)
  PROVE  SessionsInv'
<1> USE SessionsAssumption
<1>1. /\ pc[c] = "idle" /\ s \in 1..created /\ Fresh(c, s)
      /\ visitors' = [visitors EXCEPT ![s] = @ \union {c}]
      /\ UNCHANGED <<rows, answer, created, asked, pc, job, creator, failed>>
  BY DEF Resume, store
<1>2. /\ created \in 0..MaxSessions /\ Seat(c)
      /\ job[c].session = None /\ job[c].kind = "none"
      /\ \A t \in 1..created : t \in Ids
  BY <1>1, StateFacts DEF Seat
<1>3. s \in 0..created /\ None \in 0..created /\ created <= created' /\ s # None
  BY <1>1, <1>2 DEF None
<1>4. /\ turns' \in [Consoles -> Seq(Remembered)]
      /\ active' \in [Consoles -> 0..created] /\ shown' \in [Consoles -> 0..created]
      /\ owned' \in [Consoles -> BOOLEAN]
      /\ turns'[c] = << >> /\ active'[c] = s /\ owned'[c] = FALSE
      /\ \A d \in Consoles : d # c =>
           turns'[d] = turns[d] /\ active'[d] = active[d] /\ owned'[d] = owned[d]
  BY <1>1, <1>3, FreshFacts
<1>5. /\ visitors' \in [Ids -> SUBSET Consoles]
      /\ visitors'[s] = visitors[s] \union {c}
      /\ \A t \in Ids : t # s => visitors'[t] = visitors[t]
  BY <1>1 DEF SessionsInv, TypeOK
<1>6. TypeOK'
  BY <1>1, <1>4, <1>5 DEF SessionsInv, TypeOK
<1>7. Seat(c)'
  <2>1. DOMAIN turns'[c] = {} /\ c \in visitors'[s]
    BY <1>4, <1>5
  <2>. QED  BY <2>1, <1>1, <1>2, <1>3, <1>4 DEF Seat
<1>8. ASSUME NEW t \in 1..created, c \in visitors'[t], Private(visitors'[t])  PROVE  View(t, c)'
  <2>1. visitors[t] # {} /\ t \in Ids
    BY <1>2, <1>8 DEF SessionsInv, Opened
  <2>2. visitors[t] \subseteq visitors'[t]
    BY <2>1, <1>5
  <2>3. Private(visitors[t]) /\ c \in visitors[t]
    BY <2>1, <2>2, <1>8 DEF Private
  <2>4. View(t, c) /\ ~Writing(c, t)
    BY <2>3, <1>1, <1>8 DEF SessionsInv, Views, Writing
  <2>. QED  BY <2>4, <1>1, <1>2, <1>3, FreshView
<1>9. \A t \in Ids : t > created => rows[t] = << >> /\ visitors'[t] = {}
  BY <1>1, <1>5 DEF SessionsInv, Opened
<1>10. \A t \in 1..created :
         /\ visitors[t] \subseteq visitors'[t]
         /\ \A e \in visitors'[t] : e \in visitors[t] \/ e = c
  BY <1>2, <1>5
<1>. QED  BY <1>1, <1>3, <1>4, <1>6, <1>7, <1>8, <1>9, <1>10, StepKeeps

LEMMA RestartKeeps ==
  ASSUME SessionsInv, NEW c \in Consoles, Restart(c)
  PROVE  SessionsInv'
<1> USE SessionsAssumption
<1>1. /\ Fresh(c, None)
      /\ pc' = [pc EXCEPT ![c] = "idle"]
      /\ job' = [job EXCEPT ![c] = NoJob]
      /\ creator' = [s \in Ids |-> IF creator[s] = c THEN "none" ELSE creator[s]]
      /\ failed' = IF pc[c] = "idle" THEN failed ELSE failed \union {job[c].turn}
      /\ UNCHANGED <<rows, answer, created, asked, visitors>>
  BY DEF Restart, store
<1>2. /\ job[c] \in [kind : {"none", "chat", "retry"}, session : 0..MaxSessions, turn : 0..MaxTurns]
      /\ created \in 0..MaxSessions /\ Seat(c)
      /\ \A t \in 1..created : t \in Ids
  BY StateFacts
<1>3. None \in 0..created /\ created <= created'
  BY <1>1, <1>2 DEF None
<1>4. /\ turns' \in [Consoles -> Seq(Remembered)]
      /\ active' \in [Consoles -> 0..created] /\ shown' \in [Consoles -> 0..created]
      /\ owned' \in [Consoles -> BOOLEAN]
      /\ turns'[c] = << >> /\ active'[c] = None /\ owned'[c] = FALSE
      /\ \A d \in Consoles : d # c =>
           turns'[d] = turns[d] /\ active'[d] = active[d] /\ owned'[d] = owned[d]
  BY <1>1, <1>3, FreshFacts
<1>5. /\ NoJob.session = None /\ NoJob.kind = "none"
      /\ NoJob \in [kind : {"none", "chat", "retry"}, session : 0..MaxSessions, turn : 0..MaxTurns]
  BY DEF NoJob, None
<1>6. /\ pc'[c] = "idle" /\ job'[c] = NoJob
      /\ \A d \in Consoles : d # c => pc'[d] = pc[d] /\ job'[d] = job[d]
  BY <1>1 DEF SessionsInv, TypeOK
<1>7. TypeOK'
  <2>1. failed' \subseteq 1..MaxTurns
    <3>1. pc[c] # "idle" => job[c].turn \in 1..MaxTurns
      BY <1>2 DEF Seat
    <3>. QED  BY <3>1, <1>1 DEF SessionsInv, TypeOK
  <2>2. creator' \in [Ids -> Consoles \union {"none"}]
    BY <1>1 DEF SessionsInv, TypeOK
  <2>. QED  BY <2>1, <2>2, <1>1, <1>4, <1>5 DEF SessionsInv, TypeOK
<1>8. Seat(c)'
  <2>1. DOMAIN turns'[c] = {}
    BY <1>4
  <2>. QED  BY <2>1, <1>1, <1>2, <1>3, <1>4, <1>5, <1>6 DEF Seat
<1>9. failed \subseteq failed' /\ (pc[c] # "idle" => job[c].turn \in failed')
  BY <1>1
<1>10. ASSUME NEW t \in 1..created, c \in visitors[t], Private(visitors[t])  PROVE  View(t, c)'
  <2>1. View(t, c) /\ (Writing(c, t) => job[c].turn \in failed')
    BY <1>9, <1>10 DEF SessionsInv, Views, Writing
  <2>. QED  BY <2>1, <1>1, <1>3, <1>5, <1>6, <1>9, FreshView
<1>11. \A t \in Ids : t > created => rows[t] = << >> /\ visitors[t] = {}
  BY DEF SessionsInv, Opened
<1>12. \A t \in 1..created, d \in Consoles : d # c /\ creator[t] = d => creator'[t] = d
  BY <1>1, <1>2
<1>. QED  BY <1>1, <1>3, <1>4, <1>6, <1>7, <1>8, <1>9, <1>10, <1>11, <1>12, StepKeeps

-----------------------------------------------------------------------------
(* The theorems.                                                           *)

LEMMA InitHolds == Init => SessionsInv
<1> SUFFICES ASSUME Init  PROVE SessionsInv
  OBVIOUS
<1> USE SessionsAssumption DEF Init
<1>0. Ids \subseteq Nat /\ 1..created = {}
  BY DEF Ids
<1>1. TypeOK
  BY DEF TypeOK, NoJob, None
<1>2. \A c \in Consoles : Seat(c)
  BY DEF Seat, NoJob, None
<1>3. Opened
  BY <1>0 DEF Opened
<1>4. Views
  BY <1>0 DEF Views
<1>. QED  BY <1>1, <1>2, <1>3, <1>4 DEF SessionsInv

LEMMA NextKeeps == SessionsInv /\ [Next]_vars => SessionsInv'
<1> SUFFICES ASSUME SessionsInv, [Next]_vars  PROVE SessionsInv'
  OBVIOUS
<1>1. CASE Next
  <2>1. PICK c \in Consoles : Chat(c) \/ Command(c)
    BY <1>1 DEF Next
  <2>2. CASE Say(c)             BY <2>2, SayKeeps
  <2>3. CASE Create(c)          BY <2>3, CreateKeeps
  <2>4. CASE UpdateResponse(c)  BY <2>4, UpdateResponseKeeps
  <2>5. CASE AddUser(c)         BY <2>5, AddUserKeeps
  <2>6. CASE AddAssistant(c)    BY <2>6, AddAssistantKeeps
  <2>7. CASE ChatFails(c)       BY <2>7, ChatFailsKeeps
  <2>8. CASE Undo(c)            BY <2>8, UndoKeeps
  <2>9. CASE Retry(c)           BY <2>9, RetryKeeps
  <2>10. CASE ResetTurnState(c) BY <2>10, ResetKeeps
  <2>11. CASE Restart(c)        BY <2>11, RestartKeeps
  <2>12. CASE \E s \in Ids : Resume(c, s)
    BY <2>12, ResumeKeeps
  <2>. QED
    BY <2>1, <2>2, <2>3, <2>4, <2>5, <2>6, <2>7, <2>8, <2>9, <2>10, <2>11, <2>12 DEF Chat, Command
<1>2. CASE UNCHANGED vars
  <2>1. UNCHANGED <<rows, answer, created, asked, turns, active, owned, shown, pc, job,
                    creator, visitors, failed>>
    BY <1>2 DEF vars, store, console, observed
  <2>2. TypeOK'
    BY <2>1 DEF SessionsInv, TypeOK
  <2>3. \A c \in Consoles : Seat(c)'
    BY <2>1 DEF SessionsInv, Seat
  <2>4. Opened' /\ Views'
    BY <2>1 DEF SessionsInv, Opened, Views, View, Writing
  <2>. QED  BY <2>2, <2>3, <2>4 DEF SessionsInv
<1>. QED  BY <1>1, <1>2

LEMMA SessionsInvariance == Spec => []SessionsInv
<1>. QED  BY InitHolds, NextKeeps, PTL DEF Spec

\* The variables keep their types: consoles work in sessions that exist, and
\* only turns that were asked appear in logs (app.go chatDetailed, console.go).
THEOREM TypeCorrect == Spec => []TypeOK
<1>1. SessionsInv => TypeOK
  BY DEF SessionsInv
<1>. QED  BY <1>1, SessionsInvariance, PTL

\* A session that is quiet has one user, and no call of that user is on it.
LEMMA QuietView ==
  ASSUME SessionsInv, NEW s \in 1..created, Quiet(s)
  PROVE  /\ \A c \in visitors[s] : View(s, c) /\ ~Writing(c, s)
         /\ \E c \in visitors[s] : TRUE
<1>1. s \in Ids
  BY SessionsAssumption DEF SessionsInv, TypeOK, Ids
<1>2. visitors[s] \subseteq Consoles /\ visitors[s] # {}
  BY <1>1 DEF SessionsInv, TypeOK, Opened
<1>3. Private(visitors[s])
  BY DEF Quiet, Private
<1>. QED  BY <1>2, <1>3 DEF SessionsInv, Views, Quiet, Writing

\* What a console remembers is what its session holds last, and all of it for
\* a session of its own; so undo and retry delete what the user saw last
\* (console.go handleUndo, handleRetry; sqlite.go DeleteLastTurn).
THEOREM ConsoleAlwaysMatches == Spec => []ConsoleMatchesLog
<1>1. SessionsInv => ConsoleMatchesLog
  <2> SUFFICES ASSUME SessionsInv, NEW c \in Consoles, active[c] # None, Quiet(active[c])
               PROVE  Recalls(turns[c], rows[active[c]], owned[c])
    BY DEF ConsoleMatchesLog
  <2>1. active[c] \in 1..created /\ c \in visitors[active[c]]
    BY StateFacts DEF Seat, None
  <2>2. View(active[c], c)
    BY <2>1, QuietView
  <2>. QED  BY <2>2 DEF View
<1>. QED  BY <1>1, SessionsInvariance, PTL

\* An answer directly follows its question in a session of one console,
\* through failed calls and turns rolled back (app.go chatDetailed).
THEOREM AnswersAlwaysFollow == Spec => []AnswersFollowQuestions
<1>1. SessionsInv => AnswersFollowQuestions
  <2> SUFFICES ASSUME SessionsInv, NEW s \in Ids, Quiet(s)
               PROVE  Paired(rows[s])
    BY DEF AnswersFollowQuestions, Paired
  <2>1. CASE s \in 1..created
    BY <2>1, QuietView DEF View
  <2>2. CASE s \notin 1..created
    <3>1. s > created
      BY <2>2, SessionsAssumption DEF SessionsInv, TypeOK, Ids
    <3>2. rows[s] = << >>
      BY <3>1 DEF SessionsInv, Opened
    <3>. QED  BY <3>2 DEF Paired
  <2>. QED  BY <2>1, <2>2
<1>. QED  BY <1>1, SessionsInvariance, PTL

\* A session row never shows the response of a turn that was rolled back
\* (sqlite.go DeleteLastTurn, app.go chatDetailed).
THEOREM SnapshotAlwaysCurrent == Spec => []SnapshotCurrent
<1>1. SessionsInv => SnapshotCurrent
  <2> SUFFICES ASSUME SessionsInv, NEW s \in 1..created, Quiet(s)
               PROVE  answer[s] = LastAnswer(rows[s]) \/ answer[s] \in failed
    BY DEF SnapshotCurrent
  <2>. QED  BY QuietView DEF View
<1>. QED  BY <1>1, SessionsInvariance, PTL

\* A console rolls back turns of sessions it has created since it was started,
\* and of no other (console.go:609).
THEOREM AlwaysRollsBackOwn == Spec => RollsBackOwnSessions
<1> DEFINE Own == \A c \in Consoles : Undo(c) \/ Retry(c) => creator[Last(turns[c]).session] = c
<1>1. SessionsInv => [Own]_vars
  <2> SUFFICES ASSUME SessionsInv, NEW c \in Consoles, Undo(c) \/ Retry(c)
               PROVE  creator[Last(turns[c]).session] = c
    OBVIOUS
  <2>1. MayRollBack(c)
    BY DEF Undo, Retry
  <2>. QED  BY <2>1, RolledBack
<1>2. [][Own]_vars => RollsBackOwnSessions
  BY DEF RollsBackOwnSessions
<1> HIDE DEF Own
<1>. QED  BY <1>1, <1>2, SessionsInvariance, PTL

=============================================================================
