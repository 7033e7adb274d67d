------------------------------- MODULE Memory -------------------------------
(***************************************************************************)
(* internal/memory: the notes kept about one user in MEMORY.md (USER.md    *)
(* is a second such file with a limit of its own).  A request reads the    *)
(* file, works out the new list and writes the whole of it in place:       *)
(* os.WriteFile empties the file when it opens it and then writes from its *)
(* start.  Nothing orders the requests of goroutines or of processes.      *)
(*                                                                         *)
(* An entry is a number, standing for a text of one length in the order of *)
(* texts; a match is the text of an entry.  A file that cannot be read     *)
(* counts as empty, so that the model has no separate missing file.        *)
(***************************************************************************)
EXTENDS Naturals, FiniteSets, SequencesExt

CONSTANTS
  Writers,       \* goroutines that change the file
  Texts,         \* entries
  Noted,         \* the entries of an earlier run
  Changes,       \* the requests made, as <<action, content, match>>
  Limit,         \* memory_char_limit, in entries
  RecallLimit    \* entries a prefetch returns at most

\* What the module that changes the notes assumes.
MemoryAssumption ==
  /\ Texts \subseteq Nat /\ Noted \in Seq(Texts) /\ Len(Noted) <= Limit
  /\ Changes \subseteq {"add", "replace", "remove"} \X Texts \X Texts
  /\ Limit \in Nat /\ RecallLimit \in Nat

VARIABLES
  file,          \* the entries in the file
  write,         \* per writer: its request
  kept           \* entries acknowledged and not given up since

NotWriting == [step |-> "idle", action |-> "add", content |-> 0, match |-> 0, next |-> <<>>,
               alone |-> TRUE]

Writing(w) == write[w].step # "idle"

Init ==
  /\ file = Noted
  /\ write = [w \in Writers |-> NotWriting]
  /\ kept = Range(Noted)

-----------------------------------------------------------------------------
\* The best entries for a prompt all of them match equally.
Recall ==
  LET sorted == SortSeq(file, <) IN
  SubSeq(sorted, 1, IF Len(sorted) < RecallLimit THEN Len(sorted) ELSE RecallLimit)

\* indexContaining.
FirstMatch(entries, match) ==
  CHOOSE i \in DOMAIN entries :
    entries[i] = match /\ \A j \in 1..(i - 1) : entries[j] # match

\* Variant, not the code: an added entry starts a list of its own.
AddsAlone(r, entries) ==
  CASE r.action = "add"     -> <<r.content>>
    [] r.action = "replace" -> [entries EXCEPT ![FirstMatch(entries, r.match)] = r.content]
    [] r.action = "remove"  -> RemoveAt(entries, FirstMatch(entries, r.match))

\* The list a request wants written.
Changed(r, entries) ==
  CASE r.action = "add"     -> Append(entries, r.content)
    [] r.action = "replace" -> [entries EXCEPT ![FirstMatch(entries, r.match)] = r.content]
    [] r.action = "remove"  -> RemoveAt(entries, FirstMatch(entries, r.match))

\* Nothing to write: the entry is there, nothing matches, the file is full.
Known(r, entries) == r.action = "add" /\ r.content \in Range(entries)

Refused(r, entries) ==
  \/ r.action = "add" /\ Len(entries) + 1 > Limit
  \/ r.action # "add" /\ r.match \notin Range(entries)
  \/ r.action = "replace" /\ Len(entries) > Limit

\* Two requests at once answer for nothing that was kept.
Begin(w, action, content, match) ==
  LET others == {v \in Writers : Writing(v)}
      r == [NotWriting EXCEPT !.step = "read", !.action = action, !.content = content,
              !.match = match, !.alone = (others = {})] IN
  /\ ~Writing(w)
  /\ write' = [v \in Writers |-> IF v = w THEN r ELSE [write[v] EXCEPT !.alone = @ /\ v \notin others]]
  /\ kept' = IF others = {} THEN kept ELSE {}
  /\ UNCHANGED file

\* What a request that ends leaves acknowledged; its snapshot is read again.
Acknowledge(r) ==
  LET given == IF r.action = "add" THEN kept ELSE kept \ {r.match} IN
  IF ~r.alone THEN kept ELSE IF r.action = "remove" THEN given ELSE given \union {r.content}

Read(w) ==
  LET r == write[w] IN
  /\ r.step = "read"
  /\ IF Known(r, file) \/ Refused(r, file)
       THEN write' = [write EXCEPT ![w] = NotWriting]
       ELSE write' = [write EXCEPT ![w].step = "open", ![w].next = Changed(r, file)]
  /\ kept' = IF Known(r, file) THEN Acknowledge(r) ELSE kept
  /\ UNCHANGED file

\* os.WriteFile opens and empties the file.
Truncate(w) ==
  /\ write[w].step = "open"
  /\ file' = <<>>
  /\ write' = [write EXCEPT ![w].step = "fill"]
  /\ UNCHANGED kept

\* It writes from the start; what a longer write has put there stays behind.
Fill(w) ==
  LET r == write[w] IN
  /\ r.step = "fill"
  /\ file' = r.next \o SubSeq(file, Len(r.next) + 1, Len(file))
  /\ write' = [write EXCEPT ![w] = NotWriting]
  /\ kept' = Acknowledge(r)

\* The file cannot be opened, or the disk is full and it stays empty.
Fails(w) ==
  /\ write[w].step \in {"open", "fill"}
  /\ write' = [write EXCEPT ![w] = NotWriting]
  /\ kept' = IF write[w].step = "fill" THEN {} ELSE kept
  /\ UNCHANGED file

\* The process of some writers ends.
Halt(ws) ==
  /\ write' = [w \in Writers |-> IF w \in ws THEN NotWriting ELSE write[w]]
  /\ kept' = IF \E w \in ws : write[w].step = "fill" THEN {} ELSE kept
  /\ UNCHANGED file

Step(w) == Read(w) \/ Truncate(w) \/ Fill(w) \/ Fails(w)

Ask(w) == \E c \in Changes : Begin(w, c[1], c[2], c[3])

Next ==
  \/ \E w \in Writers : Ask(w) \/ Step(w)
  \/ \E ws \in SUBSET Writers : Halt(ws)

Spec == Init /\ [][Next]_<<file, write, kept>>

-----------------------------------------------------------------------------
TypeOK ==
  /\ file \in Seq(Texts) /\ kept \subseteq Texts
  /\ \A w \in Writers : write[w].step \in {"idle", "read", "open", "fill"}

Emptied == \E w \in Writers : write[w].step = "fill"

\* An acknowledged entry is in the file until a request names it, unless two
\* requests overlapped or a write did not get past emptying the file
\* (file_provider.go:206, os.WriteFile in place).
AcknowledgedKept == ~Emptied => kept \subseteq Range(file)

\* The file never exceeds the limit each request checks only against the list
\* it has read, whatever overlaps (file_provider.go:103).
WithinLimit == Len(file) <= Limit
=============================================================================
