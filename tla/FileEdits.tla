---------------------------- MODULE FileEdits ----------------------------
(***************************************************************************)
(* Cursor's edits of a file, carried out by the host's own tools           *)
(* (protocol/tools.ts and protocol/apply-patch.ts; the read and the write  *)
(* in src/language-model.ts).  Cursor edits in one of two ways.  A legacy  *)
(* edit reads the file, which OpenCode authorizes and the provider then    *)
(* completes, and sends the whole new text as a write; the provider plans  *)
(* the smallest line-bounded replacement of unique text and asks for the   *)
(* host's edit.  A targeted edit sends the old and the new text.  A host   *)
(* without edit and write takes either as a patch of whole lines, or as    *)
(* an Add File.  Meanwhile another writer may change the file, in place or *)
(* by replacing it.                                                        *)
(*                                                                         *)
(* A text is a sequence of characters: "n" ends a line, "r" before "n" is  *)
(* a carriage return, "p" stands for the notice that a read was partial.   *)
(* A cut is a place between two characters, 0 before the first.  Byte      *)
(* order marks and paths are left out.                                     *)
(***************************************************************************)
EXTENDS Naturals, Sequences, FiniteSets, SequencesExt, FiniteSetsExt

CONSTANTS Files,      \* the texts the file may hold at first
          Written,    \* the texts another writer may leave
          Pieces,     \* the texts an edit removes or puts in
          Catalogs,   \* the sets of edit tools a host may offer
          Shown,      \* how many characters the host's own read shows
          MaxEdit,    \* the longest text the provider edits
          MaxChanges  \* bounds the other writer

Missing == <<"-">>

VARIABLES file,     \* what the file holds, or Missing
          inode,    \* which file it is
          catalog,  \* the edit tools the host offers
          stage,    \* what Cursor's edit is about to do
          read,     \* the read on the way: its inode and what the host saw
          seen,     \* the text Cursor was given
          call,     \* the host call the edit became
          planned   \* the file and the wanted text when it was planned

vars == <<file, inode, catalog, stage, read, seen, call, planned>>

NoCall == [tool |-> "none"]
Refused == [tool |-> "refused"]
NoRead == [inode |-> 0, text |-> <<>>]
NoPlan == [file |-> <<>>, want |-> <<>>, old |-> <<>>]

Init == /\ file \in Files \cup {Missing}
        /\ inode = 1
        /\ catalog \in Catalogs
        /\ stage = "start"
        /\ read = NoRead
        /\ seen = <<>>
        /\ call = NoCall
        /\ planned = NoPlan

----------------------------------------------------------------------------
(* Texts.                                                                  *)

Slice(s, from, to) == SubSeq(s, from + 1, to)

LineStarts(s) == {0} \cup {c \in 1..Len(s) : s[c] = "n"}

\* Where the line around a cut starts, and where the one before it does.
LineStart(s, c) == Max({b \in LineStarts(s) : b <= c})

previousLineStart(s, c) ==
  IF c = 0 THEN 0
  ELSE LET before == IF s[c] = "n" THEN Max({c - 1, 1}) ELSE c
       IN LineStart(s, before)

followingLineEnd(s, c) == Min({b \in LineStarts(s) : b > c} \cup {Len(s)})

\* Where a line ends, before its newline.
LineEnd(s, c) == Min({b \in c..(Len(s) - 1) : s[b + 1] = "n"} \cup {Len(s)})

Found(s, old) == {c \in 0..(Len(s) - Len(old)) : Slice(s, c, c + Len(old)) = old}

Apart(found, size, end) ==
  LET at[c \in 0..(end + 1)] ==
        IF \A d \in found : d < c THEN {}
        ELSE LET next == Min({d \in found : d >= c})
             IN {next} \cup at[Min({next + size, end + 1})]
  IN at[0]

\* The occurrences a search from left to right meets, none overlapping.
Offsets(s, old) == IF old = <<>> THEN {} ELSE Apart(Found(s, old), Len(old), Len(s))

InOrder(offsets) == SetToSortSeq(offsets, <)

\* Puts the new text at each of the offsets.
Spliced(s, from, size, new) ==
  LET start(k) == IF k = 0 THEN 0 ELSE from[k] + size
      end(k) == IF k = Len(from) THEN Len(s) ELSE from[k + 1]
  IN FlattenSeq([k \in 1..(Len(from) + 1) |->
       (IF k = 1 THEN <<>> ELSE new) \o Slice(s, start(k - 1), end(k - 1))])

PutAll(s, offsets, old, new) == Spliced(s, InOrder(offsets), Len(old), new)

Between(s, at) == [k \in 1..(Len(at) - 1) |-> SubSeq(s, at[k] + 1, at[k + 1] - 1)]

Lines(s) == Between(s, <<0>> \o InOrder({c \in 1..Len(s) : s[c] = "n"}) \o <<Len(s) + 1>>)

Joined(lines) ==
  FlattenSeq([k \in 1..Len(lines) |-> IF k = 1 THEN lines[k] ELSE <<"n">> \o lines[k]])

HasReturns(s) == \E c \in 1..(Len(s) - 1) : s[c] = "r" /\ s[c + 1] = "n"

EndsInReturn(s) == HasReturns(s) \/ (s # <<>> /\ Last(s) = "r")

Picked(s, kept) == [k \in 1..Len(kept) |-> s[kept[k]]]

Ended(plain, ending) ==
  FlattenSeq([k \in 1..Len(plain) |-> IF plain[k] = "n" THEN ending ELSE <<plain[k]>>])

\* The host and the provider give an edit's text the file's line ending.
WithEnding(s, like) ==
  Ended(Picked(s, SelectSeq([c \in 1..Len(s) |-> c],
                    LAMBDA c : ~(s[c] = "r" /\ c < Len(s) /\ s[c + 1] = "n"))),
        IF HasReturns(like) THEN <<"r", "n">> ELSE <<"n">>)

----------------------------------------------------------------------------
(* Plans.                                                                  *)

NoReplacement == [old |-> <<>>, new |-> <<>>]

\* The text two texts share at their ends, beyond what they share at the start.
Prefix(s, t) ==
  Max({k \in 0..Min({Len(s), Len(t)}) : Slice(s, 0, k) = Slice(t, 0, k)})

\* Mutant: the ends may overlap the shared start.
Suffix_Overlaps(s, t) ==
  LET rest == Min({Len(s), Len(t)})
  IN Max({k \in 0..rest : Slice(s, Len(s) - k, Len(s)) = Slice(t, Len(t) - k, Len(t))})

Suffix(s, t) ==
  LET rest == Min({Len(s), Len(t)}) - Prefix(s, t)
  IN Max({k \in 0..rest : Slice(s, Len(s) - k, Len(s)) = Slice(t, Len(t) - k, Len(t))})

\* Mutant: the first place is good enough.
replacementOccurrenceCount_Any(s, old) == IF Found(s, old) = {} THEN 0 ELSE 1

replacementOccurrenceCount(s, old) == Cardinality(Offsets(s, old))

\* Widens the replaced lines until their text is found once in the file.
Widened(s, start, end) ==
  LET widened[k \in 0..Len(s)] ==
        IF k = 0 THEN <<start, end>>
        ELSE LET w == widened[k - 1]
             IN IF replacementOccurrenceCount(s, Slice(s, w[1], w[2])) = 1 THEN w
                ELSE <<IF w[1] > 0 THEN previousLineStart(s, w[1]) ELSE 0,
                       IF w[2] < Len(s) THEN followingLineEnd(s, w[2]) ELSE w[2]>>
  IN widened[Len(s)]

\* The lines first..last, or a line more where the change only inserts.
AroundLines(s, first, last) ==
  Widened(s, IF first = last /\ first > 0 THEN previousLineStart(s, first) ELSE first,
             IF first = last /\ first = 0 THEN followingLineEnd(s, last) ELSE last)

Replacement(s, w, prefix, changeEnd, inserted) ==
  IF replacementOccurrenceCount(s, Slice(s, w[1], w[2])) # 1 THEN NoReplacement
  ELSE [old |-> Slice(s, w[1], w[2]),
        new |-> Slice(s, w[1], prefix) \o inserted \o Slice(s, changeEnd, w[2])]

ReplaceBetween(s, prefix, changeEnd, inserted) ==
  Replacement(s, AroundLines(s, LineStart(s, prefix),
                   IF changeEnd >= Len(s) THEN Len(s) ELSE followingLineEnd(s, changeEnd)),
              prefix, changeEnd, inserted)

Unshared(s, t, prefix, suffix) ==
  ReplaceBetween(s, prefix, Len(s) - suffix, Slice(t, prefix, Len(t) - suffix))

planWholeFileEdit(s, t) ==
  IF s = <<>> \/ s = t THEN NoReplacement
  ELSE Unshared(s, t, Prefix(s, t), Suffix(s, t))

Unterminated(t) == t # <<>> /\ Last(t) # "n"

NoChunks == <<>>

\* Mutant: the untouched blank end of a file is left to the patch tool.
BlankTail_Not(t) == FALSE

\* The text ends with a blank line, which the patch tool would drop.
BlankTail(t) == t = <<"n">> \/ (Len(t) > 1 /\ t[Len(t)] = "n" /\ t[Len(t) - 1] = "n")

WithoutLast(lines, drops) == IF drops /\ Last(lines) = <<>> THEN Front(lines) ELSE lines

\* The whole lines around one place.
Chunk(s, at, end, size, new) ==
  LET start == LineStart(s, at)
  IN [old |-> WithoutLast(Lines(Slice(s, start, end)), end = Len(s)),
      new |-> Lines(Slice(s, start, at) \o new \o Slice(s, at + size, end))]

Chunks(s, from, size, new, target) ==
  LET end(k) == LineEnd(s, from[k] + size)
  IN IF Unterminated(target) \/ \E k \in 2..Len(from) : LineStart(s, from[k]) < end(k - 1)
     THEN NoChunks
     ELSE [k \in 1..Len(from) |-> Chunk(s, from[k], end(k), size, new)]
            \o (IF end(Len(from)) < Len(s) /\ BlankTail(target)
                THEN <<[old |-> <<>>, new |-> <<(<<>>)>>]>> ELSE <<>>)

PlanAt(s, offsets, size, new, all) ==
  IF offsets = {} \/ (Cardinality(offsets) > 1 /\ ~all) THEN NoChunks
  ELSE Chunks(s, InOrder(offsets), size, new, Spliced(s, InOrder(offsets), size, new))

\* The whole lines a replacement touches, as a patch matches lines.  Refuses,
\* rather than guesses, what the patch tools cannot carry out.
planSubstringEdit(s, old, new, all) == PlanAt(s, Offsets(s, old), Len(old), new, all)

----------------------------------------------------------------------------
(* The host's tools, as protocol/apply-patch.ts and its tests describe     *)
(* them.  A tool that cannot do what it was asked leaves the file alone.   *)

EditsAt(s, offsets, old, new, all) ==
  IF offsets = {} \/ (Cardinality(offsets) > 1 /\ ~all) THEN s
  ELSE PutAll(s, offsets, old, new)

Edited(s, old, new, all) == EditsAt(s, Offsets(s, old), old, new, all)

HostEdits(s, c) == Edited(s, WithEnding(c.old, s), WithEnding(c.new, s), c.all)

\* Where the chunks go: how many lines come before each, and with it.
Places(lines, chunks, atEnd) ==
  LET Matches(k, from) ==
        {i \in (from + 1)..(Len(lines) - Len(chunks[k].old) + 1) :
           SubSeq(lines, i, i + Len(chunks[k].old) - 1) = chunks[k].old}
      place[k \in 0..Len(chunks)] ==
        IF k = 0 THEN <<0, 0, TRUE>>
        ELSE LET before == place[k - 1]
                 at == Matches(k, before[2])
             IN CASE ~before[3] -> before
                  [] before[3] /\ chunks[k].old = <<>> -> <<atEnd, before[2], TRUE>>
                  [] before[3] /\ chunks[k].old # <<>> /\ at = {} -> <<0, 0, FALSE>>
                  [] OTHER -> <<Min(at) - 1, Min(at) - 1 + Len(chunks[k].old), TRUE>>
  IN place

Patched(lines, chunks, place) ==
  LET n == Len(chunks)
      patched[k \in 0..n] ==  \* with the last k chunks in their places
        IF k = 0 THEN lines
        ELSE LET rest == patched[k - 1]
                 chunk == chunks[n + 1 - k]
                 at == place[n + 1 - k][1]
             IN SubSeq(rest, 1, at) \o chunk.new \o SubSeq(rest, at + Len(chunk.old) + 1, Len(rest))
  IN patched[n]

Closed(lines) == Joined(IF lines # <<>> /\ Last(lines) = <<>> THEN lines ELSE Append(lines, <<>>))

PatchedAt(s, lines, chunks, place) ==
  IF ~place[Len(chunks)][3] THEN s ELSE Closed(Patched(lines, chunks, place))

PatchedLines(s, lines, chunks, keepsBlank) ==
  PatchedAt(s, lines, chunks,
    Places(lines, chunks,
      IF keepsBlank /\ lines # <<>> /\ Last(lines) = <<>> THEN Len(lines) - 1 ELSE Len(lines)))

\* Every chunk is looked for below the one before it.  A final newline is set
\* aside first, and added again when the last line has text.
HostPatches(s, c) ==
  PatchedLines(s, WithoutLast(Lines(s), TRUE), c.chunks, c.tool = "apply_patch")

HostDoes(s, c) ==
  CASE c.tool \in {"none", "refused"} -> s
    [] c.tool \notin {"none", "refused"} /\ "text" \in DOMAIN c -> c.text
    [] c.tool \notin {"none", "refused"} /\ "text" \notin DOMAIN c /\ s = Missing -> s
    [] c.tool = "edit" /\ s # Missing -> HostEdits(s, c)
    [] OTHER -> HostPatches(s, c)

----------------------------------------------------------------------------
(* What a request becomes.                                                 *)

PatchTool ==
  IF "apply_patch" \in catalog THEN "apply_patch"
  ELSE IF "patch" \in catalog THEN "patch" ELSE "none"

\* A patch cannot end a text without a newline, and `patch` drops returns.
WritesFile(t) ==
  IF "write" \in catalog THEN [tool |-> "write", text |-> t]
  ELSE IF PatchTool = "none" \/ Unterminated(t) \/ (PatchTool = "patch" /\ EndsInReturn(t))
  THEN Refused
  ELSE [tool |-> PatchTool, text |-> t]

PatchOf(chunks) ==
  IF \/ chunks = NoChunks
     \/ PatchTool = "patch"
        /\ \E k \in DOMAIN chunks : \E l \in Range(chunks[k].old) \cup Range(chunks[k].new) :
             EndsInReturn(l)
  THEN Refused
  ELSE [tool |-> PatchTool, chunks |-> chunks]

Patches(s, old, new, all) ==
  LET text(v) == IF PatchTool = "apply_patch" THEN WithEnding(v, s) ELSE v
  IN PatchOf(planSubstringEdit(s, text(old), text(new), all))

EditsFile(s, old, new, all) ==
  IF "edit" \in catalog THEN [tool |-> "edit", old |-> old, new |-> new, all |-> all]
  ELSE IF \/ PatchTool = "none" \/ s = Missing
          \/ s # Missing /\ (Len(s) > MaxEdit \/ (PatchTool = "patch" /\ EndsInReturn(s)))
  THEN Refused
  ELSE Patches(s, old, new, all)

ReplaceOrWrite(s, t, plan) ==
  IF plan = NoReplacement THEN WritesFile(t) ELSE EditsFile(s, plan.old, plan.new, FALSE)

\* Cursor's whole-file write under an edit.
remapCorrelatedEditWrite(s, t) ==
  IF /\ s # Missing
     /\ "edit" \in catalog \/ PatchTool # "none"
     /\ Len(t) <= MaxEdit /\ Len(s) <= MaxEdit
  THEN ReplaceOrWrite(s, t, planWholeFileEdit(s, t))
  ELSE WritesFile(t)

\* Mutant: the notice is taken for text.
rejectPartialReadMutation_Not(t) == FALSE

\* A write that carries the notice of a partial read would drop what the
\* read left out.
rejectPartialReadMutation(t) == "p" \in Range(t)

----------------------------------------------------------------------------
(* The edit.                                                               *)

\* Another program writes the file, or puts another in its place.
Changes ==
  /\ stage \notin {"start", "done"}
  /\ inode < MaxChanges + 1
  /\ \E t \in Written :
       \/ file' = t /\ inode' = inode + 1
       \/ file # Missing /\ file' = t /\ t # file /\ UNCHANGED inode
  /\ UNCHANGED <<catalog, stage, read, seen, call, planned>>

cursorEditReadAnswer ==
  IF file = Missing THEN "empty" ELSE IF Len(file) <= MaxEdit THEN "host-complete" ELSE "host"

\* Cursor's private read.  A missing file is answered as an empty one; any
\* other goes to the host, and keeps which file it was if it may be completed.
ReadAsked ==
  /\ stage = "start"
  /\ IF cursorEditReadAnswer = "empty"
     THEN stage' = "seen" /\ seen' = <<>> /\ UNCHANGED read
     ELSE /\ stage' = "reading"
          /\ read' = [inode |-> IF cursorEditReadAnswer = "host-complete" THEN inode ELSE 0,
                      text |-> <<>>]
          /\ UNCHANGED seen
  /\ UNCHANGED <<file, inode, catalog, call, planned>>

HostReads ==
  /\ stage = "reading" /\ file # Missing
  /\ read' = [read EXCEPT !.text = file]
  /\ stage' = "read"
  /\ UNCHANGED <<file, inode, catalog, seen, call, planned>>

\* The result: the complete text of the same file, else what the host showed.
ReadAnswered ==
  /\ stage = "read"
  /\ seen' = IF read.inode = inode /\ Len(file) <= MaxEdit THEN file
             ELSE IF Len(read.text) > Shown THEN Append(Slice(read.text, 0, Shown), "p")
             ELSE read.text
  /\ stage' = "seen"
  /\ UNCHANGED <<file, inode, catalog, read, call, planned>>

\* Cursor replaces a piece of what it was shown and sends the whole text.
WriteSent ==
  /\ stage = "seen"
  /\ \E old, new \in Pieces : \E c \in Found(seen, old) :
       LET t == Slice(seen, 0, c) \o new \o Slice(seen, c + Len(old), Len(seen))
       IN /\ t # seen
          /\ call' = IF rejectPartialReadMutation(t) THEN Refused
                     ELSE remapCorrelatedEditWrite(file, t)
          /\ planned' = [file |-> file, want |-> t,
                         old |-> IF file = Missing THEN <<>> ELSE planWholeFileEdit(file, t).old]
  /\ stage' = "asked"
  /\ UNCHANGED <<file, inode, catalog, read, seen>>

\* A targeted edit needs no read.
EditSent ==
  /\ stage = "start" /\ file # Missing
  /\ \E old, new \in Pieces, all \in BOOLEAN :
       LET offsets == Offsets(file, old)
           done == offsets # {} /\ (all \/ Cardinality(offsets) = 1)
       IN /\ old # <<>> /\ old # new
          /\ call' = EditsFile(file, old, new, all)
          /\ planned' = [file |-> file,
                         want |-> IF done THEN PutAll(file, offsets, old, new) ELSE file,
                         old |-> old]
  /\ stage' = "asked"
  /\ UNCHANGED <<file, inode, catalog, read, seen>>

HostCalled ==
  /\ stage = "asked"
  /\ file' = HostDoes(file, call)
  /\ stage' = "done"
  /\ UNCHANGED <<inode, catalog, read, seen, call, planned>>

Next == Changes \/ ReadAsked \/ HostReads \/ ReadAnswered \/ WriteSent \/ EditSent \/ HostCalled

Spec == Init /\ [][Next]_vars

----------------------------------------------------------------------------
(* Correctness.                                                            *)

\* The text to replace overlaps itself in the file, as one of several equal
\* lines does: a search that skips what it found counts it once.
Overlaps(s, old) == Cardinality(Found(s, old)) > Cardinality(Offsets(s, old))

\* The call the host is asked for gives exactly the text Cursor wants when
\* the file is still what the call was planned for: the plan names the right
\* place, and no line, blank end or newline is lost (planWholeFileEdit,
\* planSubstringEdit and the patch envelopes).  A patch in several chunks may
\* fail to match instead, and then changes nothing.
EditGivesTarget ==
  stage = "asked" /\ call # Refused /\ ~Overlaps(planned.file, planned.old) =>
    HostDoes(planned.file, call) \in
      {planned.want} \cup
      IF "chunks" \in DOMAIN call /\ Len(call.chunks) > 1 THEN {planned.file} ELSE {}

\* "Collapse a whole-file replacement into one unique, line-bounded substring
\* edit" (tools.ts): an edit changes the file to what Cursor wants, or not at
\* all.  It does not hold: among equal lines the plan's text overlaps itself,
\* counts as unique, and is replaced at its first place.
NeverElsewhere ==
  stage = "asked" => HostDoes(planned.file, call) \in {planned.want, planned.file}

EndsWith(s, tail) == Len(s) >= Len(tail) /\ Slice(s, Len(s) - Len(tail), Len(s)) = tail

\* An edit computed from a partial read never drops the text the read left
\* out (rejectPartialReadMutation and the completed edit read).
TailKept ==
  stage = "asked" /\ "p" \in Range(seen) =>
    EndsWith(HostDoes(read.text, call), Slice(read.text, Shown, Len(read.text)))
=============================================================================
