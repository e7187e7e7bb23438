---------------------------- MODULE SnapshotDiff ----------------------------
(***************************************************************************)
(* What `lock diff` shows of a changed tool: internal/policy/diff.go. The  *)
(* old and the new description are split into sentences and compared by a  *)
(* longest common subsequence; the schemas are compared line by line.      *)
(*                                                                         *)
(* A text is a sequence of characters, of which ".", " " and NewLine are   *)
(* told apart. A schema is given as the sequence of its indented lines.    *)
(***************************************************************************)
EXTENDS Naturals, Sequences, SequencesExt

NewLine == "newline"

TrimSpace(s) ==
    LET solid == {i \in DOMAIN s : s[i] # " "}
    IN  IF solid = {} THEN <<>> ELSE SubSeq(s, Min(solid), Max(solid))

(* The pieces of s between consecutive positions of cuts. *)
CutAt(s, cuts) ==
    LET ends == SetToSortSeq(cuts \union {0, Len(s)}, <)
    IN  [k \in 1..Len(ends) - 1 |-> SubSeq(s, ends[k] + 1, ends[k + 1])]

textLines(s) ==
    LET pieces == CutAt(s, {i \in DOMAIN s : s[i] = NewLine})
    IN  [k \in DOMAIN pieces |-> SelectSeq(pieces[k], LAMBDA c : c # NewLine)]

MutantSentences(line) ==
    LET pieces == CutAt(line, {i \in 1..Len(line) - 1 : line[i] = "." /\ line[i + 1] = " "})
        trimmed == [k \in DOMAIN pieces |-> TrimSpace(pieces[k])]
    IN  SelectSeq(trimmed, LAMBDA c : Len(c) > 1)

sentences(line) ==
    LET pieces == CutAt(line, {i \in 1..Len(line) - 1 : line[i] = "." /\ line[i + 1] = " "})
        trimmed == [k \in DOMAIN pieces |-> TrimSpace(pieces[k])]
    IN  SelectSeq(trimmed, LAMBDA c : c # <<>>)

descriptionChunks(s) ==
    LET lines == textLines(s)
    IN  FlattenSeq([k \in DOMAIN lines |-> sentences(lines[k])])

-----------------------------------------------------------------------------

(* lcs[i, j]: length of the longest common subsequence of a[i..] and b[j..] *)
lcsTable(a, b) ==
    LET lcs[i \in 1..Len(a) + 1, j \in 1..Len(b) + 1] ==
            IF i > Len(a) \/ j > Len(b) THEN 0
            ELSE IF a[i] = b[j] THEN lcs[i + 1, j + 1] + 1
            ELSE Max({lcs[i + 1, j], lcs[i, j + 1]})
    IN  lcs

Line(op, text) == [op |-> op, text |-> text]

MutantDiffChunks(a, b) ==
    LET diff[i \in 1..Len(a) + 1, j \in 1..Len(b) + 1] ==
            IF i <= Len(a) /\ j <= Len(b) /\ a[i] = b[j]
            THEN <<Line(" ", a[i])>> \o diff[i + 1, j + 1]
            ELSE IF i <= Len(a) THEN <<Line("-", a[i])>> \o diff[i + 1, j]
            ELSE IF j <= Len(b) THEN <<Line("+", b[j])>> \o diff[i, j + 1]
            ELSE <<>>
    IN  diff[1, 1]

diffChunks(a, b) ==
    LET lcs == lcsTable(a, b)
        diff[i \in 1..Len(a) + 1, j \in 1..Len(b) + 1] ==
            IF i <= Len(a) /\ j <= Len(b) /\ a[i] = b[j]
            THEN <<Line(" ", a[i])>> \o diff[i + 1, j + 1]
            ELSE IF i <= Len(a) /\ (j > Len(b) \/ lcs[i + 1, j] >= lcs[i, j + 1])
            THEN <<Line("-", a[i])>> \o diff[i + 1, j]
            ELSE IF j <= Len(b) THEN <<Line("+", b[j])>> \o diff[i, j + 1]
            ELSE <<>>
    IN  diff[1, 1]

(* A snapshot that the store does not have is one without texts. *)
DiffSnapshots(old, new) ==
    diffChunks(descriptionChunks(old.description), descriptionChunks(new.description))
        \o IF old.schema = new.schema THEN <<>>
           ELSE <<Line(" ", <<"input schema:">>)>> \o diffChunks(old.schema, new.schema)

HasChanges(lines) == \E i \in DOMAIN lines : lines[i].op # " "

-----------------------------------------------------------------------------
Side(lines, ops) ==
    LET of == SelectSeq(lines, LAMBDA l : l.op \in ops)
    IN  [i \in DOMAIN of |-> of[i].text]

(* A diff of chunks can be trusted: without its added lines it is the old text,
   without its removed lines the new one, and no more is marked as changed than
   has to be. *)
DiffIsExact(a, b) ==
    LET lines == diffChunks(a, b)
    IN  /\ Side(lines, {" ", "-"}) = a
        /\ Side(lines, {" ", "+"}) = b
        /\ Len(Side(lines, {" "})) = Max({Len(s) : s \in AllSubSeqs(a) \intersect AllSubSeqs(b)})
        /\ HasChanges(lines) <=> a # b

(* The chunks of a description are its text but for white space, so that
   HasChanges is false of two snapshots only if a reader sees no difference. *)
DiffHidesNothing(old, new) ==
    LET Visible(s) == SelectSeq(s, LAMBDA c : c \notin {" ", NewLine})
    IN  /\ FlattenSeq([i \in DOMAIN descriptionChunks(old.description) |->
               Visible(descriptionChunks(old.description)[i])]) = Visible(old.description)
        /\ ~HasChanges(DiffSnapshots(old, new)) =>
               /\ Visible(old.description) = Visible(new.description)
               /\ old.schema = new.schema
=============================================================================
