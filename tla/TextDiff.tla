------------------------------ MODULE TextDiff ------------------------------
(***************************************************************************)
(* The unified diff that fmt, build and upgrade print (internal/diff). A   *)
(* text is a sequence of lines. An edit is a kept, deleted or added line   *)
(* with its line number in either text, 0 where it has none.               *)
(***************************************************************************)
EXTENDS Integers, Sequences, SequencesExt, FiniteSets, FiniteSetsExt

Context == 3

Edit(kind, line, a, b) == [kind |-> kind, line |-> line, a |-> a, b |-> b]

Larger(x, y) == IF x >= y THEN x ELSE y
Smaller(x, y) == IF x <= y THEN x ELSE y

(* The cell of one row that is left of those computed; below is the row of  *)
(* the next line of the old text.                                           *)
Fill(line, b, below, row, j) ==
    [row EXCEPT ![j] = IF line = b[j] THEN below[j + 1] + 1 ELSE Larger(below[j], row[j + 1])]

EmptyRow(b) == [j \in 1 .. (Len(b) + 1) |-> 0]

Row(line, b, below) ==
    LET row[k \in 0 .. Len(b)] ==
            IF k = 0 THEN EmptyRow(b)
            ELSE Fill(line, b, below, row[k - 1], Len(b) + 1 - k)
    IN  row[Len(b)]

AddRow(a, b, rows, i) == [rows EXCEPT ![i] = Row(a[i], b, rows[i + 1])]

(* Lcs(a, b)[i][j] is the length of the longest common subsequence of the   *)
(* lines from i and from j on.                                              *)
Lcs(a, b) ==
    LET rows[k \in 0 .. Len(a)] ==
            IF k = 0 THEN [i \in 1 .. (Len(a) + 1) |-> EmptyRow(b)]
            ELSE AddRow(a, b, rows[k - 1], Len(a) + 1 - k)
    IN  rows[Len(a)]

(* The old line goes before the new one comes, when both are as good. *)
Drops(a, b, lcs, i, j) ==
    i <= Len(a) /\ (j > Len(b) \/ lcs[i + 1][j] >= lcs[i][j + 1])

EditStep(a, b, lcs, w) ==
    LET i == w.i
        j == w.j
        add(e) == Append(w.edits, e)
    IN  IF i > Len(a) /\ j > Len(b) THEN w
        ELSE IF i <= Len(a) /\ j <= Len(b) /\ a[i] = b[j]
        THEN [i |-> i + 1, j |-> j + 1, edits |-> add(Edit("keep", a[i], i, j))]
        ELSE IF Drops(a, b, lcs, i, j)
        THEN [i |-> i + 1, j |-> j, edits |-> add(Edit("delete", a[i], i, 0))]
        ELSE [i |-> i, j |-> j + 1, edits |-> add(Edit("add", b[j], 0, j))]

ScriptStart == [i |-> 1, j |-> 1, edits |-> <<>>]

EditScript(a, b) ==
    LET lcs == Lcs(a, b)
        walk[k \in 0 .. (Len(a) + Len(b))] ==
            IF k = 0 THEN ScriptStart ELSE EditStep(a, b, lcs, walk[k - 1])
    IN  walk[Len(a) + Len(b)].edits

(* Mutant: the context that follows the last change is not counted. *)
SplitsEarly(index, last) == index - Context > last

(* A change further than two contexts from the last one opens a new hunk.   *)
Splits(index, last) == index - Context > last + Context + 1

(* Changes that share a hunk, from the first to the last: the next edit     *)
(* extends the last of these groups, or begins another.                     *)
Extend(edits, groups, k) ==
    IF edits[k].kind = "keep" THEN groups
    ELSE IF groups = <<>> \/ Splits(k, Last(groups)[2]) THEN Append(groups, <<k, k>>)
    ELSE Append(Front(groups), <<Last(groups)[1], k>>)

ChangeGroups(edits) ==
    LET groups[k \in 0 .. Len(edits)] ==
            IF k = 0 THEN <<>> ELSE Extend(edits, groups[k - 1], k)
    IN  groups[Len(edits)]

(* The hunks as ranges <<first, last>> of edits. *)
HunkRanges(edits) ==
    LET groups == ChangeGroups(edits) IN
    [n \in DOMAIN groups |->
        <<Larger(groups[n][1] - Context, 1), Smaller(groups[n][2] + Context, Len(edits))>>]

(* The header of a hunk: where it starts and how long it is on each side; a *)
(* side without lines stands just before the other.                         *)
Header(edits, range) ==
    LET hunk == SubSeq(edits, range[1], range[2])
        lines(f) == {hunk[k][f] : k \in DOMAIN hunk} \ {0}
        start(f, g) == IF lines(f) = {} THEN Min(lines(g)) - 1 ELSE Min(lines(f))
    IN  [aStart |-> start("a", "b"), aCount |-> Cardinality(lines("a")),
         bStart |-> start("b", "a"), bCount |-> Cardinality(lines("b"))]

Unified(a, b) ==
    LET edits == EditScript(a, b)
        ranges == HunkRanges(edits)
    IN  IF a = b THEN <<>>
        ELSE [k \in DOMAIN ranges |->
                [header |-> Header(edits, ranges[k]),
                 edits |-> SubSeq(edits, ranges[k][1], ranges[k][2])]]
-----------------------------------------------------------------------------
(* What a patch program does with the hunks: text by text, in their order,  *)
(* knowing of each line only its kind and text.                             *)
TakeLine(edits, side, lines, k) ==
    IF edits[k].kind \in {"keep", side} THEN Append(lines, edits[k].line) ELSE lines

Lines(edits, side) ==
    LET lines[k \in 0 .. Len(edits)] ==
            IF k = 0 THEN <<>> ELSE TakeLine(edits, side, lines[k - 1], k)
    IN  lines[Len(edits)]

NewLines(edits) == Lines(edits, "add")
OldLines(edits) == Lines(edits, "delete")

(* The old line after which a hunk begins. *)
Before(header) == IF header.aCount = 0 THEN header.aStart ELSE header.aStart - 1

PatchHunk(a, p, h) ==
    [used |-> Before(h.header) + h.header.aCount,
     text |-> p.text \o SubSeq(a, p.used + 1, Before(h.header)) \o NewLines(h.edits)]

Patch(a, hunks) ==
    LET patched[k \in 0 .. Len(hunks)] ==
            IF k = 0 THEN [used |-> 0, text |-> <<>>]
            ELSE PatchHunk(a, patched[k - 1], hunks[k])
        end == patched[Len(hunks)]
    IN  end.text \o SubSeq(a, end.used + 1, Len(a))
=============================================================================
