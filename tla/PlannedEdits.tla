---------------------------- MODULE PlannedEdits ----------------------------
(***************************************************************************)
(* The single edit a plan comes to, and the unified diff made from it: the *)
(* lines that differ between common first and common last lines, with      *)
(* their numbers and a few lines around.                                   *)
(***************************************************************************)
EXTENDS Integers, SequencesExt

\* infer_single_planned_edit: as many common lines at the top as there are, and then as
\* many at the bottom as that leaves.
CommonTop(old, new) ==
    Max({n \in 0 .. Min({Len(old), Len(new)}) : \A i \in 1 .. n : old[i] = new[i]})
CommonBottom(old, new, top) ==
    Max({n \in 0 .. Min({Len(old), Len(new)}) - top :
           \A i \in 1 .. n : old[Len(old) + 1 - i] = new[Len(new) + 1 - i]})

\* Mutant: the lines at the bottom are counted without regard to those at the top.
InferSingleEdit_SharesLines(old, new) ==
    LET top == CommonTop(old, new)
        bottom == CommonBottom(old, new, 0)
    IN  [start |-> top, end |-> Len(old) - bottom, lines |-> SubSeq(new, top + 1, Len(new) - bottom)]

InferSingleEdit(old, new) ==
    LET top == CommonTop(old, new)
        bottom == CommonBottom(old, new, top)
    IN  [start |-> top, end |-> Len(old) - bottom, lines |-> SubSeq(new, top + 1, Len(new) - bottom)]

\* _apply_single_edit
ApplySingleEdit(old, edit) ==
    SubSeq(old, 1, edit.start) \o edit.lines \o SubSeq(old, edit.end + 1, Len(old))

\* _format_range_unified: the first line and the number of lines, from 0 if there is none.
FormatRange(start, length) == <<IF length = 0 THEN start ELSE start + 1, length>>

\* render_structured_unified_diff: each line behind a token that says what becomes of it.
UnifiedDiff(old, edit, context) ==
    LET from == Max({0, edit.start - context})
        to == Min({Len(old), edit.end + context})
        Tagged(tag, lines) == [i \in DOMAIN lines |-> <<tag>> \o lines[i]]
    IN  [old |-> FormatRange(from, to - from),
         new |-> FormatRange(from, edit.start - from + Len(edit.lines) + to - edit.end),
         body |-> Tagged("keep", SubSeq(old, from + 1, edit.start))
                    \o Tagged("del", SubSeq(old, edit.start + 1, edit.end))
                    \o Tagged("add", edit.lines)
                    \o Tagged("keep", SubSeq(old, edit.end + 1, to))]

\* The lines of a diff with one of these tags.
WithTag(body, tags) ==
    FlattenSeq([i \in DOMAIN body |-> IF body[i][1] \in tags THEN <<body[i]>> ELSE <<>>])

\* What a reader of a diff makes of it: lines it keeps or drops are those at the place it
\* names, and the counts it gives are right.
DiffFits(old, diff, body) ==
    LET dropped == WithTag(body, {"keep", "del"})
        first == IF diff.old[2] = 0 THEN diff.old[1] + 1 ELSE diff.old[1]
    IN  /\ Len(dropped) = diff.old[2]
        /\ Len(WithTag(body, {"keep", "add"})) = diff.new[2]
        /\ first + diff.old[2] - 1 <= Len(old)
        /\ \A i \in DOMAIN dropped : Tail(dropped[i]) = old[first + i - 1]

Patched(old, diff, body) ==
    LET first == IF diff.old[2] = 0 THEN diff.old[1] + 1 ELSE diff.old[1]
        added == WithTag(body, {"keep", "add"})
    IN  SubSeq(old, 1, first - 1) \o [i \in DOMAIN added |-> Tail(added[i])]
          \o SubSeq(old, first + diff.old[2], Len(old))
=============================================================================
