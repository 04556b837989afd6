-------------------------------- MODULE Line --------------------------------
(***************************************************************************)
(* The text of one line (class Line, source/line.cpp) and the difference   *)
(* of two lines, the form in which an edit of a line is kept for undo.     *)
(*                                                                         *)
(* A line is a sequence of characters without TABs, so that a column of    *)
(* the screen is an index of the string; columns start at 0 as in the      *)
(* code.  A difference is kept in the code as a byte string of runs        *)
(* (operation and count in the first byte, then the characters of the run);*)
(* here a run is a record, and MaxCnt is the count that fits that byte.    *)
(***************************************************************************)
EXTENDS Integers, Sequences, SequencesExt

CONSTANT MaxCnt        \* MAX_CNT, the largest count of one run (63)
ASSUME MaxCntAssumption == MaxCnt \in Nat \ {0}

Blank == " "
Nul   == ""            \* what char_at answers past the end of the line

Smaller(a, b) == IF a < b THEN a ELSE b
Larger(a, b)  == IF a > b THEN a ELSE b

Blanks(n) == [i \in 1 .. Larger(n, 0) |-> Blank]
Pad(s, width) == s \o Blanks(width - Len(s))

-----------------------------------------------------------------------------
(***************************************************************************)
(* Editing one line.                                                       *)
(***************************************************************************)
InsChars(s, pos, cs) ==
    IF pos < 0 \/ cs = <<>> THEN s
    ELSE LET t == Pad(s, pos) IN SubSeq(t, 1, pos) \o cs \o SubSeq(t, pos + 1, Len(t))

DelChars(s, pos, num) ==
    IF pos < 0 \/ num <= 0 \/ pos >= Len(s) THEN s
    ELSE SubSeq(s, 1, pos) \o SubSeq(s, pos + num + 1, Len(s))

CharAt(s, pos) == IF pos \in 0 .. Len(s) - 1 THEN s[pos + 1] ELSE Nul

\* the tail that a split takes off to the new line
TailFrom(s, pos) == DelChars(s, 0, Smaller(pos, Len(s)))

\* the number of leading blanks, and the length without the trailing ones
IndentOffset(s) ==
    CHOOSE n \in 0 .. Len(s) : /\ \A i \in 1 .. n : s[i] = Blank
                               /\ n < Len(s) => s[n + 1] # Blank
TrimmedLen(s) ==
    CHOOSE n \in 0 .. Len(s) : /\ \A i \in n + 1 .. Len(s) : s[i] = Blank
                               /\ n > 0 => s[n] # Blank
Trim(s) == SubSeq(s, 1, TrimmedLen(s))

-----------------------------------------------------------------------------
(***************************************************************************)
(* diff_str: one pass over the old string.  A character found in what is   *)
(* left of the new string is kept (EQ), and the characters skipped on the  *)
(* way to it were inserted by the edit (SUB: undo takes them out); one     *)
(* that is not found was deleted (ADD: undo puts it back).                 *)
(***************************************************************************)
Op(op, chars) == [i \in 1 .. Len(chars) |-> [op |-> op, ch |-> chars[i]]]

DiffChar(d, c) ==
    LET found == {j \in d.start .. Len(d.new) : d.new[j] = c} IN
    IF found = {} THEN [d EXCEPT !.ops = @ \o Op("ADD", <<c>>)]
    ELSE LET j == CHOOSE j \in found : \A k \in found : j <= k IN
         [d EXCEPT !.ops = @ \o Op("SUB", SubSeq(d.new, d.start, j - 1)) \o Op("EQ", <<c>>),
                   !.start = j + 1]

DiffOps(old, new) ==
    LET d == FoldLeft(DiffChar, [new |-> new, start |-> 1, ops |-> <<>>], old)
    IN d.ops \o Op("SUB", SubSeq(new, d.start, Len(new)))

\* equal operations in a row share a run until its count is full
AddToRuns(runs, o) ==
    LET data == IF o.op = "EQ" THEN <<>> ELSE <<o.ch>> IN
    IF runs # <<>> /\ Last(runs).op = o.op /\ Last(runs).cnt < MaxCnt
    THEN Front(runs) \o <<[Last(runs) EXCEPT !.cnt = @ + 1, !.chars = @ \o data]>>
    ELSE Append(runs, [op |-> o.op, cnt |-> 1, chars |-> data])

GenDiff(old, new) == FoldLeft(AddToRuns, <<>>, DiffOps(old, new))

(***************************************************************************)
(* apply: replay the runs over a base string.  "undo" makes the old string *)
(* of the new one, "redo" swaps the roles of ADD and SUB.  Applied to any  *)
(* other string than the one the difference was made from it still gives   *)
(* some string: a copy that runs over the end of the base copies its       *)
(* terminator, and the result stops there.                                 *)
(***************************************************************************)
ApplyRun(acc, run, dir) ==
    LET adds == IF dir = "undo" THEN "ADD" ELSE "SUB" IN
    CASE run.op = "EQ"  -> [acc EXCEPT !.out = @ \o [i \in 1 .. run.cnt |-> CharAt(acc.base, acc.pos + i - 1)],
                                       !.pos = @ + run.cnt]
      [] run.op = adds  -> [acc EXCEPT !.out = @ \o run.chars]
      [] OTHER          -> [acc EXCEPT !.pos = @ + run.cnt]

ApplyDiff(runs, base, dir) ==
    LET step(acc, run) == ApplyRun(acc, run, dir)
        out == FoldLeft(step, [base |-> base, pos |-> 0, out |-> <<>>], runs).out
        stop == {i \in 1 .. Len(out) : out[i] = Nul}
    IN IF stop = {} THEN out
       ELSE SubSeq(out, 1, (CHOOSE i \in stop : \A j \in stop : i <= j) - 1)

=============================================================================
