------------------------------- MODULE Wrapping -------------------------------
(***************************************************************************)
(* Word wrap (ww_need, ww_perform and the part of ins_char that calls      *)
(* them): a typed character that makes the row too long breaks it at the   *)
(* last blank before the margin.  The pieces are put together by the       *)
(* editing methods of Buffer, so that all of it goes to the undo log.      *)
(*                                                                         *)
(* The settings are a record: width is the margin, merge and long are the  *)
(* flags WW_MERGE (the next row is joined before the break) and WW_LONG    *)
(* (the rows that follow are broken too).                                  *)
(***************************************************************************)
EXTENDS Buffer

CONSTANT Wraps         \* the settings that typing uses in the command TypeWrap
ASSUME WrapsAssumption == Wraps \subseteq [width : Nat \ {0}, merge : BOOLEAN, long : BOOLEAN]

WwNeed(b, w, i) == TrimmedLen(Row(b, i)) > w.width

\* a mistake: in the middle of a word
BreakAtMargin(s, width) == IF TrimmedLen(s) < width THEN 0 ELSE width
\* the column of the break, 0 for none: behind the last blank before the margin, which is not
\* looked for in the first column, or else behind the first one after it
BreakPos(s, width) ==
    LET before == {i \in 1 .. width - 1 : CharAt(s, i) = Blank}
        after  == {i \in width .. TrimmedLen(s) - 1 : CharAt(s, i) = Blank}
    IN IF TrimmedLen(s) < width THEN 0
       ELSE IF before # {} THEN Max(before) + 1
       ELSE IF after # {} THEN Min(after) + 1 ELSE 0

\* the next row is joined with one blank in between
JoinNext(b) ==
    LET glued(joined) ==
            InsertHere(Modified(IF AbsChar(joined, 0) = Blank THEN DelWordRight(joined) ELSE joined), Blank)
    IN glued(DelChar(LineEnd(b)))

Merged(b, w) == IF w.merge /\ Row(b, b.row + 1) # <<>> THEN JoinNext(b) ELSE b

\* the cursor stays where it was
BrokenAt(b, w, row, pos) ==
    IF pos = 0 THEN b
    ELSE GotoCol(GotoLine(SplitLine(GotoCol(Merged(GotoLine(b, row), w), pos)), b.row), b.col)
WwPerform(b, w, row) == BrokenAt(b, w, row, BreakPos(Row(b, row), w.width))

\* WW_LONG: the rows below, for as long as they need it; no end of it after MaxLines rows
WwFollow(b, w) ==
    LET step(t, i) == IF t.on /\ WwNeed(t.b, w, i) /\ i < Count(t.b)
                      THEN [t EXCEPT !.b = WwPerform(t.b, w, i)] ELSE [t EXCEPT !.on = FALSE]
        ended(t)   == IF t.on THEN Trap(t.b) ELSE t.b
    IN ended(FoldLeft(step, [b |-> b, on |-> TRUE], [k \in 1 .. 2 * MaxLines + 2 |-> b.row + k]))

\* a cursor behind the break goes to the new row with the text it was in
CursorFollows(b, pos) ==
    LET offset == IF Has(b, "AutoIndent") THEN IndentOffset(AbsLine(b)) ELSE 0
    IN IF b.col >= pos THEN GotoCol(GotoLine(b, b.row + 1), b.col - pos + offset) ELSE b

Wrap(b, w) ==
    LET follow(wrapped) == IF w.long THEN WwFollow(wrapped, w) ELSE wrapped
        at(pos) == IF ~WwNeed(b, w, b.row) \/ pos = 0 THEN b
                   ELSE CursorFollows(follow(BrokenAt(b, w, b.row, pos)), pos)
    IN at(BreakPos(AbsLine(b), w.width))
InsCharWrapped(b, w, ch) == Wrap(InsertHere(Modified(b), ch), w)

TypeWrap == \E ch \in Chars, w \in Wraps : Edit("TypeWrap", InsCharWrapped(Clear(Opened), w, ch))
=============================================================================
