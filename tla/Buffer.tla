------------------------------- MODULE Buffer -------------------------------
(***************************************************************************)
(* One text buffer of the editor (class Buffer) as the commands of the key *)
(* table see it: the text, the cursor, the marked block, the flags, and    *)
(* the undo log.  Every command is run by the dispatcher between track_beg *)
(* and track_end, under the editor's mutex, so it is one atomic step; in   *)
(* between, it calls the methods of Buffer, each an operator here from a   *)
(* buffer to a buffer, that note in the log how to take each change back.  *)
(*                                                                         *)
(* The state of the buffer is one record:                                  *)
(*   lines       the lines of the file, never none;                        *)
(*   row, col    abs_row() and abs_col(), the cursor; the window position  *)
(*               start_row/start_col is folded into them;                  *)
(*   mrow, mcol  old_abs_row and old_abs_col, the fixed end of the block;  *)
(*   flags       the set of flag names that are on;                        *)
(*   track       track_head, the log of the running command, newest first; *)
(*   undo        undobuff, the logs of the commands before it, newest      *)
(*               first;                                                    *)
(*   trap        a line that does not exist was used: the process dies in  *)
(*               XHandler and nothing more happens.                        *)
(* Runs of cursor steps inside one method are logged as one step.          *)
(***************************************************************************)
EXTENDS Line, Integers, Sequences, FiniteSets, SequencesExt

CONSTANTS
    Chars,         \* the characters that can be typed
    Delims,        \* those of them that is_word_delim accepts, the blank included
    Keywords,      \* lines that consist of one keyword that is to be unindented
    Texts,         \* the files the buffer is loaded with
    SavedCols,     \* the columns the cursor may be restored to (.FEDSTATE)
    TabWidth,      \* editor.tabwidth
    UnindentKeywords, \* editor.unindent.keywords
    DeleteWS,      \* editor.word.delete_ws
    SpacesOnly,    \* editor.unindent.spaces.only
    AfterBlock,    \* cursor.after.block
    BlockIns,      \* editor.block.ins_mode
    CompressMoves, \* editor.undo.compress.moves
    PMClipboard,   \* the blocks go through the clipboard of Presentation Manager
    PageRows,      \* rows of the window
    Commands,      \* the names of the commands that are bound to keys
    MaxLines, MaxWidth, MaxUndo   \* bounds on the text and on the undo list

ASSUME BufferAssumption ==
    /\ Blank \in Delims /\ Nul \notin Chars \cup Delims
    /\ \A doc \in Texts : doc \in Seq(Seq(Chars \cup Delims)) /\ doc # <<>>
    /\ SavedCols \subseteq Nat
    /\ {TabWidth, PageRows, MaxLines, MaxWidth, MaxUndo} \subseteq Nat \ {0}
    /\ {UnindentKeywords, DeleteWS, SpacesOnly, AfterBlock, BlockIns, CompressMoves, PMClipboard} \subseteq BOOLEAN

VARIABLES
    buf,    \* the buffer
    clip,   \* EditBoxCollection::Clipboard
    disk    \* the file, as the last load or save left it

vars == <<buf, clip, disk>>

NoClip == [lines |-> <<>>, column |-> FALSE]

-----------------------------------------------------------------------------
(***************************************************************************)
(* Tracking.                                                               *)
(***************************************************************************)
Has(b, flag) == flag \in b.flags
Count(b)     == Len(b.lines)
Row(b, i)    == IF i \in 0 .. Count(b) - 1 THEN b.lines[i + 1] ELSE <<>>
AbsLine(b)   == Row(b, b.row)
AbsChar(b, offset) == CharAt(AbsLine(b), b.col + offset)
SetLine(b, i, s)   == [b EXCEPT !.lines[i + 1] = s]

\* track: noted at the head of the log, while tracking is on
Track(b, op, n, what) ==
    IF Has(b, "Tracking")
    THEN [b EXCEPT !.track = <<[op |-> op, n |-> n, what |-> what]>> \o @]
    ELSE b

\* a mistake: the note keeps Saved
SetFlagNotingSaved(b, flag, on) ==
    LET t == IF flag = "Tracking" THEN b ELSE Track(b, "SetFlags", 0, b.flags \ {"Tracking"})
    IN [t EXCEPT !.flags = IF on THEN @ \cup {flag} ELSE @ \ {flag}]
SetFlag(b, flag, on) ==
    LET t == IF flag = "Tracking" THEN b
             ELSE Track(b, "SetFlags", 0, b.flags \ {"Tracking", "Saved"})
    IN [t EXCEPT !.flags = IF on THEN @ \cup {flag} ELSE @ \ {flag}]

SetChanged(b, on) ==
    LET t == SetFlag(b, "Changed", on) IN IF on THEN SetFlag(t, "Saved", FALSE) ELSE t

Mark(b) ==
    SetFlag(IF Has(b, "MarkState") THEN b ELSE [b EXCEPT !.mrow = b.row, !.mcol = b.col],
            "MarkState", TRUE)

\* a mistake: where the mark was is not noted
UnmarkFlagOnly(b) == SetFlag(b, "MarkState", FALSE)
Unmark(b) ==
    SetFlag(IF Has(b, "MarkState") THEN Track(b, "MarkPos", b.mrow, b.mcol) ELSE b,
            "MarkState", FALSE)

TrackBeg(b) == SetFlag(b, "Tracking", TRUE)

TrackEnd(b) ==
    IF ~Has(b, "Tracking") THEN b
    ELSE SetFlag(IF b.track = <<>> THEN b
                 ELSE [b EXCEPT !.undo = <<b.track>> \o @, !.track = <<>>],
                 "Tracking", FALSE)

TrackCancel(b) == SetFlag([b EXCEPT !.track = <<>>], "Tracking", FALSE)

(***************************************************************************)
(* undo: the newest log is taken back, change by change.  UpdateLine goes  *)
(* to the line the cursor is on by then.                                   *)
(***************************************************************************)
RemoveRow(b, i) == IF i \in 0 .. Count(b) - 1 THEN [b EXCEPT !.lines = RemoveAt(@, i + 1)] ELSE b
InsertRows(b, i, ls) ==
    LET at == Smaller(i, Count(b))
    IN [b EXCEPT !.lines = SubSeq(@, 1, at) \o ls \o SubSeq(@, at + 1, Len(@))]

Revert(b, e) ==
    CASE e.op = "CurRow"      -> [b EXCEPT !.row = e.n]
      [] e.op = "CurCol"      -> [b EXCEPT !.col = e.n]
      [] e.op = "MarkPos"     -> [b EXCEPT !.mrow = e.n, !.mcol = e.what]
      [] e.op = "SetFlags"    -> [b EXCEPT !.flags = e.what]
      [] e.op = "DelLine"     -> RemoveRow(b, e.n)
      [] e.op = "InsLine"     -> InsertRows(b, e.n, <<e.what>>)
      [] e.op = "InsBlock"    -> InsertRows(b, e.n, e.what)
      [] e.op = "RestoreLine" -> InsertRows(RemoveRow(b, e.n), e.n, <<e.what>>)
      [] e.op = "UpdateLine"  -> IF b.row < Count(b)
                                 THEN SetLine(b, b.row, ApplyDiff(e.what, AbsLine(b), "undo"))
                                 ELSE [b EXCEPT !.trap = TRUE]

Undo(b) ==
    IF b.undo = <<>> THEN b
    ELSE FoldLeft(Revert, [b EXCEPT !.undo = Tail(@)], Head(b.undo))

IsCursorOnly(b) ==
    b.undo # <<>> /\ \A i \in 1 .. Len(Head(b.undo)) : Head(b.undo)[i].op \in {"CurRow", "CurCol"}

\* doUndo drops the log of its own command; with editor.undo.compress.moves it
\* takes back a whole series of commands that only moved the cursor
DoUndo(b) ==
    LET c == TrackCancel(b)
        step(t, log) == IF IsCursorOnly(t) THEN Undo(t) ELSE t
    IN IF CompressMoves /\ IsCursorOnly(c) THEN FoldLeft(step, c, c.undo) ELSE Undo(c)

-----------------------------------------------------------------------------
(***************************************************************************)
(* Cursor.  Set notes the old position always, Move only when it changes.  *)
(***************************************************************************)
SetRow(b, r)  == [Track(b, "CurRow", b.row, 0) EXCEPT !.row = r]
SetCol(b, c)  == [Track(b, "CurCol", b.col, 0) EXCEPT !.col = c]
MoveRow(b, r) == IF r = b.row THEN b ELSE SetRow(b, r)
MoveCol(b, c) == IF c = b.col THEN b ELSE SetCol(b, c)

GotoLine(b, n) == IF n \in 0 .. Count(b) - 1 THEN SetRow(b, n) ELSE b
GotoCol(b, c)  == IF c < 0 THEN b ELSE IF c = 0 THEN MoveCol(b, 0) ELSE SetCol(b, c)

CursorUp(b)       == MoveRow(b, Larger(b.row - 1, 0))
CursorDownUnchecked(b) == MoveRow(b, b.row + 1)  \* a mistake
CursorDown(b)     == MoveRow(b, Smaller(b.row + 1, Count(b) - 1))
CursorLeft(b, n)  == IF n <= 0 THEN b ELSE MoveCol(b, Larger(b.col - n, 0))
CursorRight(b, n) == IF n <= 0 THEN b ELSE MoveCol(b, b.col + n)
LineBegin(b)      == MoveCol(b, 0)
LineEnd(b)        == MoveCol(b, TrimmedLen(AbsLine(b)))
TextBegin(b)      == MoveCol(MoveRow(b, 0), 0)
TextEnd(b)        == LineEnd(MoveRow(b, Count(b) - 1))
PageUp(b)         == MoveRow(b, Larger(b.row - (PageRows - 1), 0))
PageDown(b)       == MoveRow(b, Smaller(b.row + (PageRows - 1), Count(b) - 1))

\* strchr finds the end of the string of delimiters too
IsDelim(ch) == ch = Nul \/ ch \in Delims
\* the nearest column at or before (after) c where stop holds, or the limit
Back(c, stop(_))       == CHOOSE k \in 0 .. c : /\ k = 0 \/ stop(k)
                                                /\ \A j \in k + 1 .. c : ~stop(j)
Ahead(c, limit, stop(_)) == CHOOSE k \in c .. Larger(c, limit) : /\ k >= limit \/ stop(k)
                                                                 /\ \A j \in c .. k - 1 : ~stop(j)

WordLeft(b) ==
    LET At(k)     == CharAt(AbsLine(b), k)
        Delim(k)  == IsDelim(At(k))
        Text(k)   == At(k) # Nul
        Soft(k)   == ~Text(k) \/ Delim(k)    \* past the end counts as a blank
        Word(k)   == Text(k) /\ ~Delim(k)
        Gap(k)    == ~Delim(k)
    IN IF b.col = 0
       THEN LET u == CursorUp(b) IN IF u.row # b.row THEN LineEnd(u) ELSE u
       ELSE IF ~Soft(b.col - 1)
       THEN LET k == Back(IF Soft(b.col) THEN b.col - 1 ELSE b.col, Delim)
            IN MoveCol(b, IF Delim(k) /\ k # b.col THEN k + 1 ELSE k)
       ELSE LET from == IF Soft(b.col) THEN b.col ELSE b.col - 1
                k    == Back(Back(from, Text), Gap)
            IN MoveCol(b, IF Word(k) /\ k # b.col THEN k + 1 ELSE k)

WordRight(b) ==
    LET At(k)    == CharAt(AbsLine(b), k)
        Delim(k) == IsDelim(At(k))
        Text(k)  == At(k) # Nul
        Soft(k)  == ~Text(k) \/ Delim(k)
        Gap(k)   == ~Delim(k)
        end      == Larger(TrimmedLen(AbsLine(b)) - 1, 0)
    IN IF end <= b.col
       THEN LET r == CursorRight(b, 1)
                d == CursorDown(r)
            IN IF d.row # b.row THEN LineBegin(d) ELSE CursorLeft(d, 1)
       ELSE MoveCol(b, IF Soft(b.col) # Soft(b.col + 1) THEN b.col + 1
                       ELSE IF Soft(b.col) THEN Ahead(b.col, end + 1, Gap)
                       ELSE Ahead(b.col, end + 1, Delim))

\* put_mouse notes both coordinates and keeps the row inside the text
PutMouse(b, r, c) == SetCol(SetRow(b, Smaller(r, Count(b) - 1)), c)

-----------------------------------------------------------------------------
(***************************************************************************)
(* Editing.                                                                *)
(***************************************************************************)
\* a mistake: the difference is taken the other way round
UpdateLineSwapped(b, new) ==
    IF new = AbsLine(b) THEN b
    ELSE SetLine(Track(b, "UpdateLine", 0, GenDiff(new, AbsLine(b))), b.row, new)
\* an edit of the line under the cursor that is noted as a difference
UpdateLine(b, new) ==
    IF new = AbsLine(b) THEN b
    ELSE SetLine(Track(b, "UpdateLine", 0, GenDiff(AbsLine(b), new)), b.row, new)

LineIns(b, pos, cs)  == UpdateLine(b, InsChars(AbsLine(b), pos, cs))
LineDel(b, pos, num) == UpdateLine(b, DelChars(AbsLine(b), pos, num))
CutLine(b, pos)      == LineDel(b, pos, Len(AbsLine(b)) - pos)
Modified(b)          == SetChanged(Unmark(b), TRUE)

AllBlankFrom(s, pos) == CharAt(s, pos) = Blank /\ \A i \in pos + 1 .. Len(s) : s[i] = Blank

\* the indent of what is left of the line goes in front of the new one
IndentBy(b, offset) ==
    IF offset > 0 THEN GotoCol(SetLine(b, b.row, InsChars(AbsLine(b), 0, Blanks(offset))), offset)
    ELSE LineBegin(b)
BreakAfter(b, rest) ==
    IndentBy(CursorDown(InsertRows(Track(b, "DelLine", b.row + 1, 0), b.row + 1, <<rest>>)),
             IF Has(b, "AutoIndent") THEN IndentOffset(AbsLine(b)) ELSE 0)
SplitAt(b)   == BreakAfter(CutLine(b, b.col), TailFrom(AbsLine(b), b.col))
SplitLine(b) == SplitAt(Modified(b))

\* a keyword typed alone behind its indent goes one tab stop to the left;
\* the columns it gives up are deleted without a note in the log
UnindentKeyword(b) ==
    LET left == SubSeq(AbsLine(b), 1, b.col)
        n    == IndentOffset(left)
        next == AbsChar(b, 0)
    IN IF /\ UnindentKeywords
          /\ TailFrom(left, n) \in Keywords
          /\ IsDelim(next)
          /\ n > TabWidth
       THEN CursorLeft(SetLine(b, b.row, DelChars(AbsLine(b), n - TabWidth, TabWidth)), TabWidth)
       ELSE b

InsertHere(b, ch)  == CursorRight(LineIns(b, b.col, <<ch>>), 1)
InsChar(b, ch)     == UnindentKeyword(InsertHere(Modified(b), ch))
DeleteHere(b)      == LineDel(b, b.col, 1)
ReplaceChar(b, ch) == InsertHere(DeleteHere(Modified(b)), ch)

ReplaceNewline(b)  == LineBegin(CursorDown(Modified(b)))

\* a mistake: the line that is joined is not noted
MergeNextUnnoted(b) ==
    IF b.row + 1 >= Count(b) THEN b
    ELSE LineIns(RemoveRow(b, b.row + 1), b.col, Row(b, b.row + 1))
MergeNext(b) ==
    IF b.row + 1 >= Count(b) THEN b
    ELSE LineIns(Track(RemoveRow(b, b.row + 1), "InsLine", b.row + 1, Row(b, b.row + 1)),
                 b.col, Row(b, b.row + 1))

\* the blanks that end a line go at once; at the end of a line the next one is joined
DropBlanks(b)  == IF AllBlankFrom(AbsLine(b), b.col) THEN CutLine(b, b.col) ELSE b
DelOrMerge(b)  == IF b.col >= Len(AbsLine(b)) THEN MergeNext(b) ELSE DeleteHere(b)
DelChar(b)     == DelOrMerge(DropBlanks(Modified(b)))

\* the characters a word command takes along with the one it starts from
SameRun(ch, at) ==
    /\ IsDelim(ch) <=> IsDelim(at)
    /\ DeleteWS /\ IsDelim(at) => (ch = Blank <=> at = Blank)

\* columns from .. to of the line go; the line is noted whole
DelCols(b, from, to) ==
    SetLine(Track(b, "RestoreLine", b.row, AbsLine(b)), b.row, DelChars(AbsLine(b), from, to - from))
DelWordAfter(b, s) ==
    IF b.col >= Len(s) THEN DelChar(b)
    ELSE DelCols(b, b.col, Ahead(b.col, Len(s), LAMBDA k : ~SameRun(CharAt(s, k), CharAt(s, b.col))))
DelWordRight(b) == DelWordAfter(Modified(b), AbsLine(b))

DelRest(b)  == IF b.col > Len(AbsLine(b)) THEN LineEnd(b) ELSE CutLine(b, b.col)
DelToEOL(b) == DelRest(Modified(b))

DupAt(b)   == InsertRows(Track(b, "DelLine", b.row + 1, 0), b.row + 1, <<AbsLine(b)>>)
DupLine(b) == DupAt(SetChanged(b, TRUE))

DelRow(b)  == RemoveRow(Track(b, "InsLine", b.row, AbsLine(b)), b.row)
DelLine(b)    == IF b.row = Count(b) - 1 THEN SetChanged(b, TRUE) ELSE DelRow(SetChanged(b, TRUE))

-----------------------------------------------------------------------------
(***************************************************************************)
(* The marked block.  It lies between the mark and the cursor, either end  *)
(* may come first; a block within one row is handled like a column block.  *)
(***************************************************************************)
BegRow(b)   == Smaller(b.mrow, b.row)
EndRow(b)   == Larger(b.mrow, b.row)
BegCol(b)   == IF BegRow(b) = b.mrow THEN b.mcol ELSE b.col
EndCol(b)   == IF EndRow(b) = b.mrow THEN b.mcol ELSE b.col
LeftCol(b)  == Smaller(b.mcol, b.col)
RightCol(b) == Larger(b.mcol, b.col)
IsColumn(b) == Has(b, "ColumnBlock") \/ b.mrow = b.row
StaleMark(b) == b.mrow >= Count(b)

Trap(b) == [b EXCEPT !.trap = TRUE]

\* every row of the block is noted whole, then edited
RewriteBlock(b, new(_)) ==
    LET rows == [k \in 1 .. EndRow(b) - BegRow(b) + 1 |-> BegRow(b) + k - 1]
        t    == FoldLeft(LAMBDA t, i : Track(t, "RestoreLine", i, Row(b, i)), b, rows)
    IN IF StaleMark(b) THEN Trap(b)
       ELSE [t EXCEPT !.lines = [i \in 1 .. Len(@) |->
                IF i - 1 \in BegRow(b) .. EndRow(b) THEN new(i - 1) ELSE @[i]]]

\* the cursor goes to the upper left corner of what was the block
ToCorner(b, row, col) ==
    LET c == IF b.col # col THEN GotoCol(b, col) ELSE b
    IN Unmark(IF b.row # row THEN GotoLine(c, row) ELSE c)

\* a mistake: the right column goes as well
ClearColumnsInclusive(b) ==
    ToCorner(RewriteBlock(b, LAMBDA i : DelChars(Row(b, i), LeftCol(b), RightCol(b) - LeftCol(b) + 1)),
             BegRow(b), LeftCol(b))
ClearColumns(b) ==
    ToCorner(RewriteBlock(b, LAMBDA i : DelChars(Row(b, i), LeftCol(b), RightCol(b) - LeftCol(b))),
             BegRow(b), LeftCol(b))

\* the rows between the ends go to a buffer of their own, remove_items
DropRows(b, beg, end) ==
    IF end <= beg + 1 THEN b
    ELSE [Track(b, "InsBlock", beg + 1, SubSeq(b.lines, beg + 2, Smaller(end, Count(b)))) EXCEPT
             !.lines = SubSeq(@, 1, beg + 1) \o SubSeq(@, end + 1, Len(@))]

ClearStream(b) ==
    LET cut  == CutLine(GotoLine(b, BegRow(b)), BegCol(b))
        both == LineDel(GotoLine(cut, EndRow(b)), 0, EndCol(b))
        kept == DropRows(both, BegRow(b), EndRow(b))
    IN IF StaleMark(b) /\ EndCol(b) > 0 THEN Trap(b)
       ELSE Unmark(DelChar(GotoCol(GotoLine(kept, BegRow(b)), BegCol(b))))

Clear(b) ==
    IF ~Has(b, "MarkState") THEN b
    ELSE IF IsColumn(b) THEN ClearColumns(SetChanged(b, TRUE)) ELSE ClearStream(SetChanged(b, TRUE))

(***************************************************************************)
(* Line(master, start, width, 0) and touch_all: the part of a line that is *)
(* copied, its TABs spread (editor.clipboard.spaces_only).  A part that    *)
(* ends before its width is filled up with blanks, but from a TAB stop on  *)
(* with TABs that are laid out from the end of the line's text; spread     *)
(* from the beginning of the part they come to another number of blanks    *)
(* than is missing.                                                        *)
(***************************************************************************)
Fill(n, room) == IF room <= TabWidth THEN room ELSE room - (n % TabWidth)

Extract(s, start, width) ==
    LET end  == Smaller(start + width, Len(s))
        part == SubSeq(s, start + 1, end)
        room == start + width - end
    IN IF width <= 0 THEN <<>>
       ELSE IF start % TabWidth # 0 THEN Pad(part, width)
       ELSE part \o Blanks(Fill(Len(part), room))

Copy(b) ==
    LET piece(i) ==
            IF IsColumn(b) THEN Extract(Row(b, i), LeftCol(b), RightCol(b) - LeftCol(b))
            ELSE IF i = BegRow(b) THEN Extract(Row(b, i), BegCol(b), Len(Row(b, i)) - BegCol(b))
            ELSE IF i = EndRow(b) THEN Extract(Row(b, i), 0, Smaller(EndCol(b), Len(Row(b, i))))
            ELSE Row(b, i)
    IN IF ~Has(b, "MarkState") THEN NoClip
       ELSE [lines  |-> [k \in 1 .. EndRow(b) - BegRow(b) + 1 |-> piece(BegRow(b) + k - 1)],
             column |-> Has(b, "ColumnBlock")]

Cut(b) ==
    IF ~Has(b, "MarkState") THEN b
    ELSE IF StaleMark(b) THEN Trap(b)
    ELSE SetChanged(Clear(b), TRUE)

\* to_pm and from_pm: of a block that comes back as lines of text only, rows of one
\* length tell that it was a column block
ThroughPM(c) ==
    [c EXCEPT !.column = \A i \in DOMAIN c.lines :
                             /\ Len(c.lines[i]) = Len(c.lines[1])
                             /\ i > 1 => c.lines[1] # <<>>]
Clipped(c) == IF PMClipboard THEN ThroughPM(c) ELSE c

AsColumns(b, c) == Len(c.lines) = 1 \/ (Clipped(c).column /\ (BlockIns => Has(b, "ColumnBlock")))

PasteRows(b, c) ==
    LET n == Len(c.lines)
        paste(t, i) ==
            LET r == b.row + i
                w == SetLine(Track(t, "RestoreLine", r, Row(t, r)), r, InsChars(Row(t, r), b.col, c.lines[i + 1]))
            IN IF i < n - 1 /\ r = Count(w) - 1
               THEN InsertRows(Track(w, "DelLine", Count(w), 0), Count(w), << <<>> >>)
               ELSE w
        done == FoldLeft(paste, b, [k \in 1 .. n |-> k - 1])
    IN IF AfterBlock /\ n = 1 THEN GotoCol(done, b.col + Len(c.lines[1])) ELSE done

PasteStream(b, c) ==
    LET n     == Len(c.lines)
        s     == AbsLine(b)
        noted == Track(Track(b, "RestoreLine", b.row, s), "DelLine", b.row + 1, 0)
        split == InsertRows(SetLine(noted, b.row, InsChars(DelChars(s, b.col, Len(s)), b.col, c.lines[1])),
                            b.row + 1, <<TailFrom(s, b.col)>>)
        insert(t, i) == InsertRows(Track(t, "DelLine", b.row + i, 0), b.row + i, <<c.lines[i + 1]>>)
        whole == FoldLeft(insert, split, [i \in 1 .. n - 2 |-> i])
        last  == GotoLine(whole, b.row + n - 1)
    IN GotoCol(SetLine(last, last.row, InsChars(AbsLine(last), 0, c.lines[n])), Len(c.lines[n]))

Paste(b, c) ==
    IF b.trap \/ c = NoClip THEN b
    ELSE IF AsColumns(b, c)
         THEN PasteRows(SetChanged(b, TRUE), c) ELSE PasteStream(SetChanged(b, TRUE), c)

\* the first column of row i of the block, and the rows it does not reach into
FirstCol(b, i) == IF IsColumn(b) THEN LeftCol(b) ELSE IF i = BegRow(b) THEN BegCol(b) ELSE 0
Untouched(b, i) == ~IsColumn(b) /\ i = EndRow(b) /\ EndCol(b) = 0

IndentBlock(b) ==
    RewriteBlock(b, LAMBDA i : IF Untouched(b, i) THEN Row(b, i)
                               ELSE InsChars(Row(b, i), FirstCol(b, i), <<Blank>>))
Indent(b) ==
    IF Has(b, "MarkState") THEN IndentBlock(SetChanged(b, TRUE))
    ELSE LineIns(SetChanged(b, TRUE), 0, <<Blank>>)

UnindentBlock(b) ==
    LET keep(i) == \/ Untouched(b, i)
                   \/ SpacesOnly /\ ~IsColumn(b) /\ CharAt(Row(b, i), FirstCol(b, i)) # Blank
    IN RewriteBlock(b, LAMBDA i : IF keep(i) THEN Row(b, i) ELSE DelChars(Row(b, i), FirstCol(b, i), 1))
Unindent(b) ==
    IF Has(b, "MarkState") THEN UnindentBlock(SetChanged(b, TRUE))
    ELSE DelCols(SetChanged(b, TRUE), 0, 1)

\* process_block with __to_upper; "a" stands for the letters that have an upper case
Upper(ch) == IF ch = "a" THEN "A" ELSE ch

\* a column past the end of the line pads it up to there
UpperCols(s, from, to) ==
    IF from >= to THEN s
    ELSE LET t == Pad(s, to - 1)
         IN [i \in 1 .. Len(t) |-> IF i \in from + 1 .. to THEN Upper(t[i]) ELSE t[i]]

ToCol(b, i) == IF IsColumn(b) THEN RightCol(b) ELSE IF i = EndRow(b) THEN EndCol(b) ELSE Len(Row(b, i))
UpperBlock(b) == RewriteBlock(b, LAMBDA i : UpperCols(Row(b, i), FirstCol(b, i), ToCol(b, i)))
ToUpper(b) ==
    IF Has(b, "MarkState") THEN UpperBlock(SetChanged(b, TRUE))
    ELSE IF AbsChar(b, 0) = Nul THEN SetChanged(b, TRUE)
    ELSE CursorLeft(ReplaceChar(SetChanged(b, TRUE), Upper(AbsChar(b, 0))), 1)

\* Backspace clears a block first, and then still deletes the character before the cursor
DelBefore(b) ==
    IF b.trap THEN b
    ELSE IF b.col > 0 THEN DeleteHere(CursorLeft(b, 1))
    ELSE IF b.row > 0 THEN DelChar(LineEnd(CursorUp(b)))
    ELSE b
BackSpace(b) == DelBefore(Clear(SetChanged(b, TRUE)))

WordStart(s, col) == Back(col, LAMBDA k : ~SameRun(CharAt(s, k - 1), CharAt(s, col - 1)))
\* the cursor moves while the line is cut, so that its note comes after the line's
DelWordTo(b, from, s) ==
    SetLine(MoveCol(Track(b, "RestoreLine", b.row, s), from), b.row, DelChars(s, from, b.col - from))
DelWordBefore(b, s) ==
    IF b.col > Len(s) THEN LineEnd(b)
    ELSE IF b.col = 0 THEN BackSpace(b)
    ELSE DelWordTo(b, WordStart(s, b.col), s)
DelWordLeft(b) == DelWordBefore(Modified(b), AbsLine(b))

-----------------------------------------------------------------------------
(***************************************************************************)
(* The commands.  A key is a command between track_beg and track_end.      *)
(***************************************************************************)
Bounded(b) ==
    /\ Count(b) <= MaxLines
    /\ \A i \in 1 .. Count(b) : Len(b.lines[i]) <= MaxWidth
    /\ b.col <= MaxWidth
    /\ Len(b.undo) <= MaxUndo

Opened == TrackBeg(buf)
Become(b) == ~buf.trap /\ Bounded(b) /\ buf' = b
Key(name, b) == name \in Commands /\ Become(TrackEnd(b))
Edit(name, b) == Key(name, b) /\ UNCHANGED <<clip, disk>>

\* usual_key: a typed character takes the place of a block
TypeIn(b, ch) ==
    IF b.trap THEN b ELSE IF Has(b, "InsMode") THEN InsChar(b, ch) ELSE ReplaceChar(b, ch)
EnterIn(b) ==
    IF b.trap THEN b ELSE IF Has(b, "InsMode") THEN SplitLine(b) ELSE ReplaceNewline(b)
TypeChar  == \E ch \in Chars : Edit("Type", TypeIn(Clear(Opened), ch))
TypeEnter == Edit("Enter", EnterIn(Clear(Opened)))

Motion(name, b) ==
    CASE name = "Left"  -> CursorLeft(b, 1)   [] name = "Right"     -> CursorRight(b, 1)
      [] name = "Up"    -> CursorUp(b)        [] name = "Down"      -> CursorDown(b)
      [] name = "Home"  -> LineBegin(b)       [] name = "End"       -> LineEnd(b)
      [] name = "PgUp"  -> PageUp(b)          [] name = "PgDn"      -> PageDown(b)
      [] name = "WordLeft"  -> WordLeft(b)    [] name = "WordRight" -> WordRight(b)
      [] name = "FileBegin" -> TextBegin(b)   [] name = "FileEnd"   -> TextEnd(b)
Motions == {"Left", "Right", "Up", "Down", "Home", "End", "PgUp", "PgDn",
            "WordLeft", "WordRight", "FileBegin", "FileEnd"}

Move       == \E m \in Motions \cap Commands : Edit(m, Motion(m, Unmark(Opened)))
MoveMark   == "Mark" \in Commands /\ \E m \in Motions \cap Commands : Edit(m, Motion(m, Mark(Opened)))
JumpLine   == \E n \in 0 .. MaxLines : Edit("JumpLine", GotoLine(Opened, n - 1))
JumpCol    == \E n \in 0 .. MaxWidth : Edit("JumpCol", GotoCol(Opened, n - 1))

DoBksp     == Edit("Bksp", BackSpace(Opened))
DoDel      == Edit("Del", Unmark(IF Has(buf, "MarkState") THEN Clear(Opened) ELSE DelChar(Opened)))
DoDelLine      == Edit("DelLine", DelLine(Opened))
DoDupLine      == Edit("DupLine", DupLine(Opened))
DoDelWordLeft  == Edit("DelWordLeft", DelWordLeft(Opened))
DoDelWordRight == Edit("DelWordRight", DelWordRight(Opened))
DoDelToEOL     == Edit("DelToEOL", DelToEOL(Opened))
DoIndent       == Edit("Indent", Indent(Opened))
DoUnindent     == Edit("Unindent", Unindent(Opened))
DoUpper        == Edit("Upper", ToUpper(Opened))
Undoing        == Edit("Undo", DoUndo(Opened))

DoCopy == /\ Key("Copy", IF Has(buf, "MarkState") /\ StaleMark(buf) THEN Trap(Opened) ELSE Opened)
          /\ clip' = Copy(buf)
          /\ UNCHANGED disk
DoCut  == /\ Key("Cut", Cut(Opened))
          /\ clip' = Copy(buf)
          /\ UNCHANGED disk
DoPaste == Edit("Paste", Paste(IF Has(buf, "MarkState") THEN Unmark(Clear(Opened)) ELSE Opened, clip))

Flip(b, flag) == SetFlag(b, flag, ~Has(b, flag))
FlipIns        == Edit("Ins", Flip(Opened, "InsMode"))
FlipBlockMode  == Edit("FlipBlockMode", Flip(Opened, "ColumnBlock"))
FlipAutoindent == Edit("FlipAutoIndent", Flip(Opened, "AutoIndent"))
FlipType       == Edit("FlipType", Flip(Opened, "IsUnix"))

\* what save writes: the lines without their trailing blanks, in the format of the file
Written(b) == [text |-> [i \in 1 .. Count(b) |-> Trim(b.lines[i])], unix |-> Has(b, "IsUnix")]

\* a saved buffer is not written again; a file that cannot be opened leaves all as it was
Save ==
    \/ /\ Has(buf, "Saved")
       /\ Edit("Save", Opened)
    \/ /\ ~Has(buf, "Saved")
       /\ \/ Edit("Save", Opened)
          \/ /\ Key("Save", SetFlag(SetChanged(Opened, FALSE), "Saved", TRUE))
             /\ disk' = Written(buf)
             /\ UNCHANGED clip

\* the mouse thread tracks as the dispatcher does; with mouse.sense.shift the
\* Shift key marks and its absence unmarks
MouseEvent ==
    \E r \in 0 .. PageRows - 1, c \in 0 .. MaxWidth :
        \/ Edit("Mouse", PutMouse(Opened, r, c))
        \/ Edit("MouseShift", PutMouse(Mark(Opened), r, c))
        \/ Edit("MouseShift", PutMouse(Unmark(Opened), r, c))

-----------------------------------------------------------------------------
\* a file just loaded: init_buffer, the lines of the file, what load does to the
\* flags, and the cursor where the editor left it when the file was last closed
Loaded(doc, row, col) ==
    [lines |-> doc, row |-> row, col |-> col, mrow |-> 0, mcol |-> 0,
     flags |-> {"AutoIndent", "InsMode", "Saved"},
     track |-> <<>>, undo |-> <<>>, trap |-> FALSE]

Init == \E doc \in Texts, col \in SavedCols :
            /\ \E row \in 0 .. Len(doc) - 1 : buf = Loaded(doc, row, col)
            /\ clip = [lines |-> << <<>> >>, column |-> FALSE]
            /\ disk = Written(buf)

Next ==
    \/ TypeChar \/ TypeEnter \/ Move \/ MoveMark \/ JumpLine \/ JumpCol
    \/ DoBksp \/ DoDel \/ DoDelLine \/ DoDupLine \/ DoDelWordLeft \/ DoDelWordRight \/ DoDelToEOL
    \/ DoIndent \/ DoUnindent \/ DoUpper \/ Undoing
    \/ DoCopy \/ DoCut \/ DoPaste
    \/ FlipIns \/ FlipBlockMode \/ FlipAutoindent \/ FlipType
    \/ Save \/ MouseEvent

Spec == Init /\ [][Next]_vars
=============================================================================
