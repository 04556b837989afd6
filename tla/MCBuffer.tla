------------------------------ MODULE MCBuffer ------------------------------
(***************************************************************************)
(* The properties of one buffer, and the small instances TLC checks.       *)
(***************************************************************************)
EXTENDS Wrapping

(***************************************************************************)
(* The document and the documents the undo list leads back to, found by    *)
(* undoing.  They are a function of buf; a variable keeps them so that TLC *)
(* computes them once in each state.                                       *)
(***************************************************************************)
VARIABLE hist

View(b) == [lines |-> b.lines, row |-> b.row, col |-> b.col,
            flags |-> b.flags \ {"Tracking", "Saved"},
            mark  |-> IF Has(b, "MarkState") THEN <<b.mrow, b.mcol>> ELSE <<>>]

HistoryOf(b) ==
    LET Undone[k \in 0 .. Len(b.undo)] == IF k = 0 THEN b ELSE Undo(Undone[k - 1])
    IN [doc |-> View(b), past |-> [k \in 1 .. Len(b.undo) |-> View(Undone[k])]]

MCInit == Init /\ hist = HistoryOf(buf)
MCNext == (Next \/ TypeWrap) /\ hist' = HistoryOf(buf')
MCSpec == MCInit /\ [][MCNext]_<<vars, hist>>

Hist == INSTANCE History WITH doc <- hist.doc, past <- hist.past

\* The buffer implements History: whatever the commands were, undo visits the
\* earlier texts, cursors, marks and flags exactly (buffer.cpp, bundo.cpp).
ImplementsHistory == Hist!Spec

\* The cursor is on a line of the text and no command ever used a line that
\* does not exist (abs_line() is used unchecked all over buffer.cpp).
CursorInText == ~buf.trap /\ buf.row < Count(buf)

\* A buffer that says it is saved, and is therefore closed without a question,
\* equals the file, also after undoing past a save (set_changed, save, undo).
SavedIsOnDisk == Has(buf, "Saved") => Written(buf) = disk

\* Cut and Paste at the same place give the text back (trailing blanks aside), for stream
\* and column blocks that start or end anywhere, past the end of a line included, as long as
\* the clipboard gives the block back as what it was: a stream of rows of one length comes
\* back as columns, and columns of parts of unlike length as a stream.
CutPasteRoundTrip ==
    LET b == TrackBeg(buf) IN
    Has(b, "MarkState") /\ (AsColumns(b, Copy(b)) <=> IsColumn(b))
        => Written(Paste(Cut(b), Copy(b))).text = Written(b).text

\* the words of a text: what stands between blanks and the ends of rows
WordsOf(rows) ==
    LET add(ws, c) == IF c # Blank THEN Front(ws) \o <<Append(Last(ws), c)>>
                      ELSE IF Last(ws) = <<>> THEN ws ELSE Append(ws, <<>>)
    IN FoldLeft(add, << <<>> >>, FlattenSeq([i \in DOMAIN rows |-> Append(rows[i], Blank)]))
\* the characters of words in front of the cursor
Passed(b) == LET before == FlattenSeq(SubSeq(b.lines, 1, b.row)) \o SubSeq(AbsLine(b), 1, Smaller(b.col, Len(AbsLine(b))))
             IN Cardinality({i \in DOMAIN before : before[i] # Blank})

\* Word wrap keeps the text word by word, whichever rows it breaks and joins, and the cursor
\* stays behind the typed character.  With the paragraph flag, automatic indent is left out: rows
\* with blanks up to the margin are then broken for ever (buffer.cpp:179).
WrapKeepsWords ==
    LET same(typed, wrapped) == /\ WordsOf(wrapped.lines) = WordsOf(typed.lines)
                                /\ Passed(wrapped) = Passed(typed)
                                /\ ~wrapped.trap
        wraps(b, w) == same(b, Wrap(b, w))
    IN \A ch \in Chars, w \in [width : {2}, merge : BOOLEAN, long : BOOLEAN] :
          (Len(buf.undo) < MaxUndo /\ (w.long => ~Has(buf, "AutoIndent")))
             => wraps(InsertHere(Modified(Unmark(TrackBeg(buf))), ch), w)

\* Del "clears marked block" (docs/config.txt) whenever there is one: it never
\* reaches for a row of the block that is no longer there (clear, del_line).
BlockCanBeCleared == Has(buf, "MarkState") => ~Clear(TrackBeg(buf)).trap

-----------------------------------------------------------------------------
MCNoWraps == {}
MCWraps == [width : {2}, merge : {TRUE}, long : {FALSE}]
MCTextsWords == { <<<<"a", Blank, "a">>, <<"a">>>>, <<<<Blank, "a">>>> }
MCTextsCursor == { <<<<"a", "-", "a", Blank>>, <<>>, <<Blank, "a">>, <<"-", "-">>>> }
MCTextsBlock == { <<<<"a", "b">>, <<"b">>, <<"b", "a">>>> }
=============================================================================
