------------------------------ MODULE Controls ------------------------------
(***************************************************************************)
(* The controls of a dialog: list boxes, menus, input lines and static     *)
(* texts (dialog.cpp, editline.cpp), each a record.                        *)
(*                                                                         *)
(* A list box shows rows of its items from start on, and the highlight is  *)
(* on the row cur; the item under it has its flag sel.  No dialog asks for *)
(* the option lbMultiSel, and sideways scrolling is left out.  "trap" says *)
(* that the code went through a null pointer: an item was asked for that   *)
(* does not exist.                                                         *)
(***************************************************************************)
EXTENDS Integers, Sequences, SequencesExt

LN == INSTANCE Line WITH MaxCnt <- 63

\* the keys that are characters; "*" is one that no name has
Typed == {"a", "b", "*", ":"}

IsSequence(s) == s \in Seq(ToSet(s))

Item(text, key, mark) == [text |-> text, key |-> key, mark |-> mark, sel |-> FALSE]
AreItems(items) == /\ IsSequence(items)
                   /\ \A it \in ToSet(items) : it = Item(it.text, it.key, it.mark) /\ IsSequence(it.text)

ListBox(rows, wrap) ==
    [kind |-> "list", items |-> <<>>, start |-> 0, cur |-> 0, rows |-> rows, wrap |-> wrap,
     bykey |-> FALSE, trap |-> FALSE, active |-> FALSE]

Count(lb)  == Len(lb.items)
AbsRow(lb) == lb.start + lb.cur
Present(lb) == AbsRow(lb) \in 0 .. Count(lb) - 1
\* the item under the highlight gets or loses its flag
Flagged(lb, v) ==
    IF Present(lb) THEN [lb EXCEPT !.items[AbsRow(lb) + 1].sel = v] ELSE [lb EXCEPT !.trap = TRUE]

Prev(lb) ==
    IF lb.wrap /\ AbsRow(lb) = 0
    THEN LET c == LN!Smaller(Count(lb), lb.rows) - 1
         IN IF Count(lb) < 2 THEN lb ELSE [lb EXCEPT !.cur = c, !.start = Count(lb) - 1 - c]
    ELSE LET off == Flagged(lb, FALSE)
             up  == IF lb.cur > 0 THEN [off EXCEPT !.cur = @ - 1]
                    ELSE [off EXCEPT !.start = LN!Larger(0, @ - 1)]
         IN Flagged(up, TRUE)

Next1(lb) ==
    IF lb.wrap /\ AbsRow(lb) = Count(lb) - 1 THEN [lb EXCEPT !.cur = 0, !.start = 0]
    ELSE LET off == Flagged(lb, FALSE)
             c   == LN!Smaller(lb.cur + 1, Count(lb) - lb.start - 1)
             down == IF c < lb.rows THEN [off EXCEPT !.cur = c]
                     ELSE [off EXCEPT !.start = @ + c - lb.rows + 1, !.cur = lb.rows - 1]
         IN Flagged(down, TRUE)

Again(op(_), lb, n) == FoldLeft(LAMBDA l, k : op(l), lb, [k \in 1 .. n |-> k])

\* go_item moves step by step; the highlight is where it is asked to be, or at an end
GoItem(lb, i) ==
    IF i < 0 \/ i > Count(lb) THEN lb
    ELSE IF i < AbsRow(lb) THEN Again(Prev, lb, AbsRow(lb) - i) ELSE Again(Next1, lb, i - AbsRow(lb))

\* RemoveAll: the items go, the highlight stays where it is
RemoveItems(lb) == [lb EXCEPT !.items = <<>>]

\* a mistake: the highlight is not moved up before the last item goes
DelItemInPlace(lb, i) == [lb EXCEPT !.items = RemoveAt(@, i + 1)]

\* the highlight leaves the last item before it is removed
DelItem(lb, i) ==
    IF i \notin 0 .. Count(lb) - 1 THEN lb
    ELSE LET moved == IF i = Count(lb) - 1 THEN GoItem(lb, i - 1) ELSE lb
         IN [moved EXCEPT !.items = RemoveAt(@, i + 1)]

\* the next item that begins with a character, from the highlight on and then from the top
Begins(lb, i, c) == LET t == lb.items[i + 1].text IN t # <<>> /\ t[1] = c
TypeAhead(lb, c) ==
    LET here    == AbsRow(lb)
        hits(S) == {i \in S \cap (0 .. Count(lb) - 1) : Begins(lb, i, c)}
        below   == hits(here + 1 .. Count(lb) - 1)
        above   == hits(0 .. here - 1)
        First(S) == CHOOSE i \in S : \A j \in S : i <= j
    IN IF below # {} THEN [GoItem(lb, First(below)) EXCEPT !.bykey = TRUE]
       ELSE IF above # {} THEN [GoItem(lb, First(above)) EXCEPT !.bykey = TRUE]
       ELSE [lb EXCEPT !.bykey = here \in hits({here})]

\* ListBox::do_key; a page is as many single steps as the box has rows
ListKey(old, key) ==
    LET lb == [old EXCEPT !.bykey = FALSE] IN
    CASE key = "Up"     -> Prev(lb)
      [] key = "Down"   -> Next1(lb)
      [] key = "PgUp"   -> Again(Prev, lb, lb.rows)
      [] key = "PgDown" -> Again(Next1, lb, lb.rows)
      [] key = "End"    -> Again(Next1, lb, LN!Larger(0, Count(lb) - 1 - AbsRow(lb)))
      [] key = "Home"   -> Again(Prev, lb, AbsRow(lb))
      [] key \in Typed -> TypeAhead(lb, key)
      [] OTHER          -> lb

\* Menu: as many rows as items, and the highlight wraps around
MenuOf(items) == [ListBox(Len(items), TRUE) EXCEPT !.items = items]

-----------------------------------------------------------------------------
(***************************************************************************)
(* An input line is a buffer of one line, with the cursor at col, where it *)
(* may stand past the end of the text, and the other end of the marked     *)
(* block at mark (-1: nothing is marked).  Nobody switches tracking on for *)
(* it, so that undo finds nothing.                                         *)
(***************************************************************************)
EditLine == [kind |-> "line", text |-> <<>>, col |-> 0, mark |-> -1, ins |-> TRUE, active |-> FALSE]

MarkAt(l) == IF l.mark < 0 THEN l.col ELSE l.mark

\* set_text: the new text is marked from its beginning; a mark that stood before stays
SetText(l, s) == [l EXCEPT !.text = s, !.col = LN!TrimmedLen(s), !.mark = IF @ < 0 THEN 0 ELSE @]
\* clear takes the marked block out and the cursor to its beginning
ClearMarked(l) ==
    LET from == LN!Smaller(l.mark, l.col)
    IN IF l.mark < 0 THEN l
       ELSE [l EXCEPT !.text = LN!DelChars(@, from, LN!Larger(l.mark, l.col) - from), !.col = from, !.mark = -1]

\* a typed character takes the place of the marked block
TypeInto(l, c) ==
    LET k == ClearMarked(l)
        rest == IF k.ins THEN k.text ELSE LN!DelChars(k.text, k.col, 1)
    IN [k EXCEPT !.text = LN!InsChars(rest, k.col, <<c>>), !.col = @ + 1]

\* back_space takes the marked block out and then one more character
BackSpace(l) ==
    LET k == ClearMarked(l)
    IN IF k.col = 0 THEN k ELSE [k EXCEPT !.col = @ - 1, !.text = LN!DelChars(@, k.col - 1, 1)]

\* del_char on a blank with nothing but blanks after it takes them all
DelAt(l) == [l EXCEPT !.text = IF LN!TrimmedLen(@) <= l.col THEN LN!DelChars(@, l.col, Len(@))
                               ELSE LN!DelChars(@, l.col, 1)]

\* with Shift a motion marks, without it unmarks
MoveTo(l, col, shift) == [l EXCEPT !.col = col, !.mark = IF shift THEN MarkAt(l) ELSE -1]

\* EditLine::do_key, but for words and the clipboard; the line is never left for another one
LineKey(l, key, shift) ==
    CASE key = "Left"  -> MoveTo(l, LN!Larger(0, l.col - 1), shift)
      [] key = "Right" -> MoveTo(l, l.col + 1, shift)
      [] key = "Home"  -> MoveTo(l, 0, shift)
      [] key = "End"   -> MoveTo(l, LN!TrimmedLen(l.text), shift)
      [] key = "Ins"   -> [l EXCEPT !.ins = ~@]
      [] key = "Bksp"  -> BackSpace(l)
      [] key = "Del"   -> [(IF l.mark >= 0 THEN ClearMarked(l) ELSE DelAt(l)) EXCEPT !.mark = -1]
      [] key \in Typed -> TypeInto(l, key)
      [] OTHER         -> l

StaticText == [kind |-> "text", active |-> FALSE]
=============================================================================
