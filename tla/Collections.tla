---------------------------- MODULE Collections -----------------------------
(***************************************************************************)
(* The growing arrays of collect.cpp and what is kept in sorted ones: the  *)
(* dictionary of keywords (dict.cpp), the identifiers that completion      *)
(* offers (idcoll.cpp), the keys (keycoll.cpp) and the variables           *)
(* (bindery.cpp).  An array has its cells in use first; positions count    *)
(* from 0, as in the code.                                                 *)
(***************************************************************************)
EXTENDS Integers, Sequences, SequencesExt

CONSTANT Delta          \* the cells that a full array grows by, one or more

Free == "free"
Used(c)          == SubSeq(c.cells, 1, c.last)
Grown(c, n)      == [c EXCEPT !.cells = @ \o [i \in 1 .. n |-> Free]]
NewCollection(n) == Grown([cells |-> <<>>, last |-> 0], n)
Full(c)          == c.last = Len(c.cells)
None             == "none"
Get(c, pos)      == IF pos < c.last THEN c.cells[pos + 1] ELSE None

\* memmove: the n cells at a place go to another place of the array
Moved(cells, to, from, n) ==
    SubSeq(cells, 1, to) \o SubSeq(cells, from + 1, from + n) \o SubSeq(cells, to + n + 1, Len(cells))

Add(c, x) == LET g == IF Full(c) THEN Grown(c, Delta) ELSE c
             IN [cells |-> [g.cells EXCEPT ![c.last + 1] = x], last |-> c.last + 1]

\* x at a place; only the branch that does not grow takes a place past the end as the end
At(c, x, pos) ==
    LET g  == IF Full(c) THEN Grown(c, Delta) ELSE c
        to == IF ~Full(c) /\ pos > c.last THEN c.last ELSE pos
    IN [cells |-> [Moved(g.cells, to + 1, to, Max({0, c.last - to})) EXCEPT ![to + 1] = x], last |-> c.last + 1]

RemoveItem(c, pos) ==
    IF pos >= c.last THEN c
    ELSE [cells |-> Moved(c.cells, pos, pos + 1, Len(c.cells) - pos - 1), last |-> c.last - 1]

\* all of src goes into c, which grows by as many when they would fill it
MoveItems(c, src, from) ==
    LET g    == IF src.last + c.last >= Len(c.cells) THEN Grown(c, src.last) ELSE c
        room == Moved(g.cells, from + src.last, from, c.last - from)
    IN [c   |-> [cells |-> [i \in DOMAIN room |-> IF i \in from + 1 .. from + src.last THEN src.cells[i - from]
                                                  ELSE room[i]],
                 last |-> c.last + src.last],
        src |-> [src EXCEPT !.last = 0]]

\* the items from a place on, as many as there are of count, go to dest
RemoveItems(c, dest, from, count) ==
    LET n == Min({count, c.last - from})
        d == IF Len(dest.cells) < n THEN NewCollection(n) ELSE dest
    IN IF from > c.last THEN [c |-> c, dest |-> [dest EXCEPT !.last = 0]]
       ELSE [c    |-> [cells |-> Moved(c.cells, from, from + n, c.last - from - n), last |-> c.last - n],
             dest |-> [cells |-> [i \in DOMAIN d.cells |-> IF i \in 1 .. n THEN c.cells[from + i] ELSE d.cells[i]],
                       last  |-> n]]

-----------------------------------------------------------------------------
\* A sorted collection is searched by what is looked for: order[i] is Compare of it and item i.

\* a mistake: the item after the middle is left out
LookSkip(order) ==
    LET go[l \in 0 .. Len(order) + 1, h \in -1 .. Len(order)] ==
            LET m == (l + h) \div 2  o == order[m + 1]
            IN IF l > h THEN l ELSE IF o = 0 THEN m ELSE IF o < 0 THEN go[l, m - 1] ELSE go[m + 2, h]
    IN go[0, Len(order) - 1]
\* where it is, or where it goes
Look(order) ==
    LET go[l \in 0 .. Len(order), h \in -1 .. Len(order)] ==
            LET m == (l + h) \div 2  o == order[m + 1]
            IN IF l > h THEN l ELSE IF o = 0 THEN m ELSE IF o < 0 THEN go[l, m - 1] ELSE go[m + 1, h]
    IN go[0, Len(order) - 1]
Found(order) == LET pos == Look(order) IN pos < Len(order) /\ order[pos + 1] = 0
SortedAdd(c, item, order) ==
    IF Look(order) = c.last THEN Add(c, item) ELSE IF Found(order) THEN c ELSE At(c, item, Look(order))

-----------------------------------------------------------------------------
\* The dictionary of keywords, by the number of each of the 410 in the order of their codes: three
\* directives of REXX, 14 words of PERL in capitals, five with underscores, and all others in small
\* letters.  Without case, the capitals stand at or right after these words.
Keywords  == 0 .. 409
Capitals  == <<71, 72, 101, 131, 147, 174, 202, 266, 328, 353, 388, 410, 432, 454>>
NoCase(k) == IF k \in 3 .. 16 THEN Capitals[k - 2] ELSE IF k \in 17 .. 21 THEN 5 ELSE 2 * k
Dictionary == [i \in 1 .. 410 |-> i - 1]
\* IsIn: the keyword that a search with or without case finds in the order with case, or none
IsIn(k, case) ==
    LET order == [i \in 1 .. 410 |-> IF case THEN k - Dictionary[i] ELSE NoCase(k) - NoCase(Dictionary[i])]
    IN IF Found(order) THEN Dictionary[Look(order) + 1] ELSE -1

-----------------------------------------------------------------------------
\* Words of a few letters, in the order of strcmp; a variable is named by one too.
Letters == <<"-", ".", "0", "1", "2", "a", "b", "col", "k", "key", "m", "macro", "row", "z">>
Rank(c) == CHOOSE i \in DOMAIN Letters : Letters[i] = c
Compare(s, t) ==
    LET differ == {i \in 1 .. Min({Len(s), Len(t)}) : s[i] # t[i]}
        i == Min(differ)
    IN IF differ = {} THEN Len(s) - Len(t) ELSE Rank(s[i]) - Rank(t[i])

\* a word compared with all of a list
InList(c, word) == [i \in 1 .. c.last |-> Compare(word, c.cells[i])]
AddID(c, word)  == SortedAdd(c, word, InList(c, word))

Matches(c, pos, start) == pos < c.last /\ IsPrefix(start, c.cells[pos + 1])
BackTooFar(c, pos, start) ==      \* a mistake: no step forward again
    LET go[i \in 0 .. c.last] == IF i = 0 THEN 0 ELSE IF Matches(c, i, start) THEN go[i - 1] ELSE i
    IN IF pos = 0 THEN 0 ELSE go[pos - 1]
\* back to the first that begins so; place 0 is reached without a look at it
BackToFirst(c, pos, start) ==
    LET go[i \in 0 .. c.last] == IF i = 0 THEN 0 ELSE IF Matches(c, i, start) THEN go[i - 1] ELSE i + 1
    IN IF pos = 0 THEN 0 ELSE go[pos - 1]

\* the list of all that begin so, each with its place + 1; when the way back ended at place 0 the
\* first one taken is still the one it began at
FillList(c, start) ==
    LET pos  == Look(InList(c, start))
        back == BackToFirst(c, pos, start)
        rest == {i \in back .. c.last - 1 : \A j \in back + 1 .. i : Matches(c, j, start)}
    IN IF ~Matches(c, pos, start) THEN <<>>
       ELSE <<[word |-> IF back = 0 THEN c.cells[pos + 1] ELSE c.cells[back + 1], place |-> back + 1]>>
            \o [n \in 1 .. Max(rest) - back |-> [word |-> c.cells[back + n + 1], place |-> back + n + 1]]

\* NextID: the next that begins so after the last one offered, the first after the last, or the
\* one at a place taken from the list (npos); t is [last, was], the place and whether it matched
NextID(c, t, start, npos) ==
    LET cur   == IF npos >= 0 THEN [last |-> npos, was |-> TRUE] ELSE t
        next  == IF npos < 0 THEN cur.last + 1 ELSE cur.last
        again == BackToFirst(c, next, start)
        pos   == Look(InList(c, start))
        back  == BackToFirst(c, pos, start)
        Offer(i, from, was) == [t |-> [last |-> i, was |-> was], word |-> IF i = 0 THEN Get(c, from) ELSE Get(c, i)]
    IN IF cur.was /\ Matches(c, cur.last, start)
       THEN IF Matches(c, next, start) THEN Offer(next, next, TRUE)
            ELSE Offer(again, 1, TRUE)
       ELSE IF ~Matches(c, pos, start) THEN [t |-> [last |-> pos, was |-> FALSE], word |-> None]
       ELSE Offer(back, Min({pos, 1}), pos > 0)
=============================================================================
