------------------------------- MODULE Searching -------------------------------
(***************************************************************************)
(* Search, replace and sort (search.cpp, bsearch.cpp, sort.cpp and         *)
(* search_proc of boxcoll.cpp) over the rows of a text.                    *)
(*                                                                         *)
(* A text is a record: rows, the cursor (row from 1, col from 0), the      *)
(* match found last (found), the text that is to take its place (rep) and  *)
(* whether the last search had a result (hit).  Rows have no TABs.         *)
(*                                                                         *)
(* There are three engines: "plain", "nocase" and "regex".  Of the regular *)
(* expressions (rx.cpp) only literal ones are modelled, which may begin    *)
(* with "^"; "$0" in the replacement stands for what was matched.          *)
(***************************************************************************)
EXTENDS Integers, Sequences, SequencesExt

CONSTANT Large         \* LARGE, greater than the length of two lines
ASSUME LargeAssumption == Large \in Nat

NotFound == [start |-> -1, len |-> 0]

Capitals == ("a" :> "A") @@ ("b" :> "B")
UpperOf(c) == IF c \in DOMAIN Capitals THEN Capitals[c] ELSE c
LowerOf(c) == IF \E s \in DOMAIN Capitals : Capitals[s] = c
              THEN CHOOSE s \in DOMAIN Capitals : Capitals[s] = c ELSE c

RestOf(s, at) == SubSeq(s, at + 1, Len(s))

-----------------------------------------------------------------------------
(***************************************************************************)
(* Boyer, Moore and Horspool: the place looked at is counted from the end  *)
(* of the line, so that it is negative inside it; LARGE in the table of    *)
(* skips marks the last character of the pattern.                          *)
(***************************************************************************)
\* the pattern as init keeps it
Kept(kind, pattern) == IF kind = "nocase" THEN [i \in DOMAIN pattern |-> UpperOf(pattern[i])] ELSE pattern
\* init sets the entry of c when it comes to the character u of the pattern
SetsEntry(kind, u, c) == c = u \/ (kind = "nocase" /\ c = LowerOf(u))
SkipOf(kind, pat, c) ==
    IF SetsEntry(kind, Last(pat), c) THEN Large
    ELSE Len(pat) - Max({0} \cup {i \in 1 .. Len(pat) - 1 : SetsEntry(kind, pat[i], c)})

SkipWhole(pat) == Len(pat)     \* a mistake: the last character may stand in the pattern twice
Skip2(pat) == Len(pat) - Max({0} \cup {i \in 1 .. Len(pat) - 1 : pat[i] = Last(pat)})

SameChar(kind, c, u) == u = IF kind = "nocase" THEN UpperOf(c) ELSE c

BmhSearch(kind, pat, s) ==
    LET n == Len(s)
        m == Len(pat)
        scan[i \in -n .. m] ==
            LET next  == i + SkipOf(kind, pat, s[n + i + 1])
                last  == next - Large
                start == n + last - (m - 1)
            IN IF next < 0 THEN scan[next]
               ELSE IF next < Large - n THEN NotFound
               ELSE IF \A k \in 1 .. m - 1 : SameChar(kind, s[start + k], pat[k]) THEN [start |-> start, len |-> m]
               ELSE IF last + Skip2(pat) >= 0 THEN NotFound
               ELSE scan[last + Skip2(pat)]
    IN IF m > n THEN NotFound ELSE scan[m - 1 - n]

\* middle: REG_NOTBOL, the text does not begin where the line does
RegexSearch(pat, s, middle) ==
    IF Head(pat) = "^"
    THEN IF ~middle /\ IsPrefix(Tail(pat), s) THEN [start |-> 0, len |-> Len(pat) - 1] ELSE NotFound
    ELSE LET places == {i \in 0 .. Len(s) - Len(pat) : IsPrefix(pat, RestOf(s, i))}
         IN IF places = {} THEN NotFound ELSE [start |-> Min(places), len |-> Len(pat)]

EngineSearch(kind, pattern, s, middle) ==
    IF kind = "regex" THEN RegexSearch(pattern, s, middle) ELSE BmhSearch(kind, Kept(kind, pattern), s)

\* RXSearch::subst: $0 is the match and $$ a dollar
RegexSubst(repl, matched) ==
    LET put[i \in 1 .. Len(repl) + 2] ==
            IF i > Len(repl) THEN <<>>
            ELSE IF repl[i] # "$" \/ i = Len(repl) THEN <<repl[i]>> \o put[i + 1]
            ELSE IF repl[i + 1] = "0" THEN matched \o put[i + 2]
            ELSE IF repl[i + 1] = "$" THEN <<"$">> \o put[i + 2]
            ELSE <<"$">> \o put[i + 1]
    IN put[1]
Subst(kind, repl, matched) == IF kind = "regex" THEN RegexSubst(repl, matched) ELSE repl

-----------------------------------------------------------------------------
(***************************************************************************)
(* Buffer::search and replace.                                             *)
(***************************************************************************)
\* the matches of a row, each behind the one before
Matches(kind, pattern, s) ==
    LET behind[at \in 0 .. Len(s)] ==
            LET add(m) == IF m = NotFound THEN <<>>
                          ELSE <<[m EXCEPT !.start = @ + at]>> \o behind[at + m.start + m.len]
            IN add(EngineSearch(kind, pattern, RestOf(s, at), at > 0))
    IN behind[0]

\* the column a search in row i goes on from: behind or before the match it stands on
OffsetIn(b, i, back) ==
    IF i # b.row THEN IF back THEN Len(b.rows[i]) ELSE 0
    ELSE IF back THEN b.col - 1
    ELSE IF b.found.row = i /\ b.found.col = b.col THEN b.col + b.found.len ELSE b.col

\* the last match before that column, or the first one behind it
NextTo(list, offset, back) ==
    LET good == {m \in ToSet(list) : IF back THEN m.start <= offset ELSE m.start >= offset}
    IN IF good = {} THEN -1 ELSE IF back THEN Max({m.start : m \in good}) ELSE Min({m.start : m \in good})
\* what is found there is searched for once more
PickIn(b, kind, pattern, back, i) ==
    LET from(pick)  == EngineSearch(kind, pattern, RestOf(b.rows[i], pick), pick # 0)
        moved(m, n) == IF m = NotFound THEN NotFound ELSE [m EXCEPT !.start = n]
        picked(n)   == IF n = -1 THEN NotFound ELSE moved(from(n), n)
    IN picked(NextTo(Matches(kind, pattern, b.rows[i]), OffsetIn(b, i, back), back))

FoundAt(b, kind, repl, i, m) ==
    [b EXCEPT !.row = i, !.col = m.start, !.hit = TRUE,
              !.found = [row |-> i, col |-> m.start, len |-> m.len],
              !.rep = Subst(kind, repl, SubSeq(b.rows[i], m.start + 1, m.start + m.len))]
\* the nearest row in the direction of the search that has a match
Search(b, kind, pattern, repl, back) ==
    LET picks == [i \in DOMAIN b.rows |-> IF (IF back THEN i <= b.row ELSE i >= b.row)
                                          THEN PickIn(b, kind, pattern, back, i) ELSE NotFound]
        found(p, rows) == IF pattern = <<>> \/ rows = {} THEN [b EXCEPT !.hit = FALSE]
                          ELSE LET i == IF back THEN Max(rows) ELSE Min(rows) IN FoundAt(b, kind, repl, i, p[i])
        nearest(p) == found(p, {i \in DOMAIN p : p[i] # NotFound})
    IN nearest(picks)

\* a mistake: the length of what was found is kept
ReplaceKeepingLength(b) ==
    IF b.row # b.found.row \/ b.col # b.found.col THEN b
    ELSE [b EXCEPT !.rows[b.row] = SubSeq(@, 1, b.col) \o b.rep \o RestOf(@, b.col + b.found.len)]
Replace(b) ==
    IF b.row # b.found.row \/ b.col # b.found.col THEN b
    ELSE [b EXCEPT !.rows[b.row] = SubSeq(@, 1, b.col) \o b.rep \o RestOf(@, b.col + b.found.len),
                   !.found.len = Len(b.rep)]

\* search_proc with R: to each match an answer, "Yes", "No" or "Quit"; with N all are Yes
SearchProc(b, kind, pattern, repl, back, global, answers) ==
    LET from == IF global THEN [b EXCEPT !.row = 1, !.col = 0] ELSE b
        next(t) == Search(t, kind, pattern, repl, back)
        step(t, answer) ==
            IF ~t.hit THEN t
            ELSE IF answer = "Quit" THEN [t EXCEPT !.hit = FALSE]
            ELSE next(IF answer = "Yes" THEN Replace(t) ELSE t)
    IN FoldLeft(step, next(from), answers)

-----------------------------------------------------------------------------
(***************************************************************************)
(* Buffer::sort, Shell's sort of the rows of a column block.  A row is a   *)
(* record; its key is what the block shows of it.                          *)
(***************************************************************************)
\* the gaps: for(gap = 0; ++gap < len;) gap *= 3; while((gap /= 3) != 0)
Gaps(len) ==
    LET grown[g \in 1 .. 4 * len + 4] == IF g < len THEN grown[3 * g + 1] ELSE g
        down[g \in 0 .. 4 * len + 4] == IF g = 0 THEN <<>> ELSE <<g>> \o down[g \div 3]
    IN down[grown[1] \div 3]

\* a mistake: a row is compared with one other row only
SinkOnce(rows, j, gap) ==
    IF rows[j].key <= rows[j + gap].key THEN rows
    ELSE [rows EXCEPT ![j] = rows[j + gap], ![j + gap] = rows[j]]
\* the row at j + gap goes down while the one a gap before it is greater
Sink(rows, j, gap) ==
    LET low(k) == rows[j + gap].key >= rows[k].key
        chain  == {k \in 1 .. j : (j - k) % gap = 0}
        stops  == {k \in chain : low(k)}
        moved  == {k \in chain : \A s \in stops : k > s}
        at     == IF moved = {} THEN j + gap ELSE Min(moved)
    IN [k \in DOMAIN rows |-> IF k = at THEN rows[j + gap]
                              ELSE IF k - gap \in moved THEN rows[k - gap] ELSE rows[k]]

Sort(rows) ==
    LET pass(rs, gap) == FoldLeft(LAMBDA t, i : Sink(t, i, gap), rs, [i \in 1 .. Len(rs) - gap |-> i])
    IN FoldLeft(pass, rows, Gaps(Len(rows)))
=============================================================================
