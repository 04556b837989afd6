------------------------------ MODULE Brackets ------------------------------
(***************************************************************************)
(* Matching of brackets (bracket.cpp).  From the bracket under the cursor  *)
(* the search goes ahead or back, over the rows, to the bracket that       *)
(* closes or opens it; brackets in a token of another colour than its own  *)
(* (strings, comments) are passed over.                                    *)
(*                                                                         *)
(* The text is a sequence of rows, and states the state each row starts in *)
(* (hl_state).  A place is a pair of a row and a column, both from 1.      *)
(***************************************************************************)
EXTENDS Scanners, Integers, Sequences, FiniteSets

Pairs == {<<"(", ")">>, <<"{", "}">>, <<"[", "]">>, <<"<", ">">>}
NoMatch == <<-1, -1>>

\* token_type: the colour of the token that covers a column of the row
ColourAt(toks, col) ==
    LET from[k \in 1 .. Len(toks) + 1] == IF k = 1 THEN 0 ELSE from[k - 1] + toks[k - 1].len
        over == {k \in 1 .. Len(toks) : from[k] < col /\ col <= from[k] + toks[k].len}
    IN IF over = {} THEN "Default" ELSE toks[CHOOSE k \in over : TRUE].color
TokenType(lang, state, s, col) == ColourAt(Tokens(lang, state, s).toks, col)

\* the places from the cursor on in the direction of the search, and within its rows
Ahead(p, q, forward) ==
    IF forward THEN q[1] > p[1] \/ (q[1] = p[1] /\ q[2] > p[2])
    ELSE q[1] < p[1] \/ (q[1] = p[1] /\ q[2] < p[2])

\* the brackets of the pair that are met within so many rows (0: all), in the cursor's colour
Met(lang, states, text, p, rows) ==
    LET pair == UNION {b \in {{c[1], c[2]} : c \in Pairs} : At(text[p[1]], p[2]) \in b}
        Type(q) == TokenType(lang, states[q[1]], text[q[1]], q[2])
        forward == \E b \in Pairs : At(text[p[1]], p[2]) = b[1]
        near == {r \in 1 .. Len(text) : rows > 0 => r - p[1] \in -rows .. rows}
    IN {q \in UNION {{<<r, c>> : c \in 1 .. Len(text[r])} : r \in near} :
           /\ Ahead(p, q, forward)
           /\ text[q[1]][q[2]] \in pair
           /\ Type(q) = Type(p)}

\* the place of set that is met first
Nearest(set, p) ==
    IF set = {} THEN NoMatch
    ELSE CHOOSE q \in set : \A x \in set :
            x = q \/ Ahead(q, x, Ahead(p, q, TRUE))

\* a mistake: the level of nesting is not counted
FindNearest(lang, states, text, p, rows) ==
    Nearest({q \in Met(lang, states, text, p, rows) : text[q[1]][q[2]] # text[p[1]][p[2]]}, p)

\* find_matching_bracket: the first place where as many are closed as were opened
Balanced(met, text, p) ==
    LET Same(q)  == text[q[1]][q[2]] = text[p[1]][p[2]]
        UpTo(q)  == {x \in met : x = q \/ Ahead(x, q, Ahead(p, q, TRUE))}
        Level(q) == 1 + Cardinality({x \in UpTo(q) : Same(x)}) - Cardinality({x \in UpTo(q) : ~Same(x)})
    IN {q \in met : Level(q) = 0}
FindMatching(lang, states, text, p, rows) ==
    Nearest(Balanced(Met(lang, states, text, p, rows), text, p), p)

\* match_bracket: where the cursor goes
MatchBracket(lang, states, text, p) ==
    LET go(q) == IF q = NoMatch THEN p ELSE q IN go(FindMatching(lang, states, text, p, 0))
=============================================================================
