------------------------------- MODULE Files --------------------------------
(***************************************************************************)
(* What is in a file and how it comes back (editbox.cpp, fio.cpp): rows    *)
(* cut out of the text and written through a buffer, the place, bookmarks, *)
(* hiliting and code page kept in the extended attribute .FEDSTATE, and    *)
(* the hiliting and code page that are guessed when there is none.         *)
(***************************************************************************)
EXTENDS Characters

Blanks == {" ", "\t", "\r", "EOF"}   \* __issp: the sign of the end of a file (^Z) is one
Least(S) == CHOOSE i \in S : \A j \in S : i <= j
At(s, i) == IF i \in DOMAIN s THEN s[i] ELSE "NUL"
\* the place after the characters of S from i on
Over(s, i, S) == Least({j \in i .. Len(s) + 1 : At(s, j) \notin S})

-----------------------------------------------------------------------------
\* _ld_file and strlen: the text goes up to the first NUL
TextOf(bytes) == SubSeq(bytes, 1, Over(bytes, 1, ToSet(bytes) \ {"NUL"}) - 1)

\* a row ends at LF, CR LF, or a CR that another character than LF follows
EndsRow(s, j) == s[j] = "\n" \/ (s[j] = "\r" /\ At(s, j + 1) \notin {"\n", "NUL"})
RowsOf(s) ==
    LET row(i, j) == SubSeq(s, i, IF s[j] = "\n" /\ j > i /\ s[j - 1] = "\r" THEN j - 2 ELSE j - 1)
        go[i \in 1 .. Len(s) + 1] ==
            LET ends == {j \in i .. Len(s) : EndsRow(s, j)}
            IN IF i > Len(s) THEN <<>>
               ELSE IF ends = {} THEN <<SubSeq(s, i, Len(s))>>
               ELSE <<row(i, Least(ends))>> \o go[Least(ends) + 1]
    IN go[1]
\* _unx: one CR makes it a file of DOS
IsUnix(s) == \A j \in 1 .. Len(s) - 1 : s[j] # "\r"

\* a file without text leaves the box the type that it had
Loaded(bytes, had) ==
    LET s == TextOf(bytes)
    IN IF s = <<>> THEN [rows |-> << <<>> >>, unix |-> had] ELSE [rows |-> RowsOf(s), unix |-> IsUnix(s)]

-----------------------------------------------------------------------------
(***************************************************************************)
(* BlockWrite: pieces collected in a buffer of size characters.            *)
(***************************************************************************)
Flush(w) == [w EXCEPT !.out = @ \o w.buff, !.buff = <<>>]

\* a mistake: a piece larger than the buffer goes out before what was collected
AddDirect(w, size, piece) ==
    IF Len(piece) > size THEN [w EXCEPT !.out = @ \o piece]
    ELSE IF Len(piece) + Len(w.buff) > size THEN [Flush(w) EXCEPT !.buff = piece]
    ELSE [w EXCEPT !.buff = @ \o piece]

Add(w, size, piece) ==
    LET room == IF Len(piece) + Len(w.buff) > size THEN Flush(w) ELSE w
    IN IF Len(piece) > size THEN [room EXCEPT !.out = @ \o piece] ELSE [room EXCEPT !.buff = @ \o piece]

Trimmed(row) ==
    LET black == {i \in DOMAIN row : row[i] \notin Blanks}
    IN SubSeq(row, 1, IF black = {} THEN 0 ELSE CHOOSE i \in black : \A j \in black : j <= i)

\* save: each row without the blanks at its end, and its line end; iEOF says how the last one ends
LineEnd(unix) == IF unix THEN <<"\n">> ELSE <<"\r", "\n">>
Saved(rows, unix, eof, size) ==
    LET end(i) == CASE i < Len(rows) \/ eof = "CRLF" -> LineEnd(unix)
                    [] eof = "EOF"                   -> <<"EOF">>
                    [] OTHER                         -> <<>>
        pieces == FlattenSeq([i \in DOMAIN rows |-> <<Trimmed(rows[i]), end(i)>>])
    IN Flush(FoldLeft(LAMBDA w, p : Add(w, size, p), [buff |-> <<>>, out |-> <<>>], pieces)).out

-----------------------------------------------------------------------------
(***************************************************************************)
(* Code pages: what each code means in each page.  "" is the page of the   *)
(* system, and conversion is by way of the meaning (cp2cp).                *)
(***************************************************************************)
Pages == [p \in {"", "866", "1251", "878"} |->
             CASE p \in {"", "866"} -> [a |-> "a", p |-> "line", q |-> "ru1",  r |-> "ru2"]
               [] p = "1251"        -> [a |-> "a", p |-> "ru1",  q |-> "ru2",  r |-> "sign"]
               [] p = "878"         -> [a |-> "a", p |-> "ru2",  q |-> "line", r |-> "ru1"]]
CharCodes == {"a", "p", "q", "r"}
Substitute == "a"
Convert(from, to, c) ==
    LET same == {d \in CharCodes : Pages[to][d] = Pages[from][c]}
    IN IF same = {} THEN Substitute ELSE CHOOSE d \in same : TRUE
\* cp2cp fails for a page the system does not have
Cp2Cp(from, to) == IF {from, to} \subseteq DOMAIN Pages THEN [c \in CharCodes |-> Convert(from, to, c)] ELSE <<>>

Identity == [c \in CharCodes |-> c]
SetXlate(cp) ==
    LET out == Cp2Cp(cp, "")  in == Cp2Cp("", cp)
    IN IF out = <<>> \/ in = <<>> THEN [cp |-> "", out |-> Identity, in |-> Identity]
       ELSE [cp |-> cp, out |-> out, in |-> in]

\* the letters counted under each page, each run of one character once; a line drawn counts for 866
Rate(rows, page) ==
    LET places == {<<i, k>> \in (DOMAIN rows) \X (1 .. 4) : k \in DOMAIN rows[i] /\ rows[i][k] \in CharCodes}
        again(x) == x[2] > 1 /\ rows[x[1]][x[2] - 1] = rows[x[1]][x[2]]
        code(x)  == Cp2Cp(page, "866")[rows[x[1]][x[2]]]
    IN Cardinality({x \in places : IF again(x) THEN page = "866" /\ Pages["866"][code(x)] = "line"
                                   ELSE Pages["866"][code(x)] \in {"ru1", "ru2"}})
GuessedPage(rows) ==
    LET r(p) == Rate(rows, p)
    IN IF r("866") >= r("878") /\ r("866") >= r("1251") THEN ""
       ELSE IF r("1251") > r("878") THEN "1251" ELSE "878"

-----------------------------------------------------------------------------
\* match_name: the regular expression of a mask, searched for in the name without its path
ShortName(name) ==
    LET cuts == {i \in DOMAIN name : name[i] = "\\"}
    IN SubSeq(name, IF cuts = {} THEN 1 ELSE (CHOOSE i \in cuts : \A j \in cuts : j <= i) + 1, Len(name))
MatchName(name, mask) == \E i \in 1 .. Len(ShortName(name)) : \E j \in i .. Len(ShortName(name)) : SubSeq(ShortName(name), i, j) = mask

\* GuessType: hi_map has a line for each hiliting, with masks; the first line of a known hiliting
\* that has a matching mask counts, and without one there is none
GuessType(map, parsers, name) ==
    LET fits == {i \in DOMAIN map : map[i].key \in DOMAIN parsers /\ parsers[map[i].key] # 0
                                    /\ \E m \in ToSet(map[i].masks) : MatchName(name, m)}
    IN IF fits = {} THEN 0 ELSE parsers[map[Least(fits)].key]

-----------------------------------------------------------------------------
(***************************************************************************)
(* The state of a file.  A row or column that is 0 is none.                *)
(***************************************************************************)
MkPos(x, y) == UnsignedToText(x, 0) \o <<"x">> \o UnsignedToText(y, 0)

\* put_xy: place, bookmarks, + and the hiliting if the settings and the user want it, * and the page
PutXY(f, mode) ==
    LET syntax == IF mode > 1 \/ (mode = 1 /\ f.custom) THEN <<"+">> \o UnsignedToText(f.hi + 1, 0) ELSE <<>>
    IN MkPos(f.row, f.col) \o <<" ">>
       \o FlattenSeq([i \in DOMAIN f.bmk |-> MkPos(f.bmk[i][1], f.bmk[i][2]) \o <<" ">>])
       \o syntax \o <<" ", "*", f.cp>>

Digits == ToSet(SubSeq(Figures, 1, 10))
NumberAt(s, i) == FoldLeft(LAMBDA n, c : n * 10 + Value(c), 0, SubSeq(s, i, Over(s, i, Digits) - 1))
\* parse_pos: where it ends, or 0 if there is no pair
ParsePos(s, i) ==
    LET x == Over(s, i, Digits)
    IN IF i = 0 \/ At(s, x) # "x" THEN [next |-> 0, pos |-> <<0, 0>>]
       ELSE [next |-> Over(s, x + 1, Digits), pos |-> <<NumberAt(s, i), NumberAt(s, x + 1)>>]
SkipBlank(s, i) == IF At(s, i) = " " THEN i + 1 ELSE i

GotoPos(f, pos) ==
    LET bounded == IF pos[1] > f.count THEN f.count ELSE pos[1]
    IN [f EXCEPT !.row = IF pos[1] > 0 THEN bounded ELSE @, !.col = IF pos[2] > 0 THEN pos[2] ELSE @]

\* the bookmarks one after the other, until one is not there
ReadBookmarks(f, s, from) ==
    LET go[k \in 1 .. Len(f.bmk) + 1, i \in 0 .. Len(s) + 2] ==
            IF k > Len(f.bmk) \/ i = 0 THEN [next |-> i, bmk |-> SubSeq(f.bmk, k, Len(f.bmk))]
            ELSE LET join(pos, rest) == [rest EXCEPT !.bmk = <<pos>> \o @]
                     take(p) == join(p.pos, go[k + 1, SkipBlank(s, p.next)])
                 IN take(ParsePos(s, i))
    IN go[1, from]

\* the hiliting, which counts as the user's from now on (set_hiliting), and the code page
ReadSyntax(f, s, i) ==
    IF i = 0 \/ At(s, i) # "+" \/ NumberAt(s, i + 1) = 0 THEN f
    ELSE [f EXCEPT !.hi = NumberAt(s, i + 1) - 1, !.custom = TRUE]
ReadPage(f, s, i) == IF i > 0 /\ At(s, i) = "*" THEN [f EXCEPT !.cp = SetXlate(At(s, i + 1)).cp, !.cpSet = TRUE] ELSE f

ReadState(f, s) ==
    LET behind(i)   == IF At(s, i) = "+" THEN Over(s, i + 1, Digits) ELSE i
        rest(g, i)  == ReadPage(ReadSyntax(g, s, i), s, SkipBlank(s, SkipBlank(s, behind(i))))
        marks(g, b) == rest([g EXCEPT !.bmk = b.bmk], SkipBlank(s, b.next))
        place(p)    == marks(GotoPos(f, p.pos), ReadBookmarks(f, s, SkipBlank(s, p.next)))
    IN place(ParsePos(s, 1))

\* put_ea and get_ea: a text kept with the file under a name, or nothing
NoEAs == [name \in {".FEDPOS", ".FEDMARK0", ".FEDMARK1", ".FEDSTATE"} |-> <<>>]
PutEA(eas, name, value) == [eas EXCEPT ![name] = value]
GetEA(eas, name)        == eas[name]

\* load, after the rows of a text: the attributes of older versions first (a place, and bookmarks by
\* number).  A box that had another file has its bookmarks and its code page still
NewBox == [bmk |-> [i \in 1 .. 2 |-> <<0, 0>>], cp |-> ""]
Opened(box, rows, guess, eas) ==
    LET fresh == [count |-> Len(rows), row |-> 1, col |-> 1, bmk |-> box.bmk,
                  hi |-> guess, custom |-> FALSE, cp |-> box.cp, cpSet |-> FALSE]
        at(old, s)      == IF s = <<>> THEN old ELSE ParsePos(s, 1).pos
        placed(f, s)    == IF s = <<>> THEN f ELSE GotoPos(f, at(<<0, 0>>, s))
        mark(i)         == IF i = 1 THEN ".FEDMARK0" ELSE ".FEDMARK1"
        marked(f)       == [f EXCEPT !.bmk = [i \in DOMAIN @ |-> at(@[i], GetEA(eas, mark(i)))]]
        restored(f, s)  == IF s = <<>> THEN f ELSE ReadState(f, s)
        guessed(f)      == IF f.cpSet \/ GuessedPage(rows) = "" THEN f ELSE [f EXCEPT !.cp = GuessedPage(rows)]
    IN guessed(restored(marked(placed(fresh, GetEA(eas, ".FEDPOS"))), GetEA(eas, ".FEDSTATE")))
=============================================================================
