------------------------------ MODULE MCTexts -------------------------------
(***************************************************************************)
(* The parts of the editor that compute a result from their input, on      *)
(* every short input: a state is a kind of input (a language, a text to    *)
(* search in, edits of rows, a profile, words, settings of variables,      *)
(* dialogs on the screen), the state that a line starts in, and the input, *)
(* which grows by one character or operation at a time.                    *)
(***************************************************************************)
EXTENDS Drawing, Brackets, Characters, Searching

T == INSTANCE TabLine
R == INSTANCE Rows
P == INSTANCE Profile

CONSTANTS MaxLen,       \* the bound on the length of a line
          Delta         \* the cells that an array grows by
ASSUME MaxLenAssumption == MaxLen \in Nat

V == INSTANCE Variables
W == INSTANCE Screen WITH Height <- 5, Width <- 6
F == INSTANCE Files
M == INSTANCE Macros

VARIABLES lang, state, text
vars == <<lang, state, text>>

\* the names of variables that are set; the last three are settings of the editor
VarNames == {<<"a">>, <<"a", ".", "b">>, <<"a", "b">>, <<"z", ".", "z">>, <<"z">>, <<"b">>, <<"z", ".", "a">>}

\* the characters that a scanner treats each in its own way
Alphabet(l) ==
    CASE l = "none"   -> {"a", " ", "\t"}
      [] l = "C++"    -> {"\"", "\\", "/", "*", "0", "x", "(", ")"}
      [] l = "REXX"   -> {"'", "/", "*", "a", "~", ":", "k", "("}
      [] l = "MAKE"   -> {"\"", "'", "\\", "#", "0", "a", " "}
      [] l = "ASM"    -> {"\"", "'", ";", "0", "a", "h", "%", "("}
      [] l = "HTML"   -> {"<", ">", "!", "-", "?", "S", "/", "\"", "*", "&"}
      [] l = "MAIL"   -> {">", " ", "a"}
      [] l = "PASCAL" -> {"'", "(", "*", ")", "{", "}", "$", "a", "k"}
      [] l = "PERL"   -> {"\"", "\\", "#", "$", ":", "a", "{", "}"}
      [] l = "LATEX"  -> {"\\", "%", "{", "0", "a", "x", " "}
      [] l = "find"   -> {"a", "A", "b"}
      [] l = "sort"   -> {"1", "2", "3"}
      [] l = "profile" -> {"a", ".", "=", "'", "\\", "x", ",", "{", "}", " "}
      [] l = "words"   -> {<<"-">>, <<"a">>, <<"a", "a">>, <<"a", "b">>, <<"b">>, <<"b", "k">>, <<"b", "z">>, <<"z">>}
      [] l = "names"   -> {<<"set", n, 2>> : n \in VarNames} \cup {<<"set", n, V!NoNumber>> : n \in {<<"a">>, <<"z">>, <<"b">>}}
                          \cup {<<"set", <<"k", ".", "a">>, 1>>, <<"key", <<"a">>, 1>>, <<"key", <<"a">>, 2>>, <<"key", <<"b">>, 1>>}
                          \cup {<<"del", <<"a">>>>, <<"del", <<"b">>>>, <<"drop", <<"a">>>>, <<"drop", <<"k", ".", "a">>>>}
      [] l = "macro"   -> {"\"", "'", "\\", " ", "l", "n", "0", "{", "}"}
      [] l = "keys"    -> {"a", "\"", "kbLeft", "kbMark", "kbRexx", "kbStart", "kbEnd", "kbF5"}
      [] l = "file"    -> {"a", " ", "\n", "\r", "NUL"}
      [] l = "screen"  -> {<<"open", r, c, h, w>> : r \in {0, 1}, c \in {0, 2, 3}, h \in {2, 3}, w \in {2, 3}}
                          \cup {<<"draw">>, <<"close">>}
      [] OTHER        -> {<<"type", 1, "/*">>, <<"type", 1, "'">>, <<"type", 2, "*/">>, <<"split", 1>>, <<"split", 2>>,
                          <<"merge", 1>>, <<"merge", 2>>, <<"dup", 2>>, <<"del", 1>>, <<"del", 2>>, <<"place", 2>>,
                          <<"place", 3>>, <<"clear", 1, 3>>, <<"paste", 2, << <<"x">>, <<"'">> >> >>, <<"flip">>, <<"undo">>}

\* besides the languages: texts to search in, keys to sort, edits of rows, lines of a profile,
\* words to complete, variables to set and dialogs to open
Kinds == Languages \cup {"find", "sort", "rows", "profile", "words", "names", "screen", "file", "macro", "keys"}
MaxLenOf(l) == CASE l \in {"sort", "file"} -> MaxLen + 1 [] l \in {"names", "screen"} -> MaxLen - 1 [] OTHER -> MaxLen

\* the states a line of the language can start in: outside, in a comment, or in a quote of its
\* alphabet; those that a line comes to after a sign or two are reached that way
Starts(l) ==
    CASE l = "C++"               -> {"Initial", "Quote1", "Comment"}
      [] l \in {"REXX", "PASCAL"} -> {"Initial", "Quote2", "Comment"}
      [] l = "MAKE"              -> {"Initial", "Quote1", "Quote2"}
      [] l = "ASM"               -> {"Initial", "Quote2"}
      [] l = "PERL"              -> {"Initial", "Quote1"}
      [] l = "HTML"              -> {"Initial", "Quote2", "Comment"}
      [] l = "macro"             -> {"Initial", "Key", "Quote2"}
      [] l = "keys"              -> {"Initial", "Before", "After"}
      [] l = "profile"           -> {"Initial", "Value", "Key", "Macro"}
      [] OTHER                   -> {"Initial"}

Init == /\ lang \in Kinds
        /\ state \in Starts(lang)
        /\ text = <<>>

Type(c) == /\ Len(text) < MaxLenOf(lang)
           /\ c \in Alphabet(lang)
           /\ text' = Append(text, c)
           /\ UNCHANGED <<lang, state>>

Next == \E c \in Alphabet(lang) : Type(c)
Spec == Init /\ [][Next]_vars

-----------------------------------------------------------------------------
\* the makefile scanner reads past a line that ends in a backslash inside quotes
Overruns(l, s) == l = "MAKE" /\ s # <<>> /\ s[Len(s)] = "\\"

\* Every scanner cuts the whole line into tokens and nothing more: none ends past the line, and
\* none makes the loops of set_hiliting and draw stand still.
TokensTileTheLine ==
    LET toks == Tokens(lang, state, text).toks
    IN (lang \in Languages /\ ~Overruns(lang, text)) => Ends(toks)[Len(toks)] = Len(text)

\* What quotes and comments are in each language, one character after the other.
Quotes == {"\"", "'"}
Comments(l) == CASE l = "PASCAL" -> {<<"Comment", <<"(", "*">>, <<"*", ")">> >>, <<"Comment2", <<"{">>, <<"}">> >>}
                 [] l \in {"C++", "REXX"} -> {<<"Comment", <<"/", "*">>, <<"*", "/">> >>}
                 [] OTHER -> {}
ToLineEnd(l) == CASE l = "C++" -> {<<"/", "/">>} [] l = "ASM" -> {<<";">>} [] OTHER -> {}
Escapes(l) == l = "C++"

GrammarEnd(l, start, s) ==
    LET go[i \in 1 .. Len(s) + 2, q \in {"Initial", "Quote1", "Quote2", "Comment", "Comment2"}] ==
            IF i > Len(s) THEN q
            ELSE IF q \in {"Comment", "Comment2"}
            THEN LET close == CHOOSE c \in {d[3] : d \in {e \in Comments(l) : e[1] = q}} : TRUE
                 IN IF Sees(s, i, close) THEN go[i + Len(close), "Initial"] ELSE go[i + 1, q]
            ELSE IF Escapes(l) /\ s[i] = "\\" THEN go[i + 2, q]
            ELSE IF q # "Initial" THEN go[i + 1, IF s[i] = QuoteOf(q) THEN "Initial" ELSE q]
            ELSE IF s[i] \in Quotes THEN go[i + 1, QuoteState(s[i])]
            ELSE IF \E w \in ToLineEnd(l) : Sees(s, i, w) THEN "Initial"
            ELSE IF \E d \in Comments(l) : Sees(s, i, d[2])
            THEN LET d == CHOOSE d \in Comments(l) : Sees(s, i, d[2]) IN go[i + Len(d[2]), d[1]]
            ELSE go[i + 1, q]
    IN go[1, start]

\* The state a line ends in, in which the next one starts, is the one its quotes and comments
\* leave open: no keyword, number or operator of the scanners swallows a quote or a comment sign.
EndStateIsTheGrammars ==
    lang \in {"C++", "REXX", "ASM", "PASCAL"} => EndState(lang, state, text) = GrammarEnd(lang, state, text)

\* A window that is scrolled to the side shows every cell in the colour it has in an unscrolled
\* window with the same right edge: draw passes over the tokens left of the window exactly.
ScrollingKeepsColours ==
    lang \in Languages => \A left \in 1 .. MaxLen - 1 :
        LET cols == 2
            all == PrintOf(text, 0, left + cols)
        IN (left < Len(text) /\ ~Overruns(lang, all)) =>
             Coloured(lang, state, text, [col |-> left, cols |-> cols]) =
             SubSeq(Coloured(lang, state, text, [col |-> 0, cols |-> left + cols]), left + 1, left + cols)

\* the cells of a block that copy takes: a rectangle, or all the text between its ends
InBlock(b, j, c) ==
    LET top == IF b.mrow < b.row THEN <<b.mrow, b.mcol>> ELSE <<b.row, b.col>>
        bot == IF b.mrow < b.row THEN <<b.row, b.col>> ELSE <<b.mrow, b.mcol>>
    IN IF b.column \/ b.mrow = b.row
       THEN j \in BlockRows(b) /\ Lesser(b.mcol, b.col) <= c /\ c < Greater(b.mcol, b.col)
       ELSE /\ j \in BlockRows(b)
            /\ j = top[1] => c >= top[2]
            /\ j = bot[1] => c < bot[2]

Blocks == [mrow : 1 .. 3, mcol : 0 .. 4, row : {2}, col : 0 .. 4, column : BOOLEAN,
           marking : {TRUE}, found : {[row |-> 2, col |-> 1, len |-> 0]}]

\* The cells drawn as marked are those that copy and clear would take, wherever the window is.
BlockIsShown ==
    (lang = "none" /\ Len(text) >= 2) =>
        \A b \in Blocks : \A j \in 1 .. 3 : \A left \in 0 .. 2 :
            LET marks(cells) == \A i \in 1 .. 3 : (cells[i].color = "Selection") <=> InBlock(b, j, left + i - 1)
            IN marks(RowDrawn("none", state, b, text, j, [col |-> left, cols |-> 3]))

\* the line, cut in two rows
Rows(cut) == <<SubSeq(text, 1, cut), SubSeq(text, cut + 1, Len(text))>>
StatesOf(rows) == <<state, EndState(lang, state, rows[1])>>

\* The bracket that matches a bracket is matched by it, over the ends of rows and past brackets
\* in strings and comments: Match Bracket twice leads back.
MatchIsMutual ==
    lang \in Languages => \A cut \in 0 .. Len(text) :
        LET mutual(rows, states) ==
                \A r \in {1, 2} : \A c \in {k \in DOMAIN rows[r] : rows[r][k] \in {"(", ")", "{", "}", "<", ">"}} :
                    MatchBracket(lang, states, rows, MatchBracket(lang, states, rows, <<r, c>>)) = <<r, c>>
        IN mutual(Rows(cut), StatesOf(Rows(cut)))

\* With TABs in a line, the cells printed from any column on, the block taken out of it, the word
\* under the cursor and the test for blanks are those of the line with its TABs expanded; going
\* back a character never stops inside a TAB, and a new line is indented as far as was asked.
TabsKeepColumns ==
    (lang = "none") => \A w \in {2, 3} :
        LET full == T!Expanded(text, w)
            Same(s, from, n) == Len(s) = n /\ \A i \in 1 .. n : s[i] = IF from + i <= Len(full) THEN full[from + i] ELSE " "
        IN /\ T!WidthOf(text, w) = Len(full)
           /\ \A from \in 0 .. 5, n \in 1 .. 4 :
                 /\ Same(T!PrintedFrom(text, w, from, n), from, n)
                 /\ (from % w = 0 /\ from + n <= Len(full)) =>
                       Same(T!Expanded(T!SubLine(text, w, from, n), w), from, n)
           /\ \A c \in 2 .. Len(full) :
                 LET p == T!PrevPos(text, w, c) IN
                 p < c /\ \E i \in 0 .. Len(text) : T!WidthOf(SubSeq(text, 1, i), w) = p
           /\ \A c \in 0 .. Len(full) - 1 :
                 LET word == T!FindWord(text, w, c) IN
                 /\ T!IsEmptyTo(text, w, c) <=> \A i \in 1 .. c + 1 : full[i] = " "
                 /\ full[c + 1] = "a" => /\ word[1] <= c /\ c < word[2]
                                         /\ \A i \in word[1] + 1 .. word[2] : full[i] # " "
                                         /\ word[1] > 0 => full[word[1]] = " "
                                         /\ word[2] < Len(full) => full[word[2] + 1] = " "
           /\ \A n \in 0 .. 5, useTabs \in BOOLEAN :
                 T!IndentWidth(T!IndentOf(text, w, n, useTabs), w) = n

\* On a code page whose capitals come before their small letters, two strings are the same without
\* case exactly when their capitals are, and they are ordered; a letter is a code that has two cases.
Strings == UNION {[1 .. n -> Codes \ {0, 3}] : n \in 0 .. 2}
CasesAgree ==
    (lang = "none" /\ text = <<>>) =>
    \A sys \in [High -> High] :
        LET up == UpperTable(sys)  low == LowerTable(sys)
            paired == /\ \A c \in High : sys[c] <= c /\ sys[sys[c]] = sys[c]
                      /\ \A c, d \in High : (c # d /\ sys[c] = sys[d]) => sys[c] \in {c, d}
                      /\ \A c \in High : Cardinality({d \in High : sys[d] = c}) <= 2
        IN paired => /\ \A a, b \in Strings :
                           /\ Compared(a, b, low) = 0 <=> /\ Len(a) = Len(b)
                                                        /\ \A i \in DOMAIN a : up[a[i]] = up[b[i]]
                           /\ Compared(b, a, low) = -Compared(a, b, low)
                     /\ \A c \in High : IsLetterCode(sys, c) <=> \E d \in Codes \ {c} : up[c] = up[d]

-----------------------------------------------------------------------------
\* where the pattern stands in s, whatever the case with "nocase"
StandsAt(kind, pattern, s, i) ==
    /\ i + Len(pattern) <= Len(s)
    /\ \A k \in DOMAIN pattern :
          IF kind = "nocase" THEN UpperOf(s[i + k]) = UpperOf(pattern[k]) ELSE s[i + k] = pattern[k]

\* The search with tables of skips finds the first occurrence of every pattern, in any case or
\* in the case it has, and finds it again when it starts at it.
SearchFindsFirst ==
    lang = "find" => \A n \in 1 .. 3 : \A pattern \in [1 .. n -> {"a", "A", "b"}] : \A kind \in {"plain", "nocase"} :
        LET places == {i \in 0 .. Len(text) : StandsAt(kind, pattern, text, i)}
            m == EngineSearch(kind, pattern, text, FALSE)
        IN IF places = {} THEN m = NotFound ELSE m = [start |-> Min(places), len |-> n]

\* the row with every occurrence, from left to right, whose number is in S replaced
RowReplaced(kind, pattern, with, s, S) ==
    LET go[i \in 0 .. Len(s), k \in 1 .. Len(s) + 1] ==
            IF i = Len(s) THEN <<>>
            ELSE IF StandsAt(kind, pattern, s, i)
            THEN (IF k \in S THEN with ELSE SubSeq(s, i + 1, i + Len(pattern))) \o go[i + Len(pattern), k + 1]
            ELSE <<s[i + 1]>> \o go[i + 1, k]
    IN go[0, 1]
Occurrences(kind, pattern, s) ==
    LET go[i \in 0 .. Len(s)] == IF i = Len(s) THEN 0
                                 ELSE IF StandsAt(kind, pattern, s, i) THEN 1 + go[i + Len(pattern)]
                                 ELSE go[i + 1]
    IN go[0]

Patterns == {<<"a">>, <<"a", "a">>, <<"A", "b">>, <<"b", "a", "b">>}
Replies == {<<"Yes", "Yes", "Yes", "Yes">>, <<"Yes", "No", "Yes", "No">>,
            <<"No", "Yes", "Yes", "Quit">>, <<"Yes", "Quit", "Yes", "Yes">>}
\* going back, the characters around a match that was deleted may form a new one
Substitutes(kind, back) == IF kind = "regex" THEN {<<"c", "$", "0", "$", "$">>}
                           ELSE {<<"c">>, <<"c", "c", "c">>} \cup (IF back THEN {} ELSE {<<>>})

\* Replacing with questions asks once for every occurrence in the text, forward or backward and
\* over the ends of rows, and replaces those that were answered Yes: no match is skipped, found
\* twice or found in the text put in, however long that is.
RepliesAreObeyed ==
    lang = "find" =>
    \A cut \in 0 .. Len(text) : \A kind \in {"plain", "nocase", "regex"} : \A back \in BOOLEAN :
    \A pattern \in (IF kind = "regex" THEN {<<"a">>} ELSE Patterns) : \A repl \in Substitutes(kind, back) : \A replies \in Replies :
        LET rows == Rows(cut)
            from == [rows |-> rows, row |-> IF back THEN 2 ELSE 1, col |-> IF back THEN Len(rows[2]) ELSE 0,
                     found |-> [row |-> 1, col |-> 0, len |-> 0], rep |-> <<>>, hit |-> FALSE]
            with == Subst(kind, repl, pattern)
            n1   == Occurrences(kind, pattern, rows[1])
            n2   == Occurrences(kind, pattern, rows[2])
            \* the number of the question about occurrence k of all
            Nth(k) == IF back THEN n1 + n2 + 1 - k ELSE k
            yes  == {k \in 1 .. n1 + n2 : /\ replies[Nth(k)] = "Yes"
                                          /\ \A e \in 1 .. Nth(k) : replies[e] # "Quit"}
            obeyed(done) ==
                /\ done.rows = << RowReplaced(kind, pattern, with, rows[1], yes),
                                  RowReplaced(kind, pattern, with, rows[2], {k - n1 : k \in yes}) >>
                /\ ~done.hit
        IN obeyed(SearchProc(from, kind, pattern, repl, back, FALSE, replies))

\* Sorting a column block leaves the same rows in the order of their keys, also when there are
\* enough of them for more than one gap.
SortOrders ==
    lang = "sort" =>
        LET key(c) == CHOOSE n \in 1 .. 3 : <<"1", "2", "3">>[n] = c
            rows   == [i \in DOMAIN text |-> [key |-> key(text[i]), text |-> i]]
            sorted == Sort(rows)
        IN /\ \A i \in 1 .. Len(text) - 1 : sorted[i].key <= sorted[i + 1].key
           /\ {sorted[i] : i \in DOMAIN sorted} = {rows[i] : i \in DOMAIN rows}

-----------------------------------------------------------------------------
\* the rows that the edits start from, and the text they lead to
FirstRows == << <<"x", "/*">>, <<"'", "*/", "x">>, <<"'", "x", "'">>, <<"x">> >>
Uses(names) == \E i \in DOMAIN text : text[i][1] \in names

\* The state kept with each row is the one the rows above it leave, after every edit, undo and
\* switch of the colours: no row is coloured by a comment or quote that is no longer there.  The
\* copy of a row (dup_line) is left out: it is taken to start a text of its own (line.cpp:46).
StartStatesCurrent ==
    (lang = "rows" /\ ~Uses({"dup"})) =>
        LET t == R!Performed(FirstRows, text) IN
        t.on => \A i \in DOMAIN t.rows : t.rows[i].state = R!StartStates(t, 1, "Initial")[i]

\* A bookmark stays on its line while lines are added and deleted above it and taken back, or goes
\* with the line.  Lines put in right before it, or joined, move it to another line (buffer.cpp:1118, 312).
BookmarksFollow ==
    (lang = "rows" /\ ~Uses({"merge", "clear", "paste"}) /\ ~(Uses({"del"}) /\ Uses({"undo"}))) =>
        LET before(i) == R!Performed(FirstRows, SubSeq(text, 1, i - 1))
            rightBefore(i) == text[i][1] \in {"split", "dup"} /\ before(i).bmk = text[i][2] + 1
            t == R!Performed(FirstRows, text)
        IN ((\A i \in DOMAIN text : ~rightBefore(i)) /\ t.bmk # 0) =>
              t.bmk <= Len(t.rows) /\ t.rows[t.bmk].id = t.of
-----------------------------------------------------------------------------
\* the beginning of the line of a profile
Begun == CASE state = "Value" -> <<"a", ".", "=">> [] state = "Key" -> <<"kb", "=">>
           [] state = "Macro" -> <<"kb", "=", "{">> [] OTHER -> <<>>

\* A line of a profile that is closed: no quote is left open, and it does not end in a comma, a
\* name or the sign between a name and its value, where blanks may go on to the next line.
Closed(line) ==
    LET quote[i \in 1 .. Len(line) + 2, q \in {"", "'"}] ==
            IF i = Len(line) + 1 THEN q = ""
            ELSE IF i > Len(line) THEN FALSE
            ELSE IF q = "'" /\ line[i] = "\\" THEN quote[i + 2, q]
            ELSE quote[i + 1, IF line[i] # "'" THEN q ELSE IF q = "" THEN "'" ELSE ""]
        black == SelectSeq(line, LAMBDA c : c # " ")
        first == Len(SelectSeq(Begun, LAMBDA c : c # "{")) + 1
    IN CASE state = "Initial" -> line = <<>> \/ line[1] \in {"=", ",", "{", "}", "\\", "'"}
         [] state = "Macro"   -> black[Len(black)] = "}"
         [] state = "Key"     -> Len(black) >= first /\ black[first] # "{" /\ line[Len(line)] # ","
         [] OTHER             -> /\ Len(black) >= first
                                 /\ black[first] = "'" => quote[1, ""] /\ line[Len(line)] # ","

\* What the two passes over a value take: the characters allocated are enough and the copy stops at
\* the end that was found, for every value that is closed and has no \x without a digit after it.
\* A closed line then does what it does whatever the line after it is, which is not touched by it;
\* and a file that two others include is read once.
ProfileReads ==
    lang = "profile" =>
    LET line == Begun \o text
        bare == \E i \in 1 .. Len(line) - 1 : line[i] = "\\" /\ line[i + 1] = "x" /\ P!At(line, i + 2) # "a"
        after == <<"a", ".", "=", "b", "\n">>
    IN (Closed(line) /\ ~bare) =>
          /\ P!LoadProfile(line \o <<"\n">> \o after) =
                P!LoadProfile(line \o <<"\n">>) \o P!LoadProfile(after)
          /\ \A e \in ToSet(P!LoadProfile(line \o <<"\n">>)) : e.what # "overrun"
          /\ LET inc(f) == <<"@", "include", "'", f, "'", "\n">>
                 set(f) == <<f, ".", "=", "b", "\n">>
                 files == [f \in {"a", "b", "x"} |-> CASE f = "a" -> inc("b") \o inc("x") \o line \o <<"\n">>
                                                        [] f = "b" -> inc("x") \o set("b")
                                                        [] OTHER   -> set("x")]
             IN P!Loaded(files, "a", 3) =
                  <<"x", "b">> \o [i \in DOMAIN P!LoadProfile(line \o <<"\n">>) |->
                                     P!LoadProfile(line \o <<"\n">>)[i].name[1]]
-----------------------------------------------------------------------------
\* Words come out of the array in their order, none twice, whether the array grows or not, and
\* taking items out of it and putting them back, as undo does with rows, gives it back.
WordList(words) == FoldLeft(V!AddID, V!NewCollection(2), words)
WordsAreSorted ==
    LET c == WordList(text)
    IN /\ {V!Used(c)[i] : i \in 1 .. c.last} = ToSet(text)
       /\ \A i \in 1 .. c.last - 1 : V!Compare(c.cells[i], c.cells[i + 1]) < 0
       /\ \A from \in 0 .. c.last : \A n \in 0 .. 3 : \A cap \in {1, 2} :
             LET out == V!RemoveItems(c, V!NewCollection(cap), from, n)
                 in  == V!MoveItems(out.c, out.dest, from)
             IN /\ V!Used(out.dest) = SubSeq(V!Used(c), from + 1, Min({from + n, c.last}))
                /\ V!Used(in.c) = V!Used(c)

\* The words offered to complete what was typed are all that begin so, once each, in the list and
\* one after the other, from the first again after the last; the one taken from the list is the one
\* shown.  Two words must stand before them: the way back to the first ends at place 0 unseen.
CompletionOffersAll ==
    lang = "words" =>
    /\ WordsAreSorted
    /\ \A start \in {<<"a">>, <<"b">>, <<"b", "k">>} :
        LET c     == WordList(text)
            all   == SelectSeq(V!Used(c), LAMBDA w : IsPrefix(start, w))
            list  == V!FillList(c, start)
            offer[n \in 0 .. 6] == IF n = 0 THEN [t |-> [last |-> 0, was |-> FALSE], word |-> V!None]
                                  ELSE V!NextID(c, offer[n - 1].t, start, -1)
        IN (all # <<>> /\ \E i \in 3 .. c.last : IsPrefix(start, c.cells[i]) /\ ~IsPrefix(start, c.cells[i - 1])) =>
             /\ [i \in DOMAIN list |-> list[i].word] = all
             /\ \A n \in 1 .. 6 : offer[n].word = all[((n - 1) % Len(all)) + 1]
             /\ \A i \in DOMAIN list : V!NextID(c, offer[1].t, start, list[i].place - 1).word = list[i].word

\* The keywords stand in the order of their codes and are searched for without case by the scanners
\* of REXX, Pascal and assembler.  All in small letters are found all the same, but abs and absolute:
\* the search for these meets GT first, turns left and is lost (absolute is Pascal's, parser.cpp:322).
KeywordsFound ==
    (lang = "words" /\ text = <<>>) => \A k \in V!Keywords :
        /\ V!IsIn(k, TRUE) = k
        /\ k \notin 3 .. 23 => V!IsIn(k, FALSE) = k

\* the last that was done to a variable that is not permanent: its value, or none
LastOf(name) ==
    LET hits == {i \in DOMAIN text : CASE text[i][1] = "drop" -> text[i][2] = name \/ IsPrefix(Append(text[i][2], "."), name)
                                       [] text[i][1] = "key"  -> FALSE
                                       [] OTHER               -> text[i][2] = name}
    IN IF hits = {} THEN V!None ELSE IF text[Max(hits)][1] = "set" THEN text[Max(hits)][3] ELSE V!None

\* Every integer is read back from its text (fromInt, asInt), whatever least length it is written with:
\* the most negative one too, whose opposite does not exist, and leading zeros are no hexadecimal number.
NumbersReadBack ==
    text = <<>> => \A i \in -(Modulus \div 2) .. Modulus \div 2 - 1 : \A minlen \in 0 .. 4 :
        TextToInt(IntToText(i, minlen)) = i

\* A variable reads what it was set to last, since it was dropped, whatever others were set, deleted
\* or dropped, and a key does what it was last defined to; what is shown of a setting of the editor is
\* what the editor uses; the keys listed by number are those defined by name; no permanent variable goes.
VariablesAreKept ==
    lang = "names" =>
    LET b == V!Done(text)
        keyed(key) == {i \in DOMAIN text : <<text[i][1], text[i][2]>> \in
                                              {<<"key", key>>, <<"set", <<"k", ".">> \o key>>} }
    IN /\ ~b.hung
       /\ \A name \in {<<"a">>, <<"a", ".", "b">>, <<"a", "b">>, <<"z", ".", "z">>} : V!GetVar(b, name) = LastOf(name)
       /\ \A name \in {<<"z">>, <<"b">>, <<"z", ".", "a">>} : V!AsInt(V!GetVar(b, name)) = b.data[name]
       /\ \A key \in {<<"a">>, <<"b">>} :
             V!GetVar(b, <<"k", ".">> \o key) =
               IF keyed(key) = {} \/ text[Max(keyed(key))][1] = "set" THEN 0 ELSE text[Max(keyed(key))][3]
       /\ LET shown(i) == V!GetVar(b, <<"k", ".", V!Numerals[i + 1], ".", "key">>)
              n == V!GetVar(b, <<"k", ".", "0">>)
          IN /\ n = Cardinality({key \in {<<"a">>, <<"b">>} : V!GetVar(b, <<"k", ".">> \o key) # 0})
             /\ \A i \in 1 .. n : V!GetVar(b, <<"k", ".", V!Numerals[i + 1], ".", "macro">>) = V!GetVar(b, <<"k", ".">> \o shown(i))
       /\ <<V!GetVar(b, <<"m", ".", "0", ".", "row">>), V!GetVar(b, <<"m", ".", "0", ".", "col">>)>> = V!Bookmarks[1]
       /\ text = <<>> => NumbersReadBack
       /\ V!Settings \subseteq {v.name : v \in ToSet(V!Used(b.vars))}

-----------------------------------------------------------------------------
\* When all dialogs are closed, those opened last first, the screen is as it was before them, however
\* they lie over each other and at the edges and were drawn again: what one keeps is what is under it.
\* (The row below a dialog must be on the screen: it is kept too, and not cut, vio.cpp:536.)
ScreenComesBack ==
    lang = "screen" =>
    LET t == W!Performed(text)
        closed == FoldLeft(LAMBDA u, i : W!Close(u), t, [i \in 1 .. Len(t.dialogs) |-> i])
    IN closed.screen = W!Before
-----------------------------------------------------------------------------
\* a last row that is empty is not there any more when the file does not end in a line end
WithoutLast(rows) == IF Len(rows) > 1 /\ rows[Len(rows)] = <<>> THEN SubSeq(rows, 1, Len(rows) - 1) ELSE rows
\* the sign of the end of a file comes back as a character of the last row
WithSign(rows) == [rows EXCEPT ![Len(rows)] = Append(@, "EOF")]

\* a map from masks to hilitings; the path of the name matches the mask of the first line of it
HiMap   == << [key |-> "Text", masks |-> << <<"t">> >>], [key |-> "C++", masks |-> << <<"c">>, <<"h">> >>],
              [key |-> "HTML", masks |-> << <<"h">> >>] >>
Parsers == [k \in {"None", "C++", "HTML"} |-> CASE k = "C++" -> 1 [] k = "HTML" -> 5 [] OTHER -> 0]
Guess   == F!GuessType(HiMap, Parsers, <<"t", "c", "\\", "a", ".", "h">>)

FileStates == [count : {20}, row : {1, 12, 20}, col : {1, 10}, bmk : {<< <<0, 0>>, <<3, 11>> >>, << <<20, 1>>, <<0, 0>> >>},
               hi : {0, 3, 9}, custom : BOOLEAN, cp : {"", "1251"}, cpSet : {TRUE}]

\* A file that was saved comes back with its rows, without the blanks at their ends, whatever pieces it
\* was written in, with its kind of line ends, and saved again it is the same file.
RowsComeBack(unix, size) ==
    LET f == F!Loaded(text, unix)
        rows == [i \in DOMAIN f.rows |-> F!Trimmed(f.rows[i])]
        back(eof) == F!Loaded(F!Saved(f.rows, unix, eof, size), unix)
    IN /\ back("CRLF") = [rows |-> rows, unix |-> unix]
       /\ back("NONE").rows = WithoutLast(rows)
       /\ back("EOF").rows = WithSign(rows)
       /\ Len(WithoutLast(rows)) > 1 => back("NONE").unix = unix /\ back("EOF").unix = unix
       /\ \A eof \in {"CRLF", "EOF"} :
             F!Saved(back(eof).rows, unix, eof, size) = F!Saved(f.rows, unix, eof, size)

\* a box that had another file before
UsedBox == [bmk |-> << <<7, 2>>, <<1, 4>> >>, cp |-> "866"]

\* The place in it, the bookmarks, the code page and a hiliting that the user chose come back with it,
\* and the place and the bookmarks of an older version too, also in a box that had another file.
StateComesBack(box, f, mode) ==
    LET kept == mode = 2 \/ (mode = 1 /\ f.custom)
        pos  == F!PutEA(F!NoEAs, ".FEDPOS", F!MkPos(f.row, f.col))
        old  == F!PutEA(F!PutEA(pos, ".FEDMARK0", F!MkPos(f.bmk[1][1], f.bmk[1][2])), ".FEDMARK1", F!MkPos(f.bmk[2][1], f.bmk[2][2]))
        rows == [i \in 1 .. 20 |-> <<"a", "p">>]
        b == F!Opened(box, rows, Guess, F!PutEA(old, ".FEDSTATE", F!PutXY(f, mode)))
        o == F!Opened(box, rows, Guess, old)
    IN /\ b = [f EXCEPT !.hi = IF kept THEN f.hi ELSE 1, !.custom = kept]
       /\ <<o.row, o.col, o.bmk, o.hi>> = <<f.row, f.col, f.bmk, 1>>

\* What is typed is seen, in every code page that has the letter.
LetterIsSeen(cp, c) ==
    LET x == F!SetXlate(cp)
    IN (\E d \in F!CharCodes : F!Pages[x.cp][d] = F!Pages[""][c]) => x.out[x.in[c]] = c

\* A file comes back as it was saved: its rows, its state and its letters (load, save, BlockWrite,
\* put_xy, parse_pos, set_xlate).
FilesComeBack ==
    lang = "file" =>
        /\ \A unix \in BOOLEAN, size \in 1 .. 3 : RowsComeBack(unix, size)
        /\ text = <<>> => /\ \A box \in {F!NewBox, UsedBox}, f \in FileStates, mode \in 0 .. 2 : StateComesBack(box, f, mode)
                          /\ \A cp \in {"", "866", "1251", "878", "x"}, c \in F!CharCodes : LetterIsSeen(cp, c)
-----------------------------------------------------------------------------
\* the beginning of a definition of a key
Definition == CASE state = "Key" -> <<"m">> [] state = "Quote2" -> <<"l", " ", "\"">> [] OTHER -> <<>>
Holds(s, w) == \E i \in DOMAIN s : Sees(s, i, w)

\* What is counted of a definition is what its program takes, and the program shown as text compiles
\* to it again.  (Not with \x, whose character is not counted, with a backslash in the text, or with a
\* REXX program, which is shown with a blank behind it: compile.cpp:115, 322, 262.)
CompilesBack(s) ==
    LET c == M!Compiled(s)
    IN (c # M!Wrong /\ ~Holds(s, <<"\\", "x">>) /\ s[Len(s)] # "\\") =>
         /\ c.cnt = M!SizeOf(c.out)
         /\ {"\\", "doRexx"} \cap ToSet(c.out) = {} => M!Compiled(M!Decompiled(c.out)) = c

KeyDefs == ("kbLeft" :> <<"b", "doLeft">>) @@ ("kbMark" :> <<"doGotoMark", "#0">>) @@ ("kbRexx" :> <<"doRexx", "l">>)
           @@ ("kbStart" :> <<"doMacroRecStart">>) @@ ("kbEnd" :> <<"doMacroRecEnd">>)
           @@ CASE state = "Before" -> "kbBeforeKey" :> <<"doGotoMark", "#1">>
                [] state = "After"  -> "kbAfterKey" :> <<"doGotoMark", "#1">>
                [] OTHER -> "kbOther" :> <<>>

\* The macro that was recorded does what was done while it was recorded; its first command starts
\* recording again, because the key that starts it is played and then recorded (dispatch.cpp:48).
\* A REXX program takes all that was recorded after it for its own text, so it is the last key.
RecordingReplays ==
    LET n  == Len(text)
        t  == FoldLeft(LAMBDA u, k : M!Dispatcher(u, k, "kbF5"), M!Fresh(KeyDefs), text)
        on == M!PlayMacro(t, t.keys["kbF5"], "kbEsc")
        before == IF state = "Before" THEN 1 ELSE 0
        after  == IF state = "After" THEN 1 ELSE 0
    IN (/\ n >= 2 /\ text[1] = "kbStart" /\ text[n] = "kbEnd"
        /\ \A i \in 2 .. n - 1 : text[i] \notin {"kbStart", "kbEnd", "kbF5"} /\ (text[i] = "kbRexx" => i = n - 1 /\ state = "Initial"))
       => on.did = t.did \o SubSeq(t.did, 1 + before, Len(t.did) - after) /\ on.recording

\* A macro does what its definition says, however it was made: compiled, shown and compiled again,
\* or recorded (compile_keydef, decompile_keydef, track_recording, play_macro).
MacrosReplay == /\ (lang = "macro" /\ Definition \o text # <<>>) => CompilesBack(Definition \o text)
                /\ lang = "keys" => RecordingReplays
=============================================================================
