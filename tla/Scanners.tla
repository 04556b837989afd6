------------------------------ MODULE Scanners ------------------------------
(***************************************************************************)
(* The scanners that colour a line (parser.cpp and pars_*.cpp).  A parser  *)
(* is reset at the beginning of a line with the state the line starts in,  *)
(* and next_token then cuts one token after the other off the text.        *)
(*                                                                         *)
(* A scanner is an operator from the state and the rest of the line, which *)
(* is never empty, to a token: its length, its colour and the state after  *)
(* it.  A character is a string of one character.  "S" stands for the word *)
(* script wherever that word is looked for, and "k" for every word of the  *)
(* dictionary of keywords, some 400 words of parser.cpp.                   *)
(***************************************************************************)
LOCAL INSTANCE Integers
LOCAL INSTANCE Sequences
LOCAL INSTANCE SequencesExt

Languages == {"none", "C++", "REXX", "MAKE", "ASM", "HTML", "MAIL", "PASCAL", "PERL", "LATEX"}

\* the keywords of a language, in their own case or (preserve_case = 0) in any
Words == [lang \in Languages |->
            IF lang \in {"C++", "PERL"} THEN {<<"k">>}
            ELSE IF lang \in {"REXX", "ASM", "PASCAL"} THEN {<<"k">>, <<"K">>} ELSE {}]

\* the classes of _ctype.cpp, as far as the scanners tell characters apart
Space      == {" ", "\t"}
Digit      == {"0", "1"}
Hex        == Digit \cup {"a", "A"}
Letter     == {"a", "A", "x", "X", "l", "h", "S", "k", "K"}
IdentStart == Letter \cup {"#", "_"}
IdentChar  == IdentStart \cup Digit
Punct      == {"\"", "'", "#", "$", "%", "&", "(", ")", "*", "-", "/", ":", ";", "<", ">", "?",
               "@", "\\", "{", "}", "~", "!", "_", ".", "[", "]"}

At(s, i)   == IF i \in 1 .. Len(s) THEN s[i] ELSE ""
First(n, S) == IF S = {} THEN n ELSE CHOOSE i \in S : \A j \in S : i <= j
\* the length of the run of characters of C that starts at i
Run(s, i, C) == First(Len(s) + 1, {j \in i .. Len(s) : s[j] \notin C}) - i
Skip(s, i, C) == i + Run(s, i, C)

\* whether the word w stands at i
Sees(s, i, w) == i + Len(w) - 1 <= Len(s) /\ SubSeq(s, i, i + Len(w) - 1) = w

Tok(len, color, state) == [len |-> len, color |-> color, state |-> state]

IsKeyword(lang, s, len) == SubSeq(s, 1, len) \in Words[lang]

\* up to and with the closing quote; esc: a backslash takes the next character with it
Quoted(s, q, esc, state) ==
    LET close[i \in 1 .. Len(s) + 1] ==
            IF i > Len(s) THEN Tok(Len(s), "Const", state)
            ELSE IF esc /\ s[i] = "\\" /\ i < Len(s) THEN close[i + 2]
            ELSE IF s[i] = q THEN Tok(i, "Const", "Initial")
            ELSE close[i + 1]
    IN close[1]

\* up to and with the characters that close a comment
Commented(s, close, state) ==
    LET n    == Len(close)
        ends == {i \in n .. Len(s) : SubSeq(s, i - n + 1, i) = close}
    IN IF ends = {} THEN Tok(Len(s), "Comment", state)
       ELSE Tok(First(0, ends), "Comment", "Initial")

QuoteOf(state)    == IF state = "Quote1" THEN "\"" ELSE "'"
QuoteState(q)     == IF q = "\"" THEN "Quote1" ELSE "Quote2"
InQuotes(state)   == state \in {"Quote1", "Quote2"}
Blanks1(s, state) == Tok(Skip(s, 2, Space) - 1, "Default", state)
Numeral(s, C, color, state) == Tok(Run(s, 1, C), color, state)
Rest(s, color, state) == Tok(Len(s), color, state)
One(color, state)     == Tok(1, color, state)
\* the first character after the word and the blanks behind it
After(s, len) == At(s, Skip(s, len + 1, Space))

-----------------------------------------------------------------------------
(***************************************************************************)
(* Plain text, and mail: a line with > in its first word is a quotation.   *)
(***************************************************************************)
Plain(state, s) == Rest(s, "Default", state)

Mail(state, s) ==
    LET quoted == \E i \in 1 .. Len(s) : s[i] = ">" /\ \A j \in 1 .. i : s[j] # " "
    IN Rest(s, IF quoted THEN "Preproc" ELSE "Ident", state)

(***************************************************************************)
(* C, C++ and Java.                                                        *)
(***************************************************************************)
\* 0x takes the x with it and goes on with hexadecimal digits
CppNumber(s, state) ==
    LET eat[i \in 1 .. Len(s) + 2] ==
            IF At(s, i) \notin Hex THEN [at |-> i, hex |-> FALSE]
            ELSE LET x == At(s, i + 1) \in {"x", "X"}
                     r == eat[IF x THEN i + 2 ELSE i + 1]
                 IN [r EXCEPT !.hex = @ \/ x \/ s[i] \notin Digit]
        end == eat[1]
        len == end.at - 1 + IF At(s, end.at) \in {"l"} THEN 1 ELSE 0
    IN Tok(len, IF end.hex THEN "XNumber" ELSE "Number", state)

CppWord(s, state) ==
    LET len == Run(s, 1, IdentChar) IN
    Tok(len, IF s[1] = "#" THEN "Preproc"
             ELSE IF IsKeyword("C++", s, len) THEN "StdWord"
             ELSE IF After(s, len) = "(" THEN "Function" ELSE "Ident", state)

\* a mistake: an escaped quote closes the string
CppQuotedNoEscape(state, s) == Quoted(s, QuoteOf(state), FALSE, state)

CppQuoted(state, s) == Quoted(s, QuoteOf(state), TRUE, state)

Cpp(state, s) ==
    IF state = "Comment" THEN Commented(s, <<"*", "/">>, state)
    ELSE IF InQuotes(state) THEN CppQuoted(state, s)
    ELSE CASE s[1] \in Space          -> Blanks1(s, state)
      [] s[1] \in {"\"", "'"}    -> One("Const", QuoteState(s[1]))
      [] s[1] = "\\"             -> Tok(IF Len(s) > 1 THEN 2 ELSE 1, "Default", state)
      [] s[1] = "/" /\ At(s, 2) = "*" -> Tok(2, "Comment", "Comment")
      [] s[1] = "/" /\ At(s, 2) = "/" -> Rest(s, "Comment", state)
      [] s[1] = ";"              -> One("Semicolon", state)
      [] s[1] \in Digit          -> CppNumber(s, state)
      [] s[1] \in IdentStart     -> CppWord(s, state)
      [] OTHER                   -> One("Default", state)

(***************************************************************************)
(* REXX.  A comment that closes on its line is one token.                  *)
(***************************************************************************)
RexxWord(s, from, state) ==
    LET eat[i \in 1 .. Len(s) + 2] ==
            IF At(s, i) \notin IdentChar THEN [at |-> i, method |-> FALSE]
            ELSE IF At(s, i + 1) = "~" THEN [eat[i + 2] EXCEPT !.method = TRUE]
            ELSE eat[i + 1]
        end == eat[from + 1]
        len == end.at - 1
    IN Tok(len, IF end.method THEN "Function"
                ELSE IF IsKeyword("REXX", s, len) THEN "StdWord"
                ELSE IF At(s, end.at) \in {"(", ":"} THEN "Function" ELSE "Ident", state)

RexxComment(s) ==
    LET t == Commented(SubSeq(s, 3, Len(s)), <<"*", "/">>, "Comment") IN [t EXCEPT !.len = @ + 2]

Rexx(state, s) ==
    IF state = "Comment" THEN Commented(s, <<"*", "/">>, state)
    ELSE IF InQuotes(state) THEN Quoted(s, QuoteOf(state), FALSE, state)
    ELSE CASE s[1] \in Space          -> Blanks1(s, state)
      [] s[1] \in {"\"", "'"}    -> One("Const", QuoteState(s[1]))
      [] s[1] = "/" /\ At(s, 2) = "*" -> RexxComment(s)
      [] s[1] = ";"              -> One("Semicolon", state)
      [] s[1] \in Digit          -> Numeral(s, Hex, "Number", state)
      [] s[1] = "~"              -> One("Ident", state)
      [] s[1] = ":" /\ At(s, 2) = ":" /\ At(s, 3) \notin IdentStart -> Tok(2, "Ident", state)
      [] s[1] = ":" /\ At(s, 2) = ":" /\ At(s, 3) \in IdentStart    -> RexxWord(s, 3, state)
      [] s[1] \in IdentStart     -> RexxWord(s, 1, state)
      [] OTHER                   -> One("Default", state)

(***************************************************************************)
(* Makefiles.  The first line of a string skips the character after a      *)
(* backslash without looking at it, the end of the line included: the      *)
(* token is then longer than the text, and what follows is not the line's. *)
(***************************************************************************)
MakeQuoted(s) ==
    LET q == s[1]
        close[i \in 2 .. Len(s) + 2] ==
            IF i > Len(s) THEN Tok(i - 1, "Const", QuoteState(q))
            ELSE IF s[i] = q THEN Tok(i, "Const", "Initial")
            ELSE IF s[i] = "\\" THEN close[i + 2]
            ELSE close[i + 1]
    IN close[2]

Make(state, s) ==
    IF InQuotes(state) THEN Quoted(s, QuoteOf(state), FALSE, state)
    ELSE CASE s[1] \in Space          -> Blanks1(s, state)
      [] s[1] \in {"\"", "'"}    -> MakeQuoted(s)
      [] s[1] = "#"              -> Rest(s, "Comment", state)
      [] s[1] \in Digit          -> Numeral(s, Digit, "Number", state)
      [] s[1] \in IdentStart     -> Numeral(s, IdentChar, "Ident", state)
      [] OTHER                   -> One("Default", state)

(***************************************************************************)
(* Assembler and Pascal.                                                   *)
(***************************************************************************)
AsmNumber(s, state) ==
    LET digits == Run(s, 1, Hex)
        suffix == At(s, digits + 1) = "h"
    IN Tok(IF suffix THEN digits + 1 ELSE digits,
           IF suffix \/ Run(s, 1, Digit) < digits THEN "XNumber" ELSE "Number", state)

AsmWord(s, state) ==
    LET len == Skip(s, 2, IdentChar \cup {"%", "@"}) - 1
    IN Tok(len, IF IsKeyword("ASM", s, len) THEN "StdWord"
                ELSE IF After(s, len) \in {"(", ":"} THEN "Function" ELSE "Ident", state)

Asm(state, s) ==
    IF InQuotes(state) THEN Quoted(s, QuoteOf(state), FALSE, state)
    ELSE CASE s[1] \in Space          -> Blanks1(s, state)
      [] s[1] \in {"\"", "'"}    -> One("Const", QuoteState(s[1]))
      [] s[1] = ";"              -> Rest(s, "Comment", state)
      [] s[1] \in Digit          -> AsmNumber(s, state)
      [] s[1] \in IdentStart \cup {"%", "@", "."} -> AsmWord(s, state)
      [] OTHER                   -> One("Default", state)

PasString(s) ==
    LET t == Quoted(Tail(s), s[1], FALSE, QuoteState(s[1])) IN [t EXCEPT !.len = @ + 1]

PasWord(s, state) ==
    LET len == Run(s, 1, IdentChar)
    IN Tok(len, IF IsKeyword("PASCAL", s, len) THEN "StdWord"
                ELSE IF At(s, len + 1) \in {"(", ":"} THEN "Function" ELSE "Ident", state)

Pas(state, s) ==
    IF state = "Comment" THEN Commented(s, <<"*", ")">>, state)
    ELSE IF state = "Comment2" THEN Commented(s, <<"}">>, state)
    ELSE IF InQuotes(state) THEN Quoted(s, QuoteOf(state), FALSE, state)
    ELSE CASE s[1] \in Space          -> Blanks1(s, state)
      [] s[1] \in {"\"", "'"}    -> PasString(s)
      [] s[1] = "(" /\ At(s, 2) = "*" -> Tok(2, "Comment", "Comment")
      [] s[1] = "{"              -> One("Comment", "Comment2")
      [] s[1] = ";"              -> One("Semicolon", state)
      [] s[1] = "$" /\ At(s, 2) \in Hex -> Tok(Skip(s, 2, Hex) - 1, "XNumber", state)
      [] s[1] \in Digit          -> Numeral(s, Hex, "Number", state)
      [] s[1] \in IdentStart     -> PasWord(s, state)
      [] OTHER                   -> One("Default", state)

(***************************************************************************)
(* Perl, whose identifiers the PHP code of a page has too: a sigil, then   *)
(* words with :: between them.                                             *)
(***************************************************************************)
Sigils == {"%", "$", "@"}

\* where the identifier that has a character at i ends
Packaged(s, i) ==
    LET eat[j \in 1 .. Len(s) + 3] ==
            IF At(s, j) \notin IdentChar THEN j
            ELSE IF At(s, j + 1) = ":" /\ At(s, j + 2) = ":" THEN eat[j + 3] ELSE eat[j + 1]
    IN eat[i + 1] - 1

PerlStart(s) == IF s[1] \in Sigils THEN 2 ELSE 1

PerlWord(s, keywords, state) ==
    LET len == Packaged(s, PerlStart(s))
    IN Tok(len, IF SubSeq(s, 1, len) \in keywords THEN "StdWord"
                ELSE IF After(s, len) = "(" THEN "Function" ELSE "Ident", state)

Perl(state, s) ==
    IF InQuotes(state) THEN Quoted(s, QuoteOf(state), TRUE, state)
    ELSE CASE s[1] \in Space          -> Blanks1(s, state)
      [] s[1] \in {"\"", "'"}    -> One("Const", QuoteState(s[1]))
      [] s[1] = "#"              -> Rest(s, "Comment", state)
      [] s[1] \in Digit          -> Numeral(s, Digit, "Number", state)
      [] s[1] = ";"              -> One("Semicolon", state)
      [] s[1] = "\\"             -> Tok(IF Len(s) > 1 THEN 2 ELSE 1, "Default", state)
      [] s[1] \in (Sigils \cup IdentStart) \ {"#"} /\ At(s, PerlStart(s)) \in IdentChar
                                 -> PerlWord(s, Words["PERL"], state)
      [] OTHER                   -> One("Default", state)

(***************************************************************************)
(* TeX.                                                                    *)
(***************************************************************************)
TexCommand(s, state) ==
    LET ends == {i \in 2 .. Len(s) : s[i] \in Punct \cup {" "}}
        at   == First(Len(s) + 1, ends)
        with == At(s, at) \in Punct \ {"\\", "[", "]", "(", ")", "{", "}"}
    IN Tok(IF with THEN at ELSE at - 1, "Ident", state)

Tex(state, s) ==
    CASE s[1] \in Space          -> Blanks1(s, state)
      [] s[1] = "\\"             -> TexCommand(s, state)
      [] s[1] = "%"              -> Rest(s, "Comment", state)
      [] s[1] \in Digit          -> Numeral(s, Digit, "Number", state)
      [] s[1] \in IdentStart     -> Numeral(s, IdentChar, "Default", state)
      [] OTHER                   -> One("Default", state)

(***************************************************************************)
(* HTML.  Quote1 is the inside of a tag; Quote2 is PHP or a script, with   *)
(* its own strings and comments, and Comment2 is counted to it.  An        *)
(* opening bracket only changes the state: the token has no characters and *)
(* the caller asks again.                                                  *)
(***************************************************************************)
Entity(s, state) ==
    LET end == First(Len(s), {i \in 2 .. Len(s) : s[i] = ";"}) IN Tok(end, "XNumber", state)

\* a mistake: the closing quote is counted twice
TagStringTwice(s, state) ==
    LET t == Quoted(Tail(s), s[1], TRUE, state) IN Tok(t.len + 2, "Const", state)

TagString(s, state) ==
    LET t == Quoted(Tail(s), s[1], TRUE, state) IN Tok(t.len + 1, "Const", state)

HtmlTag(s) ==
    CASE s[1] \in Space          -> Blanks1(s, "Quote1")
      [] s[1] \in {"\"", "'"}    -> TagString(s, "Quote1")
      [] s[1] = "&"              -> Entity(s, "Quote1")
      [] s[1] = ">"              -> One("Default", "Initial")
      [] s[1] \in IdentChar      -> Numeral(s, IdentChar, "Ident", "Quote1")
      [] OTHER                   -> One("Default", "Quote1")

PhpNumber(s, state) ==
    LET eat[i \in 1 .. Len(s) + 2] ==
            IF At(s, i) \notin Hex THEN [at |-> i, hex |-> FALSE]
            ELSE IF At(s, i + 1) \in {"x", "X"} THEN [eat[i + 2] EXCEPT !.hex = TRUE]
            ELSE eat[i + 1]
    IN Tok(eat[1].at - 1, IF eat[1].hex THEN "XNumber" ELSE "Number", state)

\* what closes inside PHP leads back to PHP
Back(t) == IF t.state = "Initial" THEN [t EXCEPT !.state = "Quote2"] ELSE t

Php(state, s) ==
    IF state = "CommentPhp" THEN Back(Commented(s, <<"*", "/">>, state))
    ELSE IF state = "StrPhp1" THEN Back(Quoted(s, "\"", TRUE, state))
    ELSE IF state = "StrPhp2" THEN Back(Quoted(s, "'", TRUE, state))
    ELSE CASE Sees(s, 1, <<"<", "/", "S">>)
                                 -> Tok(First(Len(s), {i \in 4 .. Len(s) : s[i] = ">"}), "Preproc", "Initial")
      [] s[1] \in Space          -> Blanks1(s, state)
      [] s[1] \in {"\"", "'"}    -> One("Const", IF s[1] = "\"" THEN "StrPhp1" ELSE "StrPhp2")
      [] s[1] = "#"              -> Rest(s, "Comment", state)
      [] s[1] = "/" /\ At(s, 2) = "*" -> Tok(2, "Comment", "CommentPhp")
      [] s[1] = "/" /\ At(s, 2) = "/" -> Rest(s, "Comment", state)
      [] s[1] = "?" /\ At(s, 2) = ">" -> Tok(2, "Preproc", "Initial")
      [] s[1] \in Digit          -> PhpNumber(s, state)
      [] s[1] = ";"              -> One("Semicolon", state)
      [] s[1] = "\\"             -> Tok(IF Len(s) > 1 THEN 2 ELSE 1, "Default", state)
      [] s[1] \in (Sigils \cup IdentStart) \ {"#"} /\ At(s, PerlStart(s)) \in IdentChar
                                 -> PerlWord(s, {}, state)
      [] OTHER                   -> One("Default", state)

ScriptTag(s) == Sees(s, 1, <<"<", "S">>) /\ \E i \in 1 .. Len(s) : s[i] = ">"

HtmlMarkup(s) ==
    CASE Sees(s, 2, <<"!", "-", "-">>) /\ At(s, 5) # "#" -> Tok(4, "Comment", "Comment")
      [] At(s, 2) = "?" -> Tok(2, "Preproc", "Quote2")
      [] ScriptTag(s)   -> Tok(First(0, {i \in 1 .. Len(s) : s[i] = ">"}), "Preproc", "Quote2")
      [] OTHER          -> Tok(0, "Default", "Quote1")

HtmlText(s) ==
    CASE s[1] = "<" -> HtmlMarkup(s)
      [] s[1] = "&" -> Entity(s, "Initial")
      [] OTHER      -> Tok(First(Len(s) + 1, {i \in 1 .. Len(s) : s[i] \in {"<", "&"}}) - 1,
                           "Default", "Initial")

Html(state, s) ==
    CASE state = "Comment" -> Commented(s, <<"-", "-", ">">>, state)
      [] state = "Quote1"  -> HtmlTag(s)
      [] state = "Initial" -> HtmlText(s)
      [] OTHER             -> Php(state, s)

-----------------------------------------------------------------------------
(***************************************************************************)
(* next_token of the parser that GenParser makes for a language, and the   *)
(* loop over a line that set_hiliting and draw run.                        *)
(***************************************************************************)
NextToken(lang, state, s) ==
    CASE lang = "C++"    -> Cpp(state, s)  [] lang = "REXX" -> Rexx(state, s)
      [] lang = "MAKE"   -> Make(state, s) [] lang = "ASM"  -> Asm(state, s)
      [] lang = "HTML"   -> Html(state, s) [] lang = "MAIL" -> Mail(state, s)
      [] lang = "PASCAL" -> Pas(state, s)  [] lang = "PERL" -> Perl(state, s)
      [] lang = "LATEX"  -> Tex(state, s)  [] OTHER         -> Plain(state, s)

\* the tokens of a line; a token of no characters may come once between two others
Tokens(lang, state, s) ==
    LET take(r, t) == [at |-> r.at + t.len, toks |-> Append(r.toks, t), state |-> t.state]
        next(r) == IF r.at > Len(s) THEN r ELSE take(r, NextToken(lang, r.state, SubSeq(s, r.at, Len(s))))
        from[n \in 0 .. 2 * Len(s)] == IF n = 0 THEN [at |-> 1, toks |-> <<>>, state |-> state] ELSE next(from[n - 1])
    IN from[2 * Len(s)]

EndState(lang, state, s) == Tokens(lang, state, s).state
=============================================================================
