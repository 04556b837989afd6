------------------------------ MODULE Profile -------------------------------
(***************************************************************************)
(* Reading a profile (profile.cpp): a text of variables, keys, macros and  *)
(* include commands.  A character is one of its own, or a word that the    *)
(* reader knows ("include", "mode", "library", "kb"); a place past the     *)
(* last character is the zero that ends the text.  What a text does is a   *)
(* sequence of effects: a variable set, a key defined, a file included.    *)
(***************************************************************************)
EXTENDS Integers, Sequences, SequencesExt

Blank    == {" ", "\n"}
Delims   == {"'", "\""}
NameChar == {"a", "b", "x", "0", "include", "mode", "library", "kb", "."}
HexDigit == {"a", "b", "0"}

At(s, i)  == IF i <= Len(s) THEN s[i] ELSE ""
\* the first place from i on whose character is in C, or the end of the text
SkipTo(s, i, C) ==
    LET hits == {j \in i .. Len(s) : s[j] \in C} IN IF hits = {} THEN Len(s) + 1 ELSE Min(hits)
SkipOver(s, i, C) ==
    LET hits == {j \in i .. Len(s) : s[j] \notin C} IN IF hits = {} THEN Len(s) + 1 ELSE Min(hits)
SkipToEol(s, i) == SkipTo(s, i, {"\n"})
SkipBlanks(s, i) == SkipOver(s, i, Blank)
Between(s, i, j) == SubSeq(s, i, j - 1)

\* a comma at the end of a line: the next line belongs to this one
Continued(s, i) == s[i] = "," /\ At(s, i + 1) = "\n"

\* the brace that ends a block is the first with nothing but blanks up to the end of its line
BlockEnd(s, i) ==
    LET ends == {j \in i .. Len(s) : s[j] = "}" /\ At(s, SkipOver(s, j + 1, {" "})) = "\n"}
    IN IF ends = {} THEN Len(s) + 1 ELSE Min(ends)

\* mutant: a quote after a backslash ends the value
FirstPassNoEscape(s, from) ==
    LET go[i \in 1 .. Len(s) + 2, q \in Delims \cup {""}, n \in 0 .. Len(s)] ==
            IF i > Len(s) THEN [eol |-> i, len |-> n]
            ELSE IF q # "" THEN IF s[i] = q THEN go[i + 1, "", n]
                                ELSE go[i + 1, q, n + 1]
            ELSE IF s[i] \in Delims THEN go[i + 1, s[i], n]
            ELSE IF Continued(s, i) THEN go[SkipBlanks(s, i + 1), "", n]
            ELSE IF s[i] = "\n" THEN [eol |-> i, len |-> n]
            ELSE go[i + 1, "", n]
    IN go[from, "", 0]

\* first pass over a quoted value: where its last line ends and the characters to allocate
FirstPass(s, from) ==
    LET go[i \in 1 .. Len(s) + 2, q \in Delims \cup {""}, n \in 0 .. Len(s)] ==
            IF i > Len(s) THEN [eol |-> i, len |-> n]
            ELSE IF q # "" THEN IF s[i] = q THEN go[i + 1, "", n]
                                ELSE go[i + (IF s[i] = "\\" THEN 2 ELSE 1), q, n + 1]
            ELSE IF s[i] \in Delims THEN go[i + 1, s[i], n]
            ELSE IF Continued(s, i) THEN go[SkipBlanks(s, i + 1), "", n]
            ELSE IF s[i] = "\n" THEN [eol |-> i, len |-> n]
            ELSE go[i + 1, "", n]
    IN go[from, "", 0]

\* \n, \x41: the character and the place after it; \x without a digit takes one character more
Escape(s, i) ==
    LET digits == Min({SkipOver(s, i + 1, HexDigit), i + 3}) - (i + 1)
    IN IF At(s, i) # "x" THEN [char |-> At(s, i), next |-> i + 1]
       ELSE IF digits = 0 THEN [char |-> "x", next |-> i + 2]
       ELSE [char |-> "hex", next |-> i + 1 + digits]

\* second pass: the characters copied, and where the copying stopped
SecondPass(s, from, eol) ==
    LET go[i \in 1 .. Len(s) + 4, q \in Delims \cup {""}, out \in Seq(STRING)] ==
            IF i >= eol THEN [stop |-> i, out |-> out]
            ELSE IF q = "" THEN go[i + 1, IF At(s, i) \in Delims THEN s[i] ELSE "", out]
            ELSE IF At(s, i) = q THEN go[i + 1, "", out]
            ELSE IF At(s, i) = "\\" THEN LET e == Escape(s, i + 1) IN go[e.next, q, Append(out, e.char)]
            ELSE go[i + 1, q, Append(out, At(s, i))]
    IN go[from, "", <<>>]

-----------------------------------------------------------------------------
\* what was read: the place to go on at, and the effects
Past(i)              == [next |-> i, does |-> <<>>]
Does(i, what, n, v)  == [next |-> i, does |-> <<[what |-> what, name |-> n, value |-> v]>>]

\* @include 'file'
Include(s, at) ==
    LET upTo(stop) == IF At(s, at) \in Delims /\ At(s, stop) = At(s, at) /\ stop > at + 1
                      THEN Does(SkipToEol(s, stop), "include", Between(s, at + 1, stop), <<>>)
                      ELSE Past(SkipToEol(s, at))
    IN upTo(SkipTo(s, at + 1, {At(s, at), "\n"}))
\* @mode name { ... }: its body is copied and dropped; a line without a name or a body is passed over
Mode(s, at) ==
    LET over(body) == IF At(s, at) \notin NameChar \ {"."} THEN Past(SkipToEol(s, at))
                      ELSE IF At(s, body) # "{" THEN Past(SkipToEol(s, body))
                      ELSE Past(BlockEnd(s, body + 1))
    IN over(SkipBlanks(s, SkipOver(s, at, NameChar \ {"."})))
\* other commands are passed over
AtCommand(s, i) ==
    LET obey(word, at) == CASE word = <<>>          -> Past(SkipToEol(s, i))
                            [] word = <<"include">> -> Include(s, at)
                            [] word = <<"mode">>    -> Mode(s, at)
                            [] OTHER                -> Past(SkipToEol(s, at))
        named(end) == obey(Between(s, i, end), SkipBlanks(s, end))
    IN named(SkipOver(s, i, NameChar))

\* name = 'quoted' ..., or name = word; a word at the end of the text is read past it
Variable(s, name, i) ==
    LET word(end) == IF end > Len(s) THEN Does(end, "overrun", name, <<>>)
                     ELSE Does(SkipToEol(s, end), "set", name, Between(s, i, end))
        fits(fst, snd) == Len(snd.out) <= fst.len /\ snd.stop <= Len(s) + 1
        copied(fst, snd) == IF fits(fst, snd) THEN Does(snd.stop, "set", name, snd.out)
                            ELSE Does(snd.stop, "overrun", name, <<>>)
        quoted(fst) == copied(fst, SecondPass(s, i, fst.eol))
    IN IF At(s, i) \in Delims THEN quoted(FirstPass(s, i)) ELSE word(SkipTo(s, i, Blank))

\* library = { REXX }
Library(s, i) ==
    LET upTo(end) == Does(end + 1, "set", <<"library">>, Between(s, i + 1, end))
    IN IF At(s, i) # "{" THEN Past(SkipToEol(s, i)) ELSE upTo(BlockEnd(s, i + 1))

\* the end of a key: of its macro in braces, or of its last line
KeyEnd(s, from) ==
    LET go[i \in 1 .. Len(s) + 1] == IF i > Len(s) \/ s[i] = "\n" THEN i
                                     ELSE IF Continued(s, i) THEN go[SkipBlanks(s, i + 1)]
                                     ELSE go[i + 1]
    IN IF At(s, from) = "{" THEN BlockEnd(s, from) ELSE go[from]
KeyDef(s, start, i) ==
    LET upTo(end) == Does(end + 1, "key", <<"kb">>, Between(s, start, end))
    IN upTo(KeyEnd(s, i))

\* one turn of the loop of load_profile, at the next character that is no blank: a comment, like
\* all that starts with no name, goes to the end of its line
Item(s, from) ==
    LET given(i, name, value) == IF "." \in ToSet(name) THEN Variable(s, name, value)
                                 ELSE IF name = <<"library">> THEN Library(s, value)
                                 ELSE KeyDef(s, i, value)
        taken(name) == "." \in ToSet(name) \/ name = <<"library">> \/ name[1] = "kb"
        item(i, name, sign) == IF name = <<>> \/ ~taken(name) THEN Past(SkipToEol(s, i))
                               ELSE IF At(s, sign) \notin {":", "="} THEN Past(SkipToEol(s, sign))
                               ELSE given(i, name, SkipBlanks(s, sign + 1))
        named(i, end) == item(i, Between(s, i, end), SkipBlanks(s, end))
        begun(i) == IF At(s, i) = "@" THEN AtCommand(s, i + 1) ELSE named(i, SkipOver(s, i, NameChar))
    IN begun(SkipBlanks(s, from))

\* load_profile
LoadProfile(s) ==
    LET go[i \in 1 .. Len(s) + 4] == LET join(item) == item.does \o go[item.next]
                                     IN IF i > Len(s) THEN <<>> ELSE join(Item(s, i))
    IN go[1]

\* load_profile_file: a file in the list is not loaded again, but it enters the list only when it
\* has been read; "deep" stands for the stack that runs out in a file that includes itself
Loaded(files, first, Depth) ==
    LET load[f \in DOMAIN files, list \in SUBSET DOMAIN files, d \in 0 .. Depth] ==
            IF f \in list THEN [list |-> list, does |-> <<>>]
            ELSE IF d = Depth THEN [list |-> list, does |-> <<"deep">>]
            ELSE LET join(t, sub) == [sub EXCEPT !.does = t.does \o @]
                     obey(t, e) ==
                         IF e.what # "include" \/ e.name[1] \notin DOMAIN files
                         THEN [t EXCEPT !.does = Append(@, e.name[1])]
                         ELSE join(t, load[e.name[1], t.list, d + 1])
                 IN [FoldLeft(obey, [list |-> list, does |-> <<>>], LoadProfile(files[f])) EXCEPT !.list = @ \cup {f}]
    IN load[first, {}, 0].does
=============================================================================
