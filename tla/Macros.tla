------------------------------- MODULE Macros -------------------------------
(***************************************************************************)
(* Keyboard macros: the text of a definition compiled to a program         *)
(* (compile.cpp), the program shown as text again, and the recorder, which *)
(* puts the programs of the keys that were pressed one behind the other    *)
(* (dispatch.cpp).  A program is a sequence of characters, of commands     *)
(* (an escape and the address of a function, Code bytes) and of their      *)
(* parameters; the memory behind it holds a NUL, where playing it stops.   *)
(***************************************************************************)
EXTENDS Integers, Sequences, SequencesExt

\* dispatch_list: a command of one name, a command with the names of its parameters, and the one
\* for REXX, which no name in a definition can mean
dispatch_list == << [key |-> <<"l">>,      proc |-> "doLeft"],
                    [key |-> <<"m", "0">>, proc |-> "doGotoMark"],
                    [key |-> <<"m", "1">>, proc |-> "doGotoMark"],
                    [key |-> <<"r">>,      proc |-> "doMacroRecStart"],
                    [key |-> <<"x">>,      proc |-> "doMacroRecEnd"],
                    [key |-> <<"-">>,      proc |-> "doRexx"] >>
Procs  == {dispatch_list[i].proc : i \in DOMAIN dispatch_list}
Params == ("0" :> "#0") @@ ("1" :> "#1")
Parametrised == {"doGotoMark"}
Code   == 5
SizeOf(prog) == FoldLeft(LAMBDA n, x : n + IF x \in Procs THEN Code ELSE 1, 0, prog)

At(s, i) == IF i \in DOMAIN s THEN s[i] ELSE "NUL"
\* locate_name: the first name of a command
LocateName(proc) ==
    LET all == SelectSeq(dispatch_list, LAMBDA d : d.proc = proc) IN IF all = <<>> THEN <<"?">> ELSE all[1].key

-----------------------------------------------------------------------------
Between  == {" ", ",", "\r", "\n", "\t"}
Letter   == {"l", "m", "n", "r", "a", "x"}        \* __isis; __isic are the digits too
NameEnd(s, i) == CHOOSE j \in i .. Len(s) + 1 :
                    At(s, j) \notin Letter \cup {"0", "1"} /\ \A k \in i .. j - 1 : s[k] \in Letter \cup {"0", "1"}
Escaped(c) == CASE c = "n" -> "\n" [] c = "r" -> "\r" [] c = "t" -> "\t" [] OTHER -> c

\* A text in quotes, or a REXX program up to a brace that is the last character: out is what is
\* written, cnt what is counted.  The character of \x is written and not counted (compile.cpp:115).
Text(s, from, delim) ==
    LET ends(i) == s[i] = delim /\ (delim = "}" => i = Len(s))
        put(t, c, n) == [t EXCEPT !.out = <<c>> \o @, !.cnt = @ + n]
        hex(i) == IF At(s, i) \in {"0", "1", "a"} THEN IF At(s, i + 1) \in {"0", "1", "a"} THEN 2 ELSE 1 ELSE 0
        go[i \in from .. Len(s) + 3] ==
            IF i > Len(s) \/ ends(i) THEN [next |-> i, out |-> <<>>, cnt |-> 0]
            ELSE IF s[i] # "\\" \/ delim = "}" THEN put(go[i + 1], s[i], 1)
            ELSE IF At(s, i + 1) = "x" THEN put(go[i + 2 + hex(i + 2)], "hex", 0)
            ELSE put(go[i + 2], Escaped(At(s, i + 1)), 1)
    IN go[from]

\* The character right after the name of a command is passed without a look (compile.cpp:178).
Wrong == [cnt |-> -1, out |-> <<>>]
Compiled(s) ==
    LET before(out, cnt, r) == IF r = Wrong THEN Wrong ELSE [cnt |-> cnt + r.cnt, out |-> out \o r.out]
        entry(name) == SelectSeq(dispatch_list, LAMBDA d : d.key = name)
        command(e)  == IF e.proc \in Parametrised THEN <<e.proc, Params[e.key[Len(e.key)]]>> ELSE <<e.proc>>
        go[i \in 1 .. Len(s) + 4] ==
            IF i > Len(s) THEN [cnt |-> 0, out |-> <<>>]
            ELSE IF s[i] \in Between THEN go[i + 1]
            ELSE IF s[i] \in {"\"", "'", "{"}
            THEN LET t == Text(s, i + 1, IF s[i] = "{" THEN "}" ELSE s[i])
                     rexx == IF s[i] = "{" THEN <<"doRexx">> ELSE <<>>
                 IN before(rexx \o t.out, SizeOf(rexx) + t.cnt, go[t.next + 1])
            ELSE IF s[i] \in Letter
            THEN LET e == entry(SubSeq(s, i, NameEnd(s, i) - 1))
                 IN IF e = <<>> THEN Wrong ELSE before(command(e[1]), SizeOf(command(e[1])), go[NameEnd(s, i) + 1])
            ELSE Wrong
    IN go[1]

-----------------------------------------------------------------------------
\* a program up to the NUL behind it; the parameter 0 is a NUL too
ToNul(prog) == SubSeq(prog, 1, CHOOSE n \in 0 .. Len(prog) :
                                  At(prog, n + 1) \in {"NUL", "#0"} /\ \A i \in 1 .. n : prog[i] # "#0")
\* the commands and characters of a program, each with its parameters, in the order they are played
Units(prog) ==
    LET go[i \in 1 .. Len(prog) + 2] ==
            IF At(prog, i) \in {"NUL", "#0"} THEN <<>>
            ELSE IF prog[i] = "doRexx" THEN << <<"doRexx">> \o ToNul(SubSeq(prog, i + 1, Len(prog))) >>
            ELSE IF prog[i] \in Parametrised THEN << <<prog[i], prog[i + 1]>> >> \o go[i + 2]
            ELSE << <<prog[i]>> >> \o go[i + 1]
    IN go[1]

\* a mistake: a quote in the text is shown as it is
ShownBare(c) == CASE c = "\n" -> <<"\\", "n", "\"", "\n", "\"">> [] c = "\r" -> <<"\\", "r">>
                  [] c = "\t" -> <<"\\", "t">> [] OTHER -> <<c>>
Shown(c) == CASE c = "\n" -> <<"\\", "n", "\"", "\n", "\"">> [] c = "\r" -> <<"\\", "r">>
              [] c = "\t" -> <<"\\", "t">> [] c = "\"" -> <<"\\", "\"">> [] OTHER -> <<c>>

\* decompile_keydef: names and quoted texts with blanks between them
Decompiled(prog) ==
    LET us == Units(prog)
        IsText(i) == i \in DOMAIN us /\ us[i][1] \notin Procs
        name(u) == IF u[1] \in Parametrised THEN Front(LocateName(u[1])) \o <<IF u[2] = "#0" THEN "0" ELSE "1">>
                   ELSE LocateName(u[1])
        one(i) == CASE us[i][1] = "doRexx" -> <<" ", "{">> \o Tail(us[i]) \o <<"}", " ">>
                    [] ~IsText(i) -> <<" ">> \o name(us[i]) \o <<" ">>
                    [] OTHER -> (IF IsText(i - 1) THEN <<>> ELSE <<"\"">>) \o Shown(us[i][1])
                                \o (IF IsText(i + 1) THEN <<>> ELSE <<"\"">>)
    IN FlattenSeq([i \in DOMAIN us |-> one(i)])

-----------------------------------------------------------------------------
(***************************************************************************)
(* The recorder.  list holds what was recorded, did what was done to the   *)
(* text so far, next the key the user answers with when a recording ends.  *)
(***************************************************************************)
Fresh(keys) == [keys |-> keys, recording |-> FALSE, list |-> <<>>, did |-> <<>>]

AddAssignment(keys, name, prog) == (name :> prog) @@ keys
\* track_recording_done: the programs and characters, one behind the other
RecordingDone(list) == FlattenSeq(list)
TrackRecording(t, prog) == IF t.recording THEN [t EXCEPT !.list = Append(@, prog)] ELSE t

DoMacroRecEnd(t, answer) ==
    IF ~t.recording THEN t
    ELSE [t EXCEPT !.keys = IF answer = "kbEsc" THEN @ ELSE AddAssignment(@, answer, RecordingDone(t.list)),
                   !.list = <<>>, !.recording = FALSE]

Played(t, u, answer) ==
    CASE u[1] = "doMacroRecStart" -> [t EXCEPT !.recording = TRUE]
      [] u[1] = "doMacroRecEnd"   -> DoMacroRecEnd(t, answer)
      [] OTHER                    -> [t EXCEPT !.did = Append(@, u)]
PlayMacro(t, prog, answer) == FoldLeft(LAMBDA r, u : Played(r, u, answer), t, Units(prog))

\* a key with a definition: its program is copied, played, and then recorded
KeyPressed(t, keys, key, answer) ==
    IF key \in DOMAIN keys THEN TrackRecording(PlayMacro(t, keys[key], answer), keys[key]) ELSE t

\* Dispatcher: the definition for before every key, the key or its character, the one for after;
\* the first and the last are looked up at the start
Dispatcher(t, key, answer) ==
    LET first == KeyPressed(t, t.keys, "kbBeforeKey", answer)
        typed == [TrackRecording(first, <<key>>) EXCEPT !.did = Append(@, <<key>>)]
        this  == IF key \in {"a", "\""} THEN typed ELSE KeyPressed(first, first.keys, key, answer)
    IN KeyPressed(this, t.keys, "kbAfterKey", answer)
=============================================================================
