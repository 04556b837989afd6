----------------------------- MODULE MCEditor -----------------------------
(***************************************************************************)
(* The key tables with which TLC checks the editor.                        *)
(***************************************************************************)
EXTENDS Editor

Unbound == [p \in Pseudo |-> <<>>]

\* all threads on one file, which the timer saves (docs/faq.txt: autosave)
MCMacroThreads ==
    [Unbound EXCEPT !["kbTimer"] = <<"SaveAll">>, !["kbActivate"] = <<"SaveAll">>]
    @@ [x |-> <<"Type">>, F2 |-> <<"Save">>, F8 |-> <<"Close">>, F10 |-> <<"Exit">>, F12 |-> <<"Abort">>]

\* several files, which macros open, close and switch between; one runs before
\* a file is closed
MCMacroFiles ==
    [Unbound EXCEPT !["kbClose"] = <<"Type">>]
    @@ [F2 |-> <<"Save">>, F3 |-> <<"Load">>, F4 |-> <<"NextFile", "Type">>, F5 |-> <<"New">>,
        F8 |-> <<"Close">>, F9 |-> <<"Undo">>, F10 |-> <<"Exit">>]

\* a message of the pipe that changes a text
MCMacroExit == [Unbound EXCEPT !["kbPipe"] = <<"Type">>] @@ [F10 |-> <<"Exit">>]

\* files that were never given a name, all saved at once
MCMacroSaveAll == Unbound @@ [x |-> <<"Type">>, F5 |-> <<"New">>, F6 |-> <<"SaveAll">>]

KeysOf(macro) == DOMAIN macro \ Pseudo
MCKeysThreads == KeysOf(MCMacroThreads)
MCKeysFiles   == KeysOf(MCMacroFiles)
MCKeysExit    == KeysOf(MCMacroExit)
MCKeysSaveAll == KeysOf(MCMacroSaveAll)
=============================================================================
