------------------------------- MODULE History -------------------------------
(***************************************************************************)
(* What undo promises, without saying how: the document is whatever the    *)
(* last command left, every command that changed it can be taken back, and *)
(* taking commands back visits the earlier documents exactly, newest       *)
(* first.                                                                  *)
(***************************************************************************)
EXTENDS Sequences

VARIABLES
    doc,    \* the document: what the user sees and edits
    past    \* the documents before each command that can be taken back, newest first

Init == past = <<>>

\* a command that is noted in the history
Edit == past' = <<doc>> \o past

\* a command that is not must not change the document
Idle == UNCHANGED <<doc, past>>

Undo == /\ past # <<>>
        /\ doc'  = Head(past)
        /\ past' = Tail(past)

Next == Edit \/ Idle \/ Undo

Spec == Init /\ [][Next]_<<doc, past>>
=============================================================================
