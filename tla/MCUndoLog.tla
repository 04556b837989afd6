----------------------------- MODULE MCUndoLog -----------------------------
(***************************************************************************)
(* A small instance of the undo log for TLC.  The lines hold runs longer   *)
(* than MaxCnt, so that a difference needs several runs of one kind.       *)
(***************************************************************************)
EXTENDS UndoLog

MCLines == {<<"b", "a">>, <<"a", "a", "b">>}
=============================================================================
