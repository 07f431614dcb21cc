--------------------------- MODULE MCTerminalText ---------------------------
(***************************************************************************)
(* TerminalText with a window of 2 x 5 characters: the prompt takes three  *)
(* of a row, the line goes on in the next row after one character, and a   *)
(* wide character does not fit after it.  The history has two lines.       *)
(***************************************************************************)
EXTENDS TerminalText

Typable == {"a"}
Double == {"W"}
Written == {<<"W", "x">>}
=============================================================================
