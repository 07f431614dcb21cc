----------------------------- MODULE MCPipeline -----------------------------
(***************************************************************************)
(* Pipeline on a small instance: messages of two bytes, pages of one line. *)
(* echo writes its text and the newline in two calls; the file that `file` *)
(* (cat of a file) writes has two lines, the last one without a newline;   *)
(* `none` (cat of an empty file) writes nothing.                           *)
(***************************************************************************)
EXTENDS Pipeline

Outputs == [c \in {"echo", "file", "none"} |->
  IF c = "echo" THEN << <<"a", "b", "c">>, <<"nl">> >>
  ELSE IF c = "file" THEN << <<"a", "nl">>, <<"b", "c", "d">> >> ELSE <<>>]

CommandLines == {<<"echo">>, <<"echo", "cat">>, <<"echo", "more">>, <<"file", "more">>,
                 <<"file", "cat", "cat">>, <<"none">>, <<"none", "cat">>, <<"none", "more">>}
=============================================================================
