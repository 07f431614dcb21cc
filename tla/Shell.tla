------------------------------- MODULE Shell -------------------------------
(***************************************************************************)
(* What the user of a terminal sees of a command line, without tasks,      *)
(* pipes or messages: the text of the first command comes out of the last  *)
(* one, in order and once, and the prompt comes back when all of it is     *)
(* there or the user has had enough.  Pipeline implements this             *)
(* specification.                                                          *)
(***************************************************************************)
EXTENDS Integers, Sequences

CONSTANTS
  Text,    \* what the first commands of the lines produce
  NoText

VARIABLES
  state,   \* "prompt", "busy" with a line, "closed"
  text,    \* what the first command of the line produces
  screen,  \* what the line has shown so far
  quit     \* has the user stopped the output?

vars == <<state, text, screen, quit>>

Begins(s, t) == Len(s) <= Len(t) /\ s = SubSeq(t, 1, Len(s))

Init == state = "prompt" /\ text = NoText /\ screen = <<>> /\ quit = FALSE

Enter ==
  /\ state = "prompt" /\ state' = "busy"
  /\ text' \in Text
  /\ screen' = <<>> /\ quit' = FALSE

Shows == Begins(screen, screen') /\ Begins(screen', text)

Show ==
  /\ state = "busy"
  /\ Shows
  /\ UNCHANGED <<state, text, quit>>

Quit ==
  /\ state = "busy" /\ quit' = TRUE
  /\ UNCHANGED <<state, text, screen>>

\* Perhaps with the last it shows.
Prompt ==
  /\ state = "busy" /\ state' = "prompt"
  /\ Shows
  /\ screen' = text \/ quit
  /\ UNCHANGED <<text, quit>>

Close ==
  /\ state = "prompt" /\ state' = "closed"
  /\ UNCHANGED <<text, screen, quit>>

Next == Enter \/ Show \/ Quit \/ Prompt \/ Close

Spec == Init /\ [][Next]_vars
=============================================================================
