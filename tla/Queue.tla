------------------------------- MODULE Queue -------------------------------
(***************************************************************************)
(* What the rings between the driver and the xHCI controller are for: one  *)
(* side puts something at the end, the other takes what is at the front,   *)
(* and nothing is lost, repeated or overtaken.                             *)
(***************************************************************************)
EXTENDS Integers, Sequences

VARIABLES
  queue,
  written,  \* where the one side will put the next
  read      \* where the other side will take the next

Init == queue = << >> /\ read = written

Put ==
  /\ Len(queue') = Len(queue) + 1
  /\ queue = SubSeq(queue', 1, Len(queue))
  /\ written' # written
  /\ UNCHANGED read

Take ==
  /\ queue # << >>
  /\ queue' = Tail(queue)
  /\ read' # read
  /\ UNCHANGED written

Next == Put \/ Take

Spec == Init /\ [][Next]_<<queue, written, read>>
=============================================================================
