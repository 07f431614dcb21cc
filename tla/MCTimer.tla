------------------------------ MODULE MCTimer ------------------------------
(***************************************************************************)
(* Timer on small instances.  The code's kTimer05Sec is 50: 3 ticks keep   *)
(* it out of step with the task timer's 2.                                 *)
(***************************************************************************)
EXTENDS Timer

=============================================================================
