------------------------------- MODULE MCXhci -------------------------------
(***************************************************************************)
(* Xhci on a small instance.                                               *)
(***************************************************************************)
EXTENDS Xhci

Interface(protocol, n) == [kind |-> "interface", protocol |-> protocol, num_endpoints |-> n]
Hid == [kind |-> "hid"]
Endpoint(number, dir_in) == [kind |-> "endpoint", number |-> number, dir_in |-> dir_in]

\* A keyboard with one endpoint, behind an interface that has no driver, a mouse
\* with two, and if there is a third port, a device that is neither.
Devices ==
  [p \in Port |->
     CASE p = 1 -> <<Interface("other", 1), Endpoint(3, FALSE),
                     Interface("keyboard", 1), Hid, Endpoint(1, TRUE)>>
       [] p = 2 -> <<Interface("mouse", 2), Hid, Endpoint(1, TRUE), Endpoint(2, FALSE)>>
       [] OTHER -> <<Interface("other", 1), Endpoint(1, TRUE)>>]
=============================================================================
