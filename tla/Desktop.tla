------------------------------ MODULE Desktop ------------------------------
(***************************************************************************)
(* What a user sees of the windows (kernel/layer.hpp): they lie on top of  *)
(* each other, one of them or none has the focus, and is then in front of  *)
(* the others.  A window that appears or gets the focus comes to the       *)
(* front, where a window is changes only for the one that is being moved,  *)
(* and closing a window takes the focus away and leaves the others as they *)
(* are.  Layers implements it.                                             *)
(***************************************************************************)
EXTENDS Integers

VARIABLES
  place,   \* where each of the windows is
  behind,  \* the pairs of windows of which the first lies behind the second
  focus    \* the one with the focus, 0 if none has it

dvars == <<place, behind, focus>>

Shown == DOMAIN place
Others(w) == Shown \ {w}
InFront(w) == {<<v, w>> : v \in Others(w)}
Among(windows) == behind \cap (windows \X windows)

DInit(at) ==
  /\ place = at
  /\ behind = {b \in Shown \X Shown : b[1] < b[2]}
  /\ focus = 0

Stay(windows) == \A v \in windows : place'[v] = place[v]

Open(w) ==
  /\ DOMAIN place' = Shown \cup {w} /\ Stay(Shown)
  /\ behind' = behind \cup InFront(w)
  /\ focus' = w
Raise(w) ==
  /\ behind' = Among(Others(w)) \cup InFront(w)
  /\ focus' = w
  /\ UNCHANGED place
Blur == focus' = 0 /\ UNCHANGED <<place, behind>>
Drag(w) ==
  /\ DOMAIN place' = Shown /\ Stay(Others(w))
  /\ UNCHANGED <<behind, focus>>
Close(w) ==
  /\ DOMAIN place' = Others(w) /\ Stay(Others(w))
  /\ behind' = Among(Others(w))
  /\ focus' = 0

DNext(ids) ==
  \/ \E w \in ids \ Shown : Open(w)
  \/ \E w \in Shown : Raise(w) \/ Drag(w) \/ Close(w)
  \/ Blur
=============================================================================
