------------------------------ MODULE MCLayers ------------------------------
(***************************************************************************)
(* Layers on a screen of 3 x 2 pixels: the desktop, a console of one line, *)
(* no window of the kernel, the cursor (two pixels, one transparent) and   *)
(* windows of 2 x 2 whose upper row is the title bar, its right pixel the  *)
(* close button.                                                           *)
(***************************************************************************)
EXTENDS Layers

Screen == <<3, 2>>
KernelAt == <<>>
Line == <<2, 1>>
Square == <<2, 2>>
Cursor == <<2, 1>>
Clear == {<<1, 0>>}
Button == {<<1, 0>>}
Title == {<<0, 0>>, <<1, 0>>}
Text == Rectangle(<<0, 1>>, <<2, 1>>)
Left == <<0, 0>>
Corners == {<<-1, 1>>}
Steps == {<<1, 0>>, <<-1, 1>>, <<0, -1>>}
Junk == {Rectangle(<<1, 0>>, <<2, 2>>), Rectangle(<<1, 0>>, <<-1, 1>>)}
=============================================================================
