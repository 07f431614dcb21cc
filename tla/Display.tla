------------------------------ MODULE Display ------------------------------
(***************************************************************************)
(* Rectangles and frame buffers (kernel/graphics.hpp, frame_buffer.cpp,    *)
(* Window::DrawTo of window.cpp).  A vector is a pair <<x, y>>, a frame    *)
(* buffer a function from its points to pixels.                            *)
(***************************************************************************)
EXTENDS Integers

Vector == Int \X Int
Plus(v, w) == <<v[1] + w[1], v[2] + w[2]>>
Minus(v, w) == <<v[1] - w[1], v[2] - w[2]>>
Lower(i, j) == IF i < j THEN i ELSE j
Upper(i, j) == IF i > j THEN i ELSE j
ElementMin(v, w) == <<Lower(v[1], w[1]), Lower(v[2], w[2])>>
ElementMax(v, w) == <<Upper(v[1], w[1]), Upper(v[2], w[2])>>
Origin == <<0, 0>>

Rectangle(pos, size) == [pos |-> pos, size |-> size]
Rectangles == [pos : Vector, size : Vector]
End(r) == Plus(r.pos, r.size)
Points(r) == (r.pos[1] .. End(r)[1] - 1) \X (r.pos[2] .. End(r)[2] - 1)

\* operator& of two rectangles; they may touch, the area is then empty.
Apart(r, s) == End(r)[1] < s.pos[1] \/ End(r)[2] < s.pos[2]
Intersection(r, s) ==
  IF Apart(r, s) \/ Apart(s, r)
  THEN Rectangle(Origin, Origin)
  ELSE LET pos == ElementMax(r.pos, s.pos)
       IN  Rectangle(pos, Minus(ElementMin(End(r), End(s)), pos))

\* g, with f in its place where f is defined.
Over(f, g) == [x \in DOMAIN f \cup DOMAIN g |-> IF x \in DOMAIN f THEN f[x] ELSE g[x]]

\* FrameBuffer::Copy: the area of src, put at dstPos and clipped to the outline
\* of dst only (TLC finds a point that is outside src).
Copy(dst, outline, dstPos, src, srcArea) ==
  LET area  == Intersection(outline, Rectangle(dstPos, srcArea.size))
      start == Minus(area.pos, Minus(dstPos, srcArea.pos))
  IN  Over([p \in Points(area) |-> src[Plus(start, Minus(p, area.pos))]], dst)

\* Window::DrawTo of a window without a transparent color: the part of its
\* shadow buffer that lies in the area.
DrawOpaque(dst, outline, pos, shadow, size, area) ==
  LET part == Intersection(area, Rectangle(pos, size))
  IN  Copy(dst, outline, part.pos, shadow, Rectangle(Minus(part.pos, pos), part.size))

\* Window::DrawTo of a window with one: all of it, whatever the area.
DrawTransparent(dst, outline, pos, data, size, clear) ==
  LET first == ElementMax(Origin, Minus(Origin, pos))
      last  == ElementMin(size, Minus(End(outline), pos))
      drawn == {p \in Points(Rectangle(Plus(pos, first), Minus(last, first))) :
                  Minus(p, pos) \notin clear}
  IN  Over([p \in drawn |-> data[Minus(p, pos)]], dst)
=============================================================================
