---------------------------- MODULE LayersProofs ----------------------------
(***************************************************************************)
(* Theorems about Layers, for every screen, any sizes and places of        *)
(* windows, any number of layers and tasks.                                *)
(***************************************************************************)
EXTENDS Layers, FiniteSetTheorems, TLAPS

-----------------------------------------------------------------------------
(* Rectangles and their points.                                            *)

\* Graphics.hpp's operations on vectors give vectors.
LEMMA VectorType ==
  ASSUME NEW v \in Vector, NEW w \in Vector
  PROVE  /\ Plus(v, w) \in Vector /\ Minus(v, w) \in Vector
         /\ ElementMin(v, w) \in Vector /\ ElementMax(v, w) \in Vector
BY DEF Vector, Plus, Minus, ElementMin, ElementMax, Lower, Upper

\* They work on each of the two coordinates.
LEMMA Coordinates ==
  ASSUME NEW v \in Vector, NEW w \in Vector, NEW n \in {1, 2}
  PROVE  /\ v[n] \in Int
         /\ Plus(v, w)[n] = v[n] + w[n] /\ Minus(v, w)[n] = v[n] - w[n]
         /\ ElementMin(v, w)[n] = Lower(v[n], w[n])
         /\ ElementMax(v, w)[n] = Upper(v[n], w[n])
BY DEF Vector, Plus, Minus, ElementMin, ElementMax

\* The upper left corner is a vector.
LEMMA OriginType == Origin \in Vector
BY DEF Origin, Vector

\* A rectangle of two vectors.
LEMMA RectangleType ==
  ASSUME NEW v \in Vector, NEW w \in Vector
  PROVE  /\ Rectangle(v, w) \in Rectangles
         /\ Rectangle(v, w).pos = v /\ Rectangle(v, w).size = w
BY DEF Rectangle, Rectangles

\* v[n] <= p[n] < v[n] + w[n]
Within(p, v, w, n) == v[n] <= p[n] /\ p[n] < v[n] + w[n]

\* A point is in a rectangle if both its coordinates are in range.
LEMMA InPoints ==
  ASSUME NEW r \in Rectangles, NEW p
  PROVE  p \in Points(r) <=>
           p \in Vector /\ Within(p, r.pos, r.size, 1) /\ Within(p, r.pos, r.size, 2)
<1>1. r.pos \in Vector /\ r.size \in Vector
  BY DEF Rectangles
<1> QED BY <1>1 DEF Points, End, Plus, Vector, Within

\* The intersection of two rectangles has the points that are in both.
LEMMA IntersectionType ==
  ASSUME NEW r \in Rectangles, NEW s \in Rectangles
  PROVE  Intersection(r, s) \in Rectangles
<1>1. r.pos \in Vector /\ r.size \in Vector /\ s.pos \in Vector /\ s.size \in Vector
  BY DEF Rectangles
<1>2. End(r) \in Vector /\ End(s) \in Vector
  BY <1>1, VectorType DEF End
<1> DEFINE pos == ElementMax(r.pos, s.pos)
           size == Minus(ElementMin(End(r), End(s)), pos)
<1>3. pos \in Vector /\ ElementMin(End(r), End(s)) \in Vector
  BY <1>1, <1>2, VectorType
<1>4. size \in Vector
  BY <1>3, VectorType
<1> QED BY <1>3, <1>4, OriginType, RectangleType DEF Intersection

\* Also where they only touch.
LEMMA InIntersection ==
  ASSUME NEW r \in Rectangles, NEW s \in Rectangles, NEW p
  PROVE  p \in Points(Intersection(r, s)) <=> p \in Points(r) /\ p \in Points(s)
<1>1. r.pos \in Vector /\ r.size \in Vector /\ s.pos \in Vector /\ s.size \in Vector
  BY DEF Rectangles
<1>2. p \in Points(r) <=>
        p \in Vector /\ Within(p, r.pos, r.size, 1) /\ Within(p, r.pos, r.size, 2)
  BY InPoints
<1>3. p \in Points(s) <=>
        p \in Vector /\ Within(p, s.pos, s.size, 1) /\ Within(p, s.pos, s.size, 2)
  BY InPoints
<1> DEFINE i == Intersection(r, s)
<1>4. p \in Points(i) <=>
        p \in Vector /\ Within(p, i.pos, i.size, 1) /\ Within(p, i.pos, i.size, 2)
  BY InPoints, IntersectionType
<1>5. CASE Apart(r, s) \/ Apart(s, r)
  <2>1. i.pos = Origin /\ i.size = Origin
    BY <1>5, OriginType, RectangleType DEF Intersection
  <2>2. ~(p \in Vector /\ Within(p, i.pos, i.size, 1))
    BY <2>1 DEF Origin, Within, Vector
  <2>3. ASSUME p \in Vector, Within(p, r.pos, r.size, 1), Within(p, r.pos, r.size, 2),
               Within(p, s.pos, s.size, 1), Within(p, s.pos, s.size, 2)
        PROVE  FALSE
    BY <1>1, <1>5, <2>3 DEF Apart, End, Plus, Within, Vector
  <2> QED BY <1>2, <1>3, <1>4, <2>2, <2>3
<1>6. CASE ~(Apart(r, s) \/ Apart(s, r))
  <2> DEFINE pos == ElementMax(r.pos, s.pos)
             size == Minus(ElementMin(End(r), End(s)), pos)
  <2>1. pos \in Vector /\ size \in Vector
    BY <1>1, VectorType DEF End
  <2>2. i.pos = pos /\ i.size = size
    BY <1>6, <2>1, RectangleType DEF Intersection
  <2>3. ASSUME p \in Vector, NEW n \in {1, 2}
        PROVE  Within(p, pos, size, n) <=>
                 Within(p, r.pos, r.size, n) /\ Within(p, s.pos, s.size, n)
    BY <1>1, <2>3 DEF End, Plus, Minus, ElementMin, ElementMax, Lower, Upper, Within, Vector
  <2> QED BY <1>2, <1>3, <1>4, <2>2, <2>3
<1> QED BY <1>5, <1>6

\* A point of a window, seen from its corner.
LEMMA Shifted ==
  ASSUME NEW p \in Vector, NEW v \in Vector, NEW w \in Vector
  PROVE  Minus(p, v) \in Points(Rectangle(Origin, w)) <=> p \in Points(Rectangle(v, w))
<1>1. Minus(p, v) \in Vector
  BY VectorType
<1>2. Minus(p, v) \in Points(Rectangle(Origin, w)) <=>
        Within(Minus(p, v), Origin, w, 1) /\ Within(Minus(p, v), Origin, w, 2)
  BY <1>1, InPoints, RectangleType, OriginType
<1>3. p \in Points(Rectangle(v, w)) <=> Within(p, v, w, 1) /\ Within(p, v, w, 2)
  BY InPoints, RectangleType
<1>4. \A n \in {1, 2} : Within(Minus(p, v), Origin, w, n) <=> Within(p, v, w, n)
  BY DEF Within, Minus, Origin, Vector
<1> QED BY <1>2, <1>3, <1>4

\* The screen is a rectangle.
LEMMA OutlineType ==
  /\ Outline \in Rectangles /\ Outline.pos = Origin /\ Outline.size = ScreenSize
  /\ \A p \in ScreenPoints : p \in Vector
<1>1. ScreenSize \in Vector
  BY GeometryAssumption
<1>2. Outline \in Rectangles /\ Outline.pos = Origin /\ Outline.size = ScreenSize
  BY <1>1, OriginType, RectangleType DEF Outline
<1> QED BY <1>2, InPoints DEF ScreenPoints

\* Every layer has a size.
LEMMA SizeType == \A l : Size(l) \in Vector
BY GeometryAssumption DEF Size

-----------------------------------------------------------------------------
(* Buffers.                                                                *)

IsBuffer(B) == B = [p \in ScreenPoints |-> B[p]]

IsOver(f, g, h) ==
  /\ h = [x \in DOMAIN f \cup DOMAIN g |-> h[x]]
  /\ \A x \in DOMAIN f : h[x] = f[x]
  /\ \A x \in DOMAIN g : x \notin DOMAIN f => h[x] = g[x]
\* What one function put over another is, argument by argument.
LEMMA OverIs == ASSUME NEW f, NEW g PROVE IsOver(f, g, Over(f, g))
BY DEF Over, IsOver

\* Copy puts the area of the source at a place of the destination.
LEMMA CopyIs ==
  ASSUME NEW B, IsBuffer(B), NEW v \in Vector, NEW r \in Rectangles, NEW S
  PROVE  LET C == Copy(B, Outline, v, S, r)
         IN  /\ IsBuffer(C)
             /\ \A p \in ScreenPoints :
                  /\ p \in Points(Rectangle(v, r.size)) => C[p] = S[Plus(Minus(p, v), r.pos)]
                  /\ p \notin Points(Rectangle(v, r.size)) => C[p] = B[p]
<1> DEFINE area == Intersection(Outline, Rectangle(v, r.size))
           start == Minus(area.pos, Minus(v, r.pos))
           f == [q \in Points(area) |-> S[Plus(start, Minus(q, area.pos))]]
<1>1. r.pos \in Vector /\ r.size \in Vector
  BY DEF Rectangles
<1>2. Rectangle(v, r.size) \in Rectangles
  BY <1>1, RectangleType
<1>3. area \in Rectangles
  BY <1>2, OutlineType, IntersectionType
<1>4. \A q : q \in Points(area) <=> q \in ScreenPoints /\ q \in Points(Rectangle(v, r.size))
  BY <1>2, OutlineType, InIntersection DEF ScreenPoints
<1>5. Copy(B, Outline, v, S, r) = Over(f, B)
  BY DEF Copy
<1>6. DOMAIN f = Points(area) /\ DOMAIN B = ScreenPoints
  BY DEF IsBuffer
<1>7. Points(area) \cup ScreenPoints = ScreenPoints
  BY <1>4
<1> HIDE DEF f, area
<1>8. IsOver(f, B, Over(f, B))
  BY OverIs
<1>9. /\ IsBuffer(Over(f, B))
      /\ \A p \in ScreenPoints : Over(f, B)[p] = IF p \in Points(area) THEN f[p] ELSE B[p]
  BY <1>6, <1>7, <1>8 DEF IsOver, IsBuffer
<1>10. ASSUME NEW p \in ScreenPoints, p \in Points(area) PROVE f[p] = S[Plus(Minus(p, v), r.pos)]
  <2>1. p \in Vector /\ area.pos \in Vector
    BY <1>3, OutlineType DEF Rectangles
  <2>2. Plus(start, Minus(p, area.pos)) = Plus(Minus(p, v), r.pos)
    BY <1>1, <2>1 DEF Plus, Minus, Vector
  <2> QED BY <1>10, <2>2 DEF f
<1> QED BY <1>4, <1>5, <1>9, <1>10

-----------------------------------------------------------------------------
(* Drawing one layer.                                                      *)

\* What desk is made of.
IsRecord(d) ==
  d = [pos |-> d.pos, stack |-> d.stack, lit |-> d.lit, text |-> d.text,
       undrawn |-> d.undrawn, back |-> d.back, screen |-> d.screen,
       active |-> d.active, task |-> d.task, told |-> d.told]
DeskType(d) ==
  /\ IsRecord(d)
  /\ LayersOf(d) \subseteq Nat \ {0}
  /\ d.pos = [l \in LayersOf(d) |-> d.pos[l]]
  /\ \A l \in LayersOf(d) : d.pos[l] \in Vector
  /\ IsBuffer(d.back) /\ IsBuffer(d.screen)

PixelAt(d, l, p) == Pixel(d, l, Minus(p, d.pos[l]))
CoversIn(d, l, p) ==
  IF l = MouseLayer THEN Minus(p, d.pos[l]) \in MouseShape ELSE p \in Points(Window(d, l))
\* Does drawing layer l, as far as it is in the area, change point p?
Paints(d, l, area, p) == CoversIn(d, l, p) /\ (l = MouseLayer \/ p \in Points(area))

\* Where a layer is, is a rectangle.
LEMMA WindowType ==
  ASSUME NEW d, DeskType(d), NEW l \in LayersOf(d)
  PROVE  /\ d.pos[l] \in Vector
         /\ Window(d, l) \in Rectangles
         /\ Window(d, l).pos = d.pos[l] /\ Window(d, l).size = Size(l)
BY SizeType, RectangleType DEF Window, DeskType

\* A layer covers no point outside its rectangle.
LEMMA CoversInWindow ==
  ASSUME NEW d, DeskType(d), NEW l \in LayersOf(d), NEW p \in ScreenPoints, CoversIn(d, l, p)
  PROVE  p \in Points(Window(d, l))
<1>1. p \in Vector /\ d.pos[l] \in Vector
  BY OutlineType, WindowType
<1>2. CASE l = MouseLayer
  <2>1. Size(l) = MouseSize /\ MouseSize \in Vector
    <3>1. MouseLayer \notin {Background, Console}
      BY GeometryAssumption DEF MouseLayer, Background, Console
    <3> QED BY <1>2, <3>1, GeometryAssumption DEF Size
  <2>2. Minus(p, d.pos[l]) \in Points(Rectangle(Origin, MouseSize))
    BY <1>2 DEF CoversIn, MouseShape
  <2> QED BY <1>1, <2>1, <2>2, Shifted DEF Window
<1>3. CASE l # MouseLayer
  BY <1>3 DEF CoversIn
<1> QED BY <1>2, <1>3

\* The buffer of a window has a pixel for each of its points.
LEMMA ShadowIs ==
  ASSUME NEW d, DeskType(d), NEW l \in LayersOf(d), NEW p \in ScreenPoints,
         p \in Points(Window(d, l))
  PROVE  Shadow(d, l)[Minus(p, d.pos[l])] = PixelAt(d, l, p)
<1>1. p \in Vector /\ d.pos[l] \in Vector /\ Size(l) \in Vector
  BY OutlineType, WindowType, SizeType
<1>2. Minus(p, d.pos[l]) \in Points(Rectangle(Origin, Size(l)))
  BY <1>1, Shifted DEF Window
<1> QED BY <1>2 DEF Shadow, PixelAt

\* FrameBuffer::Copy as Layer::DrawTo uses it: the points of the window in the area get
\* its pixels, the others are left.
LEMMA DrawOpaqueIs ==
  ASSUME NEW d, DeskType(d), NEW l \in LayersOf(d), NEW B, IsBuffer(B),
         NEW area \in Rectangles
  PROVE  LET R == DrawOpaque(B, Outline, d.pos[l], Shadow(d, l), Size(l), area)
         IN  /\ IsBuffer(R)
             /\ \A p \in ScreenPoints :
                  /\ p \in Points(Window(d, l)) /\ p \in Points(area) => R[p] = PixelAt(d, l, p)
                  /\ ~(p \in Points(Window(d, l)) /\ p \in Points(area)) => R[p] = B[p]
<1> DEFINE part == Intersection(area, Rectangle(d.pos[l], Size(l)))
           from == Rectangle(Minus(part.pos, d.pos[l]), part.size)
           R == Copy(B, Outline, part.pos, Shadow(d, l), from)
<1>1. DrawOpaque(B, Outline, d.pos[l], Shadow(d, l), Size(l), area) = R
  BY DEF DrawOpaque
<1>2. d.pos[l] \in Vector /\ Window(d, l) \in Rectangles
  BY WindowType
<1>3. part \in Rectangles
  BY <1>2, IntersectionType DEF Window
<1>4. part.pos \in Vector /\ part.size \in Vector /\ part = Rectangle(part.pos, part.size)
  BY <1>3 DEF Rectangles, Rectangle
<1>5. from \in Rectangles /\ from.size = part.size /\ from.pos = Minus(part.pos, d.pos[l])
  BY <1>2, <1>4, VectorType, RectangleType
<1>6. \A p : p \in Points(part) <=> p \in Points(area) /\ p \in Points(Window(d, l))
  BY <1>2, InIntersection DEF Window
<1> HIDE DEF part, from
<1>7. /\ IsBuffer(R)
      /\ \A p \in ScreenPoints :
           /\ p \in Points(Rectangle(part.pos, from.size)) =>
                R[p] = Shadow(d, l)[Plus(Minus(p, part.pos), from.pos)]
           /\ p \notin Points(Rectangle(part.pos, from.size)) => R[p] = B[p]
  BY <1>4, <1>5, CopyIs
<1>8. Rectangle(part.pos, from.size) = part
  BY <1>4, <1>5
<1> HIDE DEF R
<1>9. ASSUME NEW p \in ScreenPoints
      PROVE  /\ p \in Points(Window(d, l)) /\ p \in Points(area) => R[p] = PixelAt(d, l, p)
             /\ ~(p \in Points(Window(d, l)) /\ p \in Points(area)) => R[p] = B[p]
  <2>1. p \in Vector
    BY OutlineType
  <2>2. Plus(Minus(p, part.pos), from.pos) = Minus(p, d.pos[l])
    BY <1>2, <1>4, <1>5, <2>1 DEF Plus, Minus, Vector
  <2>3. /\ p \in Points(part) => R[p] = Shadow(d, l)[Minus(p, d.pos[l])]
        /\ p \notin Points(part) => R[p] = B[p]
    BY <1>7, <1>8, <2>2
  <2> QED BY <1>6, <2>3, ShadowIs
<1> QED BY <1>1, <1>7, <1>9

\* Window::DrawTo with a transparent colour: the points of the cursor's shape get its pixels.
LEMMA DrawTransparentIs ==
  ASSUME NEW d, DeskType(d), MouseLayer \in LayersOf(d), NEW B, IsBuffer(B)
  PROVE  LET R == DrawTransparent(B, Outline, d.pos[MouseLayer], Shadow(d, MouseLayer),
                                  Size(MouseLayer), MouseClear)
         IN  /\ IsBuffer(R)
             /\ \A p \in ScreenPoints :
                  /\ CoversIn(d, MouseLayer, p) => R[p] = PixelAt(d, MouseLayer, p)
                  /\ ~CoversIn(d, MouseLayer, p) => R[p] = B[p]
<1> DEFINE l == MouseLayer
           pos == d.pos[l]
           first == ElementMax(Origin, Minus(Origin, pos))
           last == ElementMin(MouseSize, Minus(End(Outline), pos))
           r == Rectangle(Plus(pos, first), Minus(last, first))
           drawn == {q \in Points(r) : Minus(q, pos) \notin MouseClear}
           f == [q \in drawn |-> Shadow(d, l)[Minus(q, pos)]]
<1>1. MouseLayer \notin {Background, Console}
  BY GeometryAssumption DEF MouseLayer, Background, Console
<1>2. Size(l) = MouseSize /\ MouseSize \in Vector
  BY <1>1, GeometryAssumption DEF Size
<1>3. pos \in Vector /\ ScreenSize \in Vector
  BY WindowType, GeometryAssumption
<1>4. End(Outline) = ScreenSize
  BY <1>3, OutlineType DEF End, Plus, Origin, Vector
<1>5. first \in Vector /\ last \in Vector
  BY <1>2, <1>3, <1>4, VectorType, OriginType
<1>6. r \in Rectangles /\ r.pos = Plus(pos, first) /\ r.size = Minus(last, first)
  BY <1>3, <1>5, VectorType, RectangleType
<1>7. \A q : q \in Points(r) <=> q \in ScreenPoints /\ q \in Points(Rectangle(pos, MouseSize))
  <2> TAKE q
  <2>1. q \in Points(r) <=>
          q \in Vector /\ Within(q, r.pos, r.size, 1) /\ Within(q, r.pos, r.size, 2)
    BY <1>6, InPoints
  <2>2. q \in ScreenPoints <=>
          q \in Vector /\ Within(q, Origin, ScreenSize, 1) /\ Within(q, Origin, ScreenSize, 2)
    BY OutlineType, InPoints DEF ScreenPoints
  <2>3. q \in Points(Rectangle(pos, MouseSize)) <=>
          q \in Vector /\ Within(q, pos, MouseSize, 1) /\ Within(q, pos, MouseSize, 2)
    BY <1>2, <1>3, InPoints, RectangleType
  <2>4. ASSUME q \in Vector, NEW n \in {1, 2}
        PROVE  Within(q, r.pos, r.size, n) <=>
                 Within(q, Origin, ScreenSize, n) /\ Within(q, pos, MouseSize, n)
    <3> DEFINE x == pos[n]
               y == MouseSize[n]
               z == ScreenSize[n]
    <3>1. x \in Int /\ y \in Int /\ z \in Int /\ q[n] \in Int /\ Origin[n] = 0
      BY <1>2, <1>3, <2>4 DEF Vector, Origin
    <3>2. first[n] = Upper(0, 0 - x)
      <4> DEFINE m == Minus(Origin, pos)
      <4>0. m \in Vector /\ m[n] = Origin[n] - pos[n]
        BY <1>3, Coordinates, VectorType, OriginType
      <4>1. m \in Vector /\ m[n] = 0 - x
        BY <3>1, <4>0
      <4> HIDE DEF m
      <4>2. ElementMax(Origin, m)[n] = Upper(Origin[n], m[n])
        BY <4>1, OriginType, Coordinates
      <4> QED BY <3>1, <4>1, <4>2 DEF m
    <3>3. last[n] = Lower(y, z - x)
      <4> DEFINE m == Minus(ScreenSize, pos)
      <4>1. m \in Vector /\ m[n] = z - x
        BY <1>3, Coordinates, VectorType
      <4> HIDE DEF m
      <4>2. ElementMin(MouseSize, m)[n] = Lower(MouseSize[n], m[n])
        BY <1>2, <4>1, Coordinates
      <4> QED BY <1>4, <4>1, <4>2 DEF m
    <3>4. r.pos[n] = x + first[n] /\ r.size[n] = last[n] - first[n]
      BY <1>3, <1>5, <1>6, Coordinates
    <3> HIDE DEF x, y, z, first, last, r
    <3>5. Within(q, r.pos, r.size, n) <=>
            Within(q, Origin, ScreenSize, n) /\ (x <= q[n] /\ q[n] < x + y)
      BY <3>1, <3>2, <3>3, <3>4 DEF Within, z, Lower, Upper
    <3> QED BY <3>5 DEF Within, x, y
  <2> QED BY <2>1, <2>2, <2>3, <2>4
<1>8. \A q \in ScreenPoints : q \in drawn <=> CoversIn(d, l, q)
  <2> TAKE q \in ScreenPoints
  <2>1. q \in Vector
    BY OutlineType
  <2>2. q \in Points(Rectangle(pos, MouseSize)) <=> Minus(q, pos) \in Points(Rectangle(Origin, MouseSize))
    BY <1>2, <1>3, <2>1, Shifted
  <2> QED BY <1>7, <2>2 DEF CoversIn, MouseShape
<1>9. drawn \subseteq ScreenPoints
  BY <1>7
<1>10. DrawTransparent(B, Outline, pos, Shadow(d, l), Size(l), MouseClear) = Over(f, B)
  BY <1>2 DEF DrawTransparent
<1>11. \A p \in ScreenPoints : CoversIn(d, l, p) => Shadow(d, l)[Minus(p, pos)] = PixelAt(d, l, p)
  BY CoversInWindow, ShadowIs
<1>12. DOMAIN f = drawn /\ DOMAIN B = ScreenPoints
  BY DEF IsBuffer
<1>13. \A q \in drawn : f[q] = Shadow(d, l)[Minus(q, pos)]
  OBVIOUS
<1> HIDE DEF f, drawn, r, first, last
<1>14. IsOver(f, B, Over(f, B))
  BY OverIs
<1>15. drawn \cup ScreenPoints = ScreenPoints
  BY <1>9
<1>16. IsBuffer(Over(f, B))
  BY <1>12, <1>14, <1>15 DEF IsOver, IsBuffer
<1>17. /\ \A p \in drawn : Over(f, B)[p] = f[p]
       /\ \A p \in ScreenPoints : p \notin drawn => Over(f, B)[p] = B[p]
  BY <1>12, <1>14 DEF IsOver
<1> QED BY <1>8, <1>10, <1>11, <1>13, <1>16, <1>17

\* Layer::DrawTo, for both kinds of windows.
LEMMA DrawToIs ==
  ASSUME NEW d, DeskType(d), NEW l \in LayersOf(d), NEW B, IsBuffer(B),
         NEW area \in Rectangles
  PROVE  LET R == DrawTo(d, l, B, area)
         IN  /\ IsBuffer(R)
             /\ \A p \in ScreenPoints :
                  /\ Paints(d, l, area, p) => R[p] = PixelAt(d, l, p)
                  /\ ~Paints(d, l, area, p) => R[p] = B[p]
<1>1. CASE l = MouseLayer
  BY <1>1, DrawTransparentIs DEF DrawTo, Paints
<1>2. CASE l # MouseLayer
  BY <1>2, DrawOpaqueIs DEF DrawTo, Paints, CoversIn
<1> QED BY <1>1, <1>2

-----------------------------------------------------------------------------
(* Drawing all layers from a height on.                                    *)

\* Induction over numbers, for a set of them.
LEMMA Least ==
  ASSUME NEW T, T \subseteq Nat, T # {} PROVE \E n \in T : \A m \in T : n <= m
<1>1. PICK n \in T : \A m \in T : <<m, n>> \notin OpToRel(<, Nat)
  BY WFMin, NatLessThanWellFounded
<1>2. ASSUME NEW m \in T PROVE n <= m
  <2>1. <<m, n>> \notin {ss \in Nat \X Nat : ss[1] < ss[2]}
    BY <1>1 DEF OpToRel
  <2>2. n \in Nat /\ m \in Nat /\ ~(m < n)
    BY <2>1
  <2> QED BY <2>2
<1> QED BY <1>2

\* Induction over the natural numbers, for a set.
LEMMA Induction ==
  ASSUME NEW T, 0 \in T, \A n \in Nat : n \in T => n + 1 \in T PROVE \A n \in Nat : n \in T
<1> DEFINE S == {n \in Nat : n \notin T}
<1> SUFFICES ASSUME S # {} PROVE FALSE
  OBVIOUS
<1>1. PICK n \in S : \A m \in S : n <= m
  BY Least
<1>2. n # 0 /\ n - 1 \in Nat /\ n - 1 \notin S
  BY <1>1
<1> QED BY <1>1, <1>2

Stacked(d) == d.stack \in Seq(LayersOf(d))

\* g: the back buffer before the first and after each of the first n layers.
Builds(d, h, area, n, g) ==
  g = [k \in 0 .. n |-> IF k < h THEN d.back ELSE DrawTo(d, d.stack[k], g[k - 1], area)]

\* Point p of the back buffer when the layers from h to n are drawn: the last
\* one that paints it does.
PaintedBy(d, h, n, area, p, x, k) ==
  /\ k \in h .. n /\ Paints(d, d.stack[k], area, p) /\ x = PixelAt(d, d.stack[k], p)
  /\ \A j \in k + 1 .. n : ~Paints(d, d.stack[j], area, p)
Painted(d, h, n, area, p, x) ==
  \/ \E k \in h .. n : PaintedBy(d, h, n, area, p, x, k)
  \/ x = d.back[p] /\ \A k \in h .. n : ~Paints(d, d.stack[k], area, p)

\* The loop of LayerManager::Draw computes a buffer for any number of layers.
LEMMA BuildsExists ==
  ASSUME NEW d, NEW h \in Nat \ {0}, NEW area
  PROVE  \A n \in Nat : \E g : Builds(d, h, area, n, g)
<1> DEFINE T == {n \in Nat : \E g : Builds(d, h, area, n, g)}
<1>1. 0 \in T
  <2>1. Builds(d, h, area, 0, [k \in 0 .. 0 |-> d.back])
    BY DEF Builds
  <2> QED BY <2>1
<1>2. ASSUME NEW n \in Nat, n \in T PROVE n + 1 \in T
  <2>1. PICK g : Builds(d, h, area, n, g)
    BY <1>2
  <2> DEFINE f == [k \in 0 .. n + 1 |->
                     IF k <= n THEN g[k]
                     ELSE IF k < h THEN d.back ELSE DrawTo(d, d.stack[k], g[n], area)]
  <2>2. ASSUME NEW k \in 0 .. n
        PROVE  f[k] = IF k < h THEN d.back ELSE DrawTo(d, d.stack[k], g[k - 1], area)
    BY <2>1 DEF Builds
  <2>3. ASSUME NEW k \in 0 .. n + 1, ~(k < h) PROVE k - 1 \in 0 .. n /\ f[k - 1] = g[k - 1]
    BY <2>3
  <2>4. ASSUME NEW k \in 0 .. n + 1
        PROVE  f[k] = IF k < h THEN d.back ELSE DrawTo(d, d.stack[k], f[k - 1], area)
    <3>1. CASE k <= n
      BY <3>1, <2>2, <2>3
    <3>2. CASE k = n + 1
      BY <3>2, <2>3
    <3> QED BY <3>1, <3>2
  <2>5. Builds(d, h, area, n + 1, f)
    <3>1. DOMAIN f = 0 .. n + 1 /\ f = [k \in 0 .. n + 1 |-> f[k]]
      OBVIOUS
    <3> HIDE DEF f
    <3> QED BY <2>4, <3>1 DEF Builds
  <2> QED BY <2>5
<1> HIDE DEF T
<1>3. \A n \in Nat : n \in T
  BY <1>1, <1>2, Induction
<1> QED BY <1>3 DEF T

\* One more turn of the loop: the layer drawn last is what its points show.
LEMMA PaintedNext ==
  ASSUME NEW d, DeskType(d), Stacked(d), NEW h \in Nat \ {0}, NEW area \in Rectangles,
         NEW n \in Nat, n + 1 <= Len(d.stack), ~(n + 1 < h), NEW B, IsBuffer(B)
  PROVE  LET R == DrawTo(d, d.stack[n + 1], B, area)
         IN  /\ IsBuffer(R)
             /\ \A p \in ScreenPoints :
                  Painted(d, h, n, area, p, B[p]) => Painted(d, h, n + 1, area, p, R[p])
<1> DEFINE l == d.stack[n + 1]
           R == DrawTo(d, l, B, area)
<1>1. l \in LayersOf(d)
  BY DEF Stacked
<1> HIDE DEF R
<1>2. /\ IsBuffer(R)
      /\ \A p \in ScreenPoints :
           /\ Paints(d, l, area, p) => R[p] = PixelAt(d, l, p)
           /\ ~Paints(d, l, area, p) => R[p] = B[p]
  BY <1>1, DrawToIs DEF R
<1>3. ASSUME NEW p \in ScreenPoints, Painted(d, h, n, area, p, B[p])
      PROVE  Painted(d, h, n + 1, area, p, R[p])
  <2>2. /\ Painted(d, h, n, area, p, B[p])
        /\ Paints(d, l, area, p) => R[p] = PixelAt(d, l, p)
        /\ ~Paints(d, l, area, p) => R[p] = B[p]
    BY <1>2, <1>3
  <2>3. CASE Paints(d, l, area, p)
    <3>1. PaintedBy(d, h, n + 1, area, p, R[p], n + 1)
      BY <2>2, <2>3 DEF PaintedBy
    <3> QED BY <2>2, <3>1 DEF Painted, R
  <2>4. CASE ~Paints(d, l, area, p)
    <3>1. R[p] = B[p]
      BY <2>2, <2>4
    <3>2. \A j \in h .. n + 1 : j \notin h .. n => j = n + 1
      OBVIOUS
    <3>3. ASSUME NEW k \in h .. n, PaintedBy(d, h, n, area, p, B[p], k)
          PROVE  PaintedBy(d, h, n + 1, area, p, R[p], k) /\ k \in h .. n + 1
      <4>1. \A j \in k + 1 .. n + 1 : j \in k + 1 .. n \/ j = n + 1
        OBVIOUS
      <4> QED BY <2>4, <3>1, <3>3, <4>1 DEF PaintedBy
    <3> QED BY <2>2, <2>4, <3>1, <3>2, <3>3 DEF Painted, R
  <2> QED BY <2>3, <2>4
<1> QED BY <1>2, <1>3 DEF R

\* So the back buffer shows, at each point, the last layer drawn that paints it.
LEMMA BuildsPainted ==
  ASSUME NEW d, DeskType(d), Stacked(d), NEW h \in Nat \ {0}, NEW area \in Rectangles,
         NEW g, Builds(d, h, area, Len(d.stack), g)
  PROVE  /\ IsBuffer(g[Len(d.stack)])
         /\ \A p \in ScreenPoints : Painted(d, h, Len(d.stack), area, p, g[Len(d.stack)][p])
<1> DEFINE Fine(n) == /\ IsBuffer(g[n])
                      /\ \A p \in ScreenPoints : Painted(d, h, n, area, p, g[n][p])
           T == {n \in Nat : n <= Len(d.stack) => Fine(n)}
<1>0. Len(d.stack) \in Nat
  BY DEF Stacked
<1>1. ASSUME NEW n \in Nat, n <= Len(d.stack), n < h PROVE Fine(n)
  <2>1. g[n] = d.back
    BY <1>0, <1>1 DEF Builds
  <2>2. \A k \in h .. n : FALSE
    BY <1>1
  <2> QED BY <2>1, <2>2 DEF Painted, DeskType
<1>2. 0 \in T
  BY <1>1
<1>3. ASSUME NEW n \in Nat, n \in T PROVE n + 1 \in T
  <2> SUFFICES ASSUME n + 1 <= Len(d.stack) PROVE Fine(n + 1)
    OBVIOUS
  <2>1. CASE n + 1 < h
    BY <1>1, <2>1
  <2>2. CASE ~(n + 1 < h)
    <3>1. Fine(n)
      BY <1>0, <1>3
    <3>2. g[n + 1] = DrawTo(d, d.stack[n + 1], g[n], area)
      BY <1>0, <2>2 DEF Builds
    <3> QED BY <2>2, <3>1, <3>2, PaintedNext
  <2> QED BY <2>1, <2>2
<1> HIDE DEF T
<1>4. \A n \in Nat : n \in T
  BY <1>2, <1>3, Induction
<1> QED BY <1>0, <1>4 DEF T
-----------------------------------------------------------------------------
(* What a point of a buffer should show.                                   *)

\* No layer is in the stack twice, nothing is above the mouse.
Piled(d) ==
  /\ Stacked(d)
  /\ \A h, k \in DOMAIN d.stack : d.stack[h] = d.stack[k] => h = k
  /\ \A h \in DOMAIN d.stack : d.stack[h] = MouseLayer => h = Len(d.stack)
Ordered(d) ==
  /\ Stacked(d) /\ Len(d.stack) >= 3
  /\ \A h, k \in DOMAIN d.stack : d.stack[h] = d.stack[k] => h = k
  /\ d.stack[1] = Background /\ d.stack[2] = Console /\ d.stack[Len(d.stack)] = MouseLayer

Below(d, a, b) ==
  \E i, j \in DOMAIN d.stack : i <= j /\ d.stack[i] = a /\ d.stack[j] = b
\* l is the highest layer at point p, of those not in H.
Top(d, p, H, l) ==
  /\ InStack(d, l) /\ l \notin H /\ CoversIn(d, l, p)
  /\ \A a : InStack(d, a) /\ a \notin H /\ CoversIn(d, a, p) => Below(d, a, l)

\* x is the pixel of l at p, its text perhaps an earlier one if l is in V.
Near(d, V, l, p, x) ==
  \/ x = PixelAt(d, l, p)
  \/ /\ l \in V /\ Minus(p, d.pos[l]) \in Points(TextArea)
     /\ x[1] = l /\ x[2] = Minus(p, d.pos[l])
TopShown(d, V, p, H, x) == \E l : Top(d, p, H, l) /\ Near(d, V, l, p, x)
Right(d, V, p, x) ==
  \/ TopShown(d, V, p, {}, x)
  \/ MouseLayer \in V /\ Top(d, p, {}, MouseLayer) /\ TopShown(d, V, p, {MouseLayer}, x)
Exact(d, p, x) == \E l : Top(d, p, {}, l) /\ x = PixelAt(d, l, p)

\* Nothing in the stack is above the mouse.
LEMMA OrderedPiled == ASSUME NEW d, Ordered(d) PROVE Piled(d)
<1>1. Len(d.stack) \in DOMAIN d.stack
  BY DEF Ordered, Stacked
<1> QED BY <1>1 DEF Ordered, Piled

\* A point that shows the pixel of its highest layer is right.
LEMMA ExactIsRight ==
  ASSUME NEW d, NEW V, NEW p, NEW x, Exact(d, p, x) PROVE Right(d, V, p, x)
BY DEF Exact, Right, TopShown, Near

\* The last layer of the stack that covers a point is the highest there.
LEMMA TopHeight ==
  ASSUME NEW d, Piled(d), NEW p, NEW k \in DOMAIN d.stack, CoversIn(d, d.stack[k], p),
         \A j \in DOMAIN d.stack : j > k => ~CoversIn(d, d.stack[j], p)
  PROVE  Top(d, p, {}, d.stack[k])
<1>1. DOMAIN d.stack \subseteq Int
  BY DEF Piled, Stacked
<1>2. InStack(d, d.stack[k])
  BY DEF InStack
<1>3. ASSUME NEW a, InStack(d, a), CoversIn(d, a, p) PROVE Below(d, a, d.stack[k])
  <2>1. PICK j \in DOMAIN d.stack : d.stack[j] = a
    BY <1>3 DEF InStack
  <2>2. ~(j > k)
    BY <1>3, <2>1
  <2>3. j <= k
    BY <1>1, <2>2
  <2> QED BY <2>1, <2>3 DEF Below
<1> QED BY <1>2, <1>3 DEF Top

\* What is painted is right, and the rest is as it was.
LEMMA PaintedExact ==
  ASSUME NEW d, Piled(d), NEW h \in Nat \ {0}, NEW area, NEW p, NEW x,
         Painted(d, h, Len(d.stack), area, p, x)
  PROVE  \/ Exact(d, p, x)
         \/ /\ x = d.back[p]
            /\ p \in Points(area) => \A k \in h .. Len(d.stack) : ~CoversIn(d, d.stack[k], p)
<1> DEFINE n == Len(d.stack)
<1>0. n \in Nat /\ DOMAIN d.stack = 1 .. n
  BY DEF Piled, Stacked
<1>1. CASE x = d.back[p] /\ \A k \in h .. n : ~Paints(d, d.stack[k], area, p)
  BY <1>1 DEF Paints
<1>2. CASE \E k \in h .. n : PaintedBy(d, h, n, area, p, x, k)
  <2>1. PICK k \in h .. n : PaintedBy(d, h, n, area, p, x, k)
    BY <1>2
  <2>2. k \in DOMAIN d.stack /\ CoversIn(d, d.stack[k], p) /\ x = PixelAt(d, d.stack[k], p)
    BY <1>0, <2>1 DEF PaintedBy, Paints
  <2>3. ASSUME NEW j \in DOMAIN d.stack, j > k PROVE ~CoversIn(d, d.stack[j], p)
    <3>1. j \in k + 1 .. n
      BY <1>0, <2>3
    <3>2. ~Paints(d, d.stack[j], area, p)
      BY <2>1, <3>1 DEF PaintedBy
    <3>3. d.stack[k] # MouseLayer
      BY <1>0, <2>2, <2>3 DEF Piled
    <3>4. p \in Points(area)
      BY <2>1, <3>3 DEF PaintedBy, Paints
    <3> QED BY <3>2, <3>4 DEF Paints
  <2>4. Top(d, p, {}, d.stack[k])
    BY <2>2, <2>3, TopHeight
  <2> QED BY <2>2, <2>4 DEF Exact
<1> QED BY <1>1, <1>2 DEF Painted

\* r is d with other buffers, and perhaps other windows that are not yet drawn.
Redrawn(d, r) ==
  /\ IsRecord(r) /\ IsBuffer(r.back) /\ IsBuffer(r.screen)
  /\ r.pos = d.pos /\ r.stack = d.stack /\ r.lit = d.lit /\ r.text = d.text
  /\ r.active = d.active /\ r.task = d.task /\ r.told = d.told

\* Drawing moves no layer.
LEMMA RedrawnSame ==
  ASSUME NEW d, NEW r, Redrawn(d, r)
  PROVE  /\ DeskType(d) => DeskType(r)
         /\ Ordered(d) => Ordered(r)
         /\ \A l : Window(r, l) = Window(d, l) /\ Height(r, l) = Height(d, l)
         /\ \A l : InStack(r, l) <=> InStack(d, l)
BY DEF Redrawn, DeskType, Ordered, Stacked, LayersOf, Window, Height, InStack

\* Drawing changes neither what a layer covers nor its pixels.
LEMMA RedrawnCovers ==
  ASSUME NEW d, NEW r, Redrawn(d, r), NEW l, NEW p
  PROVE  (CoversIn(r, l, p) <=> CoversIn(d, l, p)) /\ PixelAt(r, l, p) = PixelAt(d, l, p)
BY DEF Redrawn, CoversIn, Window, PixelAt, Pixel

\* Drawing changes no point's highest layer.
LEMMA RedrawnTop ==
  ASSUME NEW d, NEW r, Redrawn(d, r), NEW p, NEW H, NEW l, Top(d, p, H, l)
  PROVE  Top(r, p, H, l)
<1>1. \A a : InStack(r, a) <=> InStack(d, a)
  BY RedrawnSame
<1>2. \A a : CoversIn(r, a, p) <=> CoversIn(d, a, p)
  BY RedrawnCovers
<1>3. \A a, b : Below(r, a, b) <=> Below(d, a, b)
  BY DEF Below, Redrawn
<1> QED BY <1>1, <1>2, <1>3 DEF Top

\* A pixel that is right stays right when other pixels are drawn.
LEMMA RedrawnRight ==
  ASSUME NEW d, NEW r, Redrawn(d, r), NEW p, NEW x
  PROVE  /\ \A V : Right(d, V, p, x) => Right(r, V, p, x)
         /\ Exact(d, p, x) => Exact(r, p, x)
<1>1. \A l : PixelAt(r, l, p) = PixelAt(d, l, p)
  BY RedrawnCovers
<1>2. \A V, l : Near(d, V, l, p, x) => Near(r, V, l, p, x)
  BY <1>1 DEF Near, Redrawn
<1>3. \A V, H : TopShown(d, V, p, H, x) => TopShown(r, V, p, H, x)
  BY <1>2, RedrawnTop DEF TopShown
<1>4. ASSUME NEW V, Right(d, V, p, x) PROVE Right(r, V, p, x)
  BY <1>3, <1>4, RedrawnTop DEF Right
<1>5. Exact(d, p, x) => Exact(r, p, x)
  BY <1>1, RedrawnTop DEF Exact
<1> QED BY <1>4, <1>5

-----------------------------------------------------------------------------
(* LayerManager::Draw and its callers.                                     *)

\* What drawing layers from height h on does to a point.
DrawnAt(d, r, h, area, p) ==
  /\ p \in Points(area) /\ (\E k \in h .. Len(d.stack) : CoversIn(d, d.stack[k], p)) =>
       Exact(d, p, r.back[p]) /\ Exact(d, p, r.screen[p])
  /\ \A V : Right(d, V, p, d.back[p]) => Right(d, V, p, r.back[p])
  /\ \A V : Right(d, V, p, d.back[p]) /\ Right(d, V, p, d.screen[p]) => Right(d, V, p, r.screen[p])

\* LayerManager::Draw: what the buffers have at each point, in the area and outside it.
LEMMA DrawFromIs ==
  ASSUME NEW d, DeskType(d), Piled(d), NEW h \in Nat \ {0}, NEW area \in Rectangles
  PROVE  LET r == DrawFrom(d, h, area)
         IN  /\ Redrawn(d, r) /\ r.undrawn = d.undrawn
             /\ \A p \in ScreenPoints : DrawnAt(d, r, h, area, p)
<1> DEFINE n == Len(d.stack)
           g == CHOOSE drawn : drawn =
                  [k \in 0 .. Len(d.stack) |->
                     IF k < h THEN d.back ELSE DrawTo(d, d.stack[k], drawn[k - 1], area)]
           C(B) == Copy(d.screen, Outline, area.pos, B, area)
           r == DrawFrom(d, h, area)
<1>0. n \in Nat /\ Stacked(d)
  BY DEF Piled, Stacked
<1>1. Builds(d, h, area, n, g)
  <2>1. \E f : Builds(d, h, area, n, f)
    BY <1>0, BuildsExists
  <2> QED BY <2>1 DEF Builds
<1>2. r = [d EXCEPT !.back = g[n], !.screen = C(g[n])]
  BY DEF DrawFrom
<1> HIDE DEF g, r
<1> DEFINE B == g[n]
<1>3. IsBuffer(B) /\ \A p \in ScreenPoints : Painted(d, h, n, area, p, B[p])
  BY <1>0, <1>1, BuildsPainted
<1> HIDE DEF B
<1>4. area.pos \in Vector /\ Rectangle(area.pos, area.size) = area
  BY DEF Rectangles, Rectangle
<1>5. /\ IsBuffer(C(B))
      /\ \A p \in ScreenPoints :
           /\ p \in Points(area) => C(B)[p] = B[Plus(Minus(p, area.pos), area.pos)]
           /\ p \notin Points(area) => C(B)[p] = d.screen[p]
  BY <1>4, CopyIs DEF DeskType
<1> DEFINE S == C(B)
<1>6. r = [d EXCEPT !.back = B, !.screen = S]
  BY <1>2 DEF B
<1> HIDE DEF S
<1>7. r.back = B /\ r.screen = S /\ r.undrawn = d.undrawn /\ Redrawn(d, r)
  <2>1. IsRecord(d)
    BY DEF DeskType
  <2>2. /\ r = [pos |-> d.pos, stack |-> d.stack, lit |-> d.lit, text |-> d.text,
                undrawn |-> d.undrawn, back |-> B, screen |-> S,
                active |-> d.active, task |-> d.task, told |-> d.told]
    BY <1>6, <2>1 DEF IsRecord
  <2>3. /\ r.pos = d.pos /\ r.stack = d.stack /\ r.lit = d.lit /\ r.text = d.text
        /\ r.active = d.active /\ r.task = d.task /\ r.told = d.told
        /\ r.back = B /\ r.screen = S /\ r.undrawn = d.undrawn
    BY <2>2
  <2>4. IsRecord(r)
    BY <2>2, <2>3 DEF IsRecord
  <2>5. IsBuffer(B) /\ IsBuffer(S)
    BY <1>3, <1>5 DEF S
  <2> QED BY <2>3, <2>4, <2>5 DEF Redrawn
<1>8. ASSUME NEW p \in ScreenPoints PROVE DrawnAt(d, r, h, area, p)
  <2>1. \/ Exact(d, p, B[p])
        \/ /\ B[p] = d.back[p]
           /\ p \in Points(area) => \A k \in h .. n : ~CoversIn(d, d.stack[k], p)
    BY <1>3, PaintedExact
  <2>2. S[p] = IF p \in Points(area) THEN B[p] ELSE d.screen[p]
    <3>1. Plus(Minus(p, area.pos), area.pos) = p
      BY <1>4, OutlineType DEF Plus, Minus, Vector
    <3> QED BY <1>5, <3>1 DEF S
  <2>3. ASSUME NEW V, Right(d, V, p, d.back[p]) PROVE Right(d, V, p, B[p])
    BY <2>1, <2>3, ExactIsRight
  <2> QED BY <1>7, <2>1, <2>2, <2>3 DEF DrawnAt
<1> QED BY <1>7, <1>8 DEF r

\* Every point not in S is right, in the back buffer and on the screen.
PointGood(d, p) == Right(d, d.undrawn, p, d.back[p]) /\ Right(d, d.undrawn, p, d.screen[p])
GoodBut(d, S) == \A p \in ScreenPoints : p \in S \/ PointGood(d, p)
Good(d) == GoodBut(d, {})

Ready(d) == DeskType(d) /\ Ordered(d) /\ d.pos[Background] = Origin

\* Drawing keeps the desk in order.
LEMMA RedrawnReady ==
  ASSUME NEW d, NEW r, Redrawn(d, r), Ready(d) PROVE Ready(r)
BY RedrawnSame DEF Ready, Redrawn

\* The desktop, the console and the mouse are three layers.
LEMMA FirstLayersApart ==
  /\ MouseLayer \in Nat /\ MouseLayer >= 3
  /\ Background = 1 /\ Console = 2
BY GeometryAssumption DEF MouseLayer, Background, Console

\* The desktop covers the screen.
LEMMA BackgroundCovers ==
  ASSUME NEW d, Ready(d), NEW p \in ScreenPoints
  PROVE  CoversIn(d, Background, p)
<1>0. Size(Background) = ScreenSize
  BY FirstLayersApart DEF Size
<1>1. Window(d, Background) = Outline
  BY <1>0 DEF Ready, Window, Outline
<1> QED BY <1>1, FirstLayersApart DEF CoversIn, ScreenPoints

\* An area that is drawn from the bottom is right.
LEMMA DrawAreaGood ==
  ASSUME NEW d, Ready(d), NEW area \in Rectangles, NEW S, GoodBut(d, S)
  PROVE  LET r == DrawArea(d, area)
         IN  Redrawn(d, r) /\ r.undrawn = d.undrawn /\ Ready(r) /\ GoodBut(r, S \ Points(area))
<1> DEFINE r == DrawArea(d, area)
<1>1. /\ Redrawn(d, r) /\ r.undrawn = d.undrawn
      /\ \A p \in ScreenPoints : DrawnAt(d, r, 1, area, p)
  BY DrawFromIs, OrderedPiled DEF DrawArea, Ready
<1> HIDE DEF r
<1>2. ASSUME NEW p \in ScreenPoints, p \notin S \ Points(area) PROVE PointGood(r, p)
  <2>1. CASE p \in Points(area)
    <3>1. 1 \in 1 .. Len(d.stack) /\ CoversIn(d, d.stack[1], p)
      BY BackgroundCovers DEF Ready, Ordered, Stacked
    <3>2. Exact(d, p, r.back[p]) /\ Exact(d, p, r.screen[p])
      BY <1>1, <2>1, <3>1 DEF DrawnAt
    <3>3. Exact(r, p, r.back[p]) /\ Exact(r, p, r.screen[p])
      BY <1>1, <3>2, RedrawnRight
    <3> QED BY <3>3, ExactIsRight DEF PointGood
  <2>2. CASE p \notin S
    <3>1. PointGood(d, p)
      BY <2>2 DEF GoodBut
    <3>2. Right(d, d.undrawn, p, r.back[p]) /\ Right(d, d.undrawn, p, r.screen[p])
      BY <1>1, <3>1 DEF DrawnAt, PointGood
    <3> QED BY <1>1, <3>2, RedrawnRight DEF PointGood
  <2> QED BY <1>2, <2>1, <2>2
<1> QED BY <1>1, <1>2, RedrawnReady DEF GoodBut, r

\* Nothing is drawn, but an area is copied to the screen.
LEMMA DrawGarbageGood ==
  ASSUME NEW d, Ready(d), NEW area \in Rectangles, NEW S, GoodBut(d, S)
  PROVE  LET r == DrawGarbage(d, area)
         IN  Redrawn(d, r) /\ r.undrawn = d.undrawn /\ Ready(r) /\ GoodBut(r, S)
<1> DEFINE r == DrawGarbage(d, area)
           h == Len(d.stack) + 1
<1>1. /\ Redrawn(d, r) /\ r.undrawn = d.undrawn
      /\ \A p \in ScreenPoints : DrawnAt(d, r, h, area, p)
  <2>1. h \in Nat \ {0}
    BY DEF Ready, Ordered, Stacked
  <2> QED BY <2>1, DrawFromIs, OrderedPiled DEF DrawGarbage, Ready
<1> HIDE DEF r
<1>2. ASSUME NEW p \in ScreenPoints, p \notin S PROVE PointGood(r, p)
  <2>1. PointGood(d, p)
    BY <1>2 DEF GoodBut
  <2>2. Right(d, d.undrawn, p, r.back[p]) /\ Right(d, d.undrawn, p, r.screen[p])
    BY <1>1, <2>1 DEF DrawnAt, PointGood
  <2> QED BY <1>1, <2>2, RedrawnRight DEF PointGood
<1> QED BY <1>1, <1>2, RedrawnReady DEF GoodBut, r

-----------------------------------------------------------------------------
(* Drawing one window: it, and what is above it.                           *)

\* The height of a layer of the stack is its place in it.
LEMMA HeightIs ==
  ASSUME NEW d, Ordered(d), NEW l, InStack(d, l)
  PROVE  Height(d, l) \in DOMAIN d.stack /\ d.stack[Height(d, l)] = l
BY DEF InStack, Height

\* What is in the stack is a layer.
LEMMA InStackIsLayer ==
  ASSUME NEW d, Ordered(d), NEW l, InStack(d, l) PROVE l \in LayersOf(d)
BY DEF InStack, Ordered, Stacked

\* The highest layer at a point that l covers is not below l.
LEMMA TopInArea ==
  ASSUME NEW d, NEW p, NEW l, CoversIn(d, l, p), InStack(d, l)
  PROVE  \A k : Top(d, p, {}, k) => Below(d, l, k)
BY DEF Top

\* As nothing says that l is not on the screen yet, if that is so.
LEMMA RightWithout ==
  ASSUME NEW d, NEW V, NEW l, NEW p, NEW x, Right(d, V, p, x), ~CoversIn(d, l, p)
  PROVE  Right(d, V \ {l}, p, x)
<1>1. \A H : TopShown(d, V, p, H, x) => TopShown(d, V \ {l}, p, H, x)
  BY DEF TopShown, Near, Top
<1> QED BY <1>1 DEF Right, Top

\* Where the text of l need not be drawn again, its pixel is right already.
LEMMA RightOutsideText ==
  ASSUME NEW d, NEW V, NEW l, l # MouseLayer, NEW p, NEW x, Right(d, V, p, x),
         Minus(p, d.pos[l]) \notin Points(TextArea)
  PROVE  Right(d, V \ {l}, p, x)
<1>1. \A H : TopShown(d, V, p, H, x) => TopShown(d, V \ {l}, p, H, x)
  BY DEF TopShown, Near
<1> QED BY <1>1 DEF Right

\* r is d with some of it drawn.
Refreshed(d, r) == Redrawn(d, r) /\ Ready(r)
\* What may be wrong is l, in the area; and no text of l outside it is out of date.
Settled(d, l, area) ==
  \A p \in ScreenPoints :
    \/ CoversIn(d, l, p) /\ p \in Points(area)
    \/ /\ PointGood(d, p)
       /\ ~CoversIn(d, l, p) \/ (l # MouseLayer /\ Minus(p, d.pos[l]) \notin Points(TextArea))
\* Every point is right that l does not cover.
GoodApart(d, l) == \A p \in ScreenPoints : CoversIn(d, l, p) \/ PointGood(d, p)

\* LayerManager::Draw of a layer: if nothing was wrong but the layer, in the area, then
\* nothing is wrong afterwards.
LEMMA DrawLayer ==
  ASSUME NEW d, Ready(d), NEW l, InStack(d, l), NEW area \in Rectangles
  PROVE  LET r == [DrawFrom(d, Height(d, l), area) EXCEPT !.undrawn = @ \ {l}]
         IN  /\ Refreshed(d, r) /\ r.undrawn = d.undrawn \ {l}
             /\ Settled(d, l, area) => Good(r)
<1> DEFINE h == Height(d, l)
           q == DrawFrom(d, h, area)
           r == [q EXCEPT !.undrawn = @ \ {l}]
<1>1. h \in DOMAIN d.stack /\ d.stack[h] = l /\ h \in Nat \ {0} /\ h \in h .. Len(d.stack)
  BY HeightIs DEF Ready, Ordered, Stacked
<1> HIDE DEF h
<1>2. /\ Redrawn(d, q) /\ q.undrawn = d.undrawn
      /\ \A p \in ScreenPoints : DrawnAt(d, q, h, area, p)
  BY <1>1, DrawFromIs, OrderedPiled DEF Ready
<1> HIDE DEF q
<1>3. Redrawn(q, r) /\ r.undrawn = d.undrawn \ {l} /\ r.back = q.back /\ r.screen = q.screen
  <2>1. IsRecord(q) /\ IsBuffer(q.back) /\ IsBuffer(q.screen)
    BY <1>2 DEF Redrawn
  <2>2. r = [pos |-> q.pos, stack |-> q.stack, lit |-> q.lit, text |-> q.text,
             undrawn |-> q.undrawn \ {l}, back |-> q.back, screen |-> q.screen,
             active |-> q.active, task |-> q.task, told |-> q.told]
    BY <2>1 DEF IsRecord
  <2> HIDE DEF r
  <2>3. /\ r.pos = q.pos /\ r.stack = q.stack /\ r.lit = q.lit /\ r.text = q.text
        /\ r.active = q.active /\ r.task = q.task /\ r.told = q.told
        /\ r.back = q.back /\ r.screen = q.screen /\ r.undrawn = q.undrawn \ {l}
    BY <2>2
  <2>4. IsRecord(r)
    BY <2>2, <2>3 DEF IsRecord
  <2> QED BY <1>2, <2>1, <2>3, <2>4 DEF Redrawn
<1> HIDE DEF r
<1>4. Redrawn(d, r)
  BY <1>2, <1>3 DEF Redrawn
<1>5. ASSUME Settled(d, l, area), NEW p \in ScreenPoints PROVE PointGood(r, p)
  <2>1. CASE p \in Points(area) /\ CoversIn(d, l, p)
    <3>1. Exact(d, p, q.back[p]) /\ Exact(d, p, q.screen[p])
      BY <1>1, <1>2, <2>1 DEF DrawnAt
    <3>2. Exact(r, p, r.back[p]) /\ Exact(r, p, r.screen[p])
      BY <1>3, <1>4, <3>1, RedrawnRight
    <3> QED BY <3>2, ExactIsRight DEF PointGood
  <2>2. CASE ~(p \in Points(area) /\ CoversIn(d, l, p))
    <3>1. /\ PointGood(d, p)
          /\ ~CoversIn(d, l, p) \/ (l # MouseLayer /\ Minus(p, d.pos[l]) \notin Points(TextArea))
      BY <1>5, <2>2 DEF Settled
    <3>2. Right(d, d.undrawn, p, q.back[p]) /\ Right(d, d.undrawn, p, q.screen[p])
      BY <1>2, <3>1 DEF DrawnAt, PointGood
    <3>3. Right(d, d.undrawn \ {l}, p, q.back[p]) /\ Right(d, d.undrawn \ {l}, p, q.screen[p])
      <4>1. CASE ~CoversIn(d, l, p)
        BY <3>2, <4>1, RightWithout
      <4>2. CASE l # MouseLayer /\ Minus(p, d.pos[l]) \notin Points(TextArea)
        BY <3>2, <4>2, RightOutsideText
      <4> QED BY <3>1, <4>1, <4>2
    <3>4. /\ Right(r, d.undrawn \ {l}, p, q.back[p])
          /\ Right(r, d.undrawn \ {l}, p, q.screen[p])
      BY <1>4, <3>3, RedrawnRight
    <3> QED BY <1>3, <3>4 DEF PointGood
  <2> QED BY <2>1, <2>2
<1>6. Settled(d, l, area) => Good(r)
  BY <1>5 DEF Good, GoodBut
<1>7. Ready(r)
  BY <1>4, RedrawnReady
<1> QED BY <1>3, <1>4, <1>6, <1>7 DEF Refreshed, r, q, h

\* LayerManager::Draw(id): afterwards nothing of the window is out of date.
LEMMA DrawGood ==
  ASSUME NEW d, Ready(d), NEW l, InStack(d, l)
  PROVE  LET r == Draw(d, l)
         IN  /\ Refreshed(d, r) /\ r.undrawn = d.undrawn \ {l}
             /\ GoodApart(d, l) => Good(r)
<1> DEFINE area == Window(d, l)
<1>1. l \in LayersOf(d) /\ DeskType(d)
  BY InStackIsLayer DEF Ready
<1>2. area \in Rectangles
  BY <1>1, WindowType
<1>3. \A p \in ScreenPoints : CoversIn(d, l, p) => p \in Points(area)
  BY <1>1, CoversInWindow
<1>5. GoodApart(d, l) => Settled(d, l, area)
  BY <1>3 DEF GoodApart, Settled
<1> HIDE DEF area
<1> DEFINE r == [DrawFrom(d, Height(d, l), area) EXCEPT !.undrawn = @ \ {l}]
<1>4. /\ Refreshed(d, r) /\ r.undrawn = d.undrawn \ {l}
      /\ Settled(d, l, area) => Good(r)
  BY <1>2, DrawLayer
<1> QED BY <1>4, <1>5 DEF Draw, area

\* The part of a terminal's window that its text is in.
LEMMA DrawPartGood ==
  ASSUME NEW d, Ready(d), NEW l, InStack(d, l), l # MouseLayer
  PROVE  LET r == DrawPart(d, l, TextArea)
         IN  /\ Refreshed(d, r) /\ r.undrawn = d.undrawn \ {l}
             /\ Good(d) => Good(r)
<1> DEFINE text == Rectangle(Plus(TextArea.pos, d.pos[l]), TextArea.size)
           area == Intersection(Window(d, l), text)
<1>1. l \in LayersOf(d) /\ DeskType(d)
  BY InStackIsLayer DEF Ready
<1>2. TextArea \in Rectangles
  BY GeometryAssumption
<1>3. TextArea.pos \in Vector /\ TextArea.size \in Vector
  BY <1>2 DEF Rectangles
<1>4. Window(d, l) \in Rectangles /\ d.pos[l] \in Vector
  BY <1>1, WindowType
<1>5. text \in Rectangles /\ area \in Rectangles /\ text.size = TextArea.size
      /\ text.pos = Plus(TextArea.pos, d.pos[l])
  BY <1>3, <1>4, VectorType, RectangleType, IntersectionType
<1>6. ASSUME NEW p \in ScreenPoints, CoversIn(d, l, p), Minus(p, d.pos[l]) \in Points(TextArea)
      PROVE  p \in Points(area)
  <2>1. p \in Vector /\ p \in Points(Window(d, l))
    BY <1>1, <1>6, OutlineType, CoversInWindow
  <2> DEFINE o == Minus(p, d.pos[l])
             v == TextArea.pos
  <2>2. o \in Vector /\ Within(o, v, TextArea.size, 1) /\ Within(o, v, TextArea.size, 2)
    BY <1>2, <1>6, InPoints
  <2>3. \A n \in {1, 2} : Within(o, v, TextArea.size, n) <=> Within(p, text.pos, text.size, n)
    <3> TAKE n \in {1, 2}
    <3>1. o[n] = p[n] - d.pos[l][n] /\ text.pos[n] = v[n] + d.pos[l][n]
      BY <1>3, <1>4, <1>5, <2>1, Coordinates
    <3>2. p[n] \in Int /\ d.pos[l][n] \in Int /\ v[n] \in Int /\ TextArea.size[n] \in Int
      BY <1>3, <1>4, <2>1, Coordinates
    <3> HIDE DEF o, v, text
    <3> QED BY <1>5, <3>1, <3>2 DEF Within
  <2>4. p \in Points(text)
    BY <1>5, <2>1, <2>2, <2>3, InPoints
  <2> QED BY <1>4, <1>5, <2>1, <2>4, InIntersection
<1> HIDE DEF area
<1> DEFINE r == [DrawFrom(d, Height(d, l), area) EXCEPT !.undrawn = @ \ {l}]
<1>7. Good(d) => Settled(d, l, area)
  BY <1>6 DEF Good, GoodBut, Settled
<1>8. /\ Refreshed(d, r) /\ r.undrawn = d.undrawn \ {l}
      /\ Settled(d, l, area) => Good(r)
  BY <1>5, DrawLayer
<1> QED BY <1>7, <1>8 DEF DrawPart, area

-----------------------------------------------------------------------------
(* Stacks: taking a layer out and putting it in.                           *)

InSeq(s, a) == \E i \in DOMAIN s : s[i] = a
BelowIn(s, a, b) == \E i, j \in DOMAIN s : i <= j /\ s[i] = a /\ s[j] = b
Distinct(s) == \A i, j \in DOMAIN s : s[i] = s[j] => i = j

\* s with something at place i that is not in r.
Extends(s, r, i) ==
  /\ Len(s) = Len(r) + 1
  /\ \A k \in 1 .. Len(r) : r[k] = IF k < i THEN s[k] ELSE s[k + 1]

IsConcat(S, a, b, r) ==
  /\ r \in Seq(S) /\ Len(r) = Len(a) + Len(b)
  /\ \A k \in 1 .. Len(a) : r[k] = a[k]
  /\ \A k \in 1 .. Len(b) : r[Len(a) + k] = b[k]
\* Two sequences joined, element by element.
LEMMA ConcatIs ==
  ASSUME NEW S, NEW a \in Seq(S), NEW b \in Seq(S) PROVE IsConcat(S, a, b, a \o b)
BY DEF IsConcat

\* The sequence without its i-th element.
LEMMA RemoveIs ==
  ASSUME NEW S, NEW s \in Seq(S), Distinct(s), NEW i \in 1 .. Len(s)
  PROVE  LET r == SE!RemoveFirst(s, s[i]) IN r \in Seq(S) /\ Extends(s, r, i)
<1> DEFINE l == s[i]
<1>1. {j \in 1 .. Len(s) : s[j] = l} = {i}
  BY DEF Distinct
<1>2. SE!Min({i}) = i
  BY DEF SE!Min
<1>3. SE!RemoveFirst(s, l) = SubSeq(s, 1, i - 1) \o SubSeq(s, i + 1, Len(s))
  BY <1>1, <1>2 DEF SE!RemoveFirst, SE!SelectInSeq, SE!RemoveAt
<1> DEFINE a == SubSeq(s, 1, i - 1)
           b == SubSeq(s, i + 1, Len(s))
<1>4. a \in Seq(S) /\ Len(a) = i - 1 /\ \A k \in 1 .. i - 1 : a[k] = s[k]
  OBVIOUS
<1>5. b \in Seq(S) /\ Len(b) = Len(s) - i /\ \A k \in 1 .. Len(s) - i : b[k] = s[k + i]
  OBVIOUS
<1> HIDE DEF a, b
<1> DEFINE r == a \o b
<1>6. /\ r \in Seq(S) /\ Len(r) = Len(a) + Len(b)
      /\ \A k \in 1 .. Len(a) : r[k] = a[k]
      /\ \A k \in 1 .. Len(b) : r[Len(a) + k] = b[k]
  <2>1. IsConcat(S, a, b, a \o b)
    BY <1>4, <1>5, ConcatIs
  <2> QED BY <2>1 DEF IsConcat
<1> HIDE DEF r
<1>7. Len(r) = Len(s) - 1
  BY <1>4, <1>5, <1>6
<1>8. Extends(s, r, i)
  <2>1. ASSUME NEW k \in 1 .. Len(r) PROVE r[k] = IF k < i THEN s[k] ELSE s[k + 1]
    <3>1. CASE k < i
      BY <3>1, <1>4, <1>6
    <3>2. CASE ~(k < i)
      <4> DEFINE j == k - (i - 1)
      <4>1. j \in 1 .. Len(s) - i /\ j + i = k + 1 /\ (i - 1) + j = k
        BY <3>2, <1>7
      <4> HIDE DEF j
      <4>2. r[(i - 1) + j] = b[j]
        BY <4>1, <1>4, <1>5, <1>6
      <4> QED BY <3>2, <4>1, <4>2, <1>5
    <3> QED BY <3>1, <3>2
  <2> QED BY <1>7, <2>1 DEF Extends
<1> QED BY <1>3, <1>6, <1>8 DEF r, a, b

\* Erasing what is not in the stack changes nothing.
LEMMA RemoveNothing ==
  ASSUME NEW S, NEW s \in Seq(S), NEW l, ~InSeq(s, l)
  PROVE  SE!RemoveFirst(s, l) = s
<1>1. ~\E i \in 1 .. Len(s) : s[i] = l
  BY DEF InSeq
<1> QED BY <1>1 DEF SE!RemoveFirst

\* The sequence with an element put in at place i.
LEMMA InsertIs ==
  ASSUME NEW S, NEW r \in Seq(S), NEW l \in S, NEW i \in 1 .. Len(r) + 1
  PROVE  LET s == SE!InsertAt(r, i, l) IN s \in Seq(S) /\ Extends(s, r, i) /\ s[i] = l
<1> DEFINE a == SubSeq(r, 1, i - 1)
           b == SubSeq(r, i, Len(r))
           c == <<l>>
           s == (a \o c) \o b
<1>1. a \in Seq(S) /\ Len(a) = i - 1 /\ \A k \in 1 .. i - 1 : a[k] = r[k]
  OBVIOUS
<1>2. b \in Seq(S) /\ Len(b) = (Len(r) + 1) - i /\ \A k \in 1 .. (Len(r) + 1) - i : b[k] = r[k + (i - 1)]
  OBVIOUS
<1>3. c \in Seq(S) /\ Len(c) = 1 /\ c[1] = l
  OBVIOUS
<1> HIDE DEF a, b, c
<1> DEFINE ac == a \o c
<1>4. /\ ac \in Seq(S) /\ Len(ac) = Len(a) + Len(c)
      /\ \A k \in 1 .. Len(a) : ac[k] = a[k]
      /\ \A k \in 1 .. Len(c) : ac[Len(a) + k] = c[k]
  <2>1. IsConcat(S, a, c, a \o c)
    BY <1>1, <1>3, ConcatIs
  <2> QED BY <2>1 DEF IsConcat
<1>5. s = ac \o b
  OBVIOUS
<1> HIDE DEF ac, s
<1>6. Len(ac) = i /\ (\A k \in 1 .. i - 1 : ac[k] = r[k]) /\ ac[i] = l
  <2>1. Len(ac) = i /\ \A k \in 1 .. i - 1 : ac[k] = r[k]
    BY <1>1, <1>3, <1>4
  <2>2. ac[Len(a) + 1] = c[1]
    BY <1>3, <1>4
  <2> QED BY <1>1, <1>3, <2>1, <2>2
<1>7. /\ s \in Seq(S) /\ Len(s) = Len(ac) + Len(b)
      /\ \A k \in 1 .. Len(ac) : s[k] = ac[k]
      /\ \A k \in 1 .. Len(b) : s[Len(ac) + k] = b[k]
  <2>1. IsConcat(S, ac, b, ac \o b)
    BY <1>2, <1>4, ConcatIs
  <2> QED BY <1>5, <2>1 DEF IsConcat
<1>9. s[i] = l /\ Len(s) = Len(r) + 1
  BY <1>2, <1>6, <1>7
<1>10. ASSUME NEW k \in 1 .. Len(r) PROVE r[k] = IF k < i THEN s[k] ELSE s[k + 1]
  <2>1. CASE k < i
    BY <2>1, <1>6, <1>7
  <2>2. CASE ~(k < i)
    <3> DEFINE j == (k + 1) - i
    <3>1. j \in 1 .. (Len(r) + 1) - i /\ j + (i - 1) = k /\ i + j = k + 1
      BY <2>2
    <3> HIDE DEF j
    <3>2. s[i + j] = b[j] /\ b[j] = r[j + (i - 1)]
      BY <3>1, <1>2, <1>6, <1>7
    <3> QED BY <2>2, <3>1, <3>2
  <2> QED BY <2>1, <2>2
<1>8. SE!InsertAt(r, i, l) = s
  BY DEF SE!InsertAt, s, ac, a, b, c
<1> QED BY <1>7, <1>8, <1>9, <1>10 DEF Extends

\* What is in r is in s, in the same order.
LEMMA ExtendsOrder ==
  ASSUME NEW S, NEW s \in Seq(S), NEW r \in Seq(S), NEW i \in 1 .. Len(s), Extends(s, r, i)
  PROVE  /\ \A a : a # s[i] => (InSeq(r, a) <=> InSeq(s, a))
         /\ \A a, b : a # s[i] /\ b # s[i] => (BelowIn(r, a, b) <=> BelowIn(s, a, b))
         /\ Distinct(s) => Distinct(r) /\ ~InSeq(r, s[i])
         /\ Distinct(r) /\ ~InSeq(r, s[i]) => Distinct(s)
<1> DEFINE Up(k) == IF k < i THEN k ELSE k + 1
           Down(k) == IF k < i THEN k ELSE k - 1
<1>0. DOMAIN s = 1 .. Len(s) /\ DOMAIN r = 1 .. Len(r) /\ Len(s) = Len(r) + 1
      /\ Len(r) \in Nat
  BY DEF Extends
<1>1. \A k \in DOMAIN r : Up(k) \in DOMAIN s /\ s[Up(k)] = r[k] /\ Up(k) # i
  BY <1>0 DEF Extends
<1>2. \A k \in DOMAIN s : k # i => Down(k) \in DOMAIN r /\ r[Down(k)] = s[k]
  <2> TAKE k \in DOMAIN s
  <2>1. CASE k < i
    BY <1>0, <2>1 DEF Extends
  <2>2. CASE k > i
    <3>1. k - 1 \in 1 .. Len(r) /\ ~(k - 1 < i) /\ (k - 1) + 1 = k /\ Down(k) = k - 1
      BY <1>0, <2>2
    <3> QED BY <1>0, <3>1 DEF Extends
  <2> QED BY <1>0, <2>1, <2>2
<1>3. \A j, k \in DOMAIN r : j <= k <=> Up(j) <= Up(k)
  BY <1>0
<1>4. \A j, k \in DOMAIN s : j # i /\ k # i => (j <= k <=> Down(j) <= Down(k))
  BY <1>0
<1>5. \A j, k \in DOMAIN r : Up(j) = Up(k) => j = k
  BY <1>0
<1>6. \A j, k \in DOMAIN s : j # i /\ k # i /\ Down(j) = Down(k) => j = k
  BY <1>0
<1> HIDE DEF Up, Down
<1>7. ASSUME NEW a, a # s[i] PROVE InSeq(r, a) <=> InSeq(s, a)
  BY <1>1, <1>2, <1>7 DEF InSeq
<1>8. ASSUME NEW a, NEW b, a # s[i], b # s[i] PROVE BelowIn(r, a, b) <=> BelowIn(s, a, b)
  <2>1. ASSUME BelowIn(r, a, b) PROVE BelowIn(s, a, b)
    <3>1. PICK j \in DOMAIN r, k \in DOMAIN r : j <= k /\ r[j] = a /\ r[k] = b
      BY <2>1 DEF BelowIn
    <3>2. Up(j) \in DOMAIN s /\ Up(k) \in DOMAIN s /\ Up(j) <= Up(k) /\ s[Up(j)] = a /\ s[Up(k)] = b
      BY <1>1, <1>3, <3>1
    <3> QED BY <3>2 DEF BelowIn
  <2>2. ASSUME BelowIn(s, a, b) PROVE BelowIn(r, a, b)
    <3>1. PICK j \in DOMAIN s, k \in DOMAIN s : j <= k /\ s[j] = a /\ s[k] = b
      BY <2>2 DEF BelowIn
    <3>2. /\ Down(j) \in DOMAIN r /\ Down(k) \in DOMAIN r /\ Down(j) <= Down(k)
          /\ r[Down(j)] = a /\ r[Down(k)] = b
      BY <1>2, <1>4, <1>8, <3>1
    <3> QED BY <3>2 DEF BelowIn
  <2> QED BY <2>1, <2>2
<1>9. ASSUME Distinct(s) PROVE Distinct(r) /\ ~InSeq(r, s[i])
  <2>1. ASSUME NEW j \in DOMAIN r, NEW k \in DOMAIN r, r[j] = r[k] PROVE j = k
    <3>1. s[Up(j)] = s[Up(k)] /\ Up(j) \in DOMAIN s /\ Up(k) \in DOMAIN s
      BY <1>1, <2>1
    <3> QED BY <1>5, <1>9, <3>1 DEF Distinct
  <2>2. ASSUME NEW j \in DOMAIN r, r[j] = s[i] PROVE FALSE
    <3>1. s[Up(j)] = s[i] /\ Up(j) \in DOMAIN s /\ Up(j) # i /\ i \in DOMAIN s
      BY <1>0, <1>1, <2>2
    <3> QED BY <1>9, <3>1 DEF Distinct
  <2> QED BY <2>1, <2>2 DEF Distinct, InSeq
<1>10. ASSUME Distinct(r), ~InSeq(r, s[i]) PROVE Distinct(s)
  <2> SUFFICES ASSUME NEW j \in DOMAIN s, NEW k \in DOMAIN s, s[j] = s[k] PROVE j = k
    BY DEF Distinct
  <2>1. CASE j = i /\ k # i
    <3>1. Down(k) \in DOMAIN r /\ r[Down(k)] = s[i]
      BY <1>2, <2>1
    <3> QED BY <1>10, <3>1 DEF InSeq
  <2>2. CASE k = i /\ j # i
    <3>1. Down(j) \in DOMAIN r /\ r[Down(j)] = s[i]
      BY <1>2, <2>2
    <3> QED BY <1>10, <3>1 DEF InSeq
  <2>3. CASE j # i /\ k # i
    <3>1. r[Down(j)] = r[Down(k)] /\ Down(j) \in DOMAIN r /\ Down(k) \in DOMAIN r
      BY <1>2, <2>3
    <3>2. Down(j) = Down(k)
      BY <1>10, <3>1 DEF Distinct
    <3> QED BY <1>6, <2>3, <3>2
  <2> QED BY <2>1, <2>2, <2>3
<1> QED BY <1>7, <1>8, <1>9, <1>10

\* Put in and taken out again.
LEMMA RemoveInserted ==
  ASSUME NEW S, NEW s \in Seq(S), NEW r \in Seq(S), NEW i \in 1 .. Len(s), Extends(s, r, i),
         Distinct(s)
  PROVE  SE!RemoveFirst(s, s[i]) = r
<1> DEFINE q == SE!RemoveFirst(s, s[i])
<1>1. q \in Seq(S) /\ Extends(s, q, i)
  BY RemoveIs
<1> HIDE DEF q
<1>2. Len(q) = Len(r) /\ \A k \in 1 .. Len(r) : q[k] = r[k]
  BY <1>1 DEF Extends
<1> QED BY <1>1, <1>2 DEF q

\* What is left of the stack without l.
IsRest(d, l, r) ==
  /\ r \in Seq(LayersOf(d)) /\ Distinct(r) /\ ~InSeq(r, l)
  /\ Len(r) >= 3 /\ r[1] = Background /\ r[2] = Console /\ r[Len(r)] = MouseLayer
  /\ \A a : a # l => (InSeq(r, a) <=> InStack(d, a))
  /\ \A a, b : a # l /\ b # l => (BelowIn(r, a, b) <=> Below(d, a, b))

\* LayerManager::UpDown takes a window out: the others keep their order.
LEMMA RestIs ==
  ASSUME NEW d, Ordered(d), NEW l, IsDraggable(l)
  PROVE  IsRest(d, l, SE!RemoveFirst(d.stack, l))
<1> DEFINE s == d.stack
           L == LayersOf(d)
           r == SE!RemoveFirst(s, l)
<1>1. /\ s \in Seq(L) /\ Len(s) >= 3 /\ Distinct(s)
      /\ s[1] = Background /\ s[2] = Console /\ s[Len(s)] = MouseLayer
  BY DEF Ordered, Stacked, Distinct
<1>2. l \notin {Background, Console, MouseLayer}
  BY DEF IsDraggable
<1>3. /\ \A a : InSeq(s, a) <=> InStack(d, a)
      /\ \A a, b : BelowIn(s, a, b) <=> Below(d, a, b)
  BY DEF InSeq, InStack, BelowIn, Below
<1>4. CASE ~InSeq(s, l)
  <2>1. r = s
    BY <1>1, <1>4, RemoveNothing
  <2> QED BY <1>1, <1>3, <1>4, <2>1 DEF IsRest
<1>5. CASE InSeq(s, l)
  <2>1. PICK i \in 1 .. Len(s) : s[i] = l
    BY <1>1, <1>5 DEF InSeq
  <2> HIDE DEF s, L
  <2>2. r \in Seq(L) /\ Extends(s, r, i)
    BY <1>1, <2>1, RemoveIs
  <2> HIDE DEF r
  <2>3. i # 1 /\ i # 2 /\ i # Len(s)
    BY <1>1, <1>2, <2>1
  <2>4. Len(r) = Len(s) - 1 /\ Len(r) >= 3
    <3>3. Len(r) \in Nat /\ Len(s) \in Nat
      BY <1>1, <2>2
    <3>1. Len(r) = Len(s) - 1
      BY <2>2, <3>3 DEF Extends
    <3>2. Len(s) # 3
      <4> DEFINE n == Len(s)
      <4>1. i \in 1 .. n /\ n \in Nat /\ i # 1 /\ i # 2 /\ i # n
        BY <2>1, <2>3, <3>3
      <4> HIDE DEF n
      <4>2. n # 3
        BY <4>1
      <4> QED BY <4>2 DEF n
    <3> QED BY <1>1, <3>1, <3>2, <3>3
  <2>5. r[1] = Background /\ r[2] = Console /\ r[Len(r)] = MouseLayer
    <3>1. 1 \in 1 .. Len(r) /\ 2 \in 1 .. Len(r) /\ Len(r) \in 1 .. Len(r)
      BY <2>4, <2>2
    <3>2. 1 < i /\ 2 < i /\ ~(Len(r) < i) /\ Len(r) + 1 = Len(s)
      BY <2>1, <2>3, <2>4, <2>2
    <3> QED BY <1>1, <2>2, <3>1, <3>2 DEF Extends
  <2>6. /\ Distinct(r) /\ ~InSeq(r, s[i])
        /\ \A a : a # s[i] => (InSeq(r, a) <=> InSeq(s, a))
        /\ \A a, b : a # s[i] /\ b # s[i] => (BelowIn(r, a, b) <=> BelowIn(s, a, b))
    BY <1>1, <2>2, ExtendsOrder
  <2>7. IsRest(d, l, r)
    BY <1>3, <2>1, <2>2, <2>4, <2>5, <2>6 DEF IsRest, L
  <2> QED BY <2>7 DEF r, s
<1> QED BY <1>4, <1>5

\* The stack after l has been put below the mouse.
IsRaised(d, l, q) ==
  /\ q \in Seq(LayersOf(d)) /\ Distinct(q)
  /\ Len(q) >= 4 /\ q[1] = Background /\ q[2] = Console
  /\ q[Len(q)] = MouseLayer /\ q[Len(q) - 1] = l
  /\ \A a : a # l => (InSeq(q, a) <=> InStack(d, a))
  /\ \A a, b : a # l /\ b # l => (BelowIn(q, a, b) <=> Below(d, a, b))

\* ... and puts it in again: they still do.
LEMMA InsertedOrder ==
  ASSUME NEW d, NEW l \in LayersOf(d), NEW r, IsRest(d, l, r), NEW i \in 1 .. Len(r) + 1
  PROVE  LET s == SE!InsertAt(r, i, l)
         IN  /\ s \in Seq(LayersOf(d)) /\ Extends(s, r, i) /\ s[i] = l /\ Distinct(s)
             /\ i \in 1 .. Len(s)
             /\ \A a : a # l => (InSeq(s, a) <=> InStack(d, a))
             /\ \A a, b : a # l /\ b # l => (BelowIn(s, a, b) <=> Below(d, a, b))
<1> DEFINE L == LayersOf(d)
           s == SE!InsertAt(r, i, l)
<1>1. r \in Seq(L) /\ Distinct(r) /\ ~InSeq(r, l)
  BY DEF IsRest
<1> HIDE DEF L
<1>2. s \in Seq(L) /\ Extends(s, r, i) /\ s[i] = l
  BY <1>1, InsertIs DEF L
<1> HIDE DEF s
<1>3. i \in 1 .. Len(s)
  BY <1>1, <1>2 DEF Extends
<1>4. /\ Distinct(s)
      /\ \A a : a # l => (InSeq(r, a) <=> InSeq(s, a))
      /\ \A a, b : a # l /\ b # l => (BelowIn(r, a, b) <=> BelowIn(s, a, b))
  <2>1. /\ Distinct(r) /\ ~InSeq(r, s[i]) => Distinct(s)
        /\ \A a : a # s[i] => (InSeq(r, a) <=> InSeq(s, a))
        /\ \A a, b : a # s[i] /\ b # s[i] => (BelowIn(r, a, b) <=> BelowIn(s, a, b))
    BY <1>1, <1>2, <1>3, ExtendsOrder
  <2> QED BY <1>1, <1>2, <2>1
<1> QED BY <1>2, <1>3, <1>4 DEF IsRest, L, s

\* A layer is in the stack once.
LEMMA UniqueHeight ==
  ASSUME NEW d, Distinct(d.stack), NEW h \in DOMAIN d.stack
  PROVE  Height(d, d.stack[h]) = h /\ InStack(d, d.stack[h])
BY DEF Height, Distinct, InStack

\* r is d with l lit, and stack q.
IsLit(d, l, q, r) ==
  r = [pos |-> d.pos, stack |-> q, lit |-> d.lit \cup {l}, text |-> d.text,
       undrawn |-> d.undrawn, back |-> d.back, screen |-> d.screen,
       active |-> d.active, task |-> d.task, told |-> d.told]

\* ActiveLayer::Activate raises a window in two calls of UpDown: it ends up just below the
\* mouse, and the others keep their order.
LEMMA RaisedIs ==
  ASSUME NEW d, DeskType(d), Ordered(d), NEW l \in LayersOf(d), IsDraggable(l)
  PROVE  \E q : IsRaised(d, l, q) /\ IsLit(d, l, q, Raised(d, l))
<1> DEFINE r == SE!RemoveFirst(d.stack, l)
           lit == [d EXCEPT !.lit = @ \cup {l}]
           low == UpDown(lit, l, 0)
<1>1. IsRest(d, l, r)
  BY RestIs
<1>2. Len(d.stack) \in Nat /\ Len(d.stack) >= 3
  BY DEF Ordered, Stacked
<1>3. /\ lit = [pos |-> d.pos, stack |-> d.stack, lit |-> d.lit \cup {l}, text |-> d.text,
                undrawn |-> d.undrawn, back |-> d.back, screen |-> d.screen,
                active |-> d.active, task |-> d.task, told |-> d.told]
  BY DEF DeskType, IsRecord
<1>4. lit.stack = d.stack
  BY <1>3
<1> DEFINE s == SE!InsertAt(r, 1, l)
<1>5. low = [lit EXCEPT !.stack = s]
  <2>1. ~(0 < 0) /\ Lower(0, Len(lit.stack)) = 0 /\ 0 # Len(lit.stack) /\ 0 + 1 = 1
    BY <1>2, <1>4 DEF Lower
  <2> HIDE DEF lit
  <2> QED BY <1>4, <2>1 DEF UpDown
<1> HIDE DEF low, lit
<1>6. low = [pos |-> d.pos, stack |-> s, lit |-> d.lit \cup {l}, text |-> d.text,
             undrawn |-> d.undrawn, back |-> d.back, screen |-> d.screen,
             active |-> d.active, task |-> d.task, told |-> d.told]
  BY <1>3, <1>5
<1>7. low.stack = s
  BY <1>6
<1>8. /\ r \in Seq(LayersOf(d)) /\ Len(r) >= 3 /\ Len(r) \in Nat
      /\ r[1] = Background /\ r[2] = Console /\ r[Len(r)] = MouseLayer
  BY <1>1 DEF IsRest
<1> HIDE DEF r, s
<1>9. s \in Seq(LayersOf(d)) /\ Extends(s, r, 1) /\ s[1] = l /\ Distinct(s)
  <2>1. 1 \in 1 .. Len(r) + 1
    BY <1>8
  <2> QED BY <1>1, <2>1, InsertedOrder DEF s
<1>10. Len(s) = Len(r) + 1 /\ s[Len(r) + 1] = MouseLayer
  <2>1. Len(r) \in 1 .. Len(r) /\ ~(Len(r) < 1)
    BY <1>8
  <2> QED BY <1>8, <1>9, <2>1 DEF Extends
<1>11. GetHeight(low, MouseLayer) = Len(r)
  <2>1. Len(r) + 1 \in DOMAIN low.stack
    BY <1>7, <1>8, <1>9, <1>10
  <2>2. Height(low, MouseLayer) = Len(r) + 1 /\ InStack(low, MouseLayer)
    BY <1>7, <1>9, <1>10, <2>1, UniqueHeight
  <2> QED BY <1>8, <2>2 DEF GetHeight
<1>12. SE!RemoveFirst(s, l) = r
  <2>1. 1 \in 1 .. Len(s)
    BY <1>8, <1>10
  <2>2. SE!RemoveFirst(s, s[1]) = r
    BY <1>8, <1>9, <2>1, RemoveInserted
  <2> QED BY <1>9, <2>2
<1> DEFINE q == SE!InsertAt(r, Len(r), l)
           high == UpDown(low, l, Len(r) - 1)
<1>13. high = [low EXCEPT !.stack = q]
  <2>1. /\ ~(Len(r) - 1 < 0) /\ Lower(Len(r) - 1, Len(low.stack)) = Len(r) - 1
        /\ Len(r) - 1 # Len(low.stack) /\ (Len(r) - 1) + 1 = Len(r)
    BY <1>7, <1>8, <1>10 DEF Lower
  <2> QED BY <1>7, <1>12, <2>1 DEF UpDown
<1>14. Raised(d, l) = high
  BY <1>11 DEF Raised, low, lit
<1> HIDE DEF q, high
<1>15. IsLit(d, l, q, high)
  BY <1>6, <1>13 DEF IsLit
<1>16. Len(r) \in 1 .. Len(r) + 1
  BY <1>8
<1>17. /\ q \in Seq(LayersOf(d)) /\ Extends(q, r, Len(r)) /\ q[Len(r)] = l /\ Distinct(q)
       /\ \A a : a # l => (InSeq(q, a) <=> InStack(d, a))
       /\ \A a, b : a # l /\ b # l => (BelowIn(q, a, b) <=> Below(d, a, b))
  BY <1>1, <1>16, InsertedOrder DEF q
<1>18. /\ Len(q) = Len(r) + 1 /\ q[1] = Background /\ q[2] = Console
       /\ q[Len(r) + 1] = MouseLayer
  <2>1. /\ 1 \in 1 .. Len(r) /\ 2 \in 1 .. Len(r) /\ Len(r) \in 1 .. Len(r)
        /\ 1 < Len(r) /\ 2 < Len(r) /\ ~(Len(r) < Len(r))
    BY <1>8
  <2> QED BY <1>8, <1>17, <2>1 DEF Extends
<1>19. IsRaised(d, l, q)
  <2>1. Len(q) >= 4 /\ Len(q) - 1 = Len(r)
    BY <1>8, <1>18
  <2> QED BY <1>17, <1>18, <2>1 DEF IsRaised
<1> QED BY <1>14, <1>15, <1>19


-----------------------------------------------------------------------------
(* What a change of one window leaves as it was.                           *)

SameWindow(d, r, a) ==
  r.pos[a] = d.pos[a] /\ (a \in r.lit <=> a \in d.lit) /\ (a \in r.text <=> a \in d.text)
\* r and d are not told apart by their buffers, or by a layer that is not l.
Elsewhere(d, r, l) ==
  /\ r.back = d.back /\ r.screen = d.screen /\ d.undrawn \ {l} \subseteq r.undrawn
  /\ \A a : a # l => (InStack(r, a) <=> InStack(d, a))
  /\ \A a, b : a # l /\ b # l => (Below(r, a, b) <=> Below(d, a, b))
  /\ \A a : InStack(d, a) /\ a # l => SameWindow(d, r, a)
Hit(d, l, p) == InStack(d, l) /\ CoversIn(d, l, p)

\* A window with the same place, title and text has the same pixels.
LEMMA SameWindowSame ==
  ASSUME NEW d, NEW r, NEW a, SameWindow(d, r, a), NEW p
  PROVE  (CoversIn(r, a, p) <=> CoversIn(d, a, p)) /\ PixelAt(r, a, p) = PixelAt(d, a, p)
<1>1. CoversIn(r, a, p) <=> CoversIn(d, a, p)
  BY DEF SameWindow, CoversIn, Window
<1>2. (a \in r.lit) = (a \in d.lit) /\ (a \in r.text) = (a \in d.text)
  BY DEF SameWindow
<1>3. PixelAt(r, a, p) = PixelAt(d, a, p)
  BY <1>2 DEF SameWindow, PixelAt, Pixel
<1> QED BY <1>1, <1>3

\* Where l is not and was not, the highest layer is the same.
LEMMA ElsewhereTop ==
  ASSUME NEW d, NEW r, NEW l, Elsewhere(d, r, l), NEW p, ~Hit(d, l, p), ~Hit(r, l, p),
         NEW H, NEW k, Top(d, p, H, k)
  PROVE  Top(r, p, H, k) /\ k # l /\ SameWindow(d, r, k)
<1>1. k # l /\ InStack(d, k) /\ k \notin H /\ CoversIn(d, k, p)
  BY DEF Top, Hit
<1>2. InStack(r, k) /\ SameWindow(d, r, k) /\ CoversIn(r, k, p)
  BY <1>1, SameWindowSame DEF Elsewhere
<1>3. ASSUME NEW a, InStack(r, a), a \notin H, CoversIn(r, a, p) PROVE Below(r, a, k)
  <2>1. a # l /\ InStack(d, a)
    BY <1>3 DEF Hit, Elsewhere
  <2>2. CoversIn(d, a, p)
    BY <1>3, <2>1, SameWindowSame DEF Elsewhere
  <2>3. Below(d, a, k)
    BY <1>3, <2>1, <2>2 DEF Top
  <2> QED BY <1>1, <2>1, <2>3 DEF Elsewhere
<1> QED BY <1>1, <1>2, <1>3 DEF Top

\* ... and the point is as right as it was.
LEMMA ElsewhereGood ==
  ASSUME NEW d, NEW r, NEW l, Elsewhere(d, r, l), NEW p, ~Hit(d, l, p), ~Hit(r, l, p),
         PointGood(d, p)
  PROVE  PointGood(r, p)
<1>1. ASSUME NEW x, NEW H, TopShown(d, d.undrawn, p, H, x) PROVE TopShown(r, r.undrawn, p, H, x)
  <2>1. PICK k : Top(d, p, H, k) /\ Near(d, d.undrawn, k, p, x)
    BY <1>1 DEF TopShown
  <2>2. Top(r, p, H, k) /\ k # l /\ SameWindow(d, r, k)
    BY <2>1, ElsewhereTop
  <2>3. PixelAt(r, k, p) = PixelAt(d, k, p)
    BY <2>2, SameWindowSame
  <2>4. Near(r, r.undrawn, k, p, x)
    BY <2>1, <2>2, <2>3 DEF Near, Elsewhere, SameWindow
  <2> QED BY <2>2, <2>4 DEF TopShown
<1>2. ASSUME NEW x, Right(d, d.undrawn, p, x) PROVE Right(r, r.undrawn, p, x)
  <2>1. CASE TopShown(d, d.undrawn, p, {}, x)
    BY <1>1, <2>1 DEF Right
  <2>2. CASE /\ MouseLayer \in d.undrawn /\ Top(d, p, {}, MouseLayer)
             /\ TopShown(d, d.undrawn, p, {MouseLayer}, x)
    <3>1. Top(r, p, {}, MouseLayer) /\ MouseLayer # l
      BY <2>2, ElsewhereTop
    <3>2. MouseLayer \in r.undrawn
      BY <2>2, <3>1 DEF Elsewhere
    <3> QED BY <1>1, <2>2, <3>1, <3>2 DEF Right
  <2> QED BY <1>2, <2>1, <2>2 DEF Right
<1> QED BY <1>2 DEF PointGood, Elsewhere

\* r and d show the same.
Alike(d, r) ==
  /\ IsRecord(r)
  /\ r.pos = d.pos /\ r.stack = d.stack /\ r.lit = d.lit /\ r.text = d.text
  /\ r.undrawn = d.undrawn /\ r.back = d.back /\ r.screen = d.screen

\* The active layer, the task map and the messages are not seen.
LEMMA AlikeGood ==
  ASSUME NEW d, NEW r, Alike(d, r)
  PROVE  (Ready(d) => Ready(r)) /\ (Good(d) => Good(r))
<1>1. ASSUME Ready(d) PROVE Ready(r)
  BY <1>1 DEF Alike, Ready, DeskType, Ordered, Stacked, LayersOf
<1>2. ASSUME Good(d), NEW p \in ScreenPoints PROVE PointGood(r, p)
  <2>1. /\ \A a : InStack(r, a) <=> InStack(d, a)
        /\ \A a, b : Below(r, a, b) <=> Below(d, a, b)
        /\ \A a : CoversIn(r, a, p) <=> CoversIn(d, a, p)
        /\ \A a : PixelAt(r, a, p) = PixelAt(d, a, p)
    BY DEF Alike, InStack, Below, CoversIn, Window, PixelAt, Pixel
  <2>2. PointGood(d, p)
    BY <1>2 DEF Good, GoodBut
  <2>3. \A H, k : Top(d, p, H, k) => Top(r, p, H, k)
    BY <2>1 DEF Top
  <2>4. \A V, k, x : Near(d, V, k, p, x) => Near(r, V, k, p, x)
    BY <2>1 DEF Near, Alike
  <2> QED BY <2>2, <2>3, <2>4 DEF PointGood, Right, TopShown, Alike
<1>3. Good(d) => Good(r)
  BY <1>2 DEF Good, GoodBut
<1> QED BY <1>1, <1>3

-----------------------------------------------------------------------------
(* ActiveLayer::Activate.                                                  *)

\* r is d, but for the fields that are given.
Same(d, r) ==
  /\ IsRecord(r) /\ r.pos = d.pos /\ r.text = d.text /\ r.task = d.task
Focus(d) ==
  /\ d.active # 0 => /\ IsDraggable(d.active) /\ Len(d.stack) >= 4
                     /\ d.stack[Len(d.stack) - 1] = d.active
  /\ d.lit = {d.active} \ {0}
  /\ d.told \subseteq d.lit \cap DOMAIN d.task

\* The active window is a layer and in the stack.
LEMMA FocusInStack ==
  ASSUME NEW d, Ready(d), Focus(d), d.active # 0
  PROVE  InStack(d, d.active) /\ d.active \in LayersOf(d)
<1>1. Len(d.stack) - 1 \in DOMAIN d.stack
  BY DEF Ready, Ordered, Stacked, Focus
<1>2. InStack(d, d.active)
  BY <1>1 DEF InStack, Focus
<1> QED BY <1>2, InStackIsLayer DEF Ready

\* The window is not drawn as the active one any more.
Unlit(d, l) == [d EXCEPT !.lit = @ \ {l}]
\* The title bar of the window that was active is drawn as that of an inactive one; what may
\* be wrong until it is drawn is that window.
LEMMA UnlitIs ==
  ASSUME NEW d, Ready(d), NEW l, InStack(d, l)
  PROVE  LET r == Unlit(d, l)
         IN  /\ Ready(r) /\ InStack(r, l) /\ (Good(d) => GoodApart(r, l))
             /\ Same(d, r) /\ r.stack = d.stack /\ r.lit = d.lit \ {l}
             /\ r.active = d.active /\ r.told = d.told /\ r.undrawn = d.undrawn
<1> DEFINE r == Unlit(d, l)
<1>1. r = [pos |-> d.pos, stack |-> d.stack, lit |-> d.lit \ {l}, text |-> d.text,
           undrawn |-> d.undrawn, back |-> d.back, screen |-> d.screen,
           active |-> d.active, task |-> d.task, told |-> d.told]
  BY DEF Unlit, Ready, DeskType, IsRecord
<1> HIDE DEF r
<1>2. /\ r.pos = d.pos /\ r.stack = d.stack /\ r.lit = d.lit \ {l} /\ r.text = d.text
      /\ r.undrawn = d.undrawn /\ r.back = d.back /\ r.screen = d.screen
      /\ r.active = d.active /\ r.task = d.task /\ r.told = d.told
  BY <1>1
<1>3. IsRecord(r)
  BY <1>1, <1>2 DEF IsRecord
<1>4. Ready(r)
  BY <1>2, <1>3 DEF Ready, DeskType, Ordered, Stacked, LayersOf
<1>5. Elsewhere(d, r, l)
  BY <1>2 DEF Elsewhere, SameWindow, InStack, Below
<1>6. ASSUME Good(d), NEW p \in ScreenPoints, ~CoversIn(r, l, p) PROVE PointGood(r, p)
  <2>1. ~CoversIn(d, l, p)
    BY <1>2, <1>6 DEF CoversIn, Window
  <2>2. PointGood(d, p)
    BY <1>6 DEF Good, GoodBut
  <2>3. ~Hit(d, l, p) /\ ~Hit(r, l, p)
    BY <1>6, <2>1 DEF Hit
  <2> QED BY <1>5, <2>2, <2>3, ElsewhereGood
<1>7. InStack(r, l)
  BY <1>2 DEF InStack
<1> QED BY <1>2, <1>3, <1>4, <1>6, <1>7 DEF GoodApart, Same, r

\* r is d, but for what the task of l was told.
Told(d, r, told) == Alike(d, r) /\ r.active = d.active /\ r.task = d.task /\ r.told = told
\* A change of what tasks were told changes nothing else.
LEMMA ToldIs ==
  ASSUME NEW d, IsRecord(d), NEW told PROVE Told(d, [d EXCEPT !.told = told], told)
<1> DEFINE r == [d EXCEPT !.told = told]
<1>1. r = [pos |-> d.pos, stack |-> d.stack, lit |-> d.lit, text |-> d.text,
           undrawn |-> d.undrawn, back |-> d.back, screen |-> d.screen,
           active |-> d.active, task |-> d.task, told |-> told]
  BY DEF IsRecord
<1> HIDE DEF r
<1>2. /\ r.pos = d.pos /\ r.stack = d.stack /\ r.lit = d.lit /\ r.text = d.text
      /\ r.undrawn = d.undrawn /\ r.back = d.back /\ r.screen = d.screen
      /\ r.active = d.active /\ r.task = d.task /\ r.told = told
  BY <1>1
<1>3. IsRecord(r)
  BY <1>1, <1>2 DEF IsRecord
<1> QED BY <1>2, <1>3 DEF Told, Alike, r

\* SendWindowActiveMessage.
LEMMA SendIs ==
  ASSUME NEW d, Ready(d), NEW l
  PROVE  /\ l \notin DOMAIN d.task =>
              /\ Told(d, SendWindowActiveMessage(d, l, TRUE), d.told)
              /\ Told(d, SendWindowActiveMessage(d, l, FALSE), d.told)
         /\ l \in DOMAIN d.task =>
              /\ Told(d, SendWindowActiveMessage(d, l, TRUE), d.told \cup {l})
              /\ Told(d, SendWindowActiveMessage(d, l, FALSE), d.told \ {l})
<1>1. IsRecord(d)
  BY DEF Ready, DeskType
<1>2. CASE l \notin DOMAIN d.task
  BY <1>1, <1>2 DEF SendWindowActiveMessage, Told, Alike
<1>3. CASE l \in DOMAIN d.task
  <2> DEFINE on == d.told \cup {l}
             off == d.told \ {l}
  <2>1. /\ SendWindowActiveMessage(d, l, TRUE) = [d EXCEPT !.told = on]
        /\ SendWindowActiveMessage(d, l, FALSE) = [d EXCEPT !.told = off]
    BY <1>3 DEF SendWindowActiveMessage
  <2> HIDE DEF on, off
  <2>2. Told(d, [d EXCEPT !.told = on], on) /\ Told(d, [d EXCEPT !.told = off], off)
    BY <1>1, ToldIs
  <2>3. /\ Told(d, SendWindowActiveMessage(d, l, TRUE), on)
        /\ Told(d, SendWindowActiveMessage(d, l, FALSE), off)
    BY <2>1, <2>2
  <2> QED BY <1>3, <2>3 DEF on, off
<1> QED BY <1>2, <1>3

\* Nothing else is changed when the active window is told that it is not.
LEMMA DeactivatedIs ==
  ASSUME NEW d, Ready(d), Focus(d)
  PROVE  LET r == Deactivated(d)
         IN  /\ Ready(r) /\ (Good(d) => Good(r)) /\ Same(d, r) /\ r.stack = d.stack
             /\ r.lit = {} /\ r.told = {} /\ r.undrawn \subseteq d.undrawn
<1>1. CASE d.active = 0
  BY <1>1 DEF Deactivated, Focus, Same, Ready, DeskType
<1>2. CASE d.active # 0
  <2> DEFINE a == d.active
             u == Unlit(d, a)
             w == Draw(u, a)
             r == SendWindowActiveMessage(w, a, FALSE)
  <2>1. InStack(d, a)
    BY <1>2, FocusInStack
  <2>2. /\ Ready(u) /\ InStack(u, a) /\ (Good(d) => GoodApart(u, a))
        /\ Same(d, u) /\ u.stack = d.stack /\ u.lit = d.lit \ {a}
        /\ u.active = d.active /\ u.told = d.told /\ u.undrawn = d.undrawn
    BY <2>1, UnlitIs
  <2> HIDE DEF u
  <2>3. Refreshed(u, w) /\ (GoodApart(u, a) => Good(w)) /\ w.undrawn = u.undrawn \ {a}
    BY <2>2, DrawGood
  <2> HIDE DEF w
  <2>4. /\ Ready(w) /\ (Good(d) => Good(w)) /\ Same(d, w) /\ w.stack = d.stack
        /\ w.lit = d.lit \ {a} /\ w.told = d.told /\ w.undrawn \subseteq d.undrawn
    BY <2>2, <2>3 DEF Refreshed, Redrawn, Same
  <2>5. (Told(w, r, w.told) /\ a \notin DOMAIN w.task) \/ Told(w, r, w.told \ {a})
    BY <2>4, SendIs
  <2>6. /\ Ready(r) /\ (Good(d) => Good(r)) /\ Same(d, r) /\ r.stack = d.stack
        /\ r.lit = d.lit \ {a} /\ r.undrawn \subseteq d.undrawn
    BY <2>4, <2>5, AlikeGood DEF Told, Alike, Same
  <2>7. r.lit = {} /\ r.told = {}
    BY <1>2, <2>4, <2>5, <2>6 DEF Focus, Same, Told
  <2>8. Deactivated(d) = r
    BY <1>2 DEF Deactivated, r, w, u, Unlit
  <2> QED BY <2>6, <2>7, <2>8
<1> QED BY <1>1, <1>2

\* The layers other than l are in the same order in r as in d.
OtherOrder(d, r, l) ==
  \A a, b : (a \notin {0, l} /\ b \notin {0, l}) => (Below(r, a, b) <=> Below(d, a, b))

\* The window is put below the mouse and drawn as the active one.
LEMMA RaiseGood ==
  ASSUME NEW d, Ready(d), NEW l \in LayersOf(d), IsDraggable(l)
  PROVE  LET r == Draw(Raised(d, l), l)
         IN  /\ Ready(r) /\ (Good(d) => Good(r)) /\ Same(d, r)
             /\ r.lit = d.lit \cup {l} /\ r.active = d.active /\ r.told = d.told
             /\ Len(r.stack) >= 4 /\ r.stack[Len(r.stack) - 1] = l
             /\ \A a : InStack(r, a) <=> (InStack(d, a) \/ a = l)
             /\ OtherOrder(d, r, l)
             /\ r.undrawn \subseteq d.undrawn
<1> DEFINE m == Raised(d, l)
           r == Draw(m, l)
<1>1. PICK q : IsRaised(d, l, q) /\ IsLit(d, l, q, m)
  BY RaisedIs DEF Ready
<1> HIDE DEF m
<1>2. /\ m.pos = d.pos /\ m.stack = q /\ m.lit = d.lit \cup {l} /\ m.text = d.text
      /\ m.undrawn = d.undrawn /\ m.back = d.back /\ m.screen = d.screen
      /\ m.active = d.active /\ m.task = d.task /\ m.told = d.told
  BY <1>1 DEF IsLit
<1>3. IsRecord(m)
  BY <1>1, <1>2 DEF IsLit, IsRecord
<1>4. Ready(m)
  <2>1. DeskType(m)
    BY <1>2, <1>3 DEF Ready, DeskType, LayersOf
  <2>2. Ordered(m)
    <3>1. q \in Seq(LayersOf(m)) /\ Len(q) >= 3
      BY <1>1, <1>2 DEF IsRaised, LayersOf
    <3> QED BY <1>1, <1>2, <3>1 DEF IsRaised, Ordered, Stacked, Distinct
  <2> QED BY <1>2, <2>1, <2>2 DEF Ready
<1>5. /\ \A a : InStack(m, a) <=> InSeq(q, a)
      /\ \A a, b : Below(m, a, b) <=> BelowIn(q, a, b)
  BY <1>2 DEF InStack, InSeq, Below, BelowIn
<1>6. InStack(m, l)
  <2>1. Len(q) - 1 \in DOMAIN q
    BY <1>1 DEF IsRaised
  <2> QED BY <1>1, <1>2, <2>1 DEF IsRaised, InStack
<1>7. Elsewhere(d, m, l)
  BY <1>1, <1>2, <1>5 DEF IsRaised, Elsewhere, SameWindow
<1>8. ASSUME Good(d), NEW p \in ScreenPoints, ~CoversIn(m, l, p) PROVE PointGood(m, p)
  <2>1. ~CoversIn(d, l, p)
    BY <1>2, <1>8 DEF CoversIn, Window
  <2>2. PointGood(d, p)
    BY <1>8 DEF Good, GoodBut
  <2>3. ~Hit(d, l, p) /\ ~Hit(m, l, p)
    BY <1>8, <2>1 DEF Hit
  <2> QED BY <1>7, <2>2, <2>3, ElsewhereGood
<1>9. Good(d) => GoodApart(m, l)
  BY <1>8 DEF GoodApart
<1>10. /\ Refreshed(m, r) /\ (GoodApart(m, l) => Good(r))
       /\ r.undrawn = m.undrawn \ {l}
  BY <1>4, <1>6, DrawGood
<1> HIDE DEF r
<1>11. /\ Ready(r) /\ Same(d, r) /\ r.lit = d.lit \cup {l} /\ r.active = d.active
       /\ r.told = d.told /\ r.stack = q /\ r.undrawn \subseteq d.undrawn
  BY <1>2, <1>10 DEF Refreshed, Redrawn, Same
<1>12. \A a : InStack(r, a) <=> (InStack(d, a) \/ a = l)
  <2>1. \A a : InStack(r, a) <=> InStack(m, a)
    BY <1>2, <1>11 DEF InStack
  <2> QED BY <1>1, <1>5, <1>6, <2>1 DEF IsRaised
<1>13. Len(q) >= 4 /\ q[Len(q) - 1] = l
  BY <1>1 DEF IsRaised
<1>14. OtherOrder(d, r, l)
  <2>1. \A a, b : Below(r, a, b) <=> BelowIn(q, a, b)
    BY <1>11 DEF Below, BelowIn
  <2> QED BY <1>1, <2>1 DEF IsRaised, OtherOrder
<1> QED BY <1>9, <1>10, <1>11, <1>12, <1>13, <1>14 DEF r, m

\* r is d, with l the active window, or none.
Activated(d, r, l) ==
  /\ Ready(r) /\ Focus(r) /\ (Good(d) => Good(r)) /\ Same(d, r) /\ r.active = l
  /\ \A a : InStack(r, a) <=> (InStack(d, a) \/ (a = l /\ l # 0))
  /\ OtherOrder(d, r, l)
  /\ l # 0 /\ l \in DOMAIN d.task /\ (d.active = l => l \in d.told) => l \in r.told

\* ActiveLayer::Activate: the screen stays right, the window comes to the front and its
\* task, if it has one by then, is told.
LEMMA ActivateIs ==
  ASSUME NEW d, Ready(d), Focus(d), NEW l, l = 0 \/ (l \in LayersOf(d) /\ IsDraggable(l))
  PROVE  Activated(d, Activate(d, l), l)
<1>0. IsRecord(d) /\ LayersOf(d) \subseteq Nat \ {0}
  BY DEF Ready, DeskType
<1>1. CASE d.active = l
  <2>1. l # 0 => InStack(d, l)
    BY <1>1, FocusInStack
  <2>2. \A a : InStack(d, a) <=> (InStack(d, a) \/ (a = l /\ l # 0))
    BY <2>1
  <2>3. Activate(d, l) = d
    BY <1>1 DEF Activate
  <2>4. Same(d, d) /\ OtherOrder(d, d, l)
    BY <1>0 DEF Same, OtherOrder
  <2> QED BY <1>1, <2>2, <2>3, <2>4 DEF Activated
<1>2. CASE d.active # l
  <2> DEFINE w == Deactivated(d)
             off == [w EXCEPT !.active = l]
             x == Draw(Raised(off, l), l)
             r == SendWindowActiveMessage(x, l, TRUE)
  <2>1. /\ Ready(w) /\ (Good(d) => Good(w)) /\ Same(d, w) /\ w.stack = d.stack
        /\ w.lit = {} /\ w.told = {}
    BY DeactivatedIs
  <2> HIDE DEF w
  <2>2. off = [pos |-> w.pos, stack |-> w.stack, lit |-> w.lit, text |-> w.text,
               undrawn |-> w.undrawn, back |-> w.back, screen |-> w.screen,
               active |-> l, task |-> w.task, told |-> w.told]
    BY <2>1 DEF Same, IsRecord
  <2> HIDE DEF off
  <2>3. /\ off.pos = w.pos /\ off.stack = w.stack /\ off.lit = w.lit /\ off.text = w.text
        /\ off.undrawn = w.undrawn /\ off.back = w.back /\ off.screen = w.screen
        /\ off.active = l /\ off.task = w.task /\ off.told = w.told
    BY <2>2
  <2>4. Alike(w, off)
    BY <2>2, <2>3 DEF Alike, IsRecord
  <2>5. /\ Ready(off) /\ (Good(d) => Good(off)) /\ Same(d, off) /\ off.lit = {}
        /\ off.told = {} /\ off.active = l
        /\ \A a : InStack(off, a) <=> InStack(d, a)
    BY <2>1, <2>3, <2>4, AlikeGood DEF Same, Alike, InStack
  <2>8. OtherOrder(d, off, l)
    BY <2>1, <2>3 DEF OtherOrder, Below
  <2>6. CASE l = 0
    <3>1. Activate(d, l) = off
      BY <1>2, <2>6 DEF Activate, off, w
    <3>2. Focus(off)
      BY <2>5, <2>6 DEF Focus
    <3> QED BY <2>5, <2>6, <2>8, <3>1, <3>2 DEF Activated
  <2>7. CASE l # 0
    <3>1. l \in LayersOf(off) /\ IsDraggable(l)
      BY <2>5, <2>7 DEF Same, LayersOf
    <3>2. /\ Ready(x) /\ (Good(off) => Good(x)) /\ Same(off, x)
          /\ x.lit = off.lit \cup {l} /\ x.active = off.active /\ x.told = off.told
          /\ Len(x.stack) >= 4 /\ x.stack[Len(x.stack) - 1] = l
          /\ \A a : InStack(x, a) <=> (InStack(off, a) \/ a = l)
          /\ OtherOrder(off, x, l)
      BY <2>5, <3>1, RaiseGood
    <3> HIDE DEF x
    <3>3. /\ l \notin DOMAIN x.task => Told(x, r, x.told)
          /\ l \in DOMAIN x.task => Told(x, r, x.told \cup {l})
      BY <3>2, SendIs
    <3> HIDE DEF r
    <3>4. Alike(x, r) /\ r.active = x.active /\ r.task = x.task
          /\ (l \notin DOMAIN x.task => r.told = x.told)
          /\ (l \in DOMAIN x.task => r.told = x.told \cup {l})
      BY <3>3 DEF Told
    <3>5. Ready(r) /\ (Good(d) => Good(r)) /\ Same(d, r) /\ r.active = l
      BY <2>5, <3>2, <3>4, AlikeGood DEF Alike, Same
    <3>6. \A a : InStack(r, a) <=> (InStack(d, a) \/ (a = l /\ l # 0))
      <4>1. \A a : InStack(r, a) <=> InStack(x, a)
        BY <3>4 DEF Alike, InStack
      <4> QED BY <2>5, <2>7, <3>2, <4>1
    <3>7. r.stack = x.stack /\ r.lit = {l} /\ r.told \subseteq {l} \cap DOMAIN r.task
      BY <2>5, <3>2, <3>4 DEF Alike
    <3>8. Focus(r)
      BY <2>7, <3>1, <3>2, <3>5, <3>7 DEF Focus
    <3>9. l \in DOMAIN d.task => l \in r.told
      BY <2>5, <3>2, <3>4 DEF Same
    <3>10. OtherOrder(d, r, l)
      <4>1. \A a, b : Below(r, a, b) <=> Below(x, a, b)
        BY <3>7 DEF Below
      <4> QED BY <2>8, <3>2, <4>1 DEF OtherOrder
    <3>11. Activate(d, l) = r
      BY <1>2, <2>7 DEF Activate, r, x, off, w
    <3> QED BY <3>5, <3>6, <3>8, <3>9, <3>10, <3>11 DEF Activated
  <2> QED BY <2>6, <2>7
<1> QED BY <1>1, <1>2

-----------------------------------------------------------------------------
(* Moving a window, making one, writing to it.                             *)

\* What r has of d, apart from its windows and its buffers.
Keeps(d, r) ==
  /\ IsRecord(r) /\ r.stack = d.stack /\ r.lit = d.lit /\ r.active = d.active
  /\ r.task = d.task /\ r.told = d.told

\* Moving and drawing leave the active window as it is.
LEMMA KeepsFocus == ASSUME NEW d, NEW r, Keeps(d, r), Focus(d) PROVE Focus(r)
BY DEF Keeps, Focus

\* LayerManager::Move: what the window covered is drawn again, then the window.
LEMMA MoveIs ==
  ASSUME NEW d, Ready(d), NEW l, InStack(d, l), l # Background, NEW pos \in Vector
  PROVE  LET r == Move(d, l, pos)
         IN  /\ Ready(r) /\ (Good(d) => Good(r)) /\ Keeps(d, r)
             /\ r.pos = [d.pos EXCEPT ![l] = pos]
<1> DEFINE m == [d EXCEPT !.pos[l] = pos]
           area == Window(d, l)
           x == DrawArea(m, area)
           r == Draw(x, l)
           P == [d.pos EXCEPT ![l] = pos]
<1>0. IsRecord(d) /\ DeskType(d) /\ l \in LayersOf(d) /\ area \in Rectangles
  <2>1. DeskType(d) /\ l \in LayersOf(d)
    BY InStackIsLayer DEF Ready
  <2> QED BY <2>1, WindowType DEF DeskType
<1>1. P = [k \in LayersOf(d) |-> IF k = l THEN pos ELSE d.pos[k]]
  BY <1>0 DEF DeskType, LayersOf
<1> HIDE DEF P
<1>2. m = [pos |-> P, stack |-> d.stack, lit |-> d.lit, text |-> d.text,
           undrawn |-> d.undrawn, back |-> d.back, screen |-> d.screen,
           active |-> d.active, task |-> d.task, told |-> d.told]
  <2>1. m = [d EXCEPT !.pos = P]
    BY DEF P
  <2> HIDE DEF m
  <2> QED BY <1>0, <2>1 DEF IsRecord
<1> HIDE DEF m
<1>3. /\ m.pos = P /\ m.stack = d.stack /\ m.lit = d.lit /\ m.text = d.text
      /\ m.undrawn = d.undrawn /\ m.back = d.back /\ m.screen = d.screen
      /\ m.active = d.active /\ m.task = d.task /\ m.told = d.told
  BY <1>2
<1>4. IsRecord(m)
  BY <1>2, <1>3 DEF IsRecord
<1>5. /\ LayersOf(m) = LayersOf(d) /\ m.pos[l] = pos
      /\ \A k \in LayersOf(d) : k # l => m.pos[k] = d.pos[k]
  BY <1>0, <1>1, <1>3 DEF LayersOf
<1>6. Ready(m)
  <2>1. DeskType(m)
    <3>1. m.pos = [k \in LayersOf(m) |-> m.pos[k]]
      BY <1>1, <1>3, <1>5
    <3>2. \A k \in LayersOf(m) : m.pos[k] \in Vector
      BY <1>0, <1>5 DEF DeskType
    <3> QED BY <1>0, <1>3, <1>4, <1>5, <3>1, <3>2 DEF DeskType
  <2>2. Ordered(m)
    BY <1>3, <1>5 DEF Ready, Ordered, Stacked
  <2>3. Background \in LayersOf(d)
    <3>1. 1 \in DOMAIN d.stack
      BY DEF Ready, Ordered, Stacked
    <3> QED BY <3>1 DEF Ready, Ordered, Stacked
  <2> QED BY <1>5, <2>1, <2>2, <2>3 DEF Ready
<1>7. Elsewhere(d, m, l)
  <2>1. \A a : InStack(d, a) => a \in LayersOf(d)
    BY InStackIsLayer DEF Ready
  <2> QED BY <1>3, <1>5, <2>1 DEF Elsewhere, SameWindow, InStack, Below
<1> DEFINE S == ScreenPoints \cap {p \in Vector : CoversIn(d, l, p) \/ CoversIn(m, l, p)}
<1>8. ASSUME Good(d), NEW p \in ScreenPoints, p \notin S PROVE PointGood(m, p)
  <2>1. ~Hit(d, l, p) /\ ~Hit(m, l, p)
    BY <1>8, OutlineType DEF Hit
  <2>2. PointGood(d, p)
    BY <1>8 DEF Good, GoodBut
  <2> QED BY <1>7, <2>1, <2>2, ElsewhereGood
<1>9. Good(d) => GoodBut(m, S)
  BY <1>8 DEF GoodBut
<1>10. Redrawn(m, x) /\ x.undrawn = m.undrawn /\ Ready(x)
  <2>1. GoodBut(m, ScreenPoints)
    BY DEF GoodBut
  <2> HIDE DEF S, area
  <2> QED BY <1>0, <1>6, <2>1, DrawAreaGood
<1>11. Good(d) => GoodBut(x, S \ Points(area))
  <2> HIDE DEF S, area
  <2> QED BY <1>0, <1>6, <1>9, DrawAreaGood
<1> HIDE DEF x
<1>12. ASSUME Good(d), NEW p \in ScreenPoints, ~CoversIn(x, l, p) PROVE PointGood(x, p)
  <2>1. ~CoversIn(m, l, p)
    BY <1>10, <1>12, RedrawnCovers
  <2>2. CoversIn(d, l, p) => p \in Points(area)
    BY <1>0, CoversInWindow
  <2>3. p \notin S \ Points(area)
    BY <2>1, <2>2
  <2> QED BY <1>11, <1>12, <2>3 DEF GoodBut
<1>13. Good(d) => GoodApart(x, l)
  BY <1>12 DEF GoodApart
<1>14. InStack(x, l) /\ x.stack = d.stack
  BY <1>3, <1>10 DEF Redrawn, InStack
<1>15. Refreshed(x, r) /\ (GoodApart(x, l) => Good(r))
  BY <1>10, <1>14, DrawGood
<1> HIDE DEF r
<1>16. Keeps(d, r) /\ r.pos = P /\ Ready(r)
  BY <1>3, <1>10, <1>15 DEF Refreshed, Redrawn, Keeps
<1>17. Move(d, l, pos) = r
  BY DEF Move, r, x, m, area
<1> QED BY <1>13, <1>15, <1>16, <1>17 DEF P

\* LayerManager::NewLayer: the layer is not in the stack yet.
LEMMA NewLayerIs ==
  ASSUME NEW d, Ready(d), NEW l \in Nat \ {0}, l \notin LayersOf(d), NEW pos \in Vector
  PROVE  LET r == NewLayer(d, l, pos)
         IN  /\ Ready(r) /\ (Good(d) => Good(r)) /\ Keeps(d, r)
             /\ LayersOf(r) = LayersOf(d) \cup {l} /\ r.pos[l] = pos
             /\ \A a \in LayersOf(d) : r.pos[a] = d.pos[a]
<1> DEFINE f == [k \in {l} |-> pos]
           P == Over(f, d.pos)
           r == NewLayer(d, l, pos)
<1>0. IsRecord(d) /\ DeskType(d)
  BY DEF Ready, DeskType
<1>1. IsOver(f, d.pos, P)
  BY OverIs
<1> HIDE DEF P
<1>2. r = [pos |-> P, stack |-> d.stack, lit |-> d.lit, text |-> d.text,
           undrawn |-> d.undrawn, back |-> d.back, screen |-> d.screen,
           active |-> d.active, task |-> d.task, told |-> d.told]
  <2>1. r = [d EXCEPT !.pos = P]
    BY DEF NewLayer, P
  <2> HIDE DEF r
  <2> QED BY <1>0, <2>1 DEF IsRecord
<1> HIDE DEF r
<1>3. /\ r.pos = P /\ r.stack = d.stack /\ r.lit = d.lit /\ r.text = d.text
      /\ r.undrawn = d.undrawn /\ r.back = d.back /\ r.screen = d.screen
      /\ r.active = d.active /\ r.task = d.task /\ r.told = d.told
  BY <1>2
<1>4. IsRecord(r)
  BY <1>2, <1>3 DEF IsRecord
<1>5. /\ LayersOf(r) = LayersOf(d) \cup {l} /\ r.pos[l] = pos
      /\ \A a \in LayersOf(d) : r.pos[a] = d.pos[a]
      /\ r.pos = [a \in LayersOf(r) |-> r.pos[a]]
  <2>1. DOMAIN f = {l} /\ f[l] = pos
    OBVIOUS
  <2>2. P = [a \in {l} \cup LayersOf(d) |-> P[a]]
    BY <1>1, <2>1 DEF IsOver, LayersOf
  <2>3. LayersOf(r) = {l} \cup LayersOf(d)
    <3>1. DOMAIN P = {l} \cup LayersOf(d)
      BY <2>2
    <3> QED BY <1>3, <3>1 DEF LayersOf
  <2>4. P[l] = pos
    BY <1>1, <2>1 DEF IsOver
  <2>5. \A a \in LayersOf(d) : P[a] = d.pos[a]
    BY <1>1, <2>1 DEF IsOver, LayersOf
  <2> QED BY <1>3, <2>2, <2>3, <2>4, <2>5
<1>6. Background \in LayersOf(d)
  <2>1. 1 \in DOMAIN d.stack
    BY DEF Ready, Ordered, Stacked
  <2> QED BY <2>1 DEF Ready, Ordered, Stacked
<1>7. Ready(r)
  <2>1. DeskType(r)
    BY <1>0, <1>3, <1>4, <1>5 DEF DeskType
  <2>2. Ordered(r)
    <3>1. d.stack \in Seq(LayersOf(r))
      BY <1>5 DEF Ready, Ordered, Stacked
    <3> QED BY <1>3, <3>1 DEF Ready, Ordered, Stacked
  <2> QED BY <1>5, <1>6, <2>1, <2>2 DEF Ready
<1>8. Elsewhere(d, r, l)
  <2>1. \A a : InStack(d, a) => a \in LayersOf(d)
    BY InStackIsLayer DEF Ready
  <2> QED BY <1>3, <1>5, <2>1 DEF Elsewhere, SameWindow, InStack, Below
<1>9. ASSUME Good(d), NEW p \in ScreenPoints PROVE PointGood(r, p)
  <2>1. ~Hit(d, l, p) /\ ~Hit(r, l, p)
    <3>1. ~InStack(d, l)
      BY InStackIsLayer DEF Ready
    <3> QED BY <1>3, <3>1 DEF Hit, InStack
  <2>2. PointGood(d, p)
    BY <1>9 DEF Good, GoodBut
  <2> QED BY <1>8, <2>1, <2>2, ElsewhereGood
<1> QED BY <1>3, <1>4, <1>5, <1>7, <1>9 DEF Keeps, Good, GoodBut, r

\* The task of a window becomes known.
LEMMA MapToIs ==
  ASSUME NEW d, Ready(d), NEW l, NEW t
  PROVE  LET r == MapTo(d, l, t)
         IN  /\ Alike(d, r) /\ r.active = d.active /\ r.told = d.told
             /\ r.task = [a \in DOMAIN d.task \cup {l} |-> r.task[a]] /\ r.task[l] = t
             /\ \A a \in DOMAIN d.task : a # l => r.task[a] = d.task[a]
<1> DEFINE f == [k \in {l} |-> t]
           T == Over(f, d.task)
           r == MapTo(d, l, t)
<1>1. IsOver(f, d.task, T)
  BY OverIs
<1> HIDE DEF T
<1>2. r = [pos |-> d.pos, stack |-> d.stack, lit |-> d.lit, text |-> d.text,
           undrawn |-> d.undrawn, back |-> d.back, screen |-> d.screen,
           active |-> d.active, task |-> T, told |-> d.told]
  <2>1. r = [d EXCEPT !.task = T]
    BY DEF MapTo, T
  <2>2. IsRecord(d)
    BY DEF Ready, DeskType
  <2> HIDE DEF r
  <2> QED BY <2>1, <2>2 DEF IsRecord
<1> HIDE DEF r
<1>3. /\ r.pos = d.pos /\ r.stack = d.stack /\ r.lit = d.lit /\ r.text = d.text
      /\ r.undrawn = d.undrawn /\ r.back = d.back /\ r.screen = d.screen
      /\ r.active = d.active /\ r.task = T /\ r.told = d.told
  BY <1>2
<1>4. IsRecord(r)
  BY <1>2, <1>3 DEF IsRecord
<1>5. DOMAIN f = {l} /\ f[l] = t
  OBVIOUS
<1>6. T = [a \in DOMAIN d.task \cup {l} |-> T[a]] /\ T[l] = t
  BY <1>1, <1>5 DEF IsOver
<1>7. \A a \in DOMAIN d.task : a # l => T[a] = d.task[a]
  BY <1>1, <1>5 DEF IsOver
<1> QED BY <1>3, <1>4, <1>6, <1>7 DEF Alike, r

\* The text of a window changes, the screen does not yet.
LEMMA WrittenIs ==
  ASSUME NEW d, Ready(d), NEW l
  PROVE  LET r == Written(d, l)
         IN  Ready(r) /\ (Good(d) => Good(r)) /\ Keeps(d, r) /\ r.pos = d.pos
<1> DEFINE text == IF l \in d.text THEN d.text \ {l} ELSE d.text \cup {l}
           r == Written(d, l)
<1>1. \A a : a # l => (a \in text <=> a \in d.text)
  OBVIOUS
<1> HIDE DEF text
<1>2. r = [pos |-> d.pos, stack |-> d.stack, lit |-> d.lit, text |-> text,
           undrawn |-> d.undrawn \cup {l}, back |-> d.back, screen |-> d.screen,
           active |-> d.active, task |-> d.task, told |-> d.told]
  <2> DEFINE m == [d EXCEPT !.text = text]
  <2>1. r = [m EXCEPT !.undrawn = @ \cup {l}]
    BY DEF Written, text
  <2>2. IsRecord(d)
    BY DEF Ready, DeskType
  <2> HIDE DEF r
  <2>3. m = [pos |-> d.pos, stack |-> d.stack, lit |-> d.lit, text |-> text,
             undrawn |-> d.undrawn, back |-> d.back, screen |-> d.screen,
             active |-> d.active, task |-> d.task, told |-> d.told]
    BY <2>2 DEF IsRecord
  <2> HIDE DEF m
  <2> QED BY <2>1, <2>3
<1> HIDE DEF r
<1>3. /\ r.pos = d.pos /\ r.stack = d.stack /\ r.lit = d.lit /\ r.text = text
      /\ r.undrawn = d.undrawn \cup {l} /\ r.back = d.back /\ r.screen = d.screen
      /\ r.active = d.active /\ r.task = d.task /\ r.told = d.told
  BY <1>2
<1>4. IsRecord(r)
  BY <1>2, <1>3 DEF IsRecord
<1>5. Ready(r)
  BY <1>3, <1>4 DEF Ready, DeskType, Ordered, Stacked, LayersOf
<1>6. ASSUME NEW p, NEW k, NEW x, Near(d, d.undrawn, k, p, x) PROVE Near(r, r.undrawn, k, p, x)
  <2> DEFINE o == Minus(p, d.pos[k])
  <2>1. Minus(p, r.pos[k]) = o
    BY <1>3
  <2>2. CASE k # l
    <3>1. PixelAt(r, k, p) = PixelAt(d, k, p)
      <4>1. (k \in r.lit) = (k \in d.lit) /\ (k \in r.text) = (k \in d.text)
        BY <1>1, <1>3, <2>2
      <4> QED BY <1>3, <4>1 DEF PixelAt, Pixel
    <3> QED BY <1>3, <1>6, <3>1 DEF Near
  <2>3. CASE k = l /\ o \in Points(TextArea)
    <3>1. x[1] = k /\ x[2] = o
      BY <1>6 DEF Near, PixelAt, Pixel
    <3> QED BY <1>3, <2>1, <2>3, <3>1 DEF Near
  <2>4. CASE k = l /\ o \notin Points(TextArea)
    <3>1. x = PixelAt(d, k, p)
      BY <1>6, <2>4 DEF Near
    <3>2. PixelAt(r, k, p) = PixelAt(d, k, p)
      <4>1. (k \in r.lit) = (k \in d.lit)
        BY <1>3
      <4> QED BY <1>3, <2>4, <4>1 DEF PixelAt, Pixel
    <3> QED BY <3>1, <3>2 DEF Near
  <2> QED BY <2>2, <2>3, <2>4
<1>7. ASSUME Good(d), NEW p \in ScreenPoints PROVE PointGood(r, p)
  <2>1. /\ \A a : InStack(r, a) <=> InStack(d, a)
        /\ \A a, b : Below(r, a, b) <=> Below(d, a, b)
        /\ \A a : CoversIn(r, a, p) <=> CoversIn(d, a, p)
    BY <1>3 DEF InStack, Below, CoversIn, Window
  <2>2. PointGood(d, p)
    BY <1>7 DEF Good, GoodBut
  <2>3. \A H, k : Top(d, p, H, k) => Top(r, p, H, k)
    BY <2>1 DEF Top
  <2>4. \A H, x : TopShown(d, d.undrawn, p, H, x) => TopShown(r, r.undrawn, p, H, x)
    BY <1>6, <2>3 DEF TopShown
  <2> QED BY <1>3, <2>2, <2>3, <2>4 DEF PointGood, Right
<1>8. Good(d) => Good(r)
  BY <1>7 DEF Good, GoodBut
<1> QED BY <1>3, <1>4, <1>5, <1>8 DEF Keeps, r

\* CloseLayer: the layer is taken out, and the area where it was is drawn.
Removed(d, r, l) ==
  /\ Ready(r) /\ Focus(r) /\ r.active = 0
  /\ LayersOf(r) = LayersOf(d) \ {l}
  /\ \A a \in LayersOf(r) : r.pos[a] = d.pos[a]
  /\ \A a : InStack(r, a) <=> (InStack(d, a) /\ a # l)
  /\ OtherOrder(d, r, l)
  /\ r.task = [a \in DOMAIN d.task \ {l} |-> d.task[a]]

\* LayerManager::RemoveLayer: what may be wrong then is the rectangle the layer had.
LEMMA RemoveLayerIs ==
  ASSUME NEW d, Ready(d), NEW l, IsDraggable(l)
  PROVE  LET r == RemoveLayer(d, l)
         IN  /\ Ready(r) /\ (Good(d) => GoodBut(r, ScreenPoints \cap Points(Window(d, l))))
             /\ LayersOf(r) = LayersOf(d) \ {l}
             /\ \A a \in LayersOf(r) : r.pos[a] = d.pos[a]
             /\ \A a : InStack(r, a) <=> (InStack(d, a) /\ a # l)
             /\ OtherOrder(d, r, l)
             /\ r.lit = d.lit \ {l} /\ r.active = d.active /\ r.task = d.task /\ r.told = d.told
<1> DEFINE q == SE!RemoveFirst(d.stack, l)
           P == Without(d.pos, l)
           r == RemoveLayer(d, l)
<1>0. IsRecord(d) /\ DeskType(d) /\ Ordered(d)
  BY DEF Ready, DeskType
<1>1. IsRest(d, l, q)
  BY <1>0, RestIs
<1>2. P = [k \in LayersOf(d) \ {l} |-> d.pos[k]]
  BY DEF Without, LayersOf
<1> HIDE DEF q, P
<1>3. r = [pos |-> P, stack |-> q, lit |-> d.lit \ {l}, text |-> d.text \ {l},
           undrawn |-> d.undrawn \ {l}, back |-> d.back, screen |-> d.screen,
           active |-> d.active, task |-> d.task, told |-> d.told]
  <2> DEFINE h == [d EXCEPT !.stack = q]
             hp == [h EXCEPT !.pos = Without(@, l)]
             hl == [hp EXCEPT !.lit = @ \ {l}]
             ht == [hl EXCEPT !.text = @ \ {l}]
             hu == [ht EXCEPT !.undrawn = @ \ {l}]
  <2>1. Hide(d, l) = h
    BY DEF Hide, q
  <2> HIDE DEF h
  <2>2. r = hu
    BY <2>1 DEF RemoveLayer
  <2> HIDE DEF r
  <2>3. h = [pos |-> d.pos, stack |-> q, lit |-> d.lit, text |-> d.text,
             undrawn |-> d.undrawn, back |-> d.back, screen |-> d.screen,
             active |-> d.active, task |-> d.task, told |-> d.told]
    BY <1>0 DEF IsRecord, h
  <2>4. hp = [pos |-> P, stack |-> q, lit |-> d.lit, text |-> d.text,
              undrawn |-> d.undrawn, back |-> d.back, screen |-> d.screen,
              active |-> d.active, task |-> d.task, told |-> d.told]
    BY <2>3 DEF P
  <2> HIDE DEF hp
  <2>5. hl = [pos |-> P, stack |-> q, lit |-> d.lit \ {l}, text |-> d.text,
              undrawn |-> d.undrawn, back |-> d.back, screen |-> d.screen,
              active |-> d.active, task |-> d.task, told |-> d.told]
    BY <2>4
  <2> HIDE DEF hl
  <2>6. ht = [pos |-> P, stack |-> q, lit |-> d.lit \ {l}, text |-> d.text \ {l},
              undrawn |-> d.undrawn, back |-> d.back, screen |-> d.screen,
              active |-> d.active, task |-> d.task, told |-> d.told]
    BY <2>5
  <2> HIDE DEF ht
  <2> QED BY <2>2, <2>6
<1> HIDE DEF r
<1>4. /\ r.pos = P /\ r.stack = q /\ r.lit = d.lit \ {l} /\ r.text = d.text \ {l}
      /\ r.undrawn = d.undrawn \ {l} /\ r.back = d.back /\ r.screen = d.screen
      /\ r.active = d.active /\ r.task = d.task /\ r.told = d.told
  BY <1>3
<1>5. IsRecord(r)
  BY <1>3, <1>4 DEF IsRecord
<1>6. /\ LayersOf(r) = LayersOf(d) \ {l}
      /\ \A a \in LayersOf(r) : r.pos[a] = d.pos[a]
      /\ r.pos = [a \in LayersOf(r) |-> r.pos[a]]
  <2>1. LayersOf(r) = LayersOf(d) \ {l}
    <3>1. DOMAIN P = LayersOf(d) \ {l}
      BY <1>2
    <3> QED BY <1>4, <3>1 DEF LayersOf
  <2> QED BY <1>2, <1>4, <2>1
<1>7. /\ \A a : InStack(r, a) <=> InSeq(q, a)
      /\ \A a, b : Below(r, a, b) <=> BelowIn(q, a, b)
  BY <1>4 DEF InStack, InSeq, Below, BelowIn
<1>8. \A a : InStack(r, a) <=> (InStack(d, a) /\ a # l)
  BY <1>1, <1>7 DEF IsRest
<1>9. Ready(r)
  <2>1. DeskType(r)
    BY <1>0, <1>4, <1>5, <1>6 DEF DeskType
  <2>2. Ordered(r)
    <3>1. q \in Seq(LayersOf(d)) /\ \A i \in DOMAIN q : q[i] # l
      BY <1>1 DEF IsRest, InSeq
    <3>2. q \in Seq(LayersOf(r))
      BY <1>6, <3>1
    <3> QED BY <1>1, <1>4, <3>2 DEF IsRest, Ordered, Stacked, Distinct
  <2>3. Background \in LayersOf(r)
    <3>1. 1 \in DOMAIN r.stack
      BY <2>2 DEF Ordered, Stacked
    <3> QED BY <2>2, <3>1 DEF Ordered, Stacked
  <2> QED BY <1>6, <2>1, <2>2, <2>3 DEF Ready
<1>10. Elsewhere(d, r, l)
  <2>1. \A a : InStack(d, a) => a \in LayersOf(d)
    BY <1>0, InStackIsLayer
  <2>2. \A a : (InStack(d, a) /\ a # l) => SameWindow(d, r, a)
    BY <1>4, <1>6, <2>1 DEF SameWindow
  <2>3. \A a, b : (a # l /\ b # l) => (Below(r, a, b) <=> Below(d, a, b))
    BY <1>1, <1>7 DEF IsRest
  <2> QED BY <1>4, <1>8, <2>2, <2>3 DEF Elsewhere
<1>11. ASSUME Good(d), NEW p \in ScreenPoints, p \notin Points(Window(d, l)) PROVE PointGood(r, p)
  <2>1. ~Hit(d, l, p) /\ ~Hit(r, l, p)
    BY <1>0, <1>8, <1>11, CoversInWindow, InStackIsLayer DEF Hit
  <2>2. PointGood(d, p)
    BY <1>11 DEF Good, GoodBut
  <2> QED BY <1>10, <2>1, <2>2, ElsewhereGood
<1>12. Good(d) => GoodBut(r, ScreenPoints \cap Points(Window(d, l)))
  BY <1>11 DEF GoodBut
<1>13. OtherOrder(d, r, l)
  BY <1>1, <1>7 DEF IsRest, OtherOrder
<1> QED BY <1>4, <1>6, <1>8, <1>9, <1>12, <1>13 DEF r

\* CloseLayer draws that rectangle, and the screen is right again.
LEMMA CloseIs ==
  ASSUME NEW d, Ready(d), Focus(d), d.active = 0, NEW l, IsDraggable(l),
         NEW area \in Rectangles
  PROVE  LET r == Unmapped(DrawArea(RemoveLayer(d, l), area), l)
         IN  /\ Removed(d, r, l)
             /\ Good(d) /\ area = Window(d, l) => Good(r)
<1> DEFINE x == RemoveLayer(d, l)
           y == DrawArea(x, area)
           r == Unmapped(y, l)
           S == ScreenPoints \cap Points(area)
<1>1. /\ Ready(x) /\ (Good(d) => GoodBut(x, ScreenPoints \cap Points(Window(d, l))))
      /\ LayersOf(x) = LayersOf(d) \ {l}
      /\ \A a \in LayersOf(x) : x.pos[a] = d.pos[a]
      /\ \A a : InStack(x, a) <=> (InStack(d, a) /\ a # l)
      /\ OtherOrder(d, x, l)
      /\ x.lit = d.lit \ {l} /\ x.active = d.active /\ x.task = d.task /\ x.told = d.told
  BY RemoveLayerIs
<1> HIDE DEF x
<1>2. Redrawn(x, y) /\ Ready(y)
  <2>1. GoodBut(x, ScreenPoints)
    BY DEF GoodBut
  <2> QED BY <1>1, <2>1, DrawAreaGood
<1>3. Good(d) /\ area = Window(d, l) => Good(y)
  <2> SUFFICES ASSUME Good(d), area = Window(d, l) PROVE Good(y)
    OBVIOUS
  <2> HIDE DEF y, S
  <2>1. GoodBut(x, S)
    BY <1>1 DEF S
  <2>2. GoodBut(DrawArea(x, area), S \ Points(area))
    BY <1>1, <2>1, DrawAreaGood
  <2>3. S \ Points(area) = {}
    BY DEF S
  <2> QED BY <2>2, <2>3 DEF Good, y
<1> HIDE DEF y
<1>4. /\ LayersOf(y) = LayersOf(d) \ {l}
      /\ \A a \in LayersOf(y) : y.pos[a] = d.pos[a]
      /\ \A a : InStack(y, a) <=> (InStack(d, a) /\ a # l)
      /\ y.lit = d.lit \ {l} /\ y.active = d.active /\ y.task = d.task /\ y.told = d.told
  BY <1>1, <1>2 DEF Redrawn, LayersOf, InStack
<1> DEFINE T == Without(y.task, l)
<1>5. T = [a \in DOMAIN d.task \ {l} |-> d.task[a]]
  BY <1>4 DEF Without
<1> HIDE DEF T
<1>6. r = [pos |-> y.pos, stack |-> y.stack, lit |-> y.lit, text |-> y.text,
           undrawn |-> y.undrawn, back |-> y.back, screen |-> y.screen,
           active |-> y.active, task |-> T, told |-> y.told \ {l}]
  <2> DEFINE m == [y EXCEPT !.task = T]
  <2>1. r = [m EXCEPT !.told = @ \ {l}]
    BY DEF Unmapped, T
  <2> HIDE DEF r
  <2>2. m = [pos |-> y.pos, stack |-> y.stack, lit |-> y.lit, text |-> y.text,
             undrawn |-> y.undrawn, back |-> y.back, screen |-> y.screen,
             active |-> y.active, task |-> T, told |-> y.told]
    BY <1>2 DEF Redrawn, IsRecord
  <2> HIDE DEF m
  <2> QED BY <2>1, <2>2
<1> HIDE DEF r
<1>7. /\ r.pos = y.pos /\ r.stack = y.stack /\ r.lit = y.lit /\ r.text = y.text
      /\ r.undrawn = y.undrawn /\ r.back = y.back /\ r.screen = y.screen
      /\ r.active = y.active /\ r.task = T /\ r.told = y.told \ {l}
  BY <1>6
<1>8. Alike(y, r)
  BY <1>6, <1>7 DEF Alike, IsRecord
<1>9. Ready(r) /\ (Good(y) => Good(r))
  BY <1>2, <1>8, AlikeGood
<1>10. Focus(r) /\ r.active = 0
  <2>1. d.lit = {} /\ d.told = {}
    BY DEF Focus
  <2>2. r.lit = {} /\ r.told = {} /\ r.active = 0
    BY <1>4, <1>7, <2>1
  <2> QED BY <2>2 DEF Focus
<1>11. /\ LayersOf(r) = LayersOf(d) \ {l}
       /\ \A a \in LayersOf(r) : r.pos[a] = d.pos[a]
       /\ \A a : InStack(r, a) <=> (InStack(d, a) /\ a # l)
  BY <1>4, <1>7 DEF LayersOf, InStack
<1>12. OtherOrder(d, r, l)
  BY <1>1, <1>2, <1>7 DEF Redrawn, OtherOrder, Below
<1>13. Removed(d, r, l)
  BY <1>5, <1>7, <1>9, <1>10, <1>11, <1>12 DEF Removed
<1> QED BY <1>3, <1>9, <1>13 DEF r, y, x

-----------------------------------------------------------------------------
(* Which window is under the cursor, and which one is next.                *)

\* Max of a set of numbers up to n.
LEMMA Greatest ==
  ASSUME NEW n \in Nat, NEW T, T \subseteq 0 .. n, T # {}
  PROVE  FE!Max(T) \in T /\ \A m \in T : m <= FE!Max(T)
<1> DEFINE U == {k \in Nat : n - k \in T}
<1>1. PICK t : t \in T
  OBVIOUS
<1>2. n - t \in U
  <2>1. t \in 0 .. n /\ n - (n - t) = t
    BY <1>1
  <2> QED BY <1>1, <2>1
<1>3. PICK k \in U : \A m \in U : k <= m
  <2>1. U \subseteq Nat /\ U # {}
    BY <1>2
  <2> HIDE DEF U
  <2> QED BY <2>1, Least
<1> DEFINE g == n - k
<1>4. g \in T /\ k \in Nat
  BY <1>3
<1>5. ASSUME NEW m \in T PROVE m <= g
  <2>1. m \in 0 .. n /\ n - (n - m) = m
    BY <1>5
  <2>2. n - m \in U
    BY <1>5, <2>1
  <2>3. k <= n - m
    BY <1>3, <2>2
  <2> QED BY <1>4, <2>1, <2>3
<1>6. \E x \in T : \A y \in T : x >= y
  <2>1. g \in 0 .. n
    BY <1>4
  <2>2. \A y \in T : g >= y
    BY <1>5, <2>1
  <2> QED BY <1>4, <2>2
<1>7. FE!Max(T) \in T /\ \A y \in T : FE!Max(T) >= y
  BY <1>6 DEF FE!Max
<1> QED BY <1>7

\* Min of a set of natural numbers.
LEMMA LeastIs ==
  ASSUME NEW T, T \subseteq Nat, T # {}
  PROVE  FE!Min(T) \in T /\ \A m \in T : FE!Min(T) <= m
BY Least DEF FE!Min

\* A window that may become the active one.
Eligible(d, l) == l = 0 \/ (l \in LayersOf(d) /\ IsDraggable(l))

\* LayerManager::FindLayerByPosition as the mouse uses it: a window, or none.
LEMMA UnderCursorIs ==
  ASSUME NEW d, Ready(d), NEW p PROVE Eligible(d, UnderCursor(d, p))
<1> DEFINE hit == {h \in DOMAIN d.stack :
                     d.stack[h] # MouseLayer /\ p \in Points(Window(d, d.stack[h]))}
           f == FindLayerByPosition(d, p, MouseLayer)
<1>1. CASE hit = {}
  BY <1>1 DEF FindLayerByPosition, UnderCursor, Eligible
<1>2. CASE hit # {}
  <2>1. Len(d.stack) \in Nat /\ hit \subseteq 1 .. Len(d.stack)
    BY DEF Ready, Ordered, Stacked
  <2>2. f = d.stack[FE!Max(hit)]
    BY <1>2 DEF FindLayerByPosition
  <2>3. FE!Max(hit) \in 1 .. Len(d.stack)
    <3> HIDE DEF hit
    <3>1. hit \subseteq 0 .. Len(d.stack)
      BY <2>1
    <3>2. FE!Max(hit) \in hit
      BY <1>2, <2>1, <3>1, Greatest
    <3> QED BY <2>1, <3>2
  <2>4. f \in LayersOf(d)
    <3> DEFINE h == FE!Max(hit)
    <3>1. h \in 1 .. Len(d.stack) /\ f = d.stack[h]
      BY <2>2, <2>3
    <3> HIDE DEF h, f
    <3>2. d.stack \in Seq(LayersOf(d))
      BY DEF Ready, Ordered, Stacked
    <3> QED BY <3>1, <3>2
  <2> QED BY <2>4 DEF UnderCursor, Eligible
<1> QED BY <1>1, <1>2

\* main.cpp, Alt+A: the window with the next identifier, or none after the last.
LEMMA NextWindowLeast ==
  ASSUME NEW d, Ready(d), FirstLayers \subseteq LayersOf(d), NEW act, Eligible(d, act)
  PROVE  LET l == NextWindow(d, act)
         IN  \/ /\ l = 0
                /\ \A e \in LayersOf(d) : IsDraggable(e) => e <= act
             \/ /\ l \in LayersOf(d) /\ IsDraggable(l) /\ act < l
                /\ \A e \in LayersOf(d) : IsDraggable(e) /\ act < e => l <= e
<1> DEFINE from == SkipMouse(SkipScreenLayers(act + 1))
           found == {l \in LayersOf(d) : l >= from}
<1>0. LayersOf(d) \subseteq Nat \ {0} /\ act \in Nat
  BY DEF Ready, DeskType, Eligible
<1>1. from \in Nat /\ from >= 3 /\ from # MouseLayer /\ act < from
  BY <1>0, FirstLayersApart DEF SkipMouse, SkipScreenLayers
<1>2. found \subseteq LayersOf(d) /\ found \subseteq Nat /\ \A l \in found : l >= from
  BY <1>0
<1>3. from \in FirstLayers => from \in found
  BY <1>0, <1>1
<1>4. NextWindow(d, act) = IF found = {} THEN 0 ELSE FE!Min(found)
  BY DEF NextWindow
<1>7. ASSUME NEW e \in LayersOf(d), IsDraggable(e), ~(e <= act) PROVE e \in found
  <2>1. e \in Nat /\ e > act /\ e # 1 /\ e # 2 /\ e # MouseLayer
    BY <1>0, <1>7, FirstLayersApart DEF IsDraggable
  <2>2. e >= from
    BY <1>0, <2>1, FirstLayersApart DEF SkipMouse, SkipScreenLayers
  <2> QED BY <2>2
<1> HIDE DEF from, found
<1>5. CASE found = {}
  BY <1>4, <1>5, <1>7
<1>6. CASE found # {}
  <2> DEFINE l == FE!Min(found)
  <2>1. l \in found /\ \A m \in found : l <= m
    BY <1>2, <1>6, LeastIs
  <2> HIDE DEF l
  <2>2. l \in LayersOf(d) /\ l \in Nat /\ l >= from
    BY <1>2, <2>1
  <2>3. l # MouseLayer
    <3>1. CASE from <= MouseLayer
      <4>1. from \in found
        BY <1>1, <1>3, <3>1, FirstLayersApart DEF FirstLayers
      <4>2. l <= from
        BY <2>1, <4>1
      <4> QED BY <1>1, <2>2, <4>2
    <3>2. CASE ~(from <= MouseLayer)
      BY <1>1, <2>2, <3>2, FirstLayersApart
    <3> QED BY <3>1, <3>2
  <2>4. IsDraggable(l) /\ act < l
    BY <1>0, <1>1, <2>2, <2>3, FirstLayersApart DEF IsDraggable
  <2>5. \A e \in LayersOf(d) : IsDraggable(e) /\ act < e => l <= e
    BY <1>0, <1>7, <2>1
  <2>6. NextWindow(d, act) = l
    BY <1>4, <1>6 DEF l
  <2> QED BY <2>2, <2>4, <2>5, <2>6
<1> QED BY <1>5, <1>6

\* ... which is a window that may become the active one.
LEMMA NextWindowIs ==
  ASSUME NEW d, Ready(d), FirstLayers \subseteq LayersOf(d), NEW act, Eligible(d, act)
  PROVE  Eligible(d, NextWindow(d, act))
BY NextWindowLeast DEF Eligible

-----------------------------------------------------------------------------
(* The desk between two steps, and what the steps do to it.                *)

\* n: the last identifier given to a layer.
DeskOK(d, n) ==
  /\ Ready(d) /\ Focus(d)
  /\ FirstLayers \subseteq LayersOf(d) /\ LayersOf(d) \subseteq 1 .. n
  /\ \A a \in LayersOf(d) : InStack(d, a)
  /\ d.task \in [LayersOf(d) \ FirstLayers -> Tasks]
\* If a terminal's window is the active one, the terminal was told so.
ToldOK(d, T) == d.active \in T => d.active \in d.told

\* No window is moved.
Rests(d, r) == \A a \in LayersOf(d) : a # MouseLayer => r.pos[a] = d.pos[a]
Still(d, r) == r.stack = d.stack /\ r.active = d.active
\* r is d after a call that makes no window and closes none; M may have moved.
DeskStep(d, r, n, M) ==
  /\ DeskOK(r, n) /\ LayersOf(r) = LayersOf(d) /\ r.task = d.task
  /\ Good(d) => Good(r)
  /\ \A a \in LayersOf(d) : a \notin M => r.pos[a] = d.pos[a]
  /\ OtherOrder(d, r, r.active) /\ (r.active = d.active \/ Rests(d, r))
  /\ \A T \in SUBSET DOMAIN d.task : ToldOK(d, T) => ToldOK(r, T)

\* Doing nothing is a step that makes no window and closes none.
LEMMA NoStep == ASSUME NEW d, NEW n, DeskOK(d, n), NEW M PROVE DeskStep(d, d, n, M)
BY DEF DeskStep, OtherOrder

\* So are two calls one after the other, if the first brings no window to the front.
LEMMA TwoSteps ==
  ASSUME NEW d, NEW r, NEW s, NEW n, NEW M, DeskStep(d, r, n, M), DeskStep(r, s, n, M),
         Still(d, r), Rests(d, r)
  PROVE  DeskStep(d, s, n, M)
<1>1. OtherOrder(d, s, s.active)
  BY DEF DeskStep, Still, OtherOrder, Below
<1>2. s.active = d.active \/ Rests(d, s)
  BY DEF DeskStep, Still, Rests
<1> QED BY <1>1, <1>2 DEF DeskStep

\* A call that leaves the stack and the active window.
LEMMA KeepsStep ==
  ASSUME NEW d, NEW n, DeskOK(d, n), NEW r, Ready(r), Keeps(d, r), LayersOf(r) = LayersOf(d),
         Good(d) => Good(r), NEW M, \A a \in LayersOf(d) : a \notin M => r.pos[a] = d.pos[a]
  PROVE  DeskStep(d, r, n, M)
<1>1. Focus(r)
  BY KeepsFocus DEF DeskOK
<1>2. \A a \in LayersOf(r) : InStack(r, a)
  BY DEF DeskOK, Keeps, InStack
<1>3. DeskOK(r, n)
  BY <1>1, <1>2 DEF DeskOK, Keeps
<1>4. \A T \in SUBSET DOMAIN d.task : ToldOK(d, T) => ToldOK(r, T)
  BY DEF ToldOK, Keeps
<1>5. OtherOrder(d, r, r.active) /\ r.active = d.active
  BY DEF Keeps, OtherOrder, Below
<1> QED BY <1>3, <1>4, <1>5 DEF DeskStep, Keeps

\* A call that only draws.
LEMMA RefreshedStep ==
  ASSUME NEW d, NEW n, DeskOK(d, n), NEW r, Refreshed(d, r), Good(d) => Good(r), NEW M
  PROVE  DeskStep(d, r, n, M)
<1>1. Ready(r) /\ Keeps(d, r) /\ LayersOf(r) = LayersOf(d)
  BY DEF Refreshed, Redrawn, Keeps, LayersOf
<1>2. \A a \in LayersOf(d) : a \notin M => r.pos[a] = d.pos[a]
  BY DEF Refreshed, Redrawn
<1> QED BY <1>1, <1>2, KeepsStep

\* LayerManager::Move.
LEMMA MoveStep ==
  ASSUME NEW d, NEW n, DeskOK(d, n), NEW l \in LayersOf(d), l # Background, NEW pos \in Vector,
         NEW M, l \in M
  PROVE  LET r == Move(d, l, pos)
         IN  DeskStep(d, r, n, M) /\ Still(d, r) /\ (l = MouseLayer => Rests(d, r))
<1> DEFINE r == Move(d, l, pos)
<1>1. Ready(d) /\ InStack(d, l)
  BY DEF DeskOK
<1>2. /\ Ready(r) /\ (Good(d) => Good(r)) /\ Keeps(d, r)
      /\ r.pos = [d.pos EXCEPT ![l] = pos]
  BY <1>1, MoveIs
<1> HIDE DEF r
<1>3. LayersOf(r) = LayersOf(d)
  BY <1>2 DEF LayersOf
<1>4. \A a \in LayersOf(d) : a \notin M => r.pos[a] = d.pos[a]
  BY <1>2 DEF LayersOf
<1>5. DeskStep(d, r, n, M)
  BY <1>2, <1>3, <1>4, KeepsStep
<1>6. Still(d, r)
  BY <1>2 DEF Keeps, Still
<1>7. l = MouseLayer => Rests(d, r)
  BY <1>2 DEF Rests, LayersOf
<1> QED BY <1>5, <1>6, <1>7 DEF r

\* ActiveLayer::Activate.
LEMMA ActivateStep ==
  ASSUME NEW d, NEW n, DeskOK(d, n), NEW l, Eligible(d, l), NEW M
  PROVE  DeskStep(d, Activate(d, l), n, M)
<1> DEFINE r == Activate(d, l)
<1>1. Activated(d, r, l)
  BY ActivateIs DEF DeskOK, Eligible
<1> HIDE DEF r
<1>2. r.pos = d.pos /\ r.task = d.task /\ LayersOf(r) = LayersOf(d)
  BY <1>1 DEF Activated, Same, LayersOf
<1>3. \A a \in LayersOf(r) : InStack(r, a)
  BY <1>1, <1>2 DEF Activated, DeskOK
<1>4. DeskOK(r, n)
  BY <1>1, <1>2, <1>3 DEF DeskOK, Activated
<1>5. ASSUME NEW T \in SUBSET DOMAIN d.task, ToldOK(d, T) PROVE ToldOK(r, T)
  <2> SUFFICES ASSUME l \in T PROVE l \in r.told
    BY <1>1 DEF ToldOK, Activated
  <2>1. l \in DOMAIN d.task /\ (d.active = l => l \in d.told)
    BY <1>5 DEF ToldOK
  <2>2. l # 0
    BY <2>1 DEF DeskOK, Ready, DeskType
  <2> QED BY <1>1, <2>1, <2>2 DEF Activated
<1>6. OtherOrder(d, r, r.active) /\ Rests(d, r)
  BY <1>1, <1>2 DEF Activated, Rests
<1> QED BY <1>1, <1>2, <1>4, <1>5, <1>6 DEF DeskStep, Activated, r

\* LayerManager::Draw, of a layer and of a part of it.
LEMMA DrawStep ==
  ASSUME NEW d, NEW n, DeskOK(d, n), NEW l \in LayersOf(d), NEW M
  PROVE  /\ DeskStep(d, Draw(d, l), n, M)
         /\ l # MouseLayer => DeskStep(d, DrawPart(d, l, TextArea), n, M)
<1>1. Ready(d) /\ InStack(d, l)
  BY DEF DeskOK
<1>2. Refreshed(d, Draw(d, l)) /\ (GoodApart(d, l) => Good(Draw(d, l)))
  BY <1>1, DrawGood
<1>3. Good(d) => GoodApart(d, l)
  BY DEF Good, GoodBut, GoodApart
<1>4. l # MouseLayer =>
        /\ Refreshed(d, DrawPart(d, l, TextArea))
        /\ Good(d) => Good(DrawPart(d, l, TextArea))
  BY <1>1, DrawPartGood
<1>5. DeskStep(d, Draw(d, l), n, M)
  BY <1>2, <1>3, RefreshedStep
<1>6. l # MouseLayer => DeskStep(d, DrawPart(d, l, TextArea), n, M)
  BY <1>4, RefreshedStep
<1> QED BY <1>5, <1>6

\* LayerManager::Draw of a layer that has left the stack: any area may be copied.
LEMMA GarbageStep ==
  ASSUME NEW d, NEW n, DeskOK(d, n), NEW area \in Rectangles, NEW M
  PROVE  DeskStep(d, DrawGarbage(d, area), n, M)
<1> DEFINE r == DrawGarbage(d, area)
<1>1. Ready(d) /\ GoodBut(d, ScreenPoints)
  BY DEF DeskOK, GoodBut
<1>2. Redrawn(d, r) /\ Ready(r)
  BY <1>1, DrawGarbageGood
<1>3. Good(d) => Good(r)
  BY <1>1, DrawGarbageGood DEF Good
<1> HIDE DEF r
<1>4. DeskStep(d, r, n, M)
  BY <1>2, <1>3, RefreshedStep DEF Refreshed
<1> QED BY <1>4 DEF r

\* Writing to a window that is not drawn yet.
LEMMA WrittenStep ==
  ASSUME NEW d, NEW n, DeskOK(d, n), NEW l, NEW M PROVE DeskStep(d, Written(d, l), n, M) /\ Still(d, Written(d, l)) /\ Rests(d, Written(d, l))
<1> DEFINE r == Written(d, l)
<1>1. Ready(d)
  BY DEF DeskOK
<1>2. Ready(r) /\ (Good(d) => Good(r)) /\ Keeps(d, r) /\ r.pos = d.pos
  BY <1>1, WrittenIs
<1> HIDE DEF r
<1>3. LayersOf(r) = LayersOf(d)
  BY <1>2 DEF LayersOf
<1>4. DeskStep(d, r, n, M)
  BY <1>2, <1>3, KeepsStep
<1>5. Still(d, r) /\ Rests(d, r)
  BY <1>2 DEF Keeps, Still, Rests
<1> QED BY <1>4, <1>5 DEF r

\* r is d with a window l of task t more, the active one.
Grown(d, r, l, t) ==
  /\ DeskOK(r, l) /\ LayersOf(r) = LayersOf(d) \cup {l} /\ r.active = l
  /\ Good(d) => Good(r)
  /\ \A a \in LayersOf(d) : r.pos[a] = d.pos[a]
  /\ OtherOrder(d, r, l)
  /\ DOMAIN r.task = DOMAIN d.task \cup {l} /\ r.task[l] = t
  /\ \A a \in DOMAIN d.task : r.task[a] = d.task[a]

\* The identifiers of layers that are made later.
Fresh(d, n, l) == n \in Nat /\ n >= MouseLayer /\ l = n + 1
\* An identifier that LayerManager::NewLayer has not given yet.
LEMMA FreshIs ==
  ASSUME NEW d, NEW n, DeskOK(d, n), NEW l, Fresh(d, n, l)
  PROVE  /\ l \in Nat \ {0} /\ l \notin LayersOf(d) /\ l \notin FirstLayers /\ IsDraggable(l)
         /\ d.active # l /\ l \notin DOMAIN d.task /\ LayersOf(d) \cup {l} \subseteq 1 .. l
<1>1. n \in Nat /\ n >= MouseLayer /\ l = n + 1
  BY DEF Fresh
<1>2. LayersOf(d) \subseteq 1 .. n
  BY DEF DeskOK
<1>3. l \in Nat \ {0} /\ l \notin LayersOf(d) /\ LayersOf(d) \cup {l} \subseteq 1 .. l
  BY <1>1, <1>2
<1>4. l \notin FirstLayers /\ IsDraggable(l)
  BY <1>1, FirstLayersApart DEF FirstLayers, IsDraggable
<1>5. d.active # l
  BY <1>3, FocusInStack DEF DeskOK
<1>6. l \notin DOMAIN d.task
  BY <1>3 DEF DeskOK
<1> QED BY <1>3, <1>4, <1>5, <1>6

\* x is d with l a layer of it, not yet in the stack.
Made(d, x, l) ==
  /\ Ready(x) /\ Focus(x) /\ (Good(d) => Good(x)) /\ Keeps(d, x)
  /\ LayersOf(x) = LayersOf(d) \cup {l}
  /\ \A a \in LayersOf(d) : x.pos[a] = d.pos[a]

\* syscall::OpenWindow: the new window is the active one, and all is right.
LEMMA OpenWindowIs ==
  ASSUME NEW d, NEW n, DeskOK(d, n), NEW l, Fresh(d, n, l), NEW t \in Tasks, NEW pos \in Vector
  PROVE  Grown(d, MapTo(Activate(NewLayer(d, l, pos), l), l, t), l, t)
<1> DEFINE x == NewLayer(d, l, pos)
           y == Activate(x, l)
           r == MapTo(y, l, t)
<1>1. /\ l \in Nat \ {0} /\ l \notin LayersOf(d) /\ l \notin FirstLayers /\ IsDraggable(l)
      /\ d.active # l /\ l \notin DOMAIN d.task /\ LayersOf(d) \cup {l} \subseteq 1 .. l
  BY FreshIs
<1>2. Made(d, x, l)
  <2>1. Ready(d) /\ Focus(d)
    BY DEF DeskOK
  <2>2. /\ Ready(x) /\ (Good(d) => Good(x)) /\ Keeps(d, x)
        /\ LayersOf(x) = LayersOf(d) \cup {l} /\ x.pos[l] = pos
        /\ \A a \in LayersOf(d) : x.pos[a] = d.pos[a]
    BY <1>1, <2>1, NewLayerIs
  <2> HIDE DEF x
  <2> QED BY <2>1, <2>2, KeepsFocus DEF Made
<1> HIDE DEF x
<1>3. Activated(x, y, l)
  BY <1>1, <1>2, ActivateIs DEF Made
<1> HIDE DEF y
<1>4. /\ Alike(y, r) /\ r.active = y.active /\ r.told = y.told
      /\ r.task = [a \in DOMAIN y.task \cup {l} |-> r.task[a]] /\ r.task[l] = t
      /\ \A a \in DOMAIN y.task : a # l => r.task[a] = y.task[a]
  BY <1>3, MapToIs DEF Activated
<1> HIDE DEF r
<1>5. r.pos = x.pos /\ LayersOf(r) = LayersOf(d) \cup {l} /\ y.task = d.task
  BY <1>2, <1>3, <1>4 DEF Made, Activated, Same, Alike, Keeps, LayersOf
<1>6. DOMAIN r.task = DOMAIN d.task \cup {l} /\ r.task[l] = t
      /\ \A a \in DOMAIN d.task : r.task[a] = d.task[a]
  BY <1>1, <1>4, <1>5
<1>7. r.task \in [LayersOf(r) \ FirstLayers -> Tasks]
  <2>1. DOMAIN d.task = LayersOf(d) \ FirstLayers /\ \A a \in DOMAIN d.task : d.task[a] \in Tasks
    BY DEF DeskOK
  <2>2. DOMAIN d.task \cup {l} = LayersOf(r) \ FirstLayers
    BY <1>1, <1>5, <2>1
  <2>3. r.task = [a \in LayersOf(r) \ FirstLayers |-> r.task[a]]
    BY <1>4, <1>5, <2>2
  <2>4. \A a \in LayersOf(r) \ FirstLayers : r.task[a] \in Tasks
    BY <1>6, <2>1, <2>2
  <2> QED BY <2>3, <2>4
<1>8. Ready(r) /\ (Good(d) => Good(r)) /\ Focus(r) /\ r.active = l
  <2>1. Focus(r)
    BY <1>3, <1>4, <1>5, <1>6 DEF Activated, Focus, Alike
  <2> QED BY <1>2, <1>3, <1>4, <2>1, AlikeGood DEF Activated, Made
<1>9. \A a \in LayersOf(r) : InStack(r, a)
  <2>1. \A a : InStack(r, a) <=> InStack(y, a)
    BY <1>4 DEF Alike, InStack
  <2>2. \A a \in LayersOf(d) : InStack(x, a)
    BY <1>2 DEF Made, Keeps, InStack, DeskOK
  <2> QED BY <1>1, <1>3, <1>5, <2>1, <2>2 DEF Activated
<1>10. DeskOK(r, l)
  BY <1>1, <1>5, <1>7, <1>8, <1>9 DEF DeskOK
<1>11. \A a \in LayersOf(d) : r.pos[a] = d.pos[a]
  BY <1>2, <1>5 DEF Made
<1>12. OtherOrder(d, r, l)
  BY <1>2, <1>3, <1>4 DEF Made, Keeps, Activated, Alike, OtherOrder, Below
<1> QED BY <1>5, <1>6, <1>8, <1>10, <1>11, <1>12 DEF Grown, r, y, x

\* A terminal's window is moved to its place before it is in the stack.
LEMMA MovedAtOnce ==
  ASSUME NEW d, Ready(d), NEW l, NEW pos
  PROVE  [NewLayer(d, l, Origin) EXCEPT !.pos[l] = pos] = NewLayer(d, l, pos)
<1> DEFINE P(v) == Over([k \in {l} |-> v], d.pos)
           x(v) == [pos |-> P(v), stack |-> d.stack, lit |-> d.lit, text |-> d.text,
                    undrawn |-> d.undrawn, back |-> d.back, screen |-> d.screen,
                    active |-> d.active, task |-> d.task, told |-> d.told]
<1>1. IsRecord(d)
  BY DEF Ready, DeskType
<1>2. ASSUME NEW v PROVE NewLayer(d, l, v) = x(v)
  <2> DEFINE p == P(v)
  <2>1. NewLayer(d, l, v) = [d EXCEPT !.pos = p]
    BY DEF NewLayer
  <2> HIDE DEF p
  <2>2. [d EXCEPT !.pos = p] =
          [pos |-> p, stack |-> d.stack, lit |-> d.lit, text |-> d.text,
           undrawn |-> d.undrawn, back |-> d.back, screen |-> d.screen,
           active |-> d.active, task |-> d.task, told |-> d.told]
    BY <1>1 DEF IsRecord
  <2> QED BY <2>1, <2>2 DEF p
<1>3. ASSUME NEW v PROVE P(v) = [a \in {l} \cup LayersOf(d) |-> IF a = l THEN v ELSE d.pos[a]]
  BY DEF Over, LayersOf
<1>4. [P(Origin) EXCEPT ![l] = pos] = P(pos)
  <2> DEFINE f == P(Origin)
             g == P(pos)
  <2>1. /\ f = [a \in {l} \cup LayersOf(d) |-> IF a = l THEN Origin ELSE d.pos[a]]
        /\ g = [a \in {l} \cup LayersOf(d) |-> IF a = l THEN pos ELSE d.pos[a]]
    BY <1>3
  <2> HIDE DEF f, g
  <2>2. [f EXCEPT ![l] = pos] = g
    BY <2>1
  <2> QED BY <2>2 DEF f, g
<1> DEFINE o == x(Origin)
           f == P(Origin)
           g == P(pos)
<1>5. NewLayer(d, l, Origin) = o /\ NewLayer(d, l, pos) = x(pos)
  BY <1>2
<1>6. [o EXCEPT !.pos[l] = pos] = x(pos)
  <2>1. o = [pos |-> f, stack |-> d.stack, lit |-> d.lit, text |-> d.text,
             undrawn |-> d.undrawn, back |-> d.back, screen |-> d.screen,
             active |-> d.active, task |-> d.task, told |-> d.told]
    OBVIOUS
  <2>2. x(pos) = [pos |-> g, stack |-> d.stack, lit |-> d.lit, text |-> d.text,
                  undrawn |-> d.undrawn, back |-> d.back, screen |-> d.screen,
                  active |-> d.active, task |-> d.task, told |-> d.told]
    OBVIOUS
  <2>3. [f EXCEPT ![l] = pos] = g
    BY <1>4
  <2> HIDE DEF o, x, f, g
  <2>4. o.pos = f
    BY <2>1
  <2>5. [o EXCEPT !.pos[l] = pos] = [o EXCEPT !.pos = g]
    BY <2>3, <2>4
  <2> QED BY <2>1, <2>2, <2>5
<1> QED BY <1>5, <1>6

\* TaskTerminal: its window is the active one, the task knows, and all is right.
LEMMA StartTerminalIs ==
  ASSUME NEW d, NEW n, DeskOK(d, n), NEW l, Fresh(d, n, l), NEW t \in Tasks,
         NEW junk \in Rectangles
  PROVE  LET new == NewLayer(d, l, Origin)
             drawn == DrawArea([new EXCEPT !.pos[l] = TerminalPos], Window(new, l))
             r == ActivateTerminal(DrawGarbage(drawn, junk), l, t)
         IN  Grown(d, r, l, t) /\ l \in r.told
<1> DEFINE new == NewLayer(d, l, Origin)
           x == NewLayer(d, l, TerminalPos)
           area == Window(new, l)
           w == DrawArea(x, area)
           g == DrawGarbage(w, junk)
           u == MapTo(g, l, t)
           r == Activate(u, l)
<1>0. TerminalPos \in Vector /\ Origin \in Vector /\ Ready(d) /\ Focus(d)
  BY GeometryAssumption, OriginType DEF DeskOK
<1>1. /\ l \in Nat \ {0} /\ l \notin LayersOf(d) /\ l \notin FirstLayers /\ IsDraggable(l)
      /\ d.active # l /\ l \notin DOMAIN d.task /\ LayersOf(d) \cup {l} \subseteq 1 .. l
  BY FreshIs
<1>2. area \in Rectangles
  <2>1. Ready(new) /\ LayersOf(new) = LayersOf(d) \cup {l}
    BY <1>0, <1>1, NewLayerIs
  <2> HIDE DEF new
  <2> QED BY <2>1, WindowType DEF Ready
<1>3. [new EXCEPT !.pos[l] = TerminalPos] = x
  BY <1>0, MovedAtOnce
<1>4. Made(d, x, l)
  <2>1. /\ Ready(x) /\ (Good(d) => Good(x)) /\ Keeps(d, x)
        /\ LayersOf(x) = LayersOf(d) \cup {l} /\ x.pos[l] = TerminalPos
        /\ \A a \in LayersOf(d) : x.pos[a] = d.pos[a]
    BY <1>0, <1>1, NewLayerIs
  <2> HIDE DEF x
  <2> QED BY <1>0, <2>1, KeepsFocus DEF Made
<1> HIDE DEF x, area
<1>5. Redrawn(x, w) /\ Ready(w) /\ (Good(x) => Good(w))
  <2>1. Ready(x) /\ GoodBut(x, ScreenPoints)
    BY <1>4 DEF Made, GoodBut
  <2>2. Redrawn(x, w) /\ Ready(w)
    BY <1>2, <2>1, DrawAreaGood
  <2>3. ASSUME GoodBut(x, {}) PROVE GoodBut(w, {} \ Points(area))
    BY <1>2, <2>1, <2>3, DrawAreaGood
  <2>4. {} \ Points(area) = {}
    OBVIOUS
  <2> QED BY <2>2, <2>3, <2>4 DEF Good
<1> HIDE DEF w
<1>6. Redrawn(w, g) /\ Ready(g) /\ (Good(w) => Good(g))
  <2>1. GoodBut(w, ScreenPoints)
    BY DEF GoodBut
  <2>2. Redrawn(w, g) /\ Ready(g)
    BY <1>5, <2>1, DrawGarbageGood
  <2>3. ASSUME GoodBut(w, {}) PROVE GoodBut(g, {})
    BY <1>5, <2>3, DrawGarbageGood
  <2> QED BY <2>2, <2>3 DEF Good
<1> HIDE DEF g
<1>7. /\ Ready(g) /\ (Good(d) => Good(g)) /\ Keeps(d, g) /\ g.pos = x.pos
  BY <1>4, <1>5, <1>6 DEF Made, Keeps, Redrawn
<1>8. /\ Alike(g, u) /\ u.active = g.active /\ u.told = g.told
      /\ u.task = [a \in DOMAIN g.task \cup {l} |-> u.task[a]] /\ u.task[l] = t
      /\ \A a \in DOMAIN g.task : a # l => u.task[a] = g.task[a]
  BY <1>7, MapToIs
<1> HIDE DEF u
<1>9. /\ u.pos = x.pos /\ LayersOf(u) = LayersOf(d) \cup {l}
      /\ u.stack = d.stack /\ u.lit = d.lit /\ u.active = d.active /\ u.told = d.told
      /\ g.task = d.task
  BY <1>4, <1>7, <1>8 DEF Made, Alike, Keeps, LayersOf
<1>10. /\ DOMAIN u.task = DOMAIN d.task \cup {l} /\ u.task[l] = t
       /\ \A a \in DOMAIN d.task : u.task[a] = d.task[a]
  BY <1>1, <1>8, <1>9
<1>11. Ready(u) /\ (Good(d) => Good(u)) /\ Focus(u)
  <2>1. Focus(u)
    BY <1>0, <1>9, <1>10 DEF Focus
  <2> QED BY <1>7, <1>8, <2>1, AlikeGood
<1>12. Activated(u, r, l)
  BY <1>1, <1>9, <1>11, ActivateIs
<1> HIDE DEF r
<1>13. r.pos = x.pos /\ LayersOf(r) = LayersOf(d) \cup {l} /\ r.task = u.task
  BY <1>9, <1>12 DEF Activated, Same, LayersOf
<1>14. r.task \in [LayersOf(r) \ FirstLayers -> Tasks]
  <2>1. DOMAIN d.task = LayersOf(d) \ FirstLayers /\ \A a \in DOMAIN d.task : d.task[a] \in Tasks
    BY DEF DeskOK
  <2>2. DOMAIN d.task \cup {l} = LayersOf(r) \ FirstLayers
    BY <1>1, <1>13, <2>1
  <2>3. r.task = [a \in LayersOf(r) \ FirstLayers |-> r.task[a]]
    BY <1>8, <1>9, <1>13, <2>2
  <2>4. \A a \in LayersOf(r) \ FirstLayers : r.task[a] \in Tasks
    BY <1>10, <1>13, <2>1, <2>2
  <2> QED BY <2>3, <2>4
<1>15. \A a \in LayersOf(r) : InStack(r, a)
  <2>1. \A a \in LayersOf(d) : InStack(u, a)
    BY <1>9 DEF InStack, DeskOK
  <2> QED BY <1>1, <1>12, <1>13, <2>1 DEF Activated
<1>16. DeskOK(r, l)
  BY <1>1, <1>12, <1>13, <1>14, <1>15 DEF DeskOK, Activated
<1>17. l \in r.told
  BY <1>1, <1>9, <1>10, <1>12 DEF Activated
<1>18. \A a \in LayersOf(d) : r.pos[a] = d.pos[a]
  BY <1>4, <1>13 DEF Made
<1>19. OtherOrder(d, r, l)
  <2>1. \A a, b : Below(u, a, b) <=> Below(d, a, b)
    BY <1>9 DEF Below
  <2> QED BY <1>12, <2>1 DEF Activated, OtherOrder
<1>20. Grown(d, r, l, t)
  BY <1>10, <1>11, <1>12, <1>13, <1>16, <1>18, <1>19 DEF Grown, Activated
<1> QED BY <1>3, <1>17, <1>20 DEF ActivateTerminal, r, u, g, w, x, area

\* CloseLayer with interrupts off: no window is active, and all is right if the window is
\* still where it was when its rectangle was read.
LEMMA CloseWindowIs ==
  ASSUME NEW d, NEW n, DeskOK(d, n), NEW l \in LayersOf(d) \ FirstLayers,
         NEW area \in Rectangles
  PROVE  LET r == Unmapped(DrawArea(RemoveLayer(LoseFocus(d), l), area), l)
         IN  /\ DeskOK(r, n) /\ LayersOf(r) = LayersOf(d) \ {l} /\ r.active = 0
             /\ Good(d) /\ area = Window(d, l) => Good(r)
             /\ \A a \in LayersOf(d) : a # l => r.pos[a] = d.pos[a]
             /\ OtherOrder(d, r, l)
             /\ r.task = [a \in DOMAIN d.task \ {l} |-> d.task[a]]
<1> DEFINE x == Activate(d, 0)
           r == Unmapped(DrawArea(RemoveLayer(x, l), area), l)
<1>1. l \in Nat \ {0} /\ IsDraggable(l)
  BY FirstLayersApart DEF DeskOK, Ready, DeskType, FirstLayers, IsDraggable
<1>2. Activated(d, x, 0)
  BY ActivateIs DEF DeskOK
<1> HIDE DEF x
<1>3. /\ Ready(x) /\ Focus(x) /\ x.active = 0 /\ (Good(d) => Good(x))
      /\ x.pos = d.pos /\ x.task = d.task /\ LayersOf(x) = LayersOf(d)
      /\ \A a : InStack(x, a) <=> InStack(d, a)
  BY <1>2 DEF Activated, Same, LayersOf
<1>4. Removed(x, r, l) /\ ((Good(x) /\ area = Window(x, l)) => Good(r))
  BY <1>1, <1>3, CloseIs
<1> HIDE DEF r
<1>5. /\ Ready(r) /\ Focus(r) /\ r.active = 0 /\ LayersOf(r) = LayersOf(d) \ {l}
      /\ \A a \in LayersOf(r) : r.pos[a] = d.pos[a]
      /\ \A a : InStack(r, a) <=> (InStack(d, a) /\ a # l)
      /\ r.task = [a \in DOMAIN d.task \ {l} |-> d.task[a]]
  BY <1>3, <1>4 DEF Removed
<1>6. Window(x, l) = Window(d, l)
  BY <1>3 DEF Window
<1>7. DeskOK(r, n)
  <2>1. DOMAIN d.task = LayersOf(d) \ FirstLayers /\ \A a \in DOMAIN d.task : d.task[a] \in Tasks
    BY DEF DeskOK
  <2>2. DOMAIN d.task \ {l} = LayersOf(r) \ FirstLayers
    BY <1>5, <2>1
  <2>3. r.task \in [LayersOf(r) \ FirstLayers -> Tasks]
    BY <1>5, <2>1, <2>2
  <2>4. \A a \in LayersOf(r) : InStack(r, a)
    BY <1>5 DEF DeskOK
  <2>5. FirstLayers \subseteq LayersOf(r) /\ LayersOf(r) \subseteq 1 .. n
    BY <1>5 DEF DeskOK
  <2> QED BY <1>5, <2>3, <2>4, <2>5 DEF DeskOK
<1>8. Good(d) /\ area = Window(d, l) => Good(r)
  BY <1>3, <1>4, <1>6
<1>9. OtherOrder(d, r, l)
  BY <1>2, <1>4 DEF Activated, Removed, OtherOrder
<1> QED BY <1>5, <1>7, <1>8, <1>9 DEF LoseFocus, r, x

-----------------------------------------------------------------------------
(* The desk that the main task starts with.                                *)

\* Where the first layers are.
LEMMA InitialPosIs ==
  /\ DOMAIN InitialPos = FirstLayers /\ InitialPos[Background] = Origin
  /\ InitialPos = [l \in FirstLayers |-> InitialPos[l]]
  /\ \A l \in FirstLayers : InitialPos[l] \in Vector
<1>1. Background \in FirstLayers
  BY FirstLayersApart DEF FirstLayers
<1>2. ASSUME NEW l \in FirstLayers, l \notin {Background, Console, MouseLayer}
      PROVE  KernelWindows[l - 2] \in Vector
  <2>1. KernelWindows \in Seq(Vector) /\ MouseLayer = Len(KernelWindows) + 3
    BY GeometryAssumption DEF MouseLayer
  <2>2. l \in 1 .. MouseLayer /\ l # 1 /\ l # 2 /\ l # MouseLayer
    BY <1>2, FirstLayersApart DEF FirstLayers
  <2>3. l - 2 \in 1 .. Len(KernelWindows)
    BY <2>1, <2>2
  <2> QED BY <2>1, <2>3
<1>3. \A l \in FirstLayers : InitialPos[l] \in Vector
  BY <1>2, OriginType DEF InitialPos
<1> QED BY <1>1, <1>3 DEF InitialPos

\* The first layers lie one upon the other in the order they were made in.
AsMade(d) ==
  /\ d.pos = InitialPos /\ d.active = 0
  /\ DOMAIN d.stack = FirstLayers /\ \A h \in FirstLayers : d.stack[h] = h

\* KernelMainNewStack draws the layers before it puts the mouse on top of them.
LEMMA InitialDeskOK ==
  DeskOK(InitialDesk, MouseLayer) /\ Good(InitialDesk) /\ AsMade(InitialDesk)
<1> DEFINE m == MouseLayer
           below == [stack   |-> [h \in 1 .. MouseLayer - 1 |-> h],
                     pos     |-> InitialPos,
                     lit     |-> {}, text |-> {}, undrawn |-> {},
                     back    |-> Empty, screen |-> Empty,
                     active  |-> 0,
                     task    |-> <<>>, told |-> {}]
           w == DrawArea(below, Outline)
           st == [h \in 1 .. m - 1 |-> h]
           s == SE!InsertAt(st, (m - 1) + 1, m)
           u == UpDown(w, m, m)
           r == [u EXCEPT !.undrawn = {m}]
<1>0. m \in Nat /\ m >= 3 /\ FirstLayers = 1 .. m /\ Background = 1 /\ Console = 2
  BY FirstLayersApart DEF FirstLayers
<1>1. InitialDesk = r
  BY DEF InitialDesk
<1>2. /\ below.pos = InitialPos /\ below.stack = st /\ below.lit = {} /\ below.text = {}
      /\ below.undrawn = {} /\ below.back = Empty /\ below.screen = Empty
      /\ below.active = 0 /\ below.task = <<>> /\ below.told = {}
  OBVIOUS
<1>3. IsRecord(below)
  BY <1>2 DEF IsRecord
<1> HIDE DEF below
<1>4. st \in Seq(FirstLayers) /\ Len(st) = m - 1 /\ \A h \in 1 .. m - 1 : st[h] = h
  <2>1. /\ m - 1 \in Nat
        /\ \A h \in 1 .. m - 1 : h \in FirstLayers
    BY <1>0
  <2> HIDE DEF m
  <2>2. st \in [1 .. m - 1 -> FirstLayers]
    BY <2>1
  <2> QED BY <2>1, <2>2
<1> HIDE DEF st, m
<1>5. LayersOf(below) = FirstLayers /\ DeskType(below) /\ Piled(below)
  <2>1. LayersOf(below) = FirstLayers
    BY <1>2, InitialPosIs DEF LayersOf
  <2>2. IsBuffer(Empty)
    BY DEF IsBuffer, Empty
  <2>3. DeskType(below)
    <3>1. FirstLayers \subseteq Nat \ {0}
      BY <1>0
    <3> QED BY <1>2, <1>3, <2>1, <2>2, <3>1, InitialPosIs DEF DeskType
  <2>4. Stacked(below)
    BY <1>2, <1>4, <2>1 DEF Stacked
  <2>5. DOMAIN below.stack = 1 .. m - 1 /\ \A h \in 1 .. m - 1 : below.stack[h] = h /\ h # MouseLayer
    BY <1>0, <1>2, <1>4 DEF m
  <2>6. Piled(below)
    BY <2>4, <2>5 DEF Piled
  <2> QED BY <2>1, <2>3, <2>6
<1>6. /\ Redrawn(below, w) /\ w.undrawn = {}
      /\ \A p \in ScreenPoints : DrawnAt(below, w, 1, Outline, p)
  BY <1>2, <1>5, OutlineType, DrawFromIs DEF DrawArea
<1> HIDE DEF w
<1>7. ASSUME NEW p \in ScreenPoints
      PROVE  Exact(below, p, w.back[p]) /\ Exact(below, p, w.screen[p])
  <2>1. Window(below, Background) = Outline
    <3>1. Size(Background) = ScreenSize
      BY FirstLayersApart DEF Size
    <3> QED BY <1>2, <3>1, InitialPosIs DEF Window, Outline
  <2>2. CoversIn(below, Background, p) /\ p \in Points(Outline)
    BY <2>1, FirstLayersApart DEF CoversIn, ScreenPoints
  <2>3. 1 \in 1 .. Len(below.stack) /\ below.stack[1] = Background
    BY <1>0, <1>2, <1>4
  <2>4. DrawnAt(below, w, 1, Outline, p)
    BY <1>6
  <2> QED BY <2>2, <2>3, <2>4 DEF DrawnAt
<1>8. /\ s \in Seq(FirstLayers) /\ Len(s) = m /\ \A h \in 1 .. m : s[h] = h
  <2>1. m \in FirstLayers /\ (m - 1) + 1 \in 1 .. Len(st) + 1
    BY <1>0, <1>4
  <2> DEFINE i == (m - 1) + 1
  <2>2. s \in Seq(FirstLayers) /\ Extends(s, st, i) /\ s[i] = m
    BY <1>4, <2>1, InsertIs
  <2> HIDE DEF s
  <2>3. i = m
    BY <1>0
  <2>4. Len(s) = m
    BY <1>0, <1>4, <2>2 DEF Extends
  <2>5. ASSUME NEW h \in 1 .. m - 1 PROVE s[h] = h
    BY <1>0, <1>4, <2>2, <2>3, <2>5 DEF Extends
  <2>6. ASSUME NEW h \in 1 .. m PROVE s[h] = h
    <3>1. h \in 1 .. m - 1 \/ h = m
      BY <1>0
    <3> QED BY <2>2, <2>3, <2>5, <3>1
  <2> QED BY <2>2, <2>4, <2>6
<1>9. u = [w EXCEPT !.stack = s]
  <2>1. w.stack = st
    BY <1>2, <1>6 DEF Redrawn
  <2>2. ~InStack(w, m) /\ ~InSeq(st, m)
    BY <1>0, <1>4, <2>1 DEF InStack, InSeq
  <2>3. SE!RemoveFirst(st, m) = st
    BY <1>4, <2>2, RemoveNothing
  <2>4. ~(m < 0) /\ Lower(m, Len(st)) = m - 1
    BY <1>0, <1>4 DEF Lower
  <2> QED BY <2>1, <2>2, <2>3, <2>4 DEF UpDown
<1> HIDE DEF s, u
<1>10. r = [pos |-> w.pos, stack |-> s, lit |-> w.lit, text |-> w.text,
            undrawn |-> {m}, back |-> w.back, screen |-> w.screen,
            active |-> w.active, task |-> w.task, told |-> w.told]
  <2>1. u = [pos |-> w.pos, stack |-> s, lit |-> w.lit, text |-> w.text,
             undrawn |-> w.undrawn, back |-> w.back, screen |-> w.screen,
             active |-> w.active, task |-> w.task, told |-> w.told]
    BY <1>6, <1>9 DEF Redrawn, IsRecord
  <2> QED BY <2>1
<1> HIDE DEF r
<1>11. /\ r.pos = InitialPos /\ r.stack = s /\ r.lit = {} /\ r.text = {}
       /\ r.undrawn = {m} /\ r.back = w.back /\ r.screen = w.screen
       /\ r.active = 0 /\ r.task = <<>> /\ r.told = {}
  <2>1. /\ r.pos = w.pos /\ r.stack = s /\ r.lit = w.lit /\ r.text = w.text
        /\ r.undrawn = {m} /\ r.back = w.back /\ r.screen = w.screen
        /\ r.active = w.active /\ r.task = w.task /\ r.told = w.told
    BY <1>10
  <2> QED BY <1>2, <1>6, <2>1 DEF Redrawn
<1>12. IsRecord(r)
  <2>1. /\ r.pos = w.pos /\ r.stack = s /\ r.lit = w.lit /\ r.text = w.text
        /\ r.undrawn = {m} /\ r.back = w.back /\ r.screen = w.screen
        /\ r.active = w.active /\ r.task = w.task /\ r.told = w.told
    BY <1>10
  <2> QED BY <1>10, <2>1 DEF IsRecord
<1>13. LayersOf(r) = FirstLayers
  BY <1>11, InitialPosIs DEF LayersOf
<1>14. Ready(r)
  <2>1. FirstLayers \subseteq Nat \ {0}
    BY <1>0
  <2>2. DeskType(r)
    BY <1>6, <1>11, <1>12, <1>13, <2>1, InitialPosIs DEF DeskType, Redrawn
  <2>3. Ordered(r)
    <3>1. DOMAIN s = 1 .. m /\ 1 \in 1 .. m /\ 2 \in 1 .. m /\ m \in 1 .. m
      BY <1>0, <1>8
    <3>2. s[1] = Background /\ s[2] = Console /\ s[m] = MouseLayer
      BY <1>0, <1>8, <3>1 DEF m
    <3> QED BY <1>0, <1>8, <1>11, <1>13, <3>1, <3>2 DEF Ordered, Stacked
  <2> QED BY <1>11, <2>2, <2>3, InitialPosIs DEF Ready
<1>15. DeskOK(r, m)
  <2>1. \A a \in LayersOf(r) : InStack(r, a)
    BY <1>0, <1>8, <1>11, <1>13 DEF InStack
  <2>2. r.task \in [LayersOf(r) \ FirstLayers -> Tasks]
    BY <1>11, <1>13
  <2>3. Focus(r)
    BY <1>11 DEF Focus
  <2> QED BY <1>0, <1>13, <1>14, <2>1, <2>2, <2>3 DEF DeskOK
<1>16. /\ \A a : a # m => (InStack(r, a) <=> InStack(below, a))
       /\ \A a, b : (a # m /\ b # m) => (Below(below, a, b) => Below(r, a, b))
       /\ \A a : InStack(r, a) => Below(r, a, m)
       /\ InStack(r, m) /\ ~InStack(below, m)
  <2>1. DOMAIN s = 1 .. m /\ DOMAIN st = 1 .. m - 1 /\ r.stack = s /\ below.stack = st
    BY <1>2, <1>4, <1>8, <1>11
  <2>2. \A h \in 1 .. m : s[h] = h
    BY <1>8
  <2>3. \A h \in 1 .. m - 1 : st[h] = h /\ h \in 1 .. m
    BY <1>0, <1>4
  <2>4. \A a : InStack(r, a) <=> a \in 1 .. m
    BY <2>1, <2>2 DEF InStack
  <2>5. \A a : InStack(below, a) <=> a \in 1 .. m - 1
    BY <2>1, <2>3 DEF InStack
  <2>6. \A a : InStack(r, a) => Below(r, a, m)
    BY <1>0, <2>1, <2>2, <2>4 DEF Below
  <2>7. \A a, b : Below(below, a, b) => Below(r, a, b)
    BY <2>1, <2>2, <2>3 DEF Below
  <2> QED BY <1>0, <2>4, <2>5, <2>6, <2>7
<1>17. ASSUME NEW p \in ScreenPoints, NEW x, Exact(below, p, x) PROVE Right(r, {m}, p, x)
  <2>1. PICK l : Top(below, p, {}, l) /\ x = PixelAt(below, l, p)
    BY <1>17 DEF Exact
  <2>2. /\ \A a : CoversIn(r, a, p) <=> CoversIn(below, a, p)
        /\ \A a : PixelAt(r, a, p) = PixelAt(below, a, p)
    BY <1>2, <1>11 DEF CoversIn, Window, PixelAt, Pixel
  <2>3. l # m /\ InStack(r, l) /\ CoversIn(r, l, p)
    BY <1>16, <2>1, <2>2 DEF Top
  <2>4. ASSUME NEW a, InStack(r, a), a # m, CoversIn(r, a, p) PROVE Below(r, a, l)
    BY <1>16, <2>1, <2>2, <2>3, <2>4 DEF Top
  <2>5. TopShown(r, {m}, p, {m}, x)
    <3>1. Top(r, p, {m}, l)
      BY <2>3, <2>4 DEF Top
    <3>2. Near(r, {m}, l, p, x)
      BY <2>1, <2>2 DEF Near
    <3> QED BY <3>1, <3>2 DEF TopShown
  <2>6. CASE CoversIn(r, m, p)
    <3>1. Top(r, p, {}, m)
      BY <1>16, <2>6 DEF Top
    <3> QED BY <2>5, <3>1 DEF Right, m
  <2>7. CASE ~CoversIn(r, m, p)
    <3>1. Top(r, p, {}, l)
      BY <2>3, <2>4, <2>7 DEF Top
    <3>2. Near(r, {m}, l, p, x)
      BY <2>1, <2>2 DEF Near
    <3> QED BY <3>1, <3>2 DEF Right, TopShown
  <2> QED BY <2>6, <2>7
<1>18. Good(r)
  BY <1>7, <1>11, <1>17 DEF Good, GoodBut, PointGood
<1>19. AsMade(r)
  BY <1>0, <1>8, <1>11 DEF AsMade
<1> QED BY <1>1, <1>15, <1>18, <1>19 DEF m

-----------------------------------------------------------------------------
(* The steps of the main task.                                             *)

NoMouse == Nat \ {MouseLayer}
IInv ==
  /\ DeskOK(desk, latest_id_) /\ ToldOK(desk, terminals)
  /\ latest_id_ \in MouseLayer .. MaxLayerID \cup {MouseLayer}
  /\ asked \cup terminals \subseteq DOMAIN desk.task
  /\ pressed \in BOOLEAN /\ faulted \in BOOLEAN
  /\ drag_layer_id_ # 0 => IsDraggable(drag_layer_id_)
  /\ requests \in Seq(NoMouse)
  /\ closing = [t \in Tasks |-> closing[t]]
  /\ \A t \in Tasks : Idle(t) \/ (closing[t].id \in Own(t) /\ closing[t].area \in Rectangles)

\* What is dragged, and whether.
DragChange ==
  \/ UNCHANGED <<pressed, drag_layer_id_>>
  \/ drag_layer_id_' = 0
  \/ /\ ~pressed /\ pressed' /\ drag_layer_id_' \in {drag_layer_id_} \cup LayersOf(desk)
     /\ ClosedUnderDrag \/ drag_layer_id_' \notin Closing
\* A step that makes no window and closes none.
Calm ==
  /\ DeskStep(desk, desk', latest_id_, {MouseLayer, drag_layer_id_})
  /\ UNCHANGED <<latest_id_, terminals, closing>>
  /\ pressed' \in BOOLEAN /\ faulted' \in BOOLEAN /\ asked' \subseteq DOMAIN desk.task
  /\ requests' \in Seq(NoMouse)
  /\ drag_layer_id_' # 0 => IsDraggable(drag_layer_id_')
  /\ DragChange

\* The mouse cursor is a layer, and not the desktop.
LEMMA MouseIsLayer ==
  ASSUME NEW d, NEW n, DeskOK(d, n)
  PROVE  MouseLayer \in LayersOf(d) /\ MouseLayer # Background /\ d.pos[MouseLayer] \in Vector
<1>1. MouseLayer \in FirstLayers /\ MouseLayer # Background
  BY FirstLayersApart DEF FirstLayers
<1> QED BY <1>1 DEF DeskOK, Ready, DeskType

\* Mouse::OnInterrupt.
LEMMA OnInterruptStep ==
  ASSUME IInv, NEW v \in Displacements, OnInterrupt(v) PROVE Calm
<1> DEFINE p == NewPosition(v)
           d == Move(desk, MouseLayer, p)
           M == {MouseLayer, drag_layer_id_}
<1>1. DeskOK(desk, latest_id_) /\ v \in Vector /\ ScreenSize \in Vector /\ <<1, 1>> \in Vector
  BY GeometryAssumption DEF IInv, Vector
<1>2. MouseLayer \in LayersOf(desk) /\ MouseLayer # Background /\ desk.pos[MouseLayer] \in Vector
  BY <1>1, MouseIsLayer
<1>3. p \in Vector
  <2>1. Plus(desk.pos[MouseLayer], v) \in Vector /\ Minus(ScreenSize, <<1, 1>>) \in Vector
    BY <1>1, <1>2, VectorType
  <2>2. ElementMin(Plus(desk.pos[MouseLayer], v), Minus(ScreenSize, <<1, 1>>)) \in Vector
    BY <2>1, VectorType
  <2> QED BY <2>2, OriginType, VectorType DEF NewPosition
<1> HIDE DEF p
<1>4. DeskStep(desk, d, latest_id_, M) /\ Still(desk, d) /\ Rests(desk, d)
  <2>1. MouseLayer \in M
    OBVIOUS
  <2> HIDE DEF M
  <2> QED BY <1>1, <1>2, <1>3, <2>1, MoveStep
<1>5. \/ \E l \in {UnderCursor(d, p)} : Press(d, p, l)
      \/ Drag(d, p) \/ Release(d) \/ Hover(d)
  BY DEF OnInterrupt, p
<1> HIDE DEF d
<1>6. DeskOK(d, latest_id_) /\ d.task = desk.task /\ LayersOf(d) = LayersOf(desk)
  BY <1>4 DEF DeskStep
<1>7. CASE \E l \in {UnderCursor(d, p)} : Press(d, p, l)
  <2> DEFINE l == UnderCursor(d, p)
  <2>1. Press(d, p, l)
    BY <1>7
  <2>2. Eligible(d, l)
    BY <1>6, UnderCursorIs DEF DeskOK
  <2> HIDE DEF l
  <2>3. DeskStep(d, Activate(d, l), latest_id_, M)
    BY <1>6, <2>2, ActivateStep
  <2>4. DeskStep(desk, desk', latest_id_, M)
    <3>1. desk' = Activate(d, l)
      BY <2>1 DEF Press
    <3> QED BY <1>4, <2>3, <3>1, TwoSteps
  <2>5. drag_layer_id_' = drag_layer_id_ \/ (drag_layer_id_' = l /\ l # 0)
    BY <2>1 DEF Press, On
  <2>6. drag_layer_id_' # 0 => IsDraggable(drag_layer_id_')
    BY <2>2, <2>5 DEF Eligible, IInv
  <2>7. asked' \subseteq DOMAIN desk.task
    BY <1>6, <2>1 DEF Press, IInv
  <2>8. DragChange
    BY <1>6, <2>1, <2>2, <2>5 DEF DragChange, Press, Eligible
  <2> QED BY <2>1, <2>4, <2>6, <2>7, <2>8 DEF Calm, Press, IInv
<1>8. CASE Drag(d, p)
  <2> DEFINE l == drag_layer_id_
             diff == Minus(p, desk.pos[MouseLayer])
  <2>1. DeskStep(desk, desk', latest_id_, M)
    <3>1. CASE l = 0 \/ l \notin LayersOf(d)
      BY <1>4, <1>8, <3>1 DEF Drag
    <3>2. CASE l # 0 /\ l \in LayersOf(d)
      <4>1. l # Background /\ l \in M
        BY <3>2 DEF IInv, IsDraggable
      <4>2. Plus(d.pos[l], diff) \in Vector
        <5>1. d.pos[l] \in Vector
          BY <1>6, <3>2 DEF DeskOK, Ready, DeskType
        <5> QED BY <1>2, <1>3, <5>1, VectorType
      <4> DEFINE pos == Plus(d.pos[l], diff)
      <4>3. desk' = Move(d, l, pos)
        BY <1>8, <3>2 DEF Drag
      <4> HIDE DEF pos
      <4>4. pos \in Vector
        BY <4>2 DEF pos
      <4>5. DeskStep(d, Move(d, l, pos), latest_id_, M)
        <5> HIDE DEF M, l
        <5> QED BY <1>6, <3>2, <4>1, <4>4, MoveStep
      <4> QED BY <1>4, <4>3, <4>5, TwoSteps
    <3> QED BY <3>1, <3>2
  <2>2. UNCHANGED <<latest_id_, drag_layer_id_, pressed, requests, asked, terminals, closing>>
    BY <1>8 DEF Drag
  <2>3. faulted' \in BOOLEAN
    BY <1>8 DEF Drag
  <2> QED BY <2>1, <2>2, <2>3 DEF Calm, DragChange, IInv
<1>9. CASE Release(d)
  BY <1>4, <1>9 DEF Release, Calm, DragChange, IInv
<1>10. CASE Hover(d)
  BY <1>4, <1>10 DEF Hover, Calm, DragChange, IInv
<1> QED BY <1>5, <1>7, <1>8, <1>9, <1>10

\* Alt+A.
LEMMA AltAStep == ASSUME IInv, AltA PROVE Calm
<1>1. DeskOK(desk, latest_id_)
  BY DEF IInv
<1>2. Eligible(desk, desk.active)
  BY <1>1, FocusInStack DEF DeskOK, Focus, Eligible
<1>3. Eligible(desk, NextWindow(desk, desk.active))
  BY <1>1, <1>2, NextWindowIs DEF DeskOK
<1>4. DeskStep(desk, desk', latest_id_, {MouseLayer, drag_layer_id_})
  BY <1>1, <1>3, ActivateStep DEF AltA
<1> QED BY <1>4 DEF AltA, Calm, DragChange, IInv

\* The main task draws the counter, the text box or the console.
LEMMA DrawOwnStep == ASSUME IInv, NEW l \in FirstLayers, DrawOwn(l) PROVE Calm
<1> DEFINE M == {MouseLayer, drag_layer_id_}
           d == IF l = Console THEN desk ELSE Written(desk, l)
<1>1. DeskOK(desk, latest_id_)
  BY DEF IInv
<1>2. DeskStep(desk, d, latest_id_, M) /\ Still(desk, d) /\ Rests(desk, d)
  <2>1. DeskStep(desk, desk, latest_id_, M)
    BY <1>1, NoStep
  <2>2. /\ DeskStep(desk, Written(desk, l), latest_id_, M)
        /\ Still(desk, Written(desk, l)) /\ Rests(desk, Written(desk, l))
    BY <1>1, WrittenStep
  <2>3. Still(desk, desk) /\ Rests(desk, desk)
    BY DEF Still, Rests
  <2> QED BY <2>1, <2>2, <2>3
<1>3. desk' = Draw(d, l)
  BY DEF DrawOwn
<1> HIDE DEF d
<1>4. DeskStep(d, Draw(d, l), latest_id_, M)
  <2>1. DeskOK(d, latest_id_) /\ l \in LayersOf(d)
    BY <1>2 DEF DeskStep, DeskOK
  <2> QED BY <2>1, DrawStep
<1>5. DeskStep(desk, desk', latest_id_, M)
  BY <1>2, <1>3, <1>4, TwoSteps
<1> QED BY <1>5 DEF DrawOwn, Calm, DragChange, IInv

\* ProcessLayerMessage.
LEMMA ProcessLayerMessageStep ==
  ASSUME IInv, NEW junk \in Garbage, ProcessLayerMessage(junk) PROVE Calm
<1> DEFINE M == {MouseLayer, drag_layer_id_}
           l == Head(requests)
<1>1. DeskOK(desk, latest_id_) /\ junk \in Rectangles /\ requests # <<>>
  BY GeometryAssumption DEF IInv, ProcessLayerMessage
<1>2. l \in NoMouse /\ Tail(requests) \in Seq(NoMouse)
  BY <1>1 DEF IInv
<1>3. /\ requests' = Tail(requests)
      /\ UNCHANGED <<latest_id_, drag_layer_id_, pressed, asked, terminals, closing>>
  BY DEF ProcessLayerMessage
<1>4. DeskStep(desk, desk', latest_id_, M) /\ faulted' \in BOOLEAN
  <2>1. CASE InStack(desk, l)
    <3>1. desk' = DrawPart(desk, l, TextArea) /\ faulted' = faulted
      BY <2>1 DEF ProcessLayerMessage
    <3> HIDE DEF l, M
    <3>2. l \in LayersOf(desk) /\ l # MouseLayer
      BY <1>1, <1>2, <2>1, InStackIsLayer DEF DeskOK, Ready, NoMouse
    <3> QED BY <1>1, <3>1, <3>2, DrawStep DEF IInv
  <2>2. CASE ~InStack(desk, l)
    <3>1. /\ desk' = IF Fits(junk) THEN DrawGarbage(desk, junk) ELSE desk
          /\ faulted' = ~Fits(junk)
      BY <2>2 DEF ProcessLayerMessage
    <3>2. /\ DeskStep(desk, DrawGarbage(desk, junk), latest_id_, M)
          /\ DeskStep(desk, desk, latest_id_, M)
      BY <1>1, GarbageStep, NoStep
    <3> QED BY <3>1, <3>2
  <2> QED BY <2>1, <2>2
<1> QED BY <1>2, <1>3, <1>4 DEF Calm, DragChange, IInv

\* A step of the main task makes no window and closes none.
LEMMA MainStep == ASSUME IInv, Main PROVE Calm
BY OnInterruptStep, AltAStep, DrawOwnStep, ProcessLayerMessageStep DEF Main

-----------------------------------------------------------------------------
(* The steps of the other tasks.                                           *)

\* A window is opened.
GrownChange(t) ==
  /\ Fresh(desk, latest_id_, latest_id_ + 1) /\ latest_id_ + 1 <= MaxLayerID
  /\ latest_id_' = latest_id_ + 1 /\ Grown(desk, desk', latest_id_ + 1, t)
  /\ \/ terminals' = terminals
     \/ terminals' = terminals \cup {latest_id_ + 1} /\ latest_id_ + 1 \in desk'.told
  /\ UNCHANGED <<drag_layer_id_, pressed, requests, asked, closing, faulted>>

\* The identifier that NewLayer gives next.
LEMMA LatestIs == ASSUME IInv PROVE Fresh(desk, latest_id_, latest_id_ + 1)
<1>1. latest_id_ \in MouseLayer .. MaxLayerID \cup {MouseLayer} /\ MaxLayerID \in Nat
  BY BoundAssumption DEF IInv
<1> QED BY <1>1, FirstLayersApart DEF Fresh

\* A task's window is a layer, and not one of the first.
LEMMA OwnIs ==
  ASSUME IInv, NEW t \in Tasks, NEW l \in Own(t)
  PROVE  l \in LayersOf(desk) \ FirstLayers /\ l \in NoMouse /\ l # 0 /\ desk.task[l] = t
         /\ l \in DOMAIN desk.task
<1>1. l \in DOMAIN desk.task /\ desk.task[l] = t /\ l \in LayersOf(desk) \ FirstLayers
  BY DEF IInv, DeskOK, Own
<1>2. l \in Nat \ {0}
  BY <1>1 DEF IInv, DeskOK, Ready, DeskType
<1>3. MouseLayer \in FirstLayers
  BY FirstLayersApart DEF FirstLayers
<1> QED BY <1>1, <1>2, <1>3 DEF NoMouse

\* A stutter.
LEMMA Unmoved == ASSUME IInv, UNCHANGED vars PROVE Calm
<1>1. DeskStep(desk, desk, latest_id_, {MouseLayer, drag_layer_id_})
  BY NoStep DEF IInv
<1> QED BY <1>1 DEF Calm, DragChange, IInv, vars

\* StartTerminal opens a window, or faults.
LEMMA StartTerminalStep ==
  ASSUME IInv, NEW t \in Tasks, NEW junk \in Garbage, StartTerminal(t, junk)
  PROVE  GrownChange(t) \/ Calm
<1> DEFINE l == latest_id_ + 1
           new == NewLayer(desk, l, Origin)
           drawn == DrawArea([new EXCEPT !.pos[l] = TerminalPos], Window(new, l))
           r == ActivateTerminal(DrawGarbage(drawn, junk), l, t)
<1>1. CASE /\ latest_id_' = l /\ terminals' = terminals \cup {l} /\ desk' = r
           /\ UNCHANGED faulted
  <2>1. Fresh(desk, latest_id_, l) /\ DeskOK(desk, latest_id_)
    BY LatestIs DEF IInv
  <2>2. junk \in Rectangles
    BY GeometryAssumption
  <2>3. Grown(desk, r, l, t) /\ l \in r.told
    <3> HIDE DEF l
    <3> QED BY <2>1, <2>2, StartTerminalIs
  <2> HIDE DEF r
  <2> QED BY <1>1, <2>1, <2>3 DEF GrownChange, StartTerminal
<1>2. CASE faulted' = TRUE /\ UNCHANGED <<latest_id_, terminals, desk>>
  <2>1. DeskStep(desk, desk', latest_id_, {MouseLayer, drag_layer_id_})
    BY <1>2, NoStep DEF IInv
  <2>2. UNCHANGED <<drag_layer_id_, pressed, requests, asked, closing>>
    BY DEF StartTerminal
  <2> QED BY <1>2, <2>1, <2>2 DEF Calm, DragChange, IInv
<1> QED BY <1>1, <1>2 DEF StartTerminal

\* OpenWindow opens a window.
LEMMA OpenWindowStep ==
  ASSUME IInv, NEW t \in Tasks, NEW pos \in OpenAt, OpenWindow(t, pos) PROVE GrownChange(t)
<1> DEFINE l == latest_id_ + 1
           r == MapTo(Activate(NewLayer(desk, l, pos), l), l, t)
<1>1. Fresh(desk, latest_id_, l) /\ DeskOK(desk, latest_id_)
  BY LatestIs DEF IInv
<1>2. pos \in Vector
  BY GeometryAssumption
<1>3. Grown(desk, r, l, t)
  <2> HIDE DEF l
  <2> QED BY <1>1, <1>2, OpenWindowIs
<1>4. desk' = r
  BY DEF OpenWindow
<1> HIDE DEF r
<1> QED BY <1>1, <1>3, <1>4 DEF GrownChange, OpenWindow

\* Writing to a window and drawing it.
LEMMA WriteStep ==
  ASSUME IInv, NEW t \in Tasks, NEW l \in Own(t),
         WriteTerminal(t, l) \/ WriteWindow(t, l) \/ RedrawWindow(t, l)
  PROVE  Calm
<1> DEFINE M == {MouseLayer, drag_layer_id_}
<1>1. DeskOK(desk, latest_id_) /\ l \in LayersOf(desk) /\ l \in NoMouse
  BY OwnIs DEF IInv
<1>2. /\ DeskStep(desk, Written(desk, l), latest_id_, M)
      /\ DeskStep(desk, Draw(desk, l), latest_id_, M)
  BY <1>1, WrittenStep, DrawStep
<1>3. DeskStep(desk, desk', latest_id_, M)
  BY <1>2 DEF WriteTerminal, WriteWindow, RedrawWindow
<1>4. Append(requests, l) \in Seq(NoMouse)
  BY <1>1 DEF IInv
<1>5. requests' \in Seq(NoMouse)
  BY <1>4 DEF WriteTerminal, WriteWindow, RedrawWindow, IInv
<1> HIDE DEF M
<1>6. UNCHANGED <<latest_id_, drag_layer_id_, pressed, asked, terminals, closing, faulted>>
  BY DEF WriteTerminal, WriteWindow, RedrawWindow
<1> QED BY <1>3, <1>5, <1>6 DEF Calm, DragChange, IInv, M

\* Each step is one of four: calm, a window opened, the first half or the second of
\* CloseLayer.
LEMMA NextIs ==
  ASSUME IInv, [Next]_vars
  PROVE  \/ Calm
         \/ \E t \in Tasks : \/ GrownChange(t) \/ CloseLayerRemoves(t)
                             \/ \E l \in Own(t) : CloseLayer(t, l)
<1>1. CASE Main
  BY <1>1, MainStep
<1>2. ASSUME NEW t \in Tasks, Task(t)
      PROVE  \/ Calm \/ GrownChange(t) \/ CloseLayerRemoves(t)
             \/ \E l \in Own(t) : CloseLayer(t, l)
  <2>1. CASE \E junk \in Garbage : StartTerminal(t, junk)
    BY <2>1, StartTerminalStep
  <2>2. CASE \E pos \in OpenAt : OpenWindow(t, pos)
    BY <2>2, OpenWindowStep
  <2>3. CASE \E l \in Own(t) : WriteTerminal(t, l) \/ WriteWindow(t, l) \/ RedrawWindow(t, l)
    BY <2>3, WriteStep
  <2> QED BY <1>2, <2>1, <2>2, <2>3 DEF Task
<1>3. CASE Halted
  BY <1>3, Unmoved DEF Halted
<1>4. CASE UNCHANGED vars
  BY <1>4, Unmoved
<1> QED BY <1>1, <1>2, <1>3, <1>4 DEF Next

-----------------------------------------------------------------------------
(* The invariants.                                                         *)

\* The invariant holds at the start ...
LEMMA InitIInv == Init => IInv
<1> SUFFICES ASSUME Init PROVE IInv
  OBVIOUS
<1>1. DeskOK(desk, latest_id_)
  BY InitialDeskOK DEF Init
<1>2. \A t \in Tasks : Idle(t)
  BY DEF Init, Idle
<1>3. closing = [t \in Tasks |-> closing[t]]
  BY DEF Init
<1>4. requests \in Seq(NoMouse)
  BY DEF Init
<1>5. latest_id_ \in MouseLayer .. MaxLayerID \cup {MouseLayer}
  BY DEF Init
<1>6. ToldOK(desk, terminals) /\ asked \cup terminals \subseteq DOMAIN desk.task
  BY DEF Init, ToldOK
<1>7. pressed \in BOOLEAN /\ faulted \in BOOLEAN /\ drag_layer_id_ = 0
  BY DEF Init
<1> QED BY <1>1, <1>2, <1>3, <1>4, <1>5, <1>6, <1>7 DEF IInv

\* ... and after a calm step ...
LEMMA CalmIInv == ASSUME IInv, Calm PROVE IInv'
<1>1. DeskOK(desk', latest_id_) /\ desk'.task = desk.task
  BY DEF Calm, DeskStep
<1>2. ToldOK(desk', terminals)
  <2>1. terminals \in SUBSET DOMAIN desk.task
    BY DEF IInv
  <2> QED BY <2>1 DEF IInv, Calm, DeskStep
<1>3. ASSUME NEW t \in Tasks
      PROVE  Idle(t)' \/ (closing'[t].id \in Own(t)' /\ closing'[t].area \in Rectangles)
  BY <1>1 DEF Calm, IInv, Idle, Own
<1>4. closing' = [t \in Tasks |-> closing'[t]]
  BY DEF Calm, IInv
<1> QED BY <1>1, <1>2, <1>3, <1>4 DEF Calm, IInv

\* ... a window opened ...
LEMMA GrownIInv == ASSUME IInv, NEW t \in Tasks, GrownChange(t) PROVE IInv'
<1> DEFINE l == latest_id_ + 1
<1>1. /\ Fresh(desk, latest_id_, l) /\ l <= MaxLayerID /\ latest_id_' = l
      /\ Grown(desk, desk', l, t)
      /\ \/ terminals' = terminals \/ (terminals' = terminals \cup {l} /\ l \in desk'.told)
      /\ UNCHANGED <<drag_layer_id_, pressed, requests, asked, closing, faulted>>
  BY DEF GrownChange
<1>2. DeskOK(desk', latest_id_') /\ desk'.active = l
  BY <1>1 DEF Grown
<1>3. l \notin terminals
  <2>1. l \notin DOMAIN desk.task
    BY <1>1, FreshIs DEF IInv
  <2> QED BY <2>1 DEF IInv
<1>4. ToldOK(desk', terminals')
  BY <1>1, <1>2, <1>3 DEF ToldOK
<1>5. latest_id_' \in MouseLayer .. MaxLayerID \cup {MouseLayer}
  BY <1>1, FirstLayersApart, BoundAssumption DEF Fresh
<1>6. /\ DOMAIN desk'.task = DOMAIN desk.task \cup {l}
      /\ \A a \in DOMAIN desk.task : desk'.task[a] = desk.task[a]
  BY <1>1 DEF Grown
<1>7. asked' \cup terminals' \subseteq DOMAIN desk'.task
  BY <1>1, <1>6 DEF IInv
<1>8. ASSUME NEW u \in Tasks
      PROVE  Idle(u)' \/ (closing'[u].id \in Own(u)' /\ closing'[u].area \in Rectangles)
  <2>1. Idle(u) \/ (closing[u].id \in Own(u) /\ closing[u].area \in Rectangles)
    BY DEF IInv
  <2>2. Own(u) \subseteq Own(u)'
    BY <1>6 DEF Own
  <2> QED BY <1>1, <2>1, <2>2 DEF Idle
<1>9. closing' = [u \in Tasks |-> closing'[u]]
  BY <1>1 DEF IInv
<1> HIDE DEF l
<1> QED BY <1>1, <1>2, <1>4, <1>5, <1>7, <1>8, <1>9 DEF IInv

\* ... the first half of CloseLayer ...
LEMMA CloseLayerIInv ==
  ASSUME IInv, NEW t \in Tasks, NEW l \in Own(t), CloseLayer(t, l) PROVE IInv'
<1>1. closing' = [closing EXCEPT ![t] = [id |-> l, area |-> Window(desk, l)]]
      /\ UNCHANGED <<desk, latest_id_, drag_layer_id_, pressed, requests, asked, terminals, faulted>>
  BY DEF CloseLayer
<1>2. Window(desk, l) \in Rectangles
  BY OwnIs, WindowType DEF IInv, DeskOK, Ready
<1> DEFINE area == Window(desk, l)
<1> HIDE DEF area
<1>3. closing' = [u \in Tasks |-> IF u = t THEN [id |-> l, area |-> area] ELSE closing[u]]
  <2>1. closing = [u \in Tasks |-> closing[u]]
    BY DEF IInv
  <2> QED BY <1>1, <2>1 DEF area
<1>4. closing' = [u \in Tasks |-> closing'[u]]
  BY <1>3
<1>5. ASSUME NEW u \in Tasks
      PROVE  Idle(u)' \/ (closing'[u].id \in Own(u)' /\ closing'[u].area \in Rectangles)
  <2>1. CASE u = t
    <3>1. closing'[u].id = l /\ closing'[u].area = area
      BY <1>3, <2>1
    <3> QED BY <1>1, <1>2, <2>1, <3>1 DEF Own, area
  <2>2. CASE u # t
    <3>1. closing'[u] = closing[u]
      BY <1>3, <2>2
    <3> QED BY <1>1, <3>1 DEF IInv, Own, Idle
  <2> QED BY <2>1, <2>2
<1> QED BY <1>1, <1>4, <1>5 DEF IInv

\* What the second half of CloseLayer does to the desk.
LEMMA ClosedIs ==
  ASSUME IInv, NEW t \in Tasks, CloseLayerRemoves(t)
  PROVE  LET l == closing[t].id
         IN  /\ l \in Own(t) /\ l # 0 /\ closing[t].area \in Rectangles
             /\ DeskOK(desk', latest_id_) /\ LayersOf(desk') = LayersOf(desk) \ {l}
             /\ desk'.active = 0
             /\ Good(desk) /\ closing[t].area = Window(desk, l) => Good(desk')
             /\ \A a \in LayersOf(desk) : a # l => desk'.pos[a] = desk.pos[a]
             /\ OtherOrder(desk, desk', l)
             /\ desk'.task = [a \in DOMAIN desk.task \ {l} |-> desk.task[a]]
             /\ closing' = [u \in Tasks |-> IF u = t THEN None ELSE closing[u]]
<1> DEFINE l == closing[t].id
           area == closing[t].area
           r == Unmapped(DrawArea(RemoveLayer(LoseFocus(desk), l), area), l)
<1>1. l \in Own(t) /\ area \in Rectangles
  BY DEF IInv, CloseLayerRemoves
<1>2. l \in LayersOf(desk) \ FirstLayers /\ l # 0
  BY <1>1, OwnIs
<1>3. desk' = r
  BY DEF CloseLayerRemoves
<1>4. closing' = [u \in Tasks |-> IF u = t THEN None ELSE closing[u]]
  <2>1. closing' = [closing EXCEPT ![t] = None]
    BY DEF CloseLayerRemoves
  <2>2. closing = [u \in Tasks |-> closing[u]]
    BY DEF IInv
  <2> HIDE DEF l, area
  <2> QED BY <2>1, <2>2
<1>5. /\ DeskOK(r, latest_id_) /\ LayersOf(r) = LayersOf(desk) \ {l} /\ r.active = 0
      /\ Good(desk) /\ area = Window(desk, l) => Good(r)
      /\ \A a \in LayersOf(desk) : a # l => r.pos[a] = desk.pos[a]
      /\ OtherOrder(desk, r, l)
      /\ r.task = [a \in DOMAIN desk.task \ {l} |-> desk.task[a]]
  <2>1. DeskOK(desk, latest_id_)
    BY DEF IInv
  <2> HIDE DEF l, area
  <2> QED BY <1>1, <1>2, <2>1, CloseWindowIs
<1> HIDE DEF r
<1> QED BY <1>1, <1>2, <1>3, <1>4, <1>5

\* ... and the second half.
LEMMA RemovesIInv ==
  ASSUME IInv, NEW t \in Tasks, CloseLayerRemoves(t) PROVE IInv'
<1> DEFINE l == closing[t].id
<1>1. /\ l \in Own(t) /\ l # 0 /\ DeskOK(desk', latest_id_) /\ desk'.active = 0
      /\ desk'.task = [a \in DOMAIN desk.task \ {l} |-> desk.task[a]]
      /\ closing' = [u \in Tasks |-> IF u = t THEN None ELSE closing[u]]
  BY ClosedIs
<1>2. /\ UNCHANGED <<latest_id_, drag_layer_id_, pressed, requests, faulted>>
      /\ asked' = asked \ {l} /\ terminals' = terminals \ {l}
  BY DEF CloseLayerRemoves
<1> HIDE DEF l
<1>3. DOMAIN desk'.task = DOMAIN desk.task \ {l}
  BY <1>1
<1>4. asked' \cup terminals' \subseteq DOMAIN desk'.task
  BY <1>2, <1>3 DEF IInv
<1>5. ToldOK(desk', terminals')
  <2>1. 0 \notin DOMAIN desk.task
    BY DEF IInv, DeskOK, Ready, DeskType
  <2>2. 0 \notin terminals'
    BY <1>2, <2>1 DEF IInv
  <2> QED BY <1>1, <2>2 DEF ToldOK
<1>6. ASSUME NEW u \in Tasks
      PROVE  Idle(u)' \/ (closing'[u].id \in Own(u)' /\ closing'[u].area \in Rectangles)
  <2>1. CASE u = t
    <3>1. closing'[u] = None
      BY <1>1, <2>1
    <3> QED BY <3>1 DEF Idle
  <2>2. CASE u # t
    <3>1. closing'[u] = closing[u]
      BY <1>1, <2>2
    <3>2. ASSUME closing[u].id \in Own(u) PROVE closing[u].id \in Own(u)'
      <4>1. desk.task[l] = t /\ desk.task[closing[u].id] = u /\ closing[u].id \in DOMAIN desk.task
        BY <1>1, <3>2 DEF Own
      <4>2. closing[u].id # l
        BY <2>2, <4>1
      <4>3. closing[u].id \in DOMAIN desk'.task /\ desk'.task[closing[u].id] = u
        BY <1>1, <4>1, <4>2
      <4> QED BY <4>3 DEF Own
    <3> QED BY <3>1, <3>2 DEF IInv, Idle
  <2> QED BY <2>1, <2>2
<1>7. closing' = [u \in Tasks |-> closing'[u]]
  BY <1>1
<1> QED BY <1>1, <1>2, <1>4, <1>5, <1>6, <1>7 DEF IInv

\* So it is inductive.
LEMMA IInvStep == IInv /\ [Next]_vars => IInv'
BY NextIs, CalmIInv, GrownIInv, CloseLayerIInv, RemovesIInv

\* The layers, their stack and their positions are what the code takes them to be, the active
\* window is the one below the mouse, and the tasks that close a window have one to close
\* (LayerManager, ActiveLayer, CloseLayer): an inductive invariant of all the steps.
THEOREM TypeInvariance == Spec => []IInv
<1> QED BY InitIInv, IInvStep, PTL DEF Spec

-----------------------------------------------------------------------------
(* No window is closed while it is dragged.                                *)

DragInv ==
  /\ pressed \/ drag_layer_id_ = 0
  /\ drag_layer_id_ # 0 =>
       drag_layer_id_ \in LayersOf(desk) /\ drag_layer_id_ \notin Closing

\* Dragging starts with a window that exists, and while it lasts CloseLayer does not begin.
LEMMA DragInvStep ==
  ASSUME ~ClosedUnderDrag, IInv, DragInv, [Next]_vars PROVE DragInv'
<1>1. CASE Calm
  <2>1. LayersOf(desk') = LayersOf(desk) /\ Closing' = Closing
    BY <1>1 DEF Calm, DeskStep, Closing
  <2> QED BY <1>1, <2>1 DEF Calm, DragChange, DragInv
<1>2. ASSUME NEW t \in Tasks, GrownChange(t) PROVE DragInv'
  <2>1. LayersOf(desk) \subseteq LayersOf(desk') /\ Closing' = Closing
        /\ UNCHANGED <<drag_layer_id_, pressed>>
    BY <1>2 DEF GrownChange, Grown, Closing
  <2> QED BY <2>1 DEF DragInv
<1>3. ASSUME NEW t \in Tasks, NEW l \in Own(t), CloseLayer(t, l) PROVE DragInv'
  <2>1. /\ closing' = [closing EXCEPT ![t] = [id |-> l, area |-> Window(desk, l)]]
        /\ ~(pressed /\ drag_layer_id_ = l)
        /\ UNCHANGED <<desk, drag_layer_id_, pressed>>
    BY <1>3 DEF CloseLayer
  <2>2. \A u \in Tasks : closing'[u].id = closing[u].id \/ closing'[u].id = l
    <3>1. closing = [u \in Tasks |-> closing[u]]
      BY DEF IInv
    <3> DEFINE area == Window(desk, l)
    <3>2. closing' = [closing EXCEPT ![t] = [id |-> l, area |-> area]]
      BY <2>1
    <3> HIDE DEF area
    <3> QED BY <3>1, <3>2
  <2>3. Closing' \subseteq Closing \cup {l}
    BY <2>2 DEF Closing
  <2> QED BY <2>1, <2>3 DEF DragInv
<1>4. ASSUME NEW t \in Tasks, CloseLayerRemoves(t) PROVE DragInv'
  <2> DEFINE l == closing[t].id
  <2>1. /\ l # 0 /\ LayersOf(desk') = LayersOf(desk) \ {l}
        /\ closing' = [u \in Tasks |-> IF u = t THEN None ELSE closing[u]]
    BY <1>4, ClosedIs
  <2>2. UNCHANGED <<drag_layer_id_, pressed>>
    BY <1>4 DEF CloseLayerRemoves
  <2>3. l \in Closing
    BY <2>1 DEF Closing
  <2>4. Closing' \subseteq Closing
    <3>1. \A u \in Tasks : closing'[u].id = 0 \/ closing'[u].id = closing[u].id
      BY <2>1 DEF None
    <3> QED BY <3>1 DEF Closing
  <2> HIDE DEF l
  <2> QED BY <2>1, <2>2, <2>3, <2>4 DEF DragInv
<1> QED BY <1>1, <1>2, <1>3, <1>4, NextIs

\* The layers that are drawn on top of one another are all of the layers.
LEMMA AllInStack ==
  ASSUME NEW d, NEW n, DeskOK(d, n)
  PROVE  /\ {d.stack[h] : h \in 1 .. Len(d.stack)} = LayersOf(d)
         /\ Len(d.stack) = Cardinality(LayersOf(d))
         /\ Len(d.stack) \in Nat
<1> DEFINE k == Len(d.stack)
           L == LayersOf(d)
<1>1. d.stack \in Seq(L) /\ k \in Nat
  BY DEF DeskOK, Ready, Ordered, Stacked
<1>2. \A a \in L : \E h \in 1 .. k : d.stack[h] = a
  BY <1>1 DEF DeskOK, InStack
<1>3. d.stack \in [1 .. k -> L] /\ \A i, j \in 1 .. k : d.stack[i] = d.stack[j] => i = j
  BY <1>1 DEF DeskOK, Ready, Ordered
<1> HIDE DEF k, L
<1>4. d.stack \in Bijection(1 .. k, L)
  <2>1. d.stack \in Injection(1 .. k, L)
    BY <1>3 DEF Injection, IsInjective
  <2>2. d.stack \in Surjection(1 .. k, L)
    BY <1>2, <1>3 DEF Surjection
  <2> QED BY <2>1, <2>2 DEF Bijection
<1>5. Cardinality(L) = k
  <2>1. ExistsBijection(1 .. k, L)
    BY <1>4 DEF ExistsBijection
  <2>2. IsFiniteSet(1 .. k) /\ Cardinality(1 .. k) = k
    <3>1. /\ IsFiniteSet(1 .. k)
          /\ Cardinality(1 .. k) = IF 1 > k THEN 0 ELSE (k - 1) + 1
      BY <1>1, FS_Interval
    <3> QED BY <1>1, <3>1
  <2> QED BY <2>1, <2>2, FS_Bijection
<1>6. {d.stack[h] : h \in 1 .. k} = L
  <2>1. \A h \in 1 .. k : d.stack[h] \in L
    BY <1>3
  <2> QED BY <1>2, <2>1
<1> QED BY <1>1, <1>5, <1>6 DEF k, L

\* The invariant says what ActiveIsOnTop does.
LEMMA IInvActiveIsOnTop == IInv => ActiveIsOnTop
<1> SUFFICES ASSUME IInv PROVE ActiveIsOnTop
  OBVIOUS
<1>0. DeskOK(desk, latest_id_) /\ Ready(desk) /\ Focus(desk)
  BY DEF IInv, DeskOK
<1>1. TypeOK
  <2>1. LayersOf(desk) \subseteq 1 .. latest_id_ /\ FirstLayers \subseteq LayersOf(desk)
    BY <1>0 DEF DeskOK
  <2>2. DOMAIN desk.back = ScreenPoints /\ DOMAIN desk.screen = ScreenPoints
    BY <1>0 DEF Ready, DeskType, IsBuffer
  <2>3. desk.active \in LayersOf(desk) \cup {0}
    BY <1>0, FocusInStack
  <2>4. desk.task \in [DOMAIN desk.task -> Tasks] /\ DOMAIN desk.task = LayersOf(desk) \ FirstLayers
    BY <1>0 DEF DeskOK
  <2> QED BY <2>1, <2>2, <2>3, <2>4 DEF TypeOK, IInv
<1>2. StackingOrder
  <2>1. /\ {desk.stack[h] : h \in 1 .. Len(desk.stack)} = LayersOf(desk)
        /\ Len(desk.stack) = Cardinality(LayersOf(desk))
    BY <1>0, AllInStack
  <2>2. /\ desk.stack[1] = Background /\ desk.stack[2] = Console
        /\ desk.stack[Len(desk.stack)] = MouseLayer
    BY <1>0 DEF Ready, Ordered
  <2>3. desk.active # 0 => desk.stack[Len(desk.stack) - 1] = desk.active
    BY <1>0 DEF Focus
  <2> QED BY <2>1, <2>2, <2>3 DEF StackingOrder
<1>3. ActiveTold
  BY <1>0 DEF ActiveTold, Focus, IInv, ToldOK
<1> QED BY <1>1, <1>2, <1>3 DEF ActiveIsOnTop

\* Every layer is in the stack once, the desktop and the console below and the mouse above
\* all others, and the active window is the one on top, the only one whose title is lit and
\* whose task was told (LayerManager::UpDown, ActiveLayer::Activate, CloseLayer).
THEOREM OnTop == Spec => []ActiveIsOnTop
<1> QED BY TypeInvariance, IInvActiveIsOnTop, PTL

\* Mouse::OnInterrupt never moves a window that is gone, if no window is dragged while its
\* task closes it: the kernel itself does not prevent that.
THEOREM DraggedIsThere ==
  ASSUME ~ClosedUnderDrag PROVE Spec => []DragAlive
<1>1. Init => DragInv
  BY DEF Init, DragInv
<1>2. IInv /\ DragInv /\ [Next]_vars => DragInv'
  BY DragInvStep
<1>3. DragInv => DragAlive
  BY DEF DragInv, DragAlive
<1> QED BY TypeInvariance, <1>1, <1>2, <1>3, PTL DEF Spec

-----------------------------------------------------------------------------
(* What the screen shows.                                                  *)

ScreenInv ==
  /\ Good(desk)
  /\ \A t \in Tasks : Idle(t) \/ closing[t].area = Window(desk, closing[t].id)

\* Every step leaves every point right: a rectangle that CloseLayer remembers is still that
\* of its window, since no window is dragged while it is closed.
LEMMA ScreenInvStep ==
  ASSUME ~ClosedUnderDrag, IInv, DragInv, ScreenInv, [Next]_vars PROVE ScreenInv'
<1>0. ASSUME NEW t \in Tasks, ~Idle(t)
      PROVE  /\ closing[t].id \in Own(t) /\ closing[t].id \in LayersOf(desk)
             /\ closing[t].id \in Closing /\ closing[t].id # MouseLayer
             /\ closing[t].area = Window(desk, closing[t].id)
  <2>1. closing[t].id \in Own(t)
    BY <1>0 DEF IInv
  <2> DEFINE l == closing[t].id
  <2>2. l \in LayersOf(desk) \ FirstLayers /\ l \in NoMouse /\ l # 0
    BY <2>1, OwnIs
  <2>3. l \in Closing
    BY <2>2 DEF Closing
  <2> QED BY <1>0, <2>1, <2>2, <2>3 DEF ScreenInv, NoMouse
<1>1. CASE Calm
  <2>1. Good(desk') /\ closing' = closing
    BY <1>1 DEF Calm, DeskStep, ScreenInv
  <2>2. ASSUME NEW t \in Tasks, ~Idle(t)
        PROVE  Window(desk', closing[t].id) = Window(desk, closing[t].id)
    <3> DEFINE l == closing[t].id
    <3>1. l \in LayersOf(desk) /\ l \in Closing /\ l # MouseLayer
      BY <1>0, <2>2
    <3>2. l # drag_layer_id_
      <4>1. l # 0
        BY <3>1 DEF Closing
      <4> QED BY <3>1, <4>1 DEF DragInv
    <3>3. l \notin {MouseLayer, drag_layer_id_}
      BY <3>1, <3>2
    <3> HIDE DEF l
    <3>4. desk'.pos[l] = desk.pos[l]
      BY <1>1, <3>1, <3>3 DEF Calm, DeskStep
    <3> QED BY <3>4 DEF Window, l
  <2> QED BY <1>0, <2>1, <2>2 DEF ScreenInv, Idle
<1>2. ASSUME NEW t \in Tasks, GrownChange(t) PROVE ScreenInv'
  <2>1. Good(desk') /\ closing' = closing /\ \A a \in LayersOf(desk) : desk'.pos[a] = desk.pos[a]
    BY <1>2 DEF GrownChange, Grown, ScreenInv
  <2>2. ASSUME NEW u \in Tasks, ~Idle(u)
        PROVE  Window(desk', closing[u].id) = Window(desk, closing[u].id)
    <3>1. closing[u].id \in LayersOf(desk)
      BY <1>0, <2>2
    <3> QED BY <2>1, <3>1 DEF Window
  <2> QED BY <1>0, <2>1, <2>2 DEF ScreenInv, Idle
<1>3. ASSUME NEW t \in Tasks, NEW l \in Own(t), CloseLayer(t, l) PROVE ScreenInv'
  <2> DEFINE area == Window(desk, l)
  <2>1. closing' = [closing EXCEPT ![t] = [id |-> l, area |-> area]] /\ desk' = desk
    BY <1>3 DEF CloseLayer
  <2> HIDE DEF area
  <2>2. closing = [u \in Tasks |-> closing[u]]
    BY DEF IInv
  <2>3. closing' = [u \in Tasks |-> IF u = t THEN [id |-> l, area |-> area] ELSE closing[u]]
    BY <2>1, <2>2
  <2>4. ASSUME NEW u \in Tasks
        PROVE  Idle(u)' \/ closing'[u].area = Window(desk, closing'[u].id)
    <3>1. CASE u = t
      <4>1. closing'[u].id = l /\ closing'[u].area = area
        BY <2>3, <3>1
      <4> QED BY <4>1 DEF area
    <3>2. CASE u # t
      <4>1. closing'[u] = closing[u]
        BY <2>3, <3>2
      <4> QED BY <4>1 DEF ScreenInv, Idle
    <3> QED BY <3>1, <3>2
  <2> QED BY <2>1, <2>4 DEF ScreenInv
<1>4. ASSUME NEW t \in Tasks, CloseLayerRemoves(t) PROVE ScreenInv'
  <2> DEFINE l == closing[t].id
  <2>1. ~Idle(t)
    BY <1>4 DEF CloseLayerRemoves
  <2>2. /\ l \in Own(t)
        /\ Good(desk) /\ closing[t].area = Window(desk, l) => Good(desk')
        /\ \A a \in LayersOf(desk) : a # l => desk'.pos[a] = desk.pos[a]
        /\ closing' = [u \in Tasks |-> IF u = t THEN None ELSE closing[u]]
    BY <1>4, ClosedIs
  <2>3. Good(desk')
    BY <1>0, <2>1, <2>2 DEF ScreenInv
  <2>4. ASSUME NEW u \in Tasks
        PROVE  Idle(u)' \/ closing'[u].area = Window(desk', closing'[u].id)
    <3>1. CASE u = t \/ Idle(u)
      <4>1. closing'[u] = None
        BY <2>2, <3>1 DEF Idle
      <4> QED BY <4>1 DEF Idle
    <3>2. CASE u # t /\ ~Idle(u)
      <4> DEFINE k == closing[u].id
      <4>1. closing'[u] = closing[u]
        BY <2>2, <3>2
      <4>2. k \in Own(u) /\ k \in LayersOf(desk) /\ closing[u].area = Window(desk, k)
        BY <1>0, <3>2
      <4>3. k # l
        <5>1. desk.task[l] = t /\ desk.task[k] = u
          BY <2>2, <4>2 DEF Own
        <5> QED BY <3>2, <5>1
      <4>4. desk'.pos[k] = desk.pos[k]
        BY <2>2, <4>2, <4>3
      <4>5. Window(desk', k) = Window(desk, k)
        BY <4>4 DEF Window
      <4> QED BY <4>1, <4>2, <4>5
    <3> QED BY <3>1, <3>2
  <2> QED BY <2>3, <2>4 DEF ScreenInv
<1> QED BY <1>1, <1>2, <1>3, <1>4, NextIs

\* The highest window at a point is where TopAt looks for it.
LEMMA TopAtIs ==
  ASSUME Ready(desk), NEW p, NEW H, NEW l, Top(desk, p, H, l) PROVE TopAt(p, H) = l
<1> DEFINE S == {h \in DOMAIN desk.stack : desk.stack[h] \notin H /\ Covers(desk.stack[h], p)}
           g == FE!Max(S)
<1>1. Len(desk.stack) \in Nat /\ DOMAIN desk.stack = 1 .. Len(desk.stack)
      /\ \A h, k \in DOMAIN desk.stack : desk.stack[h] = desk.stack[k] => h = k
  BY DEF Ready, Ordered, Stacked
<1>2. \A a : Covers(a, p) <=> CoversIn(desk, a, p)
  BY DEF Covers, CoversIn
<1>3. PICK i \in DOMAIN desk.stack : desk.stack[i] = l
  BY DEF Top, InStack
<1>4. i \in S
  BY <1>2, <1>3 DEF Top
<1>5. ASSUME NEW h \in S PROVE h <= i
  <2>1. InStack(desk, desk.stack[h]) /\ desk.stack[h] \notin H /\ CoversIn(desk, desk.stack[h], p)
    BY <1>2, <1>5 DEF InStack
  <2>2. Below(desk, desk.stack[h], l)
    BY <2>1 DEF Top
  <2>3. PICK j, k \in DOMAIN desk.stack : j <= k /\ desk.stack[j] = desk.stack[h] /\ desk.stack[k] = l
    BY <2>2 DEF Below
  <2>4. j = h /\ k = i
    BY <1>1, <1>3, <1>5, <2>3
  <2> QED BY <2>3, <2>4
<1>6. g \in S /\ \A h \in S : h <= g
  <2>1. S \subseteq 1 .. Len(desk.stack) /\ S # {}
    BY <1>1, <1>4
  <2> HIDE DEF S
  <2> QED BY <1>1, <2>1, Greatest
<1>7. g = i
  <2>1. g \in Int /\ i \in Int /\ g <= i /\ i <= g
    <3>1. S \subseteq Int
      BY <1>1
    <3> HIDE DEF S, g
    <3> QED BY <1>4, <1>5, <1>6, <3>1
  <2> HIDE DEF g
  <2> QED BY <2>1
<1>8. TopAt(p, H) = desk.stack[g]
  BY DEF TopAt
<1> QED BY <1>3, <1>7, <1>8

\* Points that are right show their highest window.
LEMMA ScreenInvShows == IInv /\ ScreenInv => ScreenShowsWindows
<1> SUFFICES ASSUME IInv, ScreenInv, NEW p \in ScreenPoints
             PROVE  \/ Shows(p, TopAt(p, {}))
                    \/ /\ TopAt(p, {}) \in desk.undrawn \cap {MouseLayer}
                       /\ Shows(p, TopAt(p, {MouseLayer}))
  BY DEF ScreenShowsWindows
<1>1. Ready(desk) /\ Right(desk, desk.undrawn, p, desk.screen[p])
  BY DEF IInv, DeskOK, ScreenInv, Good, GoodBut, PointGood
<1>2. ASSUME NEW H, TopShown(desk, desk.undrawn, p, H, desk.screen[p])
      PROVE  Shows(p, TopAt(p, H))
  <2>1. PICK l : Top(desk, p, H, l) /\ Near(desk, desk.undrawn, l, p, desk.screen[p])
    BY <1>2 DEF TopShown
  <2>2. TopAt(p, H) = l
    BY <1>1, <2>1, TopAtIs
  <2>3. Shows(p, l)
    BY <2>1 DEF Near, Shows, PixelAt
  <2> QED BY <2>2, <2>3
<1>3. Top(desk, p, {}, MouseLayer) => TopAt(p, {}) = MouseLayer
  BY <1>1, TopAtIs
<1> QED BY <1>1, <1>2, <1>3 DEF Right

\* Every point of the screen shows the highest window there is, as it is, after any calls of
\* LayerManager::Draw, Move and UpDown in any order, if no window is dragged while its task
\* closes it (CloseLayer would draw the rectangle where it no longer is).
THEOREM TheScreenIsRight ==
  ASSUME ~ClosedUnderDrag PROVE Spec => []ScreenShowsWindows
<1>1. Init => DragInv /\ ScreenInv
  <2> SUFFICES ASSUME Init PROVE DragInv /\ ScreenInv
    OBVIOUS
  <2>1. Good(desk)
    BY InitialDeskOK DEF Init
  <2>2. \A t \in Tasks : Idle(t)
    BY DEF Init, Idle
  <2> QED BY <2>1, <2>2 DEF Init, DragInv, ScreenInv
<1>2. IInv /\ DragInv /\ ScreenInv /\ [Next]_vars => DragInv' /\ ScreenInv'
  BY DragInvStep, ScreenInvStep
<1> QED BY TypeInvariance, <1>1, <1>2, ScreenInvShows, PTL DEF Spec


-----------------------------------------------------------------------------
(* Alt+A visits every window: presses counted from the active one.         *)

Windows(d) == {l \in {0} \cup LayersOf(d) : Eligible(d, l)}
\* The presses it takes to come from the active window to e, if windows had
\* every number up to n.
Presses(n, act, e) == IF act <= e THEN e - act ELSE e + n + 1 - act

\* The windows of S and those one press away from them.
Pressed(d, S) == S \cup {NextWindow(d, l) : l \in S}
\* v: the windows visited after each of the first n presses.
Visits(d, n, v) ==
  v = [k \in 0 .. n |-> IF k = 0 THEN {d.active} ELSE Pressed(d, v[k - 1])]

\* The windows visited after any number of presses.
LEMMA VisitsExist ==
  ASSUME NEW d PROVE \A n \in Nat : \E v : Visits(d, n, v)
<1> DEFINE T == {n \in Nat : \E v : Visits(d, n, v)}
<1>1. 0 \in T
  <2>1. Visits(d, 0, [k \in 0 .. 0 |-> {d.active}])
    BY DEF Visits
  <2> QED BY <2>1
<1>2. ASSUME NEW n \in Nat, n \in T PROVE n + 1 \in T
  <2>1. PICK v : Visits(d, n, v)
    BY <1>2
  <2> DEFINE f == [k \in 0 .. n + 1 |->
                     IF k <= n THEN v[k] ELSE Pressed(d, v[n])]
  <2>2. ASSUME NEW k \in 0 .. n
        PROVE  f[k] = IF k = 0 THEN {d.active} ELSE Pressed(d, v[k - 1])
    <3>1. v[k] = IF k = 0 THEN {d.active} ELSE Pressed(d, v[k - 1])
      BY <2>1 DEF Visits
    <3>2. f[k] = v[k]
      OBVIOUS
    <3> HIDE DEF f
    <3> QED BY <3>1, <3>2
  <2>3. ASSUME NEW k \in 0 .. n + 1, k # 0 PROVE k - 1 \in 0 .. n /\ f[k - 1] = v[k - 1]
    BY <2>3
  <2>4. ASSUME NEW k \in 0 .. n + 1
        PROVE  f[k] = IF k = 0 THEN {d.active} ELSE Pressed(d, f[k - 1])
    <3>1. CASE k <= n
      <4>1. k \in 0 .. n
        BY <3>1
      <4> HIDE DEF f
      <4>2. f[k] = IF k = 0 THEN {d.active} ELSE Pressed(d, v[k - 1])
        BY <2>2, <4>1
      <4>3. k # 0 => f[k - 1] = v[k - 1]
        BY <2>3
      <4> QED BY <4>2, <4>3
    <3>2. CASE k = n + 1
      BY <3>2, <2>3
    <3> QED BY <3>1, <3>2
  <2>5. Visits(d, n + 1, f)
    <3>1. f = [k \in 0 .. n + 1 |-> f[k]]
      OBVIOUS
    <3> HIDE DEF f
    <3> QED BY <2>4, <3>1 DEF Visits
  <2> QED BY <2>5
<1> HIDE DEF T
<1>3. \A n \in Nat : n \in T
  BY <1>1, <1>2, Induction
<1> QED BY <1>3 DEF T

\* Every window but the active one is the next of one that takes fewer presses.
LEMMA PreviousWindow ==
  ASSUME NEW d, NEW n \in Nat, DeskOK(d, n), Eligible(d, d.active),
         NEW e \in Windows(d), e # d.active
  PROVE  \E g \in Windows(d) : /\ NextWindow(d, g) = e
                               /\ Presses(n, d.active, g) < Presses(n, d.active, e)
<1> DEFINE a == d.active
           W == Windows(d)
           T == IF e = 0 THEN W ELSE {x \in W : x < e}
<1>1. /\ Ready(d) /\ FirstLayers \subseteq LayersOf(d) /\ LayersOf(d) \subseteq 1 .. n
      /\ 0 \in W /\ a \in W /\ W \subseteq 0 .. n /\ e \in 0 .. n /\ a \in 0 .. n
  BY DEF DeskOK, Windows, Eligible
<1>2. T \subseteq W /\ 0 \in T
  BY <1>1
<1> DEFINE g == FE!Max(T)
<1>3. g \in T /\ \A m \in T : m <= g
  <2>1. T \subseteq 0 .. n
    BY <1>1, <1>2
  <2> HIDE DEF T
  <2> QED BY <1>2, <2>1, Greatest
<1> HIDE DEF g
<1> DEFINE l == NextWindow(d, g)
<1>4. \/ /\ l = 0
         /\ \A x \in LayersOf(d) : IsDraggable(x) => x <= g
      \/ /\ l \in LayersOf(d) /\ IsDraggable(l) /\ g < l
         /\ \A x \in LayersOf(d) : IsDraggable(x) /\ g < x => l <= x
  <2>1. Eligible(d, g)
    BY <1>2, <1>3 DEF Windows
  <2> QED BY <1>1, <2>1, NextWindowLeast
<1> HIDE DEF l
<1>5. l = e
  <2>1. CASE e = 0
    <3>1. ASSUME l # 0 PROVE FALSE
      <4>1. l \in LayersOf(d) /\ IsDraggable(l) /\ g < l
        BY <1>4, <3>1
      <4>2. l \in T
        BY <4>1, <2>1 DEF Windows, Eligible
      <4>3. l <= g /\ l \in Nat /\ g \in Nat
        BY <1>1, <1>2, <1>3, <4>2
      <4> QED BY <4>1, <4>3
    <3> QED BY <2>1, <3>1
  <2>2. CASE e # 0
    <3>1. e \in LayersOf(d) /\ IsDraggable(e) /\ g < e /\ g \in 0 .. n
      BY <1>1, <1>2, <1>3, <2>2 DEF Windows, Eligible
    <3>2. l \in LayersOf(d) /\ IsDraggable(l) /\ g < l /\ l <= e /\ l \in 0 .. n
      BY <1>1, <1>4, <3>1
    <3>3. ASSUME l < e PROVE FALSE
      <4>1. l \in T
        BY <2>2, <3>2, <3>3 DEF Windows, Eligible
      <4> QED BY <1>3, <3>1, <3>2, <4>1
    <3> QED BY <1>1, <3>2, <3>3
  <2> QED BY <2>1, <2>2
<1>6. g \in 0 .. n /\ a # e
  BY <1>1, <1>2, <1>3
<1>7. a \in T => a <= g
  BY <1>3
<1>8. Presses(n, a, g) < Presses(n, a, e)
  <2>1. CASE e = 0
    <3>1. a <= g
      BY <1>1, <1>7, <2>1
    <3> QED BY <1>1, <1>6, <2>1, <3>1 DEF Presses
  <2>2. CASE e # 0 /\ a < e
    <3>1. a <= g /\ g < e
      BY <1>1, <1>3, <1>7, <2>2
    <3> QED BY <1>1, <1>6, <2>2, <3>1 DEF Presses
  <2>3. CASE e # 0 /\ ~(a < e)
    <3>1. g < e /\ e < a
      BY <1>1, <1>3, <1>6, <2>3
    <3> QED BY <1>1, <1>6, <3>1 DEF Presses
  <2> QED BY <2>1, <2>2, <2>3
<1>9. g \in W
  BY <1>2, <1>3
<1> QED BY <1>5, <1>8, <1>9 DEF l

\* Each window takes at most as many presses as there are identifiers, counted round from
\* the active one.
LEMMA VisitsAll ==
  ASSUME NEW d, NEW n \in Nat, DeskOK(d, n), Eligible(d, d.active), NEW v, Visits(d, n, v)
  PROVE  v[n] = Windows(d)
<1> DEFINE W == Windows(d)
           S == {k \in Nat : k <= n => /\ v[k] \subseteq W
                                       /\ \A e \in W : Presses(n, d.active, e) <= k => e \in v[k]}
<1>1. /\ Ready(d) /\ FirstLayers \subseteq LayersOf(d) /\ W \subseteq 0 .. n
      /\ d.active \in W /\ d.active \in 0 .. n
  BY DEF DeskOK, Windows, Eligible
<1>2. ASSUME NEW e \in W
      PROVE  Presses(n, d.active, e) \in 0 .. n /\ (Presses(n, d.active, e) = 0 => e = d.active)
  BY <1>1 DEF Presses
<1>3. 0 \in S
  <2>1. v[0] = {d.active}
    BY DEF Visits
  <2> QED BY <1>1, <1>2, <2>1
<1>4. ASSUME NEW k \in Nat, k \in S PROVE k + 1 \in S
  <2> SUFFICES ASSUME k + 1 <= n
               PROVE  /\ v[k + 1] \subseteq W
                      /\ \A e \in W : Presses(n, d.active, e) <= k + 1 => e \in v[k + 1]
    OBVIOUS
  <2>1. v[k + 1] = v[k] \cup {NextWindow(d, l) : l \in v[k]}
    BY DEF Visits, Pressed
  <2>2. v[k] \subseteq W /\ \A e \in W : Presses(n, d.active, e) <= k => e \in v[k]
    BY <1>4
  <2>3. ASSUME NEW l \in v[k] PROVE NextWindow(d, l) \in W
    <3>1. Eligible(d, l)
      BY <2>2 DEF Windows
    <3>2. Eligible(d, NextWindow(d, l))
      BY <1>1, <3>1, NextWindowIs
    <3> QED BY <3>2 DEF Windows, Eligible
  <2>4. ASSUME NEW e \in W, Presses(n, d.active, e) <= k + 1 PROVE e \in v[k + 1]
    <3>1. CASE e = d.active
      <4>1. Presses(n, d.active, e) = 0
        BY <1>1, <3>1 DEF Presses
      <4> QED BY <2>1, <2>2, <4>1
    <3>2. CASE e # d.active
      <4>1. PICK g \in W : /\ NextWindow(d, g) = e
                           /\ Presses(n, d.active, g) < Presses(n, d.active, e)
        BY <3>2, PreviousWindow
      <4>2. Presses(n, d.active, g) <= k
        BY <1>2, <2>4, <4>1
      <4> QED BY <2>1, <2>2, <4>1, <4>2
    <3> QED BY <3>1, <3>2
  <2> QED BY <2>1, <2>2, <2>3, <2>4
<1> HIDE DEF S
<1>5. \A k \in Nat : k \in S
  BY <1>3, <1>4, Induction
<1>6. v[n] \subseteq W /\ \A e \in W : Presses(n, d.active, e) <= n => e \in v[n]
  BY <1>5 DEF S
<1> QED BY <1>2, <1>6

\* What the model computes step by step is that set.
LEMMA IInvVisits == IInv => AltAVisitsAll
<1> SUFFICES ASSUME IInv PROVE AltAVisitsAll
  OBVIOUS
<1> DEFINE visited[n \in 0 .. latest_id_] ==
             IF n = 0 THEN {desk.active}
             ELSE visited[n - 1] \cup {NextWindow(desk, l) : l \in visited[n - 1]}
<1>1. latest_id_ \in Nat /\ DeskOK(desk, latest_id_) /\ Eligible(desk, desk.active)
  <2>1. latest_id_ \in Nat /\ DeskOK(desk, latest_id_)
    BY FirstLayersApart, BoundAssumption DEF IInv
  <2>2. desk.active # 0 => desk.active \in LayersOf(desk) /\ IsDraggable(desk.active)
    BY <2>1, FocusInStack DEF DeskOK, Focus
  <2> QED BY <2>1, <2>2 DEF Eligible
<1>2. Visits(desk, latest_id_, visited)
  <2>1. PICK v : Visits(desk, latest_id_, v)
    BY <1>1, VisitsExist
  <2> QED BY <2>1 DEF Visits, Pressed
<1>3. Windows(desk) = {0} \cup (LayersOf(desk) \ {Background, Console, MouseLayer})
  BY DEF Windows, Eligible, IsDraggable
<1>4. visited[latest_id_] = Windows(desk)
  <2> HIDE DEF visited
  <2> QED BY <1>1, <1>2, VisitsAll
<1> QED BY <1>3, <1>4 DEF AltAVisitsAll

\* main.cpp, Alt+A: pressed often enough it comes to every window and to none, and never to
\* the desktop, the console or the mouse.
THEOREM AltAVisits == Spec => []AltAVisitsAll
BY TypeInvariance, IInvVisits, PTL

-----------------------------------------------------------------------------
(* Layers implements Desktop.                                              *)

\* Of two windows one is behind the other if it is below it in the stack.
LEMMA BehindIs ==
  ASSUME NEW d, Ordered(d), NEW a, NEW b
  PROVE  <<a, b>> \in Behind(d) <=>
           a \in UserWindows(d) /\ b \in UserWindows(d) /\ a # b /\ Below(d, a, b)
<1>1. \A h, k \in DOMAIN d.stack : h \in Int /\ k \in Int /\ (d.stack[h] = d.stack[k] => h = k)
  BY DEF Ordered, Stacked
<1>2. <<a, b>> \in Behind(d) <=>
        /\ a \in UserWindows(d) /\ b \in UserWindows(d)
        /\ \E h, k \in DOMAIN d.stack : h < k /\ d.stack[h] = a /\ d.stack[k] = b
  BY DEF Behind
<1>3. (\E h, k \in DOMAIN d.stack : h < k /\ d.stack[h] = a /\ d.stack[k] = b)
        <=> (a # b /\ Below(d, a, b))
  BY <1>1 DEF Below
<1> QED BY <1>2, <1>3

\* The active window is in front of the others.
LEMMA ActiveInFront ==
  ASSUME NEW d, NEW n, DeskOK(d, n), d.active # 0, NEW a \in UserWindows(d), a # d.active
  PROVE  Below(d, a, d.active) /\ ~Below(d, d.active, a)
<1> DEFINE m == Len(d.stack)
<1>1. /\ m \in Nat /\ m >= 4 /\ d.stack[m - 1] = d.active /\ d.stack[m] = MouseLayer
      /\ DOMAIN d.stack = 1 .. m
      /\ \A h, k \in 1 .. m : d.stack[h] = d.stack[k] => h = k
  BY DEF DeskOK, Ready, Ordered, Stacked, Focus
<1>2. a \in LayersOf(d) /\ a # MouseLayer
  BY DEF UserWindows
<1>3. PICK h \in 1 .. m : d.stack[h] = a
  BY <1>1, <1>2 DEF DeskOK, InStack
<1> HIDE DEF m
<1>4. m - 1 \in 1 .. m /\ h # m /\ h # m - 1
  BY <1>1, <1>2, <1>3
<1>5. h < m - 1
  BY <1>1, <1>4
<1>6. Below(d, a, d.active)
  BY <1>1, <1>3, <1>4, <1>5 DEF Below
<1>7. ASSUME Below(d, d.active, a) PROVE FALSE
  <2>1. PICK i \in 1 .. m, j \in 1 .. m : i <= j /\ d.stack[i] = d.active /\ d.stack[j] = a
    BY <1>1, <1>7 DEF Below
  <2>2. i = m - 1 /\ j = h
    BY <1>1, <1>3, <1>4, <2>1
  <2> QED BY <1>5, <2>1, <2>2, <1>1
<1> QED BY <1>6, <1>7

Pairs(W) == W \X W
ToFront(W, l) == {<<v, l>> : v \in W \ {l}}
\* Behind is a set of pairs of windows.
LEMMA InPairs ==
  ASSUME NEW d, NEW b \in Behind(d) PROVE b = <<b[1], b[2]>> /\ b \in Pairs(UserWindows(d))
BY DEF Behind, Pairs

\* What is behind what once l is the active window of r, or has left it.
LEMMA BehindRaised ==
  ASSUME NEW d, NEW n, DeskOK(d, n), NEW r, NEW m, DeskOK(r, m), NEW l, l # 0,
         r.active = l, OtherOrder(d, r, l), UserWindows(r) = UserWindows(d) \cup {l}
  PROVE  Behind(r) = (Behind(d) \cap Pairs(UserWindows(d) \ {l})) \cup ToFront(UserWindows(d), l)
<1> DEFINE U == UserWindows(d)
           B == (Behind(d) \cap Pairs(U \ {l})) \cup ToFront(U, l)
<1>1. Ordered(d) /\ Ordered(r) /\ \A a \in U : a # 0
  BY DEF DeskOK, Ready, DeskType, UserWindows
<1>2. ASSUME NEW a, NEW b PROVE <<a, b>> \in Behind(r) <=> <<a, b>> \in B
  <2>1. <<a, b>> \in B <=> \/ <<a, b>> \in Behind(d) /\ a \in U \ {l} /\ b \in U \ {l}
                           \/ a \in U \ {l} /\ b = l
    BY DEF Pairs, ToFront
  <2>2. /\ <<a, b>> \in Behind(d) <=> (a \in U /\ b \in U /\ a # b /\ Below(d, a, b))
        /\ <<a, b>> \in Behind(r) <=> (a \in U \cup {l} /\ b \in U \cup {l} /\ a # b /\ Below(r, a, b))
    BY <1>1, BehindIs
  <2>3. a \in U /\ b \in U /\ a # l /\ b # l => (Below(r, a, b) <=> Below(d, a, b))
    BY <1>1 DEF OtherOrder
  <2>4. (a \in U /\ a # l) => Below(r, a, l)
    BY ActiveInFront
  <2>5. (b \in U /\ b # l) => ~Below(r, l, b)
    BY ActiveInFront
  <2> QED BY <2>1, <2>2, <2>3, <2>4, <2>5
<1>3. \A b \in B : b = <<b[1], b[2]>>
  BY InPairs DEF ToFront
<1>4. \A b \in Behind(r) : b = <<b[1], b[2]>>
  BY InPairs
<1> HIDE DEF B
<1>5. Behind(r) = B
  BY <1>2, <1>3, <1>4
<1> QED BY <1>5 DEF B

\* Without l, the others lie as they did.
LEMMA BehindLeft ==
  ASSUME NEW d, NEW n, DeskOK(d, n), NEW r, NEW m, DeskOK(r, m), NEW l,
         OtherOrder(d, r, l), UserWindows(r) = UserWindows(d) \ {l}
  PROVE  Behind(r) = Behind(d) \cap Pairs(UserWindows(d) \ {l})
<1> DEFINE U == UserWindows(d)
           B == Behind(d) \cap Pairs(U \ {l})
<1>1. Ordered(d) /\ Ordered(r) /\ \A a \in U : a # 0
  BY DEF DeskOK, Ready, DeskType, UserWindows
<1>2. ASSUME NEW a, NEW b PROVE <<a, b>> \in Behind(r) <=> <<a, b>> \in B
  <2>1. <<a, b>> \in B <=> (<<a, b>> \in Behind(d) /\ a \in U \ {l} /\ b \in U \ {l})
    BY DEF Pairs
  <2>2. /\ <<a, b>> \in Behind(d) <=> (a \in U /\ b \in U /\ a # b /\ Below(d, a, b))
        /\ <<a, b>> \in Behind(r) <=> (a \in U \ {l} /\ b \in U \ {l} /\ a # b /\ Below(r, a, b))
    BY <1>1, BehindIs
  <2>3. a \in U /\ b \in U /\ a # l /\ b # l => (Below(r, a, b) <=> Below(d, a, b))
    BY <1>1 DEF OtherOrder
  <2> QED BY <2>1, <2>2, <2>3
<1>3. \A b \in B : b = <<b[1], b[2]>>
  BY InPairs
<1>4. \A b \in Behind(r) : b = <<b[1], b[2]>>
  BY InPairs
<1> HIDE DEF B
<1>5. Behind(r) = B
  BY <1>2, <1>3, <1>4
<1> QED BY <1>5 DEF B

\* Behind is about windows only.
LEMMA BehindWhole ==
  ASSUME NEW d PROVE Behind(d) \cap Pairs(UserWindows(d)) = Behind(d)
BY DEF Behind, Pairs

\* Any step that makes no window and closes none: one comes to the front, or
\* none is any longer active, or the one that is dragged is moved.
LEMMA CalmDesktop ==
  ASSUME IInv, Calm PROVE D!DNext(1 .. MaxLayerID) \/ UNCHANGED D!dvars
<1> DEFINE r == desk'
           U == UserWindows(desk)
           w == drag_layer_id_
<1>1. /\ DeskOK(desk, latest_id_) /\ DeskOK(r, latest_id_) /\ LayersOf(r) = LayersOf(desk)
      /\ \A a \in LayersOf(desk) : a \notin {MouseLayer, w} => r.pos[a] = desk.pos[a]
      /\ OtherOrder(desk, r, r.active) /\ (r.active = desk.active \/ Rests(desk, r))
  BY DEF IInv, Calm, DeskStep
<1>2. UserWindows(r) = U /\ U \subseteq LayersOf(desk) /\ \A a \in U : a # MouseLayer /\ a # 0
  BY <1>1 DEF UserWindows, DeskOK, Ready, DeskType
<1>3. /\ DOMAIN Places(r) = U /\ DOMAIN Places(desk) = U
      /\ \A a \in U : a # w => Places(r)[a] = Places(desk)[a]
      /\ Places(r) = [a \in U |-> r.pos[a]] /\ Places(desk) = [a \in U |-> desk.pos[a]]
  BY <1>1, <1>2 DEF Places
<1>4. Rests(desk, r) => Places(r) = Places(desk)
  BY <1>2, <1>3 DEF Rests
<1>5. w \notin U => Places(r) = Places(desk)
  BY <1>3
<1>6. /\ Places(desk)' = Places(r) /\ Behind(desk)' = Behind(r)
  OBVIOUS
<1>7. CASE r.active = desk.active /\ Behind(r) = Behind(desk)
  <2>1. CASE w \in U
    <3>1. D!Drag(w)
      BY <1>3, <1>6, <1>7 DEF D!Drag, D!Shown, D!Others, D!Stay
    <3> QED BY <1>3, <2>1, <3>1 DEF D!DNext, D!Shown
  <2>2. CASE w \notin U
    BY <1>5, <1>6, <1>7, <2>2 DEF D!dvars
  <2> QED BY <2>1, <2>2
<1>8. CASE r.active = 0
  <2>1. UserWindows(r) = U \ {0}
    BY <1>2
  <2>2. Behind(r) = Behind(desk) \cap Pairs(U \ {0})
    BY <1>1, <1>8, <2>1, BehindLeft
  <2>3. Behind(r) = Behind(desk)
    BY <1>2, <2>1, <2>2, BehindWhole
  <2>4. CASE desk.active # 0
    <3>1. D!Blur
      BY <1>1, <1>4, <1>6, <1>8, <2>3, <2>4 DEF D!Blur
    <3> QED BY <3>1 DEF D!DNext
  <2> QED BY <1>7, <1>8, <2>3, <2>4
<1>9. CASE r.active # 0
  <2> DEFINE l == r.active
  <2>1. l \in U
    <3>1. l \in LayersOf(r) /\ IsDraggable(l)
      BY <1>1, <1>9, FocusInStack DEF DeskOK, Focus
    <3> QED BY <1>1, <3>1 DEF UserWindows, IsDraggable
  <2>2. UserWindows(r) = U \cup {l} /\ U = U \cup {l}
    BY <1>2, <2>1
  <2>3. Behind(r) = (Behind(desk) \cap Pairs(U \ {l})) \cup ToFront(U, l)
    BY <1>1, <1>9, <2>2, BehindRaised
  <2>4. CASE l = desk.active
    <3>1. OtherOrder(desk, desk, l)
      BY DEF OtherOrder
    <3>2. Behind(desk) = (Behind(desk) \cap Pairs(U \ {l})) \cup ToFront(U, l)
      BY <1>1, <1>9, <2>2, <2>4, <3>1, BehindRaised
    <3> QED BY <1>7, <2>3, <2>4, <3>2
  <2>5. CASE l # desk.active
    <3>1. Places(r) = Places(desk)
      BY <1>1, <1>4, <2>5
    <3>2. D!Raise(l)
      BY <1>3, <1>6, <2>3, <3>1
         DEF D!Raise, D!Among, D!Others, D!InFront, D!Shown, Pairs, ToFront
    <3> QED BY <1>3, <2>1, <3>2 DEF D!DNext, D!Shown
  <2> QED BY <2>4, <2>5
<1> QED BY <1>8, <1>9

\* A window opened appears in front and has the focus.
LEMMA GrownDesktop ==
  ASSUME IInv, NEW t \in Tasks, GrownChange(t) PROVE D!DNext(1 .. MaxLayerID)
<1> DEFINE r == desk'
           U == UserWindows(desk)
           l == latest_id_ + 1
<1>1. /\ DeskOK(desk, latest_id_) /\ DeskOK(r, l) /\ LayersOf(r) = LayersOf(desk) \cup {l}
      /\ r.active = l /\ \A a \in LayersOf(desk) : r.pos[a] = desk.pos[a]
      /\ OtherOrder(desk, r, l) /\ Fresh(desk, latest_id_, l) /\ l <= MaxLayerID
  BY DEF IInv, GrownChange, Grown
<1>2. l \in Nat \ {0} /\ l \notin LayersOf(desk) /\ IsDraggable(l)
  BY <1>1, FreshIs
<1> HIDE DEF l
<1>3. UserWindows(r) = U \cup {l} /\ l \notin U /\ U \ {l} = U /\ U \subseteq LayersOf(desk)
  BY <1>1, <1>2 DEF UserWindows, IsDraggable
<1>4. Behind(r) = Behind(desk) \cup ToFront(U, l)
  <2>1. Behind(r) = (Behind(desk) \cap Pairs(U \ {l})) \cup ToFront(U, l)
    BY <1>1, <1>2, <1>3, BehindRaised
  <2> QED BY <1>3, <2>1, BehindWhole
<1>5. /\ DOMAIN Places(r) = U \cup {l} /\ DOMAIN Places(desk) = U
      /\ \A a \in U : Places(r)[a] = Places(desk)[a]
  BY <1>1, <1>3 DEF Places
<1>6. /\ Places(desk)' = Places(r) /\ Behind(desk)' = Behind(r)
  OBVIOUS
<1>7. D!Open(l)
  BY <1>1, <1>3, <1>4, <1>5, <1>6
     DEF D!Open, D!Others, D!InFront, D!Shown, D!Stay, ToFront
<1>8. l \in 1 .. MaxLayerID
  <2>1. MaxLayerID \in Int
    BY BoundAssumption
  <2> QED BY <1>1, <1>2, <2>1
<1> QED BY <1>3, <1>5, <1>7, <1>8 DEF D!DNext, D!Shown

\* A window closed takes the focus away, the others stay where they are.
LEMMA ClosesDesktop ==
  ASSUME IInv, NEW t \in Tasks, CloseLayerRemoves(t) PROVE D!DNext(1 .. MaxLayerID)
<1> DEFINE r == desk'
           U == UserWindows(desk)
           l == closing[t].id
<1>1. /\ l \in Own(t) /\ DeskOK(r, latest_id_) /\ LayersOf(r) = LayersOf(desk) \ {l}
      /\ r.active = 0 /\ \A a \in LayersOf(desk) : a # l => r.pos[a] = desk.pos[a]
      /\ OtherOrder(desk, r, l)
  BY ClosedIs
<1>2. DeskOK(desk, latest_id_) /\ l \in LayersOf(desk) \ FirstLayers
  BY <1>1, OwnIs DEF IInv
<1> HIDE DEF l
<1>3. UserWindows(r) = U \ {l} /\ l \in U /\ U \subseteq LayersOf(desk)
  BY <1>1, <1>2, FirstLayersApart DEF UserWindows, FirstLayers
<1>4. Behind(r) = Behind(desk) \cap Pairs(U \ {l})
  BY <1>1, <1>2, <1>3, BehindLeft
<1>5. /\ DOMAIN Places(r) = U \ {l} /\ DOMAIN Places(desk) = U
      /\ \A a \in U \ {l} : Places(r)[a] = Places(desk)[a]
  BY <1>1, <1>3 DEF Places
<1>6. /\ Places(desk)' = Places(r) /\ Behind(desk)' = Behind(r)
  OBVIOUS
<1>7. D!Close(l)
  BY <1>1, <1>4, <1>5, <1>6
     DEF D!Close, D!Others, D!Among, D!Shown, D!Stay, Pairs
<1> QED BY <1>3, <1>5, <1>7 DEF D!DNext, D!Shown

\* Each step of Layers is one of Desktop, or is not seen.
LEMMA DesktopStep == IInv /\ [Next]_vars => [D!DNext(1 .. MaxLayerID)]_(D!dvars)
<1> SUFFICES ASSUME IInv, [Next]_vars PROVE D!DNext(1 .. MaxLayerID) \/ UNCHANGED D!dvars
  OBVIOUS
<1>1. ASSUME NEW t \in Tasks, NEW l \in Own(t), CloseLayer(t, l) PROVE UNCHANGED D!dvars
  BY <1>1 DEF CloseLayer, D!dvars, Places, Behind, UserWindows, LayersOf
<1> QED BY <1>1, NextIs, CalmDesktop, GrownDesktop, ClosesDesktop

\* The desktop starts with the windows of the kernel, the older behind the younger.
LEMMA DesktopInit ==
  Init => D!DInit([l \in FirstLayers \ {Background, Console, MouseLayer} |-> KernelWindows[l - 2]])
<1> SUFFICES ASSUME Init
             PROVE  D!DInit([l \in FirstLayers \ {Background, Console, MouseLayer} |->
                               KernelWindows[l - 2]])
  OBVIOUS
<1> DEFINE U == UserWindows(desk)
<1>1. AsMade(desk) /\ LayersOf(desk) = FirstLayers
  BY InitialDeskOK, InitialPosIs DEF Init, AsMade, LayersOf
<1>2. U = FirstLayers \ {Background, Console, MouseLayer} /\ U \subseteq FirstLayers
  BY <1>1 DEF UserWindows
<1>3. Places(desk) = [l \in U |-> KernelWindows[l - 2]]
  BY <1>1, <1>2 DEF Places, AsMade, InitialPos
<1>4. DOMAIN Places(desk) = U
  BY DEF Places
<1>5. Behind(desk) = {b \in U \X U : b[1] < b[2]}
  <2>1. ASSUME NEW b \in U \X U
        PROVE  (\E h, k \in DOMAIN desk.stack : h < k /\ desk.stack[h] = b[1] /\ desk.stack[k] = b[2])
                 <=> b[1] < b[2]
    BY <1>1, <1>2 DEF AsMade
  <2> QED BY <2>1 DEF Behind
<1>6. desk.active = 0
  BY <1>1 DEF AsMade
<1> QED BY <1>2, <1>3, <1>4, <1>5, <1>6 DEF D!DInit, D!Shown

\* What a user sees of the windows changes only as Desktop says
\* (ActiveLayer::Activate, Mouse::OnInterrupt, OpenWindow, CloseLayer).
THEOREM LayersImplementDesktop == Spec => ImplementsDesktop
BY DesktopInit, DesktopStep, TypeInvariance, PTL DEF Spec, ImplementsDesktop
=============================================================================
