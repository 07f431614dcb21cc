------------------------------- MODULE Layers -------------------------------
(***************************************************************************)
(* The layers and the active window: LayerManager, ActiveLayer and         *)
(* CloseLayer (kernel/layer.cpp), Mouse::OnInterrupt (kernel/mouse.cpp),   *)
(* the handlers of main.cpp that switch and draw windows, the windows of   *)
(* terminals (terminal.cpp) and of applications (syscall.cpp).             *)
(*                                                                         *)
(* Every window is drawn into its own buffer; the layers are put on top of *)
(* each other in a back buffer, from which areas are copied to the screen. *)
(* The main task has the highest level: what it does for a mouse report, a *)
(* key or a layer message is one step.  The other tasks hold interrupts    *)
(* off where they touch the layers, except where CloseLayer reads the      *)
(* position of the window that it is going to close.                       *)
(*                                                                         *)
(* A pixel is the window it belongs to, its place in it and what is drawn  *)
(* there: the title bar shows whether the window is active, the rest of it *)
(* which of two texts was drawn last.                                      *)
(***************************************************************************)
EXTENDS Display, Sequences, FiniteSets

SE == INSTANCE SequencesExt
FE == INSTANCE FiniteSetsExt

CONSTANTS
  ScreenSize,       \* <<width, height>>
  KernelWindows,    \* positions of the windows of the kernel (main and text window)
  ConsoleSize, WindowSize, MouseSize,
  MouseClear,       \* the transparent points of the mouse cursor
  CloseButton,      \* points of a window that are its close button
  TitleBar,         \* points of its title bar, the button's among them
  TextArea,         \* the part of a window that texts are written to
  Tasks,            \* tasks that can have windows
  TerminalPos,      \* where a terminal's window appears
  OpenAt,           \* where applications open their windows
  Displacements,    \* what the mouse reports
  Garbage,          \* rectangles an uninitialised one may be
  MaxLayerID,       \* bound: layers ever made
  MaxRequests,      \* bound: layer messages waiting
  ClosedUnderDrag   \* may a window be dragged while it is being closed?

Background == 1
Console == 2
MouseLayer == Len(KernelWindows) + 3
FirstLayers == 1 .. MouseLayer
Outline == Rectangle(Origin, ScreenSize)
ScreenPoints == Points(Outline)
None == [id |-> 0]

ASSUME GeometryAssumption ==
  /\ {ScreenSize, ConsoleSize, WindowSize, MouseSize, TerminalPos} \subseteq Vector
  /\ KernelWindows \in Seq(Vector) /\ OpenAt \cup Displacements \subseteq Vector
  /\ {TextArea} \cup Garbage \subseteq Rectangles
  /\ TitleBar \subseteq Points(Rectangle(Origin, WindowSize))
  /\ CloseButton \subseteq TitleBar
  /\ MouseClear \subseteq Points(Rectangle(Origin, MouseSize))
ASSUME BoundAssumption ==
  MaxLayerID \in Nat /\ MaxRequests \in Nat /\ ClosedUnderDrag \in BOOLEAN

VARIABLES
  desk,       \* the layers, see Desk
  latest_id_,
  drag_layer_id_,
  pressed,    \* was the left button down in the last report? (previous_buttons_)
  requests,   \* kLayer messages in the queue of the main task: what to draw
  asked,      \* windows whose task has been sent kWindowClose
  terminals,  \* windows of terminals, the others are of applications
  closing,    \* closing[t]: the layer t is about to close, and where it was
  faulted     \* has the kernel used an address it should not have?

vars == <<desk, latest_id_, drag_layer_id_, pressed, requests, asked, terminals, closing, faulted>>

(***************************************************************************)
(* The state that the calls hand on to each other is one record:           *)
(*   pos             of each layer in layers_                              *)
(*   stack           layer_stack_, the lowest layer first                  *)
(*   lit, text       what is drawn in each window: its title as that of an *)
(*                   active window or not, and its text                    *)
(*   undrawn         windows drawn to since they were last put on the      *)
(*                   screen (history)                                      *)
(*   back, screen    back_buffer_ and screen_                              *)
(*   active          active_layer_                                         *)
(*   task            layer_task_map                                        *)
(*   told            the layers whose task was told last that the window   *)
(*                   is active (kWindowActive)                             *)
(***************************************************************************)
Size(l) == CASE l = Background -> ScreenSize
             [] l = Console    -> ConsoleSize
             [] l = MouseLayer -> MouseSize
             [] OTHER          -> WindowSize
IsDraggable(l) == l \notin {Background, Console, MouseLayer}
LayersOf(d) == DOMAIN d.pos

Pixel(d, l, o) ==
  <<l, o, IF IsDraggable(l) /\ o \in TitleBar THEN l \in d.lit
          ELSE o \in Points(TextArea) /\ l \in d.text>>
Window(d, l) == Rectangle(d.pos[l], Size(l))

\* Layer::DrawTo, from the buffer of the window.
Shadow(d, l) == [o \in Points(Rectangle(Origin, Size(l))) |-> Pixel(d, l, o)]
DrawTo(d, l, buffer, area) ==
  IF l = MouseLayer
  THEN DrawTransparent(buffer, Outline, d.pos[l], Shadow(d, l), Size(l), MouseClear)
  ELSE DrawOpaque(buffer, Outline, d.pos[l], Shadow(d, l), Size(l), area)

\* LayerManager::Draw: the layers from height h (counted from 1) on are drawn
\* into the back buffer, and the area is copied to the screen.
DrawFrom(d, h, area) ==
  LET drawn[k \in 0 .. Len(d.stack)] ==
        IF k < h THEN d.back ELSE DrawTo(d, d.stack[k], drawn[k - 1], area)
      back == drawn[Len(d.stack)]
  IN  [d EXCEPT !.back = back, !.screen = Copy(@, Outline, area.pos, back, area)]

Height(d, l) == CHOOSE h \in DOMAIN d.stack : d.stack[h] = l
InStack(d, l) == \E h \in DOMAIN d.stack : d.stack[h] = l

DrawArea(d, area) == DrawFrom(d, 1, area)
Draw(d, l) == [DrawFrom(d, Height(d, l), Window(d, l)) EXCEPT !.undrawn = @ \ {l}]
DrawPart(d, l, part) ==
  [DrawFrom(d, Height(d, l), Intersection(Window(d, l),
                                          Rectangle(Plus(part.pos, d.pos[l]), part.size)))
     EXCEPT !.undrawn = @ \ {l}]
\* A layer that is not in the stack: the area was never given a value.
DrawGarbage(d, junk) == DrawFrom(d, Len(d.stack) + 1, junk)

MoveKeeping(d, l, pos) == Draw([d EXCEPT !.pos[l] = pos], l)
Move(d, l, pos) == Draw(DrawArea([d EXCEPT !.pos[l] = pos], Window(d, l)), l)

Hide(d, l) == [d EXCEPT !.stack = SE!RemoveFirst(@, l)]

\* LayerManager::UpDown, heights counted from 0.
UpDown(d, l, height) ==
  IF height < 0 THEN Hide(d, l)
  ELSE LET top   == Len(d.stack)
           h     == Lower(height, top)
           there == IF InStack(d, l) /\ h = top THEN h - 1 ELSE h
       IN  [d EXCEPT !.stack = SE!InsertAt(SE!RemoveFirst(@, l), there + 1, l)]

GetHeight(d, l) == IF InStack(d, l) THEN Height(d, l) - 1 ELSE -1

FindLayerByPosition(d, p, exclude) ==
  LET hit == {h \in DOMAIN d.stack :
                d.stack[h] # exclude /\ p \in Points(Window(d, d.stack[h]))}
  IN  IF hit = {} THEN 0 ELSE d.stack[FE!Max(hit)]

SendWindowActiveMessage(d, l, activate) ==
  IF l \notin DOMAIN d.task THEN d
  ELSE [d EXCEPT !.told = IF activate THEN @ \cup {l} ELSE @ \ {l}]

Deactivated(d) ==
  IF d.active = 0 THEN d
  ELSE SendWindowActiveMessage(Draw([d EXCEPT !.lit = @ \ {d.active}], d.active),
                               d.active, FALSE)
RaisedAtOnce(d, l) == UpDown([d EXCEPT !.lit = @ \cup {l}], l, GetHeight(d, MouseLayer) - 1)
Raised(d, l) ==
  LET low == UpDown([d EXCEPT !.lit = @ \cup {l}], l, 0)
  IN  UpDown(low, l, GetHeight(low, MouseLayer) - 1)
\* ActiveLayer::Activate
Activate(d, l) ==
  IF d.active = l THEN d
  ELSE LET off == [Deactivated(d) EXCEPT !.active = l]
       IN  IF l = 0 THEN off
           ELSE SendWindowActiveMessage(Draw(Raised(off, l), l), l, TRUE)

NewLayer(d, l, pos) == [d EXCEPT !.pos = Over([k \in {l} |-> pos], @)]
MapTo(d, l, t) == [d EXCEPT !.task = Over([k \in {l} |-> t], @)]
Without(f, l) == [k \in DOMAIN f \ {l} |-> f[k]]

(***************************************************************************)
(* The state in which KernelMainNewStack starts its loop.  The mouse layer *)
(* was moved before it was in the stack: the cursor is not yet visible.    *)
(***************************************************************************)
InitialPos == [l \in FirstLayers |->
  IF l \in {Background, Console, MouseLayer} THEN Origin ELSE KernelWindows[l - 2]]
Empty == [p \in ScreenPoints |-> <<0, Origin, FALSE>>]
InitialDesk ==
  LET below == [stack   |-> [h \in 1 .. MouseLayer - 1 |-> h],
                pos     |-> InitialPos,
                lit     |-> {}, text |-> {}, undrawn |-> {},
                back    |-> Empty, screen |-> Empty,
                active  |-> 0,
                task    |-> <<>>, told |-> {}]
  IN  [UpDown(DrawArea(below, Outline), MouseLayer, MouseLayer) EXCEPT !.undrawn = {MouseLayer}]

Init ==
  /\ desk = InitialDesk
  /\ latest_id_ = MouseLayer
  /\ drag_layer_id_ = 0
  /\ pressed = FALSE
  /\ requests = <<>>
  /\ asked = {}
  /\ terminals = {}
  /\ closing = [t \in Tasks |-> None]
  /\ faulted = FALSE

(***************************************************************************)
(* The main task: a report of the mouse, Alt+A, a layer message, drawing   *)
(* the counter and the text box, a line put on the console.                *)
(***************************************************************************)
Closing == {closing[t].id : t \in Tasks} \ {0}

\* Mouse::OnInterrupt: the cursor stays on the screen.
NewPosition(displacement) ==
  ElementMax(ElementMin(Plus(desk.pos[MouseLayer], displacement), Minus(ScreenSize, <<1, 1>>)),
             Origin)

\* The left button goes down, d is what the screen is with the cursor moved.
UnderCursor(d, p) ==
  LET l == FindLayerByPosition(d, p, MouseLayer)
  IN  IF l # 0 /\ IsDraggable(l) THEN l ELSE 0
On(part, d, l, p) == l # 0 /\ Minus(p, d.pos[l]) \in part
Press(d, p, l) ==
  /\ ~pressed
  /\ pressed' = TRUE
  /\ desk' = Activate(d, l)
  /\ drag_layer_id_' = IF On(TitleBar \ CloseButton, d, l, p) THEN l ELSE drag_layer_id_
  \* SendCloseMessage: to the task of the layer that is active now.
  /\ asked' = IF On(CloseButton, d, l, p) /\ drag_layer_id_ = 0 /\ l \in DOMAIN d.task
              THEN asked \cup {l} ELSE asked
  /\ ClosedUnderDrag \/ drag_layer_id_' \notin Closing
  /\ UNCHANGED <<latest_id_, requests, terminals, closing, faulted>>

\* It stays down: the window that was taken hold of follows the cursor.
Drag(d, p) ==
  LET diff == Minus(p, desk.pos[MouseLayer])
      l    == drag_layer_id_
      gone == l # 0 /\ l \notin LayersOf(d)
  IN  /\ pressed
      /\ desk' = IF l = 0 \/ gone THEN d ELSE Move(d, l, Plus(d.pos[l], diff))
      /\ faulted' = gone
      /\ UNCHANGED <<latest_id_, drag_layer_id_, pressed, requests, asked, terminals, closing>>

ReleaseKeeping(d) ==
  /\ pressed
  /\ pressed' = FALSE
  /\ desk' = d
  /\ UNCHANGED <<latest_id_, drag_layer_id_, requests, asked, terminals, closing, faulted>>
\* It goes up.
Release(d) ==
  /\ pressed
  /\ pressed' = FALSE
  /\ desk' = d
  /\ drag_layer_id_' = 0
  /\ UNCHANGED <<latest_id_, requests, asked, terminals, closing, faulted>>

Hover(d) ==
  /\ ~pressed
  /\ desk' = d
  /\ UNCHANGED <<latest_id_, drag_layer_id_, pressed, requests, asked, terminals, closing, faulted>>

OnInterrupt(displacement) ==
  \E p \in {NewPosition(displacement)} : \E d \in {Move(desk, MouseLayer, p)} :
    \/ \E l \in {UnderCursor(d, p)} : Press(d, p, l)
    \/ Drag(d, p) \/ Release(d) \/ Hover(d)

\* Alt+A: the next window by its identifier, after the last one none.
SkipScreenLayers(l) == IF l \in {Background, Console} THEN Console + 1 ELSE l
SkipNothing(l) == l
SkipMouse(l) == IF l = MouseLayer THEN l + 1 ELSE l
NextWindow(d, act) ==
  LET from == SkipMouse(SkipScreenLayers(act + 1))
      found == {l \in LayersOf(d) : l >= from}
  IN  IF found = {} THEN 0 ELSE FE!Min(found)
AltA ==
  /\ desk' = Activate(desk, NextWindow(desk, desk.active))
  /\ UNCHANGED <<latest_id_, drag_layer_id_, pressed, requests, asked, terminals, closing, faulted>>

Written(d, l) ==
  [d EXCEPT !.text = IF l \in @ THEN @ \ {l} ELSE @ \cup {l}, !.undrawn = @ \cup {l}]

\* The main task draws the counter and the text box, printk the console (whose
\* text is not told apart).
DrawOwn(l) ==
  /\ l \in FirstLayers \ {Background, MouseLayer}
  /\ desk' = Draw(IF l = Console THEN desk ELSE Written(desk, l), l)
  /\ UNCHANGED <<latest_id_, drag_layer_id_, pressed, requests, asked, terminals, closing, faulted>>

\* ProcessLayerMessage; the window may be gone, or be gone and have left the
\* stack while the message waited.  A garbage rectangle of negative width
\* would have memcpy overrun the buffers; nothing is said of a kernel that has
\* faulted so, and the windows are left as they were.
Fits(r) == LET area == Intersection(Outline, r) IN area.size[1] >= 0 \/ area.size[2] <= 0
ProcessLayerMessage(junk) ==
  LET l == Head(requests)
  IN  /\ requests # <<>>
      /\ requests' = Tail(requests)
      /\ IF InStack(desk, l)
         THEN /\ desk' = DrawPart(desk, l, TextArea)
              /\ UNCHANGED faulted
         ELSE /\ desk' = IF Fits(junk) THEN DrawGarbage(desk, junk) ELSE desk
              /\ faulted' = ~Fits(junk)
      /\ UNCHANGED <<latest_id_, drag_layer_id_, pressed, asked, terminals, closing>>

(***************************************************************************)
(* The other tasks.                                                        *)
(***************************************************************************)
Idle(t) == closing[t] = None
Own(t) == {l \in DOMAIN desk.task : desk.task[l] = t}

ActivateFirst(d, l, t) == MapTo(Activate(d, l), l, t)
ActivateTerminal(d, l, t) == Activate(MapTo(d, l, t), l)
\* TaskTerminal: its window is moved to its place before it is in the stack,
\* and known to belong to the task before it is activated.
StartTerminal(t, junk) ==
  LET l == latest_id_ + 1
      new == NewLayer(desk, l, Origin)
      drawn == DrawArea([new EXCEPT !.pos[l] = TerminalPos], Window(new, l))
  IN  /\ Idle(t) /\ Own(t) = {} /\ l <= MaxLayerID
      /\ \/ /\ Fits(junk)
            /\ latest_id_' = l
            /\ terminals' = terminals \cup {l}
            /\ desk' = ActivateTerminal(DrawGarbage(drawn, junk), l, t)
            /\ UNCHANGED faulted
         \/ /\ ~Fits(junk)
            /\ faulted' = TRUE
            /\ UNCHANGED <<latest_id_, terminals, desk>>
      /\ UNCHANGED <<drag_layer_id_, pressed, requests, asked, closing>>

\* A key or the cursor's timer changes a terminal's window, which asks the
\* main task to draw the part.
WriteTerminal(t, l) ==
  /\ Idle(t) /\ l \in Own(t) \cap terminals /\ Len(requests) < MaxRequests
  /\ desk' = Written(desk, l)
  /\ requests' = Append(requests, l)
  /\ UNCHANGED <<latest_id_, drag_layer_id_, pressed, asked, terminals, closing, faulted>>

\* syscall::OpenWindow, which activates before it says whose window it is.
OpenWindow(t, pos) ==
  LET l == latest_id_ + 1
  IN  /\ Idle(t) /\ l <= MaxLayerID
      /\ latest_id_' = l
      /\ desk' = MapTo(Activate(NewLayer(desk, l, pos), l), l, t)
      /\ UNCHANGED <<drag_layer_id_, pressed, requests, asked, terminals, closing, faulted>>

\* DoWinFunc: the window is written with interrupts on, and drawn unless the
\* caller asked for it to be left until WinRedraw.
WriteWindow(t, l) ==
  /\ Idle(t) /\ l \in Own(t) \ terminals
  /\ desk' = Written(desk, l)
  /\ UNCHANGED <<latest_id_, drag_layer_id_, pressed, requests, asked, terminals, closing, faulted>>
RedrawWindow(t, l) ==
  /\ Idle(t) /\ l \in Own(t) \ terminals
  /\ desk' = Draw(desk, l)
  /\ UNCHANGED <<latest_id_, drag_layer_id_, pressed, requests, asked, terminals, closing, faulted>>

\* CloseLayer, called by a terminal for kWindowClose, by an application when
\* it likes (applications that end without closing are left out): first,
\* with interrupts on, the layer and its area ...
CloseLayer(t, l) ==
  /\ Idle(t) /\ l \in Own(t)
  /\ l \in terminals => l \in asked /\ Own(t) = {l}
  /\ closing' = [closing EXCEPT ![t] = [id |-> l, area |-> Window(desk, l)]]
  /\ ClosedUnderDrag \/ ~(pressed /\ drag_layer_id_ = l)
  /\ UNCHANGED <<desk, latest_id_, drag_layer_id_, pressed, requests, asked, terminals, faulted>>

\* ... then, with interrupts off, the rest.
RemoveLayer(d, l) == [Hide(d, l) EXCEPT !.pos = Without(@, l),
                                        !.lit = @ \ {l}, !.text = @ \ {l},
                                        !.undrawn = @ \ {l}]
Unmapped(d, l) == [d EXCEPT !.task = Without(@, l), !.told = @ \ {l}]
KeepFocus(d) == d
LoseFocus(d) == Activate(d, 0)
CloseLayerRemoves(t) ==
  LET l == closing[t].id
  IN  /\ ~Idle(t)
      /\ desk' = Unmapped(DrawArea(RemoveLayer(LoseFocus(desk), l), closing[t].area), l)
      /\ closing' = [closing EXCEPT ![t] = None]
      /\ asked' = asked \ {l}
      /\ terminals' = terminals \ {l}
      /\ UNCHANGED <<latest_id_, drag_layer_id_, pressed, requests, faulted>>

Halted == faulted /\ UNCHANGED vars

Main ==
  \/ \E v \in Displacements : OnInterrupt(v)
  \/ AltA
  \/ \E l \in FirstLayers : DrawOwn(l)
  \/ \E junk \in Garbage : ProcessLayerMessage(junk)
Task(t) ==
  \/ \E junk \in Garbage : StartTerminal(t, junk)
  \/ \E pos \in OpenAt : OpenWindow(t, pos)
  \/ \E l \in Own(t) : \/ WriteTerminal(t, l) \/ WriteWindow(t, l)
                        \/ RedrawWindow(t, l) \/ CloseLayer(t, l)
  \/ CloseLayerRemoves(t)
Next ==
  \/ ~faulted /\ (Main \/ \E t \in Tasks : Task(t))
  \/ Halted

Spec == Init /\ [][Next]_vars

(***************************************************************************)
(* Properties                                                              *)
(***************************************************************************)
\* What the layers are made of, and the identifiers in use.
TypeOK ==
  /\ LayersOf(desk) \subseteq 1 .. latest_id_ /\ FirstLayers \subseteq LayersOf(desk)
  /\ latest_id_ \in MouseLayer .. MaxLayerID \cup {MouseLayer}
  /\ DOMAIN desk.back = ScreenPoints /\ DOMAIN desk.screen = ScreenPoints
  /\ desk.active \in LayersOf(desk) \cup {0}
  /\ desk.task \in [DOMAIN desk.task -> Tasks]
  /\ DOMAIN desk.task = LayersOf(desk) \ FirstLayers
  /\ asked \cup terminals \subseteq DOMAIN desk.task
  /\ pressed \in BOOLEAN /\ faulted \in BOOLEAN
  /\ \A t \in Tasks : Idle(t) \/ closing[t].id \in Own(t)

\* LayerManager::Draw, Move and UpDown: every point of the screen shows the
\* highest window there is at that point, with its title and its text as they
\* are, except texts that nobody has put on the screen yet (and the cursor
\* before the mouse is first moved): nothing is left behind by a window that
\* was moved, closed or covered.
MouseShape == Points(Rectangle(Origin, MouseSize)) \ MouseClear
Covers(l, p) ==
  IF l = MouseLayer THEN Minus(p, desk.pos[l]) \in MouseShape ELSE p \in Points(Window(desk, l))
TopAt(p, hidden) ==
  desk.stack[FE!Max({h \in DOMAIN desk.stack : desk.stack[h] \notin hidden /\ Covers(desk.stack[h], p)})]
Shows(p, l) ==
  LET o == Minus(p, desk.pos[l])
      pixel == desk.screen[p]
  IN  \/ pixel = Pixel(desk, l, o)
      \/ l \in desk.undrawn /\ o \in Points(TextArea) /\ pixel[1] = l /\ pixel[2] = o
ScreenShowsWindows ==
  \A p \in ScreenPoints :
    \/ Shows(p, TopAt(p, {}))
    \/ TopAt(p, {}) \in desk.undrawn \cap {MouseLayer} /\ Shows(p, TopAt(p, {MouseLayer}))

\* LayerManager::UpDown with the heights Activate gives it: every layer is in
\* the stack once, above the desktop and the console and below the mouse, the
\* active window above all others.
StackingOrder ==
  LET n == Len(desk.stack)
  IN  /\ {desk.stack[h] : h \in 1 .. n} = LayersOf(desk)
      /\ n = Cardinality(LayersOf(desk))
      /\ desk.stack[1] = Background /\ desk.stack[2] = Console /\ desk.stack[n] = MouseLayer
      /\ desk.active # 0 => desk.stack[n - 1] = desk.active

\* ActiveLayer::Activate, CloseLayer and Mouse::OnInterrupt change what the
\* user sees of the windows only as Desktop says, window by window.
UserWindows(d) == LayersOf(d) \ {Background, Console, MouseLayer}
Places(d) == [l \in UserWindows(d) |-> d.pos[l]]
Behind(d) ==
  {b \in UserWindows(d) \X UserWindows(d) :
     \E h, k \in DOMAIN d.stack : h < k /\ d.stack[h] = b[1] /\ d.stack[k] = b[2]}
D == INSTANCE Desktop WITH
  place <- Places(desk), behind <- Behind(desk), focus <- desk.active
ImplementsDesktop ==
  /\ D!DInit([l \in FirstLayers \ {Background, Console, MouseLayer} |-> KernelWindows[l - 2]])
  /\ [][D!DNext(1 .. MaxLayerID)]_(D!dvars)

\* ActiveLayer::Activate and CloseLayer: only the title of the active window is
\* that of an active window; a task was told last that its window is active
\* only if it still is, and a terminal whose window is active was told so.
ActiveTold ==
  /\ desk.lit = {desk.active} \ {0}
  /\ desk.told \subseteq desk.lit
  /\ desk.active \in terminals => desk.active \in desk.told

\* ActiveLayer::Activate: the window that is lit and told so is the one on top,
\* and there is one such window at most.
ActiveIsOnTop == TypeOK /\ StackingOrder /\ ActiveTold

\* Mouse::OnInterrupt: the window it drags, by its identifier, exists.
DragAlive == drag_layer_id_ # 0 => drag_layer_id_ \in LayersOf(desk)

\* main.cpp, Alt+A: pressed again and again it comes to every window and to
\* none, and never to the desktop, the console or the mouse.
AltAVisitsAll ==
  LET visited[n \in 0 .. latest_id_] ==
        IF n = 0 THEN {desk.active}
        ELSE visited[n - 1] \cup {NextWindow(desk, l) : l \in visited[n - 1]}
  IN  visited[latest_id_] = {0} \cup (LayersOf(desk) \ {Background, Console, MouseLayer})
=============================================================================
