---------------------------- MODULE TerminalText ----------------------------
(***************************************************************************)
(* The text of a terminal (kernel/terminal.cpp): the line being typed, the *)
(* history of lines, what commands print, and the areas of the window that *)
(* the main task is asked to put on the screen.                            *)
(*                                                                         *)
(* The window is a grid of characters; drawing does not erase what was     *)
(* there, so a character drawn over another leaves a smudge.  A wide       *)
(* character takes two places.  The task of the terminal and the main task *)
(* alternate as they like: a request is served from what the window shows  *)
(* when it is served.  The cursor is left out.                             *)
(***************************************************************************)
EXTENDS Integers, Sequences, FiniteSets

SeqOps == INSTANCE SequencesExt

CONSTANTS
  kRows, kColumns, kLineMax, kHistory,
  Ascii,        \* the characters that are typed
  Wide,         \* the characters that take two places
  Texts,        \* what commands write, call by call
  Misuse,       \* see below
  MaxRequests   \* bound: requests waiting for the main task

Blank == " "
Smudge == "#"
RightHalf == "-"      \* the second place of a wide character
NewLine == "newline"
Prompt == <<">", ">", Blank>>

(***************************************************************************)
(* The code does not keep up with three things, which Misuse may allow:    *)
(*   "scroll by key"     a key or an echo that moves the last row up: only *)
(*                       the cursor's surroundings are drawn on the screen *)
(*   "long history"      fetching back a line that took more than one row  *)
(*   "refused redirect"  a redirection to a file that cannot be created:   *)
(*                       the line is not cleared                           *)
(***************************************************************************)
ASSUME MisuseAssumption ==
  Misuse \subseteq {"scroll by key", "long history", "refused redirect"}
ASSUME TextSizeAssumption ==
  /\ kRows \in Nat \ {0} /\ kColumns \in Nat /\ kColumns > 4
  /\ kLineMax \in Nat \ {0} /\ kHistory \in Nat \ {0} /\ MaxRequests \in Nat
  /\ kLineMax <= (kRows - 1) * (kColumns - 1)

Letter == Ascii \cup Wide \cup {NewLine} \cup UNION {{s[i] : i \in DOMAIN s} : s \in Texts}
ASSUME TextAssumption == Texts \subseteq Seq(Letter) /\ Smudge \notin Letter

VARIABLES
  window,     \* [cells, x, y, outside]: the grid, the cursor, and whether
              \* something was drawn where the window has no pixels
  linebuf_,   \* the line that is being typed (linebuf_index_ is its length)
  cmd_history_, cmd_history_index_,
  running,    \* is a command being executed?
  requests,   \* areas (sets of places) sent to the main task, oldest first
  stale       \* the places that have changed since the screen was drawn there

textVars == <<window, linebuf_, cmd_history_, cmd_history_index_, running,
          requests, stale>>

Row == 0 .. kRows - 1
Column == 0 .. kColumns - 1
Place == Row \X Column
Whole == Place
Rows(from, to) == {p \in Place : p[1] \in from .. to}

(***************************************************************************)
(* Drawing, as functions of the window.                                    *)
(***************************************************************************)
\* What is seen where c is drawn over what was there.
Over(old, c) == IF c = Blank THEN old ELSE IF old = Blank THEN c ELSE Smudge

Draw(w, row, column, c) ==
  IF column \notin Column THEN [w EXCEPT !.outside = TRUE]
  ELSE [w EXCEPT !.cells = [p \in Place |-> IF p = <<row, column>> THEN Over(@[p], c) ELSE @[p]]]
Erase(w, places) ==
  [w EXCEPT !.cells = [p \in Place |-> IF p \in places THEN Blank ELSE @[p]]]

\* A change of the code, which TextIsLegible notices: the last row stays.
Scroll1WithoutFill(w) ==
  [w EXCEPT !.cells =
     [p \in Place |-> IF p[1] = kRows - 1 THEN @[p] ELSE @[p[1] + 1, p[2]]]]

Scroll1(w) ==
  [w EXCEPT !.cells =
     [p \in Place |-> IF p[1] = kRows - 1 THEN Blank ELSE @[p[1] + 1, p[2]]]]
newline(w) ==
  IF w.y < kRows - 1 THEN [w EXCEPT !.x = 0, !.y = @ + 1] ELSE [Scroll1(w) EXCEPT !.x = 0]

\* Terminal::Print of one character.
PrintNarrow(w, c) ==
  LET v == IF w.x = kColumns THEN newline(w) ELSE w
  IN  [Draw(v, v.y, v.x, c) EXCEPT !.x = @ + 1]
PrintWide(w, c) ==
  LET v == IF w.x >= kColumns - 1 THEN newline(w) ELSE w
  IN  [Draw(Draw(v, v.y, v.x, c), v.y, v.x + 1, RightHalf) EXCEPT !.x = @ + 2]
PrintChar(w, c) ==
  IF c = NewLine THEN newline(w) ELSE IF c \in Wide THEN PrintWide(w, c) ELSE PrintNarrow(w, c)
PrintText(w, s) ==
  LET printed[n \in 0 .. Len(s)] == IF n = 0 THEN w ELSE PrintChar(printed[n - 1], s[n])
  IN  printed[Len(s)]
\* Print asks for the rows between the cursor's old and new place.
PrintedArea(w, v) == Rows(w.y, v.y)

\* WriteString from the given place, all on one row.
WriteString(w, row, column, s) ==
  [w EXCEPT
     !.outside = @ \/ column + Len(s) > kColumns,
     !.cells = [p \in Place |-> IF p[1] = row /\ p[2] - column \in 0 .. Len(s) - 1
                               THEN Over(@[p], s[p[2] - column + 1]) ELSE @[p]]]

Ask(areas) ==
  /\ requests' = requests \o areas /\ Len(requests') <= MaxRequests
Shows == stale' = stale \cup {p \in Place : window.cells[p] # window'.cells[p]}
Scrolls(w, v) == v.y = w.y /\ v.x < w.x
KeepsUp(w, v) == "scroll by key" \in Misuse \/ ~Scrolls(w, v)

(***************************************************************************)
(* InputKey, at the prompt.                                                *)
(***************************************************************************)
AtCursor(w) == {p \in Place : p[1] = w.y /\ p[2] \in {w.x, w.x + 1}}

Typed(w, c) ==
  LET v == IF w.x < kColumns - 1 /\ Len(linebuf_) < kLineMax - 1
           THEN [Draw(w, w.y, w.x, c) EXCEPT !.x = @ + 1] ELSE w
  IN  IF v.x = kColumns - 1 THEN newline(v) ELSE v

TypeChar(c) ==
  /\ ~running
  /\ linebuf_' = IF window.x < kColumns - 1 /\ Len(linebuf_) < kLineMax - 1
                 THEN Append(linebuf_, c) ELSE linebuf_
  /\ window' = Typed(window, c)
  /\ KeepsUp(window, window')
  /\ Shows /\ Ask(<<AtCursor(window)>>)
  /\ UNCHANGED <<cmd_history_, cmd_history_index_, running>>

\* A change of the code, which ScreenIsCurrent notices: the area is not moved
\* back with the cursor.
BackspaceBehind ==
  /\ ~running
  /\ window.x > 0
  /\ \E v \in {[window EXCEPT !.x = @ - 1]} : window' = Erase(v, {<<v.y, v.x>>})
  /\ Ask(<<AtCursor(window)>>)
  /\ linebuf_' = IF linebuf_ = <<>> THEN <<>> ELSE SeqOps!Front(linebuf_)
  /\ Shows
  /\ UNCHANGED <<cmd_history_, cmd_history_index_, running>>

Backspace ==
  /\ ~running
  /\ window.x > 0
  /\ \E v \in {[window EXCEPT !.x = @ - 1]} :
       /\ window' = Erase(v, {<<v.y, v.x>>})
       /\ Ask(<<AtCursor(v)>>)
  /\ linebuf_' = IF linebuf_ = <<>> THEN <<>> ELSE SeqOps!Front(linebuf_)
  /\ Shows
  /\ UNCHANGED <<cmd_history_, cmd_history_index_, running>>

Arrow(direction) ==
  /\ ~running
  /\ cmd_history_index_' =
       IF direction = -1 /\ cmd_history_index_ >= 0 THEN cmd_history_index_ - 1
       ELSE IF direction = 1 /\ cmd_history_index_ + 1 < Len(cmd_history_)
            THEN cmd_history_index_ + 1 ELSE cmd_history_index_
  /\ linebuf_' = IF cmd_history_index_' >= 0 THEN cmd_history_[cmd_history_index_' + 1] ELSE <<>>
  /\ "long history" \in Misuse \/ Len(linebuf_') + Len(Prompt) < kColumns
  /\ \E area \in {{p \in Place : p[1] = window.y /\ p[2] \in Len(Prompt) .. kColumns - 1}} :
       /\ window' = [WriteString(Erase(window, area), window.y, Len(Prompt), linebuf_')
                       EXCEPT !.x = Len(linebuf_') + Len(Prompt)]
       /\ Ask(<<area>>)
  /\ Shows
  /\ UNCHANGED <<cmd_history_, running>>

\* HistoryUpDown keeps the last kHistory lines that were not empty.
Remembered(lines, line) == IF line = <<>> THEN lines ELSE <<line>> \o SeqOps!Front(lines)

Enter ==
  /\ ~running
  /\ window' = newline(window)
  /\ cmd_history_' = Remembered(cmd_history_, linebuf_)
  /\ cmd_history_index_' = -1
  /\ running' = TRUE
  /\ Shows
  /\ UNCHANGED <<linebuf_, requests>>

(***************************************************************************)
(* ExecuteLine, and what the command does through its TerminalFile-        *)
(* Descriptor.                                                             *)
(***************************************************************************)
Executing == running /\ UNCHANGED <<cmd_history_, cmd_history_index_>>

WriteText(s) ==
  /\ Executing
  /\ window' = PrintText(window, s)
  /\ Shows /\ Ask(<<PrintedArea(window, window'), Whole>>)
  /\ UNCHANGED <<linebuf_, running>>

\* Read returns a key, or echoes a control key and goes on.
ReadKey(c) ==
  /\ Executing
  /\ window' = PrintChar(window, c)
  /\ Shows /\ Ask(<<PrintedArea(window, window'), Whole>>)
  /\ UNCHANGED <<linebuf_, running>>
ReadControl(c) ==
  /\ Executing
  /\ window' = PrintText(window, <<"^", c>>)
  /\ KeepsUp(window, window')
  /\ Shows /\ Ask(<<PrintedArea(window, window')>>)
  /\ UNCHANGED <<linebuf_, running>>

Clear ==
  /\ Executing
  /\ window' = [Erase(window, Whole) EXCEPT !.y = 0]
  /\ Shows
  /\ UNCHANGED <<linebuf_, running, requests>>

\* The line is done: InputKey prints the next prompt and has it all drawn.
Return(line) ==
  /\ Executing
  /\ running' = FALSE
  /\ linebuf_' = line
  /\ window' = PrintText(window, Prompt)
  /\ Shows /\ Ask(<<PrintedArea(window, window'), Whole>>)
\* A change of the code, which LineIsShown notices: the line is not cleared.
FinishedKeepsLine == Return(linebuf_)
NotCleared == IF "refused redirect" \in Misuse THEN {linebuf_} ELSE {}
Finished == \E line \in {<<>>} \cup NotCleared : Return(line)

\* ProcessLayerMessage in the main task.
MainDraws ==
  /\ requests # <<>>
  /\ stale' = stale \ Head(requests)
  /\ requests' = Tail(requests)
  /\ UNCHANGED <<window, linebuf_, cmd_history_, cmd_history_index_, running>>

Empty == [cells |-> [p \in Place |-> Blank], x |-> 0, y |-> 0, outside |-> FALSE]
TextInit ==
  /\ window = PrintText(Empty, Prompt)
  /\ linebuf_ = <<>>
  /\ cmd_history_ = [k \in 1 .. kHistory |-> <<>>]
  /\ cmd_history_index_ = -1
  /\ running = FALSE
  /\ requests = <<Whole>>
  /\ stale = {}

TextNext ==
  \/ \E c \in Ascii : TypeChar(c) \/ ReadControl(c)
  \/ \E c \in Ascii \cup {NewLine} : ReadKey(c)
  \/ Backspace \/ Enter \/ \E d \in {-1, 1} : Arrow(d)
  \/ \E s \in Texts : WriteText(s)
  \/ Clear \/ Finished
  \/ MainDraws

TextSpec == TextInit /\ [][TextNext]_textVars

(***************************************************************************)
(* Properties.                                                             *)
(***************************************************************************)
\* The place k characters before the cursor; the last column is not typed in.
Before(k) ==
  LET p == window.y * (kColumns - 1) + window.x - k
  IN  <<p \div (kColumns - 1), p % (kColumns - 1)>>

\* What stands before the cursor is the line that Enter would execute
\* (InputKey, HistoryUpDown, ExecuteLine keep both).
LineIsShown ==
  ~running => \A k \in 1 .. Len(linebuf_) :
                window.cells[Before(k)] = linebuf_[Len(linebuf_) - k + 1]

\* No character is drawn over another, and none outside of the window
\* (Print, InputKey, HistoryUpDown, Scroll1, DrawCursor's callers).
TextIsLegible ==
  ~window.outside /\ \A p \in Place : window.cells[p] # Smudge

\* At the prompt, when all requests are served, the screen shows the window
\* (the areas returned by InputKey, Print and Redraw cover what changed).
ScreenIsCurrent == ~running /\ requests = <<>> => stale = {}
=============================================================================
