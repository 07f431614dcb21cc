------------------------------ MODULE Pipeline ------------------------------
(***************************************************************************)
(* A terminal and the command lines it executes (kernel/terminal.cpp):     *)
(* `a | b | c` is executed by a chain of tasks, each of which starts the   *)
(* next, writes to it through a PipeDescriptor and waits for its end.  A   *)
(* pipe has no buffer of its own: its data are messages in the queue of    *)
(* the reading task, among the keys that the main task sends to the window.*)
(*                                                                         *)
(* A step is what happens between two places where interrupts are on and   *)
(* the other tasks matter: a message sent or received.  Sleeping for a     *)
(* message and WaitFinish are TaskManager's.  One terminal is modelled,    *)
(* with its window active.                                                 *)
(*                                                                         *)
(* Left out: redirection; first commands that read the keyboard (piped,    *)
(* they wait for ever: their keys go to the next command); stages that     *)
(* fail or do not read to the end of their input (PipeReaderAlive would    *)
(* not hold).                                                              *)
(***************************************************************************)
EXTENDS Integers, Sequences, FiniteSets

SE == INSTANCE SequencesExt

CONSTANTS
  kPipeData,  \* bytes of one message (16 in the code)
  kPageSize,  \* lines `more` shows before it asks (10 by default)
  MaxStages,  \* commands of a line, at most
  Lines,      \* the command lines
  Output,     \* Output[c]: what a command c that reads nothing writes, call by call
  Newline,    \* the byte that ends a line
  MaxKeys     \* bound: keys and clicks waiting for a task

Source == DOMAIN Output
Command == Source \cup {"cat", "more"}
Stage == 1 .. MaxStages
Window == "window"        \* the layer of the terminal
Elsewhere == "elsewhere"  \* any other value of layer_id_
NoTask == 0

ASSUME SizeAssumption ==
  /\ kPipeData \in Nat \ {0} /\ kPageSize \in Nat \ {0}
  /\ MaxStages \in Nat \ {0} /\ MaxKeys \in Nat \ {0}
Byte == {Newline} \cup UNION {UNION {{Output[c][i][j] : j \in DOMAIN Output[c][i]} :
                                       i \in DOMAIN Output[c]} : c \in Source}
ASSUME OutputAssumption ==
  /\ Source \cap {"cat", "more"} = {}
  /\ \A c \in Source : /\ Output[c] \in Seq(Seq(Byte))
                       /\ \A k \in DOMAIN Output[c] : Output[c][k] # <<>>
\* Only the first command makes up its text, the others read it.
ASSUME LineAssumption ==
  Lines \subseteq {l \in Seq(Command) : /\ Len(l) \in 1 .. MaxStages
                                        /\ \A k \in DOMAIN l : l[k] \in Source <=> k = 1}

VARIABLES
  pc,              \* pc[k]: where the task of stage k is
  commands,        \* commands[k]: its command and those after it
  out,             \* what its command will still write, call by call
  input,           \* cat: the line read so far, more: the lines
  shown,           \* more: how many of its lines it has put out
  layer_id_,       \* layer_id_[k]: of its Terminal
  msgs_,           \* msgs_[k]: the messages waiting for it
  data_, closed_,  \* of the pipe that stage k reads
  layer_task_map,  \* the stage whose task gets the window's messages
  screen,          \* what the line has shown (history)
  quit             \* has the user stopped a command? (history)

program == <<commands, out, input, shown>>
pipes == <<data_, closed_>>
vars == <<pc, program, layer_id_, msgs_, pipes, layer_task_map, screen, quit>>

Data(bytes) == [type |-> "pipe", data |-> bytes]
EndOfData == Data(<<>>)
Key == [type |-> "key", data |-> <<>>]
Close == [type |-> "close", data |-> <<>>]

HasPipe(k) == Len(commands[k]) > 1
Live(k) == pc[k] \notin {"none", "finished", "closed"}
Least(m, n) == IF m < n THEN m ELSE n
First(s, n) == SubSeq(s, 1, Least(n, Len(s)))
Behind(s, n) == SubSeq(s, n + 1, Len(s))

\* Task::SendMessage (TaskManager shows that it wakes the receiver).
Send(k, m) == msgs_' = [msgs_ EXCEPT ![k] = IF Live(k) THEN Append(@, m) ELSE @]

Init ==
  /\ pc = [k \in Stage |-> IF k = 1 THEN "loop" ELSE "none"]
  /\ commands = [k \in Stage |-> <<>>]
  /\ out = [k \in Stage |-> <<>>]
  /\ input = [k \in Stage |-> <<>>]
  /\ shown = [k \in Stage |-> 0]
  /\ layer_id_ = [k \in Stage |-> Window]
  /\ msgs_ = [k \in Stage |-> <<>>]
  /\ data_ = [k \in Stage |-> <<>>]
  /\ closed_ = [k \in Stage |-> FALSE]
  /\ layer_task_map = 1
  /\ screen = <<>>
  /\ quit = FALSE

-----------------------------------------------------------------------------
(* The event loop of the terminal, and ExecuteLine.                        *)

\* A key that changes the line only, or the one that ends it.
ReceiveKey ==
  /\ pc[1] = "loop"
  /\ msgs_[1] # <<>> /\ Head(msgs_[1]) = Key
  /\ msgs_' = [msgs_ EXCEPT ![1] = Tail(@)]
  /\ \/ UNCHANGED <<pc, commands, screen, quit>>
     \/ \E line \in Lines :
          /\ commands' = [commands EXCEPT ![1] = line]
          /\ pc' = [pc EXCEPT ![1] = "parse"]
          /\ screen' = <<>> /\ quit' = FALSE
  /\ UNCHANGED <<out, input, shown, layer_id_, pipes, layer_task_map>>

\* CloseLayer, then Finish.
ReceiveClose ==
  /\ pc[1] = "loop"
  /\ msgs_[1] # <<>> /\ Head(msgs_[1]) = Close
  /\ pc' = [pc EXCEPT ![1] = "closed"]
  /\ msgs_' = [msgs_ EXCEPT ![1] = <<>>]
  /\ layer_task_map' = NoTask
  /\ UNCHANGED <<program, layer_id_, pipes, screen, quit>>

\* Where a command is that has written everything it had to.
AfterWrite(k) ==
  IF Head(commands[k]) = "cat" THEN "read"
  ELSE IF HasPipe(k) THEN "finish"
  ELSE IF k > 1 THEN "exit" ELSE "loop"

\* The command of stage k begins.
Begin(k) ==
  LET c == Head(commands[k]) IN
  /\ pc' = [pc EXCEPT ![k] = IF c \notin Source THEN "read"
                             ELSE IF Output[c] = <<>> THEN AfterWrite(k) ELSE "write"]
  /\ out' = [out EXCEPT ![k] = IF c \in Source THEN Output[c] ELSE <<>>]
  /\ input' = [input EXCEPT ![k] = <<>>]
  /\ shown' = [shown EXCEPT ![k] = 0]

ExecuteLine(k) ==
  /\ pc[k] = "parse"
  /\ ~HasPipe(k)
  /\ Begin(k)
  /\ UNCHANGED <<commands, layer_id_, msgs_, pipes, layer_task_map, screen, quit>>

\* With a pipe, the task that reads it is started; it has no window, so the
\* layer_id_ of its Terminal is never set.
StartSubtask(k) ==
  /\ pc[k] = "parse"
  /\ HasPipe(k)
  /\ pc' = [pc EXCEPT ![k] = "map", ![k + 1] = "parse"]
  /\ commands' = [commands EXCEPT ![k + 1] = Tail(commands[k])]
  /\ \E id \in {Window, Elsewhere} : layer_id_' = [layer_id_ EXCEPT ![k + 1] = id]
  /\ msgs_' = [msgs_ EXCEPT ![k + 1] = <<>>]
  /\ data_' = [data_ EXCEPT ![k + 1] = <<>>]
  /\ closed_' = [closed_ EXCEPT ![k + 1] = FALSE]
  /\ UNCHANGED <<out, input, shown, layer_task_map, screen, quit>>

\* (*layer_task_map)[layer_id_] = ...
MapTo(k, task) == IF layer_id_[k] = Window THEN task ELSE layer_task_map

\* ... and gets the keys, perhaps after it has begun to run.
MapSubtask(k) ==
  /\ pc[k] = "map"
  /\ layer_task_map' = MapTo(k, k + 1)
  /\ Begin(k)
  /\ UNCHANGED <<commands, layer_id_, msgs_, pipes, screen, quit>>

-----------------------------------------------------------------------------
(* Commands.                                                               *)

\* What PipeDescriptor::Write puts into one message.
Chunk(bytes) == First(bytes, kPipeData)

Remaining(k, writes) ==
  /\ out' = [out EXCEPT ![k] = writes]
  /\ pc' = [pc EXCEPT ![k] = IF writes = <<>> THEN AfterWrite(k) ELSE "write"]

\* One round of the loop of PipeDescriptor::Write.
WritePipe(k) ==
  LET bytes == Head(out[k])
      rest == Behind(bytes, Len(Chunk(bytes)))
  IN
  /\ pc[k] = "write"
  /\ HasPipe(k)
  /\ Send(k + 1, Data(Chunk(bytes)))
  /\ Remaining(k, IF rest = <<>> THEN Tail(out[k]) ELSE <<rest>> \o Tail(out[k]))
  /\ UNCHANGED <<commands, input, shown, layer_id_, pipes, layer_task_map, screen, quit>>

\* TerminalFileDescriptor::Write
WriteScreen(k) ==
  /\ pc[k] = "write"
  /\ ~HasPipe(k)
  /\ screen' = screen \o Head(out[k])
  /\ Remaining(k, Tail(out[k]))
  /\ UNCHANGED <<commands, input, shown, layer_id_, msgs_, pipes, layer_task_map, quit>>

\* How much a command asks Read for: ReadDelim one byte, stdio more than a
\* message holds.
Length(k) == IF Head(commands[k]) = "cat" THEN 1 ELSE kPipeData

\* A command returns when Read gives it nothing.
Returns(k) == IF HasPipe(k) THEN "finish" ELSE "exit"

\* cat has read bytes: a line is written when it is complete or the input ends,
\* and the end is when there is not even the beginning of one.
CatGot(k, bytes) ==
  LET line == input[k] \o bytes IN
  IF bytes = <<>> /\ line = <<>>
  THEN pc' = [pc EXCEPT ![k] = Returns(k)] /\ UNCHANGED <<out, input>>
  ELSE IF bytes = <<>> \/ line[Len(line)] = Newline
  THEN /\ pc' = [pc EXCEPT ![k] = "write"]
       /\ out' = [out EXCEPT ![k] = <<line>>]
       /\ input' = [input EXCEPT ![k] = <<>>]
  ELSE input' = [input EXCEPT ![k] = line] /\ UNCHANGED <<pc, out>>

\* more reads all of its input first.
MoreGot(k, bytes) ==
  /\ pc' = [pc EXCEPT ![k] = IF bytes = <<>> THEN "page" ELSE "read"]
  /\ input' = [input EXCEPT ![k] = @ \o bytes]
  /\ UNCHANGED out

Got(k, bytes) == IF Head(commands[k]) = "cat" THEN CatGot(k, bytes) ELSE MoreGot(k, bytes)

\* PipeDescriptor::Read: first what is left of the last message,
ReadRest(k) ==
  /\ pc[k] = "read"
  /\ data_[k] # <<>>
  /\ data_' = [data_ EXCEPT ![k] = Behind(@, Least(Length(k), Len(@)))]
  /\ Got(k, First(data_[k], Length(k)))
  /\ UNCHANGED <<commands, shown, layer_id_, msgs_, closed_, layer_task_map, screen, quit>>

\* then, once the end has been seen, nothing,
ReadEnd(k) ==
  /\ pc[k] = "read"
  /\ data_[k] = <<>>
  /\ closed_[k]
  /\ Got(k, <<>>)
  /\ UNCHANGED <<commands, shown, layer_id_, msgs_, pipes, layer_task_map, screen, quit>>

IsDataAny(m) == TRUE
IsData(m) == m.type = "pipe"
RestKept(bytes, k) == bytes
Rest(bytes, k) == Behind(bytes, Least(Length(k), Len(bytes)))
ClosedForgotten(bytes) == FALSE
Closed(bytes) == bytes = <<>>

\* otherwise the next message; what is no data is lost.
ReadMessage(k) ==
  LET m == Head(msgs_[k]) IN
  /\ pc[k] = "read"
  /\ data_[k] = <<>> /\ ~closed_[k]
  /\ msgs_[k] # <<>>
  /\ msgs_' = [msgs_ EXCEPT ![k] = Tail(@)]
  /\ \/ /\ ~IsData(m)
        /\ UNCHANGED <<pc, out, input, pipes>>
     \/ /\ IsData(m)
        /\ closed_' = [closed_ EXCEPT ![k] = Closed(m.data)]
        /\ data_' = [data_ EXCEPT ![k] = Rest(m.data, k)]
        /\ Got(k, First(m.data, Length(k)))
  /\ UNCHANGED <<commands, shown, layer_id_, layer_task_map, screen, quit>>

\* Where the next page of a text ends, after the first `from` bytes.
LineEnds(text) == {i \in 1 .. Len(text) : text[i] = Newline \/ i = Len(text)}
PageEnd(text, from) ==
  LET pages == {i \in LineEnds(text) :
                  Cardinality({j \in LineEnds(text) : from < j /\ j <= i}) = kPageSize}
  IN IF pages = {} THEN Len(text) ELSE CHOOSE i \in pages : TRUE

\* exit: what was put out is in stdio's buffer until now.
MoreExits(k, bytes) ==
  /\ out' = [out EXCEPT ![k] = IF bytes = <<>> THEN <<>> ELSE <<bytes>>]
  /\ pc' = [pc EXCEPT ![k] = IF bytes = <<>> THEN Returns(k) ELSE "write"]

\* more puts out a page; if lines are left it asks (on stderr, the terminal).
ShowPage(k) ==
  LET end == PageEnd(input[k], shown[k]) IN
  /\ pc[k] = "page"
  /\ shown' = [shown EXCEPT ![k] = end]
  /\ IF end = Len(input[k]) THEN MoreExits(k, input[k])
     ELSE pc' = [pc EXCEPT ![k] = "key"] /\ UNCHANGED out
  /\ UNCHANGED <<commands, input, layer_id_, msgs_, pipes, layer_task_map, screen, quit>>

\* WaitKey, over ReadEvent: any key, or the end when the window is to be closed.
WaitKey(k) ==
  LET m == Head(msgs_[k]) IN
  /\ pc[k] = "key"
  /\ msgs_[k] # <<>>
  /\ msgs_' = [msgs_ EXCEPT ![k] = Tail(@)]
  /\ CASE m = Key -> pc' = [pc EXCEPT ![k] = "page"] /\ UNCHANGED <<out, quit>>
       [] m = Close -> MoreExits(k, First(input[k], shown[k])) /\ quit' = TRUE
       [] OTHER -> UNCHANGED <<pc, out, quit>>
  /\ UNCHANGED <<commands, input, shown, layer_id_, pipes, layer_task_map, screen>>

-----------------------------------------------------------------------------
(* The end of a line.                                                      *)

FinishWrite(k) ==
  /\ pc[k] = "finish"
  /\ Send(k + 1, EndOfData)
  /\ pc' = [pc EXCEPT ![k] = "wait"]
  /\ UNCHANGED <<program, layer_id_, pipes, layer_task_map, screen, quit>>

\* WaitFinish returns, and the keys go to this task again.
WaitFinish(k) ==
  /\ pc[k] = "wait"
  /\ pc[k + 1] = "finished"
  /\ pc' = [pc EXCEPT ![k] = IF k = 1 THEN "loop" ELSE "exit", ![k + 1] = "none"]
  /\ layer_task_map' = MapTo(k, k)
  /\ UNCHANGED <<program, layer_id_, msgs_, pipes, screen, quit>>

\* A task started for one command ends, with the messages it has not read.
Finish(k) ==
  /\ pc[k] = "exit"
  /\ pc' = [pc EXCEPT ![k] = "finished"]
  /\ msgs_' = [msgs_ EXCEPT ![k] = <<>>]
  /\ UNCHANGED <<program, layer_id_, pipes, layer_task_map, screen, quit>>

-----------------------------------------------------------------------------
(* The user: the main task sends a key to the task of the active window, and *)
(* so does the mouse driver when the close button is clicked.                *)

NotData(m) == m.type # "pipe"

SendToWindow(m) ==
  LET k == layer_task_map IN
  /\ k # NoTask
  /\ Live(k)
  /\ Len(SelectSeq(msgs_[k], NotData)) < MaxKeys
  /\ Send(k, m)
  /\ UNCHANGED <<pc, program, layer_id_, pipes, layer_task_map, screen, quit>>

PressKey == SendToWindow(Key)
ClickClose == SendToWindow(Close)

Task(k) ==
  \/ k = 1 /\ (ReceiveKey \/ ReceiveClose)
  \/ ExecuteLine(k) \/ StartSubtask(k) \/ MapSubtask(k)
  \/ WritePipe(k) \/ WriteScreen(k)
  \/ ReadRest(k) \/ ReadEnd(k) \/ ReadMessage(k)
  \/ ShowPage(k) \/ WaitKey(k)
  \/ FinishWrite(k) \/ WaitFinish(k) \/ Finish(k)

Next == (\E k \in Stage : Task(k)) \/ PressKey \/ ClickClose

Spec == Init /\ [][Next]_vars

\* Round robin serves every ready task, and the user does not leave `more`
\* waiting for ever.
FairSpec == Spec /\ (\A k \in Stage : WF_vars(Task(k))) /\ WF_vars(PressKey)

-----------------------------------------------------------------------------
(* Properties.                                                             *)

\* Types of every variable; what Read keeps for later fits behind the bytes it
\* has returned, and a message holds no more than its array.
TypeOK ==
  /\ pc \in [Stage -> {"none", "loop", "parse", "map", "read", "write", "page", "key",
                       "finish", "wait", "exit", "finished", "closed"}]
  /\ commands \in [Stage -> Seq(Command)]
  /\ out \in [Stage -> Seq(Seq(Byte))]
  /\ input \in [Stage -> Seq(Byte)]
  /\ shown \in [Stage -> Nat]
  /\ layer_id_ \in [Stage -> {Window, Elsewhere}]
  /\ \A k \in Stage : \A i \in 1 .. Len(msgs_[k]) :
       /\ msgs_[k][i].type \in {"pipe", "key", "close"}
       /\ msgs_[k][i].data \in Seq(Byte) /\ Len(msgs_[k][i].data) <= kPipeData
  /\ \A k \in Stage : data_[k] \in Seq(Byte) /\ Len(data_[k]) < kPipeData
  /\ closed_ \in [Stage -> BOOLEAN]
  /\ layer_task_map \in {NoTask} \cup Stage
  /\ screen \in Seq(Byte)
  /\ quit \in BOOLEAN

\* PipeDescriptor keeps a reference to the task that reads: as long as the
\* writer may still send, that task has not finished.
PipeReaderAlive ==
  \A k \in Stage :
    pc[k] \in {"map", "read", "write", "page", "key", "finish"} /\ HasPipe(k)
      => pc[k + 1] \notin {"none", "finished"}

\* A command line that has been entered comes to its end: the prompt is back, and
\* with it the keys.
PromptReturns == pc[1] \notin {"loop", "closed"} ~> pc[1] = "loop" /\ layer_task_map = 1

\* To the user, tasks, pipes and messages are the shell that Shell describes.
TextOf(c) == SE!FlattenSeq(Output[c])

Terminal == INSTANCE Shell WITH
  Text <- {TextOf(c) : c \in Source},
  NoText <- <<>>,
  state <- CASE pc[1] = "loop" -> "prompt" [] pc[1] = "closed" -> "closed" [] OTHER -> "busy",
  text <- IF commands[1] = <<>> THEN <<>> ELSE TextOf(Head(commands[1]))
ImplementsShell == Terminal!Spec
=============================================================================
