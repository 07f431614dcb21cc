------------------------------- MODULE Files -------------------------------
(***************************************************************************)
(* What the files promise their users (kernel/file.hpp and the system      *)
(* calls OpenFile, ReadFile, PutString and MapFile): a file is a sequence  *)
(* of bytes, known by its path whatever the case of its letters.  A        *)
(* descriptor reads on from where it stopped; what it writes follows what  *)
(* it wrote before, and the file ends there.  Fat implements it.           *)
(***************************************************************************)
EXTENDS Integers, Sequences

CONSTANTS
  Task, NoFile, Closed,
  Initial,   \* the bytes of each file at first, or NoFile
  Data,      \* what may be written
  Lengths    \* how much may be read

VARIABLES
  text,   \* the bytes of each file, or NoFile
  open,   \* each task's descriptor: [file, rd, wr], or Closed
  got     \* what the last call that read returned

fvars == <<text, open, got>>

Descriptor(f) == [file |-> f, rd |-> 0, wr |-> 0]

Open(t, f) ==
  /\ open[t] = Closed
  /\ text' = [text EXCEPT ![f] = IF @ = NoFile THEN <<>> ELSE @]
  /\ open' = [open EXCEPT ![t] = Descriptor(f)]
  /\ UNCHANGED got

\* What is written replaces the rest of the file.
Write(t, data) ==
  /\ open[t] # Closed /\ open[t].wr <= Len(text[open[t].file])
  /\ text' = [text EXCEPT ![open[t].file] = SubSeq(@, 1, open[t].wr) \o data]
  /\ open' = [open EXCEPT ![t].wr = @ + Len(data)]
  /\ UNCHANGED got

AtMost(n, limit) == IF n < limit THEN n ELSE limit
Piece(f, from, n) == SubSeq(text[f], from + 1, from + AtMost(n, Len(text[f]) - from))

Read(t, n) ==
  /\ open[t] # Closed /\ open[t].rd <= Len(text[open[t].file])
  /\ got' = Piece(open[t].file, open[t].rd, n)
  /\ open' = [open EXCEPT ![t].rd = @ + Len(got')]
  /\ UNCHANGED text

\* Load reads from anywhere and moves no offset.
Load(t, n) ==
  /\ open[t] # Closed
  /\ \E from \in 0 .. Len(text[open[t].file]) :
       got' = Piece(open[t].file, from, n)
  /\ UNCHANGED <<text, open>>

Close(t) ==
  /\ open[t] # Closed
  /\ open' = [open EXCEPT ![t] = Closed]
  /\ UNCHANGED <<text, got>>

FInit ==
  /\ text = Initial
  /\ open = [t \in Task |-> Closed]
  /\ got = <<>>
FNext == \E t \in Task :
  \/ \E f \in DOMAIN Initial : Open(t, f)
  \/ \E data \in Data : Write(t, data)
  \/ \E n \in Lengths : Read(t, n) \/ Load(t, n)
  \/ Close(t)
FSpec == FInit /\ [][FNext]_fvars
=============================================================================
