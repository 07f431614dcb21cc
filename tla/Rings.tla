------------------------------- MODULE Rings -------------------------------
(***************************************************************************)
(* The rings of the xHCI driver (usb/xhci/ring.cpp): arrays of TRBs in     *)
(* which a cycle bit tells the consumer which TRBs are its own.            *)
(*                                                                         *)
(* A ring is the record of its memory and of both ends, the producer's     *)
(* index and cycle state and the consumer's.  On a command ring the driver *)
(* produces and never learns where the controller is; on an event ring the *)
(* driver consumes.  A TRB that nobody will read again is forgotten (None),*)
(* its cycle bit stays.                                                    *)
(***************************************************************************)
EXTENDS Integers, Sequences

None == [type |-> "none"]
Link == [type |-> "link"]  \* to the start, with toggle_cycle

\* Ring::Initialize, EventRing::Initialize: memory of zeroes, cycle state 1.
NewRing(buf_size_) ==
  [buf_ |-> [i \in 0 .. buf_size_ - 1 |-> [cycle_bit |-> FALSE, trb |-> None]],
   write_index_ |-> 0, cycle_bit_ |-> TRUE,
   dequeue |-> 0, consumer_cycle |-> TRUE]

CopyToLast(r, trb) ==
  [r EXCEPT !.buf_[r.write_index_] = [cycle_bit |-> r.cycle_bit_, trb |-> trb]]

PushNoToggle(r, buf_size_, trb) ==
  LET pushed == [CopyToLast(r, trb) EXCEPT !.write_index_ = @ + 1] IN
  IF pushed.write_index_ # buf_size_ - 1 THEN pushed
  ELSE [CopyToLast(pushed, Link) EXCEPT !.write_index_ = 0]

\* Ring::Push; the last TRB of the memory is the link to the first.
Push(r, buf_size_, trb) ==
  LET pushed == [CopyToLast(r, trb) EXCEPT !.write_index_ = @ + 1] IN
  IF pushed.write_index_ # buf_size_ - 1 THEN pushed
  ELSE [CopyToLast(pushed, Link) EXCEPT !.write_index_ = 0, !.cycle_bit_ = ~@]

\* The controller as the producer of events: no link, the segment's size wraps.
Post(r, buf_size_, trb) ==
  LET last == r.write_index_ = buf_size_ - 1 IN
  [CopyToLast(r, trb) EXCEPT
     !.write_index_ = IF last THEN 0 ELSE @ + 1,
     !.cycle_bit_ = (@ # last)]

\* The controller leaves one entry of the event ring empty.
HasRoom(r, buf_size_) == (r.write_index_ + 1) % buf_size_ # r.dequeue

HasFront(r) == r.buf_[r.dequeue].cycle_bit = r.consumer_cycle
Front(r) == r.buf_[r.dequeue].trb
Forget(r, i) == [r EXCEPT !.buf_[i].trb = None]

\* The consumer goes on by one; entries is the number of TRBs before it starts
\* again from the first, with the cycle state flipped.
Advance(r, entries) ==
  LET last == r.dequeue + 1 = entries IN
  [r EXCEPT !.dequeue = IF last THEN 0 ELSE @ + 1,
            !.consumer_cycle = (@ # last)]

\* EventRing::Pop
Pop(r, buf_size_) == Advance(Forget(r, r.dequeue), buf_size_)

\* The controller executes the TRB in front and follows the link.
Fetch(r, buf_size_) == Advance(r, buf_size_ - 1)

\* What the consumer finds in a ring of so many entries if it reads on until a
\* cycle bit stops it.
Contents(r, entries) ==
  LET IsNext(k) ==
        r.buf_[(r.dequeue + k) % entries].cycle_bit
          = (r.consumer_cycle = (r.dequeue + k < entries))
      stop == {k \in 0 .. entries - 1 : ~IsNext(k)}
      length == IF stop = {} THEN entries ELSE CHOOSE k \in stop : \A m \in stop : k <= m
  IN [k \in 1 .. length |-> r.buf_[(r.dequeue + k - 1) % entries].trb]
=============================================================================
