----------------------------- MODULE XhciProofs -----------------------------
(***************************************************************************)
(* Proofs about Xhci, for any number of ports and slots, rings of any size *)
(* and any devices.                                                        *)
(***************************************************************************)
EXTENDS Xhci, WellFoundedInduction, FiniteSetTheorems, TLAPS

\* The place of index i, counted from where the consumer is, and back.
Off(r, E, i) == IF i >= r.dequeue THEN i - r.dequeue ELSE i - r.dequeue + E
Idx(r, E, k) == IF r.dequeue + k < E THEN r.dequeue + k ELSE r.dequeue + k - E

Bit(r, i) == r.buf_[i].cycle_bit
Own(r, i) == IF i >= r.dequeue THEN r.consumer_cycle ELSE ~r.consumer_cycle
Holds(r, E, n) ==
  /\ n \in 0 .. E /\ r.dequeue \in 0 .. E - 1
  /\ r.write_index_ = Idx(r, E, n)
  /\ r.cycle_bit_ <=> IF r.dequeue + n < E THEN r.consumer_cycle ELSE ~r.consumer_cycle
  /\ \A i \in 0 .. E - 1 : (Bit(r, i) <=> Own(r, i)) <=> Off(r, E, i) < n
Item(r, E, k) == r.buf_[Idx(r, E, k - 1)].trb

LEMMA Modulo ==
  ASSUME NEW P \in Nat \ {0}, NEW i \in Nat, i < 2 * P
  PROVE  i % P = IF i < P THEN i ELSE i - P
BY Z3

LEMMA ContentsAre ==
  ASSUME NEW B \in Nat, NEW T, NEW r \in RingOf(B, T), NEW E \in Nat \ {0}, E <= B, NEW n, Holds(r, E, n)
  PROVE  Contents(r, E) = [k \in 1 .. n |-> Item(r, E, k)]
<1> DEFINE IsNext(k) ==
        r.buf_[(r.dequeue + k) % E].cycle_bit
          = (r.consumer_cycle = (r.dequeue + k < E))
<1> DEFINE stop == {k \in 0 .. E - 1 : ~IsNext(k)}
<1> DEFINE length == IF stop = {} THEN E ELSE CHOOSE k \in stop : \A m \in stop : k <= m
<1>0. /\ r.dequeue \in 0 .. E - 1 /\ n \in 0 .. E /\ r.consumer_cycle \in BOOLEAN
      /\ \A i \in 0 .. E - 1 : Bit(r, i) \in BOOLEAN
  BY DEF Holds, RingOf, Bit
<1>1. \A k \in 0 .. E - 1 : (r.dequeue + k) % E = Idx(r, E, k)
  <2> TAKE k \in 0 .. E - 1
  <2> DEFINE at == r.dequeue + k
  <2>1. at \in Nat /\ at < 2 * E
    BY <1>0
  <2> HIDE DEF at
  <2>2. at % E = IF at < E THEN at ELSE at - E
    BY <2>1, Modulo
  <2>3. Idx(r, E, k) = IF at < E THEN at ELSE at - E
    BY <1>0 DEF Idx, at
  <2> DEFINE mod == at % E
  <2>4. mod = IF at < E THEN at ELSE at - E
    BY <2>2
  <2> HIDE DEF mod
  <2>5. mod = Idx(r, E, k)
    BY <2>3, <2>4
  <2> QED BY <2>5, Zenon DEF at, mod
<1>2. \A k \in 0 .. E - 1 : IsNext(k) <=> k < n
  <2> TAKE k \in 0 .. E - 1
  <2> DEFINE i == Idx(r, E, k)
  <2>1. i \in 0 .. E - 1 /\ Off(r, E, i) = k /\ (i >= r.dequeue <=> r.dequeue + k < E)
    BY <1>0 DEF Idx, Off
  <2>2. (Bit(r, i) <=> Own(r, i)) <=> k < n
    BY <2>1 DEF Holds
  <2>3. IsNext(k) = (Bit(r, i) = (r.consumer_cycle = (r.dequeue + k < E)))
    BY <1>1 DEF Bit
  <2> HIDE DEF IsNext, i
  <2>4. CASE r.dequeue + k < E
    <3>1. Own(r, i) = r.consumer_cycle
      BY <2>1, <2>4 DEF Own
    <3> QED BY <1>0, <2>1, <2>2, <2>3, <2>4, <3>1, Zenon
  <2>5. CASE ~(r.dequeue + k < E)
    <3>1. Own(r, i) = ~r.consumer_cycle
      BY <2>1, <2>5 DEF Own
    <3>2. Bit(r, i) \in BOOLEAN
      BY <1>0, <2>1
    <3>3. (r.consumer_cycle = (r.dequeue + k < E)) <=> ~r.consumer_cycle
      <4> DEFINE before == r.dequeue + k < E
      <4>1. ~before /\ r.consumer_cycle \in BOOLEAN /\ before \in BOOLEAN
        BY <1>0, <2>5
      <4> HIDE DEF before
      <4>2. (r.consumer_cycle = before) <=> ~r.consumer_cycle
        BY <4>1
      <4> QED BY <4>2 DEF before
    <3>4. IsNext(k) <=> (Bit(r, i) <=> ~r.consumer_cycle)
      BY <1>0, <2>3, <3>2, <3>3, Zenon
    <3> QED BY <2>2, <3>1, <3>4, Zenon
  <2> QED BY <2>4, <2>5
<1> HIDE DEF IsNext
<1>3. stop = n .. E - 1
  BY <1>0, <1>2
<1>4. length = n
  <2>1. CASE n = E
    BY <1>0, <1>3, <2>1
  <2>2. CASE n # E
    <3>1. n \in stop /\ \A m \in stop : n <= m
      BY <1>0, <1>3, <2>2
    <3>2. \A k \in stop : (\A m \in stop : k <= m) => k = n
      BY <1>0, <1>3, <3>1
    <3> HIDE DEF stop
    <3> QED BY <3>1, <3>2
  <2> QED BY <2>1, <2>2
<1>5. Contents(r, E) = [k \in 1 .. length |-> r.buf_[(r.dequeue + k - 1) % E].trb]
  BY DEF Contents, length, stop, IsNext
<1>6. \A k \in 1 .. n : (r.dequeue + k - 1) % E = Idx(r, E, k - 1)
  <2> TAKE k \in 1 .. n
  <2>1. k - 1 \in 0 .. E - 1 /\ r.dequeue + (k - 1) = r.dequeue + k - 1
    BY <1>0
  <2> QED BY <1>1, <2>1
<1> HIDE DEF length
<1> QED BY <1>4, <1>5, <1>6 DEF Item

\* One TRB is written behind those that are there.
Written(r, q, E, trb) ==
  /\ q.dequeue = r.dequeue /\ q.consumer_cycle = r.consumer_cycle
  /\ q.write_index_ = IF r.write_index_ = E - 1 THEN 0 ELSE r.write_index_ + 1
  /\ q.cycle_bit_ <=> IF r.write_index_ = E - 1 THEN ~r.cycle_bit_ ELSE r.cycle_bit_
  /\ q.buf_[r.write_index_].cycle_bit = r.cycle_bit_
  /\ q.buf_[r.write_index_].trb = trb
  /\ \A i \in 0 .. E - 1 : i # r.write_index_ => q.buf_[i] = r.buf_[i]

LEMMA WrittenHolds ==
  ASSUME NEW B \in Nat, NEW T, NEW r \in RingOf(B, T), NEW q \in RingOf(B, T),
         NEW E \in Nat \ {0, 1}, E <= B, NEW n, Holds(r, E, n), n < E,
         NEW trb, Written(r, q, E, trb)
  PROVE  Holds(q, E, n + 1)
<1>0. /\ r.dequeue \in 0 .. E - 1 /\ n \in 0 .. E - 1 /\ r.write_index_ \in 0 .. E - 1
      /\ r.write_index_ = Idx(r, E, n) /\ q.dequeue = r.dequeue
  BY DEF Holds, Idx, Written
<1>1. n + 1 \in 0 .. E /\ q.write_index_ = Idx(q, E, n + 1)
  BY <1>0 DEF Idx, Written
<1>2. /\ r.cycle_bit_ \in BOOLEAN /\ q.cycle_bit_ \in BOOLEAN /\ r.consumer_cycle \in BOOLEAN
      /\ q.consumer_cycle = r.consumer_cycle
  BY DEF RingOf, Written
<1>3. q.cycle_bit_ <=> IF q.dequeue + (n + 1) < E THEN q.consumer_cycle ELSE ~q.consumer_cycle
  <2>1. CASE r.write_index_ = E - 1
    <3>1. r.dequeue + n < E /\ ~(q.dequeue + (n + 1) < E)
      BY <1>0, <2>1 DEF Idx
    <3>2. q.cycle_bit_ <=> ~r.cycle_bit_
      BY <2>1 DEF Written
    <3>3. r.cycle_bit_ <=> r.consumer_cycle
      BY <3>1 DEF Holds
    <3> QED BY <1>2, <3>1, <3>2, <3>3
  <2>2. CASE r.write_index_ # E - 1
    <3>1. r.dequeue + n < E <=> q.dequeue + (n + 1) < E
      BY <1>0, <2>2 DEF Idx
    <3>2. q.cycle_bit_ <=> r.cycle_bit_
      BY <2>2 DEF Written
    <3>3. r.cycle_bit_ <=> IF r.dequeue + n < E THEN r.consumer_cycle ELSE ~r.consumer_cycle
      BY DEF Holds
    <3> QED BY <1>2, <3>1, <3>2, <3>3
  <2> QED BY <2>1, <2>2
<1>4. ASSUME NEW i \in 0 .. E - 1 PROVE (Bit(q, i) <=> Own(q, i)) <=> Off(q, E, i) < n + 1
  <2>1. Off(q, E, i) = Off(r, E, i) /\ Own(q, i) = Own(r, i)
    BY <1>0, <1>2 DEF Off, Own
  <2>2. CASE i = r.write_index_
    <3>1. Off(r, E, i) = n /\ (i >= r.dequeue <=> r.dequeue + n < E)
      BY <1>0, <2>2 DEF Off, Idx
    <3>2. Bit(q, i) <=> r.cycle_bit_
      BY <1>2, <2>2 DEF Bit, Written
    <3>3. r.cycle_bit_ <=> Own(r, i)
      BY <3>1 DEF Holds, Own
    <3> QED BY <1>0, <2>1, <3>1, <3>2, <3>3
  <2>3. CASE i # r.write_index_
    <3>1. Off(r, E, i) # n /\ Off(r, E, i) \in Int
      BY <1>0, <2>3 DEF Off, Idx
    <3>2. Bit(q, i) = Bit(r, i)
      BY <2>3 DEF Bit, Written
    <3>3. (Bit(r, i) <=> Own(r, i)) <=> Off(r, E, i) < n
      BY DEF Holds
    <3>4. Off(r, E, i) < n <=> Off(q, E, i) < n + 1
      BY <1>0, <2>1, <3>1
    <3>5. (Bit(q, i) <=> Own(q, i)) <=> (Bit(r, i) <=> Own(r, i))
      BY <2>1, <3>2
    <3> QED BY <3>3, <3>4, <3>5
  <2> QED BY <2>2, <2>3
<1> QED BY <1>0, <1>1, <1>3, <1>4 DEF Holds

LEMMA WrittenContents ==
  ASSUME NEW B \in Nat, NEW T, NEW r \in RingOf(B, T), NEW q \in RingOf(B, T),
         NEW E \in Nat \ {0, 1}, E <= B, NEW n, Holds(r, E, n), n < E,
         NEW trb, Written(r, q, E, trb)
  PROVE  Contents(q, E) = Append(Contents(r, E), trb)
<1>0. /\ r.dequeue \in 0 .. E - 1 /\ n \in 0 .. E - 1 /\ r.write_index_ \in 0 .. E - 1
      /\ r.write_index_ = Idx(r, E, n) /\ q.dequeue = r.dequeue
  BY DEF Holds, Idx, Written
<1>1. Contents(r, E) = [k \in 1 .. n |-> Item(r, E, k)]
  BY ContentsAre
<1>2. Contents(q, E) = [k \in 1 .. n + 1 |-> Item(q, E, k)]
  BY WrittenHolds, ContentsAre
<1>3. Item(q, E, n + 1) = trb
  <2> DEFINE m == n + 1
  <2>1. Idx(q, E, m - 1) = r.write_index_
    BY <1>0 DEF Idx
  <2> HIDE DEF m
  <2>2. Item(q, E, m) = q.buf_[r.write_index_].trb
    BY <2>1 DEF Item
  <2> QED BY <2>2 DEF Written, m
<1>4. \A k \in 1 .. n : Item(q, E, k) = Item(r, E, k)
  <2> TAKE k \in 1 .. n
  <2>1. /\ Idx(q, E, k - 1) = Idx(r, E, k - 1) /\ Idx(r, E, k - 1) \in 0 .. E - 1
        /\ Idx(r, E, k - 1) # r.write_index_
    BY <1>0 DEF Idx
  <2> QED BY <2>1 DEF Item, Written
<1> DEFINE F(k) == Item(r, E, k)
<1> DEFINE G(k) == Item(q, E, k)
<1>5. [k \in 1 .. n + 1 |-> G(k)] = Append([k \in 1 .. n |-> F(k)], trb)
  <2>1. G(n + 1) = trb /\ \A k \in 1 .. n : G(k) = F(k)
    BY <1>3, <1>4
  <2> HIDE DEF F, G
  <2> QED BY <1>0, <2>1
<1> QED BY <1>1, <1>2, <1>5

\* The producers: the controller on the event ring, the driver on the command ring.
Copied(r, q, B, T, trb) ==
  /\ q \in RingOf(B, T) /\ q.dequeue = r.dequeue /\ q.consumer_cycle = r.consumer_cycle
  /\ q.write_index_ = r.write_index_ /\ q.cycle_bit_ = r.cycle_bit_
  /\ q.buf_[r.write_index_] = [cycle_bit |-> r.cycle_bit_, trb |-> trb]
  /\ \A i \in 0 .. B - 1 : i # r.write_index_ => q.buf_[i] = r.buf_[i]
LEMMA CopiedRing ==
  ASSUME NEW B \in Nat, NEW T, NEW r \in RingOf(B, T), NEW trb \in T, B > 0
  PROVE  Copied(r, CopyToLast(r, trb), B, T, trb)
<1> DEFINE F == [0 .. B - 1 -> [cycle_bit : BOOLEAN, trb : T]]
<1> DEFINE I == 0 .. B - 1
<1> DEFINE new == [cycle_bit |-> r.cycle_bit_, trb |-> trb]
<1> DEFINE buf == [r.buf_ EXCEPT ![r.write_index_] = new]
<1>1. r \in [buf_ : F, write_index_ : I, cycle_bit_ : BOOLEAN, dequeue : I, consumer_cycle : BOOLEAN]
  BY DEF RingOf
<1>2. new \in [cycle_bit : BOOLEAN, trb : T]
  BY <1>1
<1>3. /\ buf \in F /\ buf[r.write_index_] = new
      /\ \A i \in 0 .. B - 1 : i # r.write_index_ => buf[i] = r.buf_[i]
  <2> HIDE DEF new
  <2> QED BY <1>1, <1>2
<1>4. CopyToLast(r, trb) = [r EXCEPT !.buf_ = buf]
  BY DEF CopyToLast
<1> DEFINE q == CopyToLast(r, trb)
<1> HIDE DEF F, I, buf, q
<1>5. /\ q \in [buf_ : F, write_index_ : I, cycle_bit_ : BOOLEAN, dequeue : I, consumer_cycle : BOOLEAN]
      /\ q.dequeue = r.dequeue /\ q.consumer_cycle = r.consumer_cycle
      /\ q.write_index_ = r.write_index_ /\ q.cycle_bit_ = r.cycle_bit_ /\ q.buf_ = buf
  <2>1. q = [r EXCEPT !.buf_ = buf]
    BY <1>4 DEF q
  <2> QED BY <1>1, <1>3, <2>1
<1> QED BY <1>3, <1>5 DEF RingOf, F, I, q, Copied

MovedTo(r, i, c) == [r EXCEPT !.write_index_ = i, !.cycle_bit_ = c]
LEMMA MovedRing ==
  ASSUME NEW B \in Nat, NEW T, NEW r \in RingOf(B, T), NEW i \in 0 .. B - 1, NEW c \in BOOLEAN
  PROVE  /\ MovedTo(r, i, c) \in RingOf(B, T) /\ MovedTo(r, i, c).buf_ = r.buf_
         /\ MovedTo(r, i, c).dequeue = r.dequeue
         /\ MovedTo(r, i, c).consumer_cycle = r.consumer_cycle
         /\ MovedTo(r, i, c).write_index_ = i /\ MovedTo(r, i, c).cycle_bit_ = c
<1> DEFINE q == MovedTo(r, i, c)
<1> DEFINE F == [0 .. B - 1 -> [cycle_bit : BOOLEAN, trb : T]]
<1> DEFINE I == 0 .. B - 1
<1>1. /\ r \in [buf_ : F, write_index_ : I, cycle_bit_ : BOOLEAN, dequeue : I, consumer_cycle : BOOLEAN]
      /\ i \in I
  BY DEF RingOf
<1>0. q = [r EXCEPT !.write_index_ = i, !.cycle_bit_ = c]
  BY DEF MovedTo
<1> HIDE DEF F, I, q
<1>2. /\ q \in [buf_ : F, write_index_ : I, cycle_bit_ : BOOLEAN, dequeue : I, consumer_cycle : BOOLEAN]
      /\ q.buf_ = r.buf_ /\ q.dequeue = r.dequeue /\ q.consumer_cycle = r.consumer_cycle
      /\ q.write_index_ = i /\ q.cycle_bit_ = c
  BY <1>0, <1>1
<1> QED BY <1>2 DEF RingOf, F, I, q

LEMMA Posted ==
  ASSUME NEW E \in Nat \ {0, 1}, NEW T, NEW r \in RingOf(E, T), NEW trb \in T
  PROVE  Post(r, E, trb) \in RingOf(E, T) /\ Written(r, Post(r, E, trb), E, trb)
<1> DEFINE p == CopyToLast(r, trb)
<1> DEFINE last == r.write_index_ = E - 1
<1> DEFINE i == IF last THEN 0 ELSE p.write_index_ + 1
<1> DEFINE c == p.cycle_bit_ # last
<1> DEFINE q == Post(r, E, trb)
<1>1. q = MovedTo(p, i, c)
  BY DEF Post, MovedTo
<1>2. /\ p \in RingOf(E, T) /\ p.dequeue = r.dequeue /\ p.consumer_cycle = r.consumer_cycle
      /\ p.write_index_ = r.write_index_ /\ p.cycle_bit_ = r.cycle_bit_
      /\ p.buf_[r.write_index_] = [cycle_bit |-> r.cycle_bit_, trb |-> trb]
      /\ \A k \in 0 .. E - 1 : k # r.write_index_ => p.buf_[k] = r.buf_[k]
  BY CopiedRing DEF Copied
<1> HIDE DEF p
<1>3. r.write_index_ \in 0 .. E - 1 /\ r.cycle_bit_ \in BOOLEAN
  BY DEF RingOf
<1>4. i \in 0 .. E - 1 /\ c \in BOOLEAN /\ i = IF last THEN 0 ELSE r.write_index_ + 1
  BY <1>2, <1>3
<1>5. c <=> IF last THEN ~r.cycle_bit_ ELSE r.cycle_bit_
  <2>1. last \in BOOLEAN
    OBVIOUS
  <2> HIDE DEF last
  <2> QED BY <1>2, <1>3, <2>1
<1> HIDE DEF i, c, q
<1>6. /\ q \in RingOf(E, T) /\ q.buf_ = p.buf_
      /\ q.dequeue = p.dequeue /\ q.consumer_cycle = p.consumer_cycle
      /\ q.write_index_ = i /\ q.cycle_bit_ = c
  BY <1>1, <1>2, <1>4, MovedRing
<1>7. Written(r, q, E, trb)
  BY <1>2, <1>4, <1>5, <1>6 DEF Written
<1> QED BY <1>6, <1>7 DEF q

LEMMA Pushed ==
  ASSUME NEW B \in Nat, B >= 3, NEW T, Link \in T, NEW r \in RingOf(B, T), NEW trb \in T,
         r.write_index_ < B - 1
  PROVE  Push(r, B, trb) \in RingOf(B, T) /\ Written(r, Push(r, B, trb), B - 1, trb)
<1> DEFINE p == CopyToLast(r, trb)
<1> DEFINE w == r.write_index_ + 1
<1> DEFINE m == MovedTo(p, w, r.cycle_bit_)
<1> DEFINE l == CopyToLast(m, Link)
<1> DEFINE q == Push(r, B, trb)
<1>1. r.write_index_ \in 0 .. B - 1 /\ r.cycle_bit_ \in BOOLEAN /\ w \in 0 .. B - 1
  BY DEF RingOf
<1>2. /\ p \in RingOf(B, T) /\ p.dequeue = r.dequeue /\ p.consumer_cycle = r.consumer_cycle
      /\ p.write_index_ = r.write_index_ /\ p.cycle_bit_ = r.cycle_bit_
      /\ p.buf_[r.write_index_] = [cycle_bit |-> r.cycle_bit_, trb |-> trb]
      /\ \A k \in 0 .. B - 1 : k # r.write_index_ => p.buf_[k] = r.buf_[k]
  BY CopiedRing DEF Copied
<1> DEFINE pushed == [p EXCEPT !.write_index_ = @ + 1]
<1>3. m = pushed
  <2> DEFINE F == [0 .. B - 1 -> [cycle_bit : BOOLEAN, trb : T]]
  <2> DEFINE I == 0 .. B - 1
  <2>1. /\ p \in [buf_ : F, write_index_ : I, cycle_bit_ : BOOLEAN, dequeue : I, consumer_cycle : BOOLEAN]
    BY <1>2 DEF RingOf
  <2> HIDE DEF F, I, p
  <2>2. [p EXCEPT !.write_index_ = w] = [p EXCEPT !.write_index_ = w, !.cycle_bit_ = p.cycle_bit_]
    BY <2>1
  <2> QED BY <1>2, <2>2 DEF MovedTo
<1>4. q = IF pushed.write_index_ # B - 1 THEN pushed
          ELSE [CopyToLast(pushed, Link) EXCEPT !.write_index_ = 0, !.cycle_bit_ = ~@]
  BY DEF Push
<1>5. q = IF m.write_index_ # B - 1 THEN m ELSE MovedTo(l, 0, ~l.cycle_bit_)
  BY <1>3, <1>4 DEF MovedTo
<1> HIDE DEF p, m, l, q, pushed
<1>6. /\ m \in RingOf(B, T) /\ m.buf_ = p.buf_ /\ m.dequeue = p.dequeue
      /\ m.consumer_cycle = p.consumer_cycle /\ m.write_index_ = w /\ m.cycle_bit_ = r.cycle_bit_
  BY <1>1, <1>2, MovedRing DEF m
<1> DEFINE E == B - 1
<1>a. /\ p.buf_[r.write_index_].cycle_bit = r.cycle_bit_ /\ p.buf_[r.write_index_].trb = trb
      /\ \A i \in 0 .. E - 1 : i # r.write_index_ => p.buf_[i] = r.buf_[i]
      /\ r.write_index_ \in 0 .. E - 1
  BY <1>1, <1>2
<1>7. ASSUME w # B - 1 PROVE q \in RingOf(B, T) /\ Written(r, q, E, trb)
  <2>1. q = m /\ r.write_index_ # E - 1
    BY <1>1, <1>5, <1>6, <1>7
  <2> HIDE DEF E, w
  <2>2. w = r.write_index_ + 1
    BY DEF w
  <2>3. /\ q.dequeue = r.dequeue /\ q.consumer_cycle = r.consumer_cycle
        /\ q.write_index_ = r.write_index_ + 1 /\ q.buf_ = p.buf_
    BY <1>2, <1>6, <2>1, <2>2
  <2>4. q.cycle_bit_ = r.cycle_bit_
    BY <1>6, <2>1
  <2>5. q.cycle_bit_ <=> IF r.write_index_ = E - 1 THEN ~r.cycle_bit_ ELSE r.cycle_bit_
    BY <1>1, <2>1, <2>4
  <2>6. q.buf_[r.write_index_].cycle_bit = r.cycle_bit_ /\ q.buf_[r.write_index_].trb = trb
    BY <1>a, <2>3
  <2>7. \A i \in 0 .. E - 1 : i # r.write_index_ => q.buf_[i] = r.buf_[i]
    BY <1>a, <2>3
  <2> QED BY <1>6, <2>1, <2>3, <2>5, <2>6, <2>7 DEF Written
<1>8. ASSUME w = B - 1 PROVE q \in RingOf(B, T) /\ Written(r, q, E, trb)
  <2>1. q = MovedTo(l, 0, ~l.cycle_bit_)
    BY <1>5, <1>6, <1>8
  <2>2. /\ l \in RingOf(B, T) /\ l.dequeue = m.dequeue /\ l.consumer_cycle = m.consumer_cycle
        /\ l.write_index_ = m.write_index_ /\ l.cycle_bit_ = m.cycle_bit_
        /\ \A k \in 0 .. B - 1 : k # m.write_index_ => l.buf_[k] = m.buf_[k]
    <3>1. l = CopyToLast(m, Link)
      BY DEF l
    <3>2. B > 0 /\ m \in RingOf(B, T) /\ Link \in T
      BY <1>6
    <3>3. Copied(m, l, B, T, Link)
      BY <3>1, <3>2, CopiedRing
    <3> QED BY <3>3 DEF Copied
  <2> DEFINE c == ~l.cycle_bit_
  <2>3. c \in BOOLEAN /\ 0 \in 0 .. B - 1
    OBVIOUS
  <2> HIDE DEF c
  <2>4. /\ q \in RingOf(B, T) /\ q.buf_ = l.buf_ /\ q.dequeue = l.dequeue
        /\ q.consumer_cycle = l.consumer_cycle /\ q.write_index_ = 0 /\ q.cycle_bit_ = c
    <3>1. q = MovedTo(l, 0, c)
      BY <2>1 DEF c
    <3> QED BY <2>2, <2>3, <3>1, MovedRing
  <2>5. q.cycle_bit_ <=> ~r.cycle_bit_
    BY <1>1, <1>6, <2>2, <2>4 DEF c
  <2>6. \A k \in 0 .. B - 2 : q.buf_[k] = p.buf_[k]
    BY <1>1, <1>6, <1>8, <2>2, <2>4
  <2>7. r.write_index_ = E - 1 /\ \A k \in 0 .. E - 1 : k \in 0 .. B - 2
    BY <1>1, <1>8
  <2>8. q.dequeue = r.dequeue /\ q.consumer_cycle = r.consumer_cycle
    BY <1>2, <1>6, <2>2, <2>4
  <2> HIDE DEF E, w
  <2>9. q.buf_[r.write_index_].cycle_bit = r.cycle_bit_ /\ q.buf_[r.write_index_].trb = trb
    BY <1>a, <2>6, <2>7
  <2>10. \A i \in 0 .. E - 1 : i # r.write_index_ => q.buf_[i] = r.buf_[i]
    BY <1>a, <2>6, <2>7
  <2> QED BY <2>4, <2>5, <2>7, <2>8, <2>9, <2>10 DEF Written
<1> QED BY <1>7, <1>8 DEF q, E

\* One TRB is read; a consumer may forget it.
Taken(r, q, E) ==
  /\ q.write_index_ = r.write_index_ /\ q.cycle_bit_ = r.cycle_bit_
  /\ q.dequeue = IF r.dequeue + 1 = E THEN 0 ELSE r.dequeue + 1
  /\ q.consumer_cycle <=> IF r.dequeue + 1 = E THEN ~r.consumer_cycle ELSE r.consumer_cycle
  /\ \A i \in 0 .. E - 1 : /\ q.buf_[i].cycle_bit = r.buf_[i].cycle_bit
                           /\ i # r.dequeue => q.buf_[i] = r.buf_[i]

LEMMA TakenHolds ==
  ASSUME NEW B \in Nat, NEW T, NEW r \in RingOf(B, T), NEW q \in RingOf(B, T),
         NEW E \in Nat \ {0, 1}, E <= B, NEW n, Holds(r, E, n), n # 0, Taken(r, q, E)
  PROVE  Holds(q, E, n - 1)
<1>0. /\ r.dequeue \in 0 .. E - 1 /\ n \in 1 .. E
      /\ r.write_index_ = Idx(r, E, n)
      /\ q.dequeue = IF r.dequeue + 1 = E THEN 0 ELSE r.dequeue + 1
  BY DEF Holds, Idx, Taken
<1>1. /\ n - 1 \in 0 .. E /\ q.dequeue \in 0 .. E - 1 /\ q.write_index_ = Idx(q, E, n - 1)
  BY <1>0 DEF Idx, Taken
<1>2. /\ r.cycle_bit_ \in BOOLEAN /\ q.cycle_bit_ = r.cycle_bit_
      /\ r.consumer_cycle \in BOOLEAN /\ q.consumer_cycle \in BOOLEAN
  BY DEF RingOf, Taken
<1>3. q.cycle_bit_ <=> IF q.dequeue + (n - 1) < E THEN q.consumer_cycle ELSE ~q.consumer_cycle
  <2>1. r.cycle_bit_ <=> IF r.dequeue + n < E THEN r.consumer_cycle ELSE ~r.consumer_cycle
    BY DEF Holds
  <2>2. CASE r.dequeue + 1 = E
    <3>1. ~(r.dequeue + n < E) /\ q.dequeue + (n - 1) < E
      BY <1>0, <2>2
    <3>2. q.consumer_cycle <=> ~r.consumer_cycle
      BY <2>2 DEF Taken
    <3> QED BY <1>2, <2>1, <3>1, <3>2
  <2>3. CASE r.dequeue + 1 # E
    <3>1. r.dequeue + n < E <=> q.dequeue + (n - 1) < E
      BY <1>0, <2>3
    <3>2. q.consumer_cycle <=> r.consumer_cycle
      BY <2>3 DEF Taken
    <3> QED BY <1>2, <2>1, <3>1, <3>2
  <2> QED BY <2>2, <2>3
<1>4. ASSUME NEW i \in 0 .. E - 1 PROVE (Bit(q, i) <=> Own(q, i)) <=> Off(q, E, i) < n - 1
  <2>1. (Bit(r, i) <=> Own(r, i)) <=> Off(r, E, i) < n
    BY DEF Holds
  <2>2. Bit(q, i) = Bit(r, i)
    BY DEF Bit, Taken
  <2>3. CASE i = r.dequeue
    <3>1. Off(r, E, i) = 0 /\ Off(q, E, i) = E - 1
      BY <1>0, <2>3 DEF Off
    <3>2. Own(q, i) <=> ~Own(r, i)
      BY <1>0, <1>2, <2>3 DEF Own, Taken
    <3> QED BY <1>0, <2>1, <2>2, <3>1, <3>2
  <2>4. CASE i # r.dequeue
    <3>1. Off(q, E, i) = Off(r, E, i) - 1 /\ Off(r, E, i) \in Int
      BY <1>0, <2>4 DEF Off
    <3>2. Own(q, i) <=> Own(r, i)
      BY <1>0, <1>2, <2>4 DEF Own, Taken
    <3>3. Off(q, E, i) < n - 1 <=> Off(r, E, i) < n
      BY <1>0, <3>1
    <3> QED BY <2>1, <2>2, <3>2, <3>3
  <2> QED BY <2>3, <2>4
<1> QED BY <1>1, <1>3, <1>4 DEF Holds

LEMMA TakenContents ==
  ASSUME NEW B \in Nat, NEW T, NEW r \in RingOf(B, T), NEW q \in RingOf(B, T),
         NEW E \in Nat \ {0, 1}, E <= B, NEW n, Holds(r, E, n), n # 0, Taken(r, q, E)
  PROVE  Contents(q, E) = Tail(Contents(r, E))
<1>0. /\ r.dequeue \in 0 .. E - 1 /\ n \in 1 .. E
      /\ q.dequeue = IF r.dequeue + 1 = E THEN 0 ELSE r.dequeue + 1
  BY DEF Holds, Taken
<1>1. Contents(r, E) = [k \in 1 .. n |-> Item(r, E, k)]
  BY ContentsAre
<1> DEFINE m == n - 1
<1>2. Contents(q, E) = [k \in 1 .. m |-> Item(q, E, k)]
  <2>1. Holds(q, E, m)
    BY TakenHolds
  <2> HIDE DEF m
  <2> QED BY <2>1, ContentsAre
<1>3. \A k \in 1 .. m : Item(q, E, k) = Item(r, E, k + 1)
  <2> TAKE k \in 1 .. m
  <2> DEFINE j == k + 1
  <2>1. /\ Idx(q, E, k - 1) = Idx(r, E, j - 1) /\ Idx(r, E, j - 1) \in 0 .. E - 1
        /\ Idx(r, E, j - 1) # r.dequeue
    BY <1>0 DEF Idx
  <2> HIDE DEF j
  <2>2. Item(q, E, k) = Item(r, E, j)
    BY <2>1 DEF Item, Taken
  <2> QED BY <2>2 DEF j
<1> DEFINE F(k) == Item(r, E, k)
<1> DEFINE G(k) == Item(q, E, k)
<1>4. [k \in 1 .. m |-> G(k)] = Tail([k \in 1 .. n |-> F(k)])
  <2>1. \A k \in 1 .. m : G(k) = F(k + 1)
    BY <1>3
  <2> HIDE DEF F, G
  <2> QED BY <1>0, <2>1
<1> QED BY <1>1, <1>2, <1>4

\* The consumers: the driver on the event ring, the controller on the command ring.
LEMMA AdvancedRing ==
  ASSUME NEW B \in Nat, NEW T, NEW r \in RingOf(B, T), NEW E \in Nat \ {0}, E <= B,
         r.dequeue \in 0 .. E - 1
  PROVE  /\ Advance(r, E) \in RingOf(B, T) /\ Taken(r, Advance(r, E), E)
         /\ Advance(r, E).buf_ = r.buf_
<1> DEFINE last == r.dequeue + 1 = E
<1> DEFINE i == IF last THEN 0 ELSE r.dequeue + 1
<1> DEFINE c == r.consumer_cycle # last
<1> DEFINE q == Advance(r, E)
<1> DEFINE F == [0 .. B - 1 -> [cycle_bit : BOOLEAN, trb : T]]
<1> DEFINE I == 0 .. B - 1
<1>1. r \in [buf_ : F, write_index_ : I, cycle_bit_ : BOOLEAN, dequeue : I, consumer_cycle : BOOLEAN]
  BY DEF RingOf
<1>2. i \in I /\ c \in BOOLEAN
  OBVIOUS
<1>3. c <=> IF last THEN ~r.consumer_cycle ELSE r.consumer_cycle
  <2>1. last \in BOOLEAN
    OBVIOUS
  <2> HIDE DEF last
  <2> QED BY <1>1, <2>1
<1>4. q = [r EXCEPT !.dequeue = i, !.consumer_cycle = c]
  BY DEF Advance
<1> HIDE DEF F, I, i, c, q
<1>5. /\ q \in [buf_ : F, write_index_ : I, cycle_bit_ : BOOLEAN, dequeue : I, consumer_cycle : BOOLEAN]
      /\ q.buf_ = r.buf_ /\ q.write_index_ = r.write_index_ /\ q.cycle_bit_ = r.cycle_bit_
      /\ q.dequeue = i /\ q.consumer_cycle = c
  BY <1>1, <1>2, <1>4
<1>6. q \in RingOf(B, T)
  BY <1>5 DEF RingOf, F, I
<1>7. q.dequeue = IF last THEN 0 ELSE r.dequeue + 1
  BY <1>5 DEF i
<1>8. Taken(r, q, E)
  BY <1>3, <1>5, <1>7 DEF Taken
<1> QED BY <1>5, <1>6, <1>8 DEF q

Forgot(r, q, B, T, i) ==
  /\ q \in RingOf(B, T)
  /\ q.dequeue = r.dequeue /\ q.consumer_cycle = r.consumer_cycle
  /\ q.write_index_ = r.write_index_ /\ q.cycle_bit_ = r.cycle_bit_
  /\ \A k \in 0 .. B - 1 : /\ q.buf_[k].cycle_bit = r.buf_[k].cycle_bit
                           /\ k # i => q.buf_[k] = r.buf_[k]
LEMMA ForgottenRing ==
  ASSUME NEW B \in Nat, NEW T, NEW r \in RingOf(B, T), None \in T, NEW i \in 0 .. B - 1
  PROVE  Forgot(r, Forget(r, i), B, T, i)
<1> DEFINE C == [cycle_bit : BOOLEAN, trb : T]
<1> DEFINE F == [0 .. B - 1 -> C]
<1> DEFINE I == 0 .. B - 1
<1> DEFINE none == None
<1> DEFINE new == [r.buf_[i] EXCEPT !.trb = none]
<1> DEFINE buf == [r.buf_ EXCEPT ![i] = new]
<1> DEFINE q == Forget(r, i)
<1>1. r \in [buf_ : F, write_index_ : I, cycle_bit_ : BOOLEAN, dequeue : I, consumer_cycle : BOOLEAN]
  BY DEF RingOf
<1>2. r.buf_ \in F /\ r.buf_[i] \in C /\ none \in T
  BY <1>1
<1>3. new \in C /\ new.cycle_bit = r.buf_[i].cycle_bit
  <2> HIDE DEF none
  <2> QED BY <1>2
<1>4. /\ buf \in F
      /\ \A k \in 0 .. B - 1 : /\ buf[k].cycle_bit = r.buf_[k].cycle_bit
                               /\ k # i => buf[k] = r.buf_[k]
  <2> HIDE DEF new, C
  <2> QED BY <1>2, <1>3
<1>5. q = [r EXCEPT !.buf_ = buf]
  BY DEF Forget
<1> HIDE DEF F, I, buf, q
<1>6. /\ q \in [buf_ : F, write_index_ : I, cycle_bit_ : BOOLEAN, dequeue : I, consumer_cycle : BOOLEAN]
      /\ q.buf_ = buf /\ q.write_index_ = r.write_index_ /\ q.cycle_bit_ = r.cycle_bit_
      /\ q.dequeue = r.dequeue /\ q.consumer_cycle = r.consumer_cycle
  BY <1>1, <1>4, <1>5
<1>7. q \in RingOf(B, T)
  BY <1>6 DEF RingOf, F, I
<1> QED BY <1>4, <1>6, <1>7 DEF Forgot, q

LEMMA ForgottenHolds ==
  ASSUME NEW B \in Nat, NEW T, NEW r, NEW q, NEW E \in Nat \ {0}, E <= B, NEW n, Holds(r, E, n),
         NEW i, Forgot(r, q, B, T, i)
  PROVE  Holds(q, E, n) /\ \A k \in 0 .. E - 1 : Off(q, E, k) = Off(r, E, k)
<1>1. /\ q.dequeue = r.dequeue /\ q.consumer_cycle = r.consumer_cycle
      /\ q.write_index_ = r.write_index_ /\ q.cycle_bit_ = r.cycle_bit_
      /\ Idx(q, E, n) = Idx(r, E, n)
  BY DEF Forgot, Idx
<1>2. ASSUME NEW k \in 0 .. E - 1
      PROVE  Bit(q, k) = Bit(r, k) /\ Own(q, k) = Own(r, k) /\ Off(q, E, k) = Off(r, E, k)
  BY <1>1 DEF Bit, Own, Off, Forgot
<1> QED BY <1>1, <1>2 DEF Holds

LEMMA ForgottenContents ==
  ASSUME NEW B \in Nat, NEW T, NEW r \in RingOf(B, T), NEW q, NEW E \in Nat \ {0}, E <= B,
         NEW n, Holds(r, E, n), NEW i \in 0 .. E - 1, Forgot(r, q, B, T, i), Off(r, E, i) >= n
  PROVE  Contents(q, E) = Contents(r, E)
<1>1. q \in RingOf(B, T) /\ q.dequeue = r.dequeue /\ n \in 0 .. E /\ r.dequeue \in 0 .. E - 1
  BY DEF Forgot, Holds
<1>2. /\ Contents(r, E) = [k \in 1 .. n |-> Item(r, E, k)]
      /\ Contents(q, E) = [k \in 1 .. n |-> Item(q, E, k)]
  <2>1. Holds(q, E, n)
    BY ForgottenHolds
  <2>2. Contents(r, E) = [k \in 1 .. n |-> Item(r, E, k)]
    BY ContentsAre
  <2>3. Contents(q, E) = [k \in 1 .. n |-> Item(q, E, k)]
    BY <1>1, <2>1, ContentsAre
  <2> QED BY <2>2, <2>3
<1>3. \A k \in 1 .. n : Item(q, E, k) = Item(r, E, k)
  <2> TAKE k \in 1 .. n
  <2>1. /\ Idx(q, E, k - 1) = Idx(r, E, k - 1) /\ Idx(r, E, k - 1) \in 0 .. E - 1
        /\ Off(r, E, Idx(r, E, k - 1)) = k - 1
    BY <1>1 DEF Idx, Off
  <2>2. Idx(r, E, k - 1) # i
    BY <1>1, <2>1
  <2> QED BY <2>1, <2>2 DEF Item, Forgot
<1> QED BY <1>2, <1>3

LEMMA PoppedRing ==
  ASSUME NEW E \in Nat \ {0}, NEW T, NEW r \in RingOf(E, T), None \in T
  PROVE  Pop(r, E) \in RingOf(E, T) /\ Taken(r, Pop(r, E), E)
<1> DEFINE p == Forget(r, r.dequeue)
<1> DEFINE q == Advance(p, E)
<1>1. r.dequeue \in 0 .. E - 1
  BY DEF RingOf
<1>2. Forgot(r, p, E, T, r.dequeue)
  BY <1>1, ForgottenRing
<1> HIDE DEF p
<1>3. p \in RingOf(E, T) /\ p.dequeue = r.dequeue
  BY <1>2 DEF Forgot
<1>4. q \in RingOf(E, T) /\ Taken(p, q, E) /\ q.buf_ = p.buf_
  BY <1>1, <1>3, AdvancedRing
<1> HIDE DEF q
<1>5. Taken(r, q, E)
  BY <1>2, <1>3, <1>4 DEF Taken, Forgot
<1> QED BY <1>4, <1>5 DEF Pop, p, q

LEMMA FetchedRing ==
  ASSUME NEW B \in Nat, B >= 2, NEW T, NEW r \in RingOf(B, T), r.dequeue < B - 1
  PROVE  /\ Fetch(r, B) \in RingOf(B, T) /\ Taken(r, Fetch(r, B), B - 1)
         /\ Fetch(r, B).buf_ = r.buf_
<1> DEFINE E == B - 1
<1>1. E \in Nat \ {0} /\ E <= B /\ r.dequeue \in 0 .. E - 1
  BY DEF RingOf
<1>2. Fetch(r, B) = Advance(r, E)
  BY DEF Fetch
<1> HIDE DEF E
<1>3. Fetch(r, B) \in RingOf(B, T) /\ Taken(r, Fetch(r, B), E) /\ Fetch(r, B).buf_ = r.buf_
  BY <1>1, <1>2, AdvancedRing
<1> QED BY <1>3 DEF E

\* An empty ring, and what a reader sees of a ring.
LEMMA NewRingHolds ==
  ASSUME NEW B \in Nat, NEW T, None \in T, NEW E \in Nat \ {0}, E <= B
  PROVE  NewRing(B) \in RingOf(B, T) /\ Holds(NewRing(B), E, 0) /\ Contents(NewRing(B), E) = << >>
<1> DEFINE r == NewRing(B)
<1>1. /\ r.dequeue = 0 /\ r.write_index_ = 0 /\ r.cycle_bit_ = TRUE /\ r.consumer_cycle = TRUE
      /\ \A i \in 0 .. B - 1 : r.buf_[i].cycle_bit = FALSE
  BY DEF NewRing
<1>2. r \in RingOf(B, T)
  <2> DEFINE none == None
  <2>1. none \in T
    OBVIOUS
  <2> HIDE DEF none
  <2>2. [i \in 0 .. B - 1 |-> [cycle_bit |-> FALSE, trb |-> none]]
          \in [0 .. B - 1 -> [cycle_bit : BOOLEAN, trb : T]]
    BY <2>1
  <2>3. 0 \in 0 .. B - 1
    OBVIOUS
  <2> QED BY <2>2, <2>3 DEF NewRing, RingOf, none
<1> HIDE DEF r
<1>3. Holds(r, E, 0)
  BY <1>1 DEF Holds, Idx, Bit, Own, Off
<1>4. Contents(r, E) = [k \in 1 .. 0 |-> Item(r, E, k)]
  BY <1>2, <1>3, ContentsAre
<1>5. Contents(r, E) = << >>
  BY <1>4
<1> QED BY <1>2, <1>3, <1>5 DEF r

LEMMA FrontOfRing ==
  ASSUME NEW B \in Nat, NEW T, NEW r \in RingOf(B, T), NEW E \in Nat \ {0}, E <= B, NEW n,
         Holds(r, E, n)
  PROVE  /\ Contents(r, E) \in Seq(T) /\ Len(Contents(r, E)) = n
         /\ HasFront(r) <=> n # 0
         /\ n # 0 => Front(r) = Contents(r, E)[1]
         /\ \A k \in 1 .. n : Contents(r, E)[k] = Item(r, E, k)
<1>0. r.dequeue \in 0 .. E - 1 /\ n \in 0 .. E
  BY DEF Holds
<1>1. Contents(r, E) = [k \in 1 .. n |-> Item(r, E, k)]
  BY ContentsAre
<1>2. \A k \in 1 .. n : Item(r, E, k) \in T
  <2> TAKE k \in 1 .. n
  <2>1. Idx(r, E, k - 1) \in 0 .. B - 1
    BY <1>0 DEF Idx
  <2> QED BY <2>1 DEF Item, RingOf
<1>3. Contents(r, E) \in Seq(T) /\ Len(Contents(r, E)) = n
  <2> DEFINE F(k) == Item(r, E, k)
  <2>1. \A k \in 1 .. n : F(k) \in T
    BY <1>2
  <2> HIDE DEF F
  <2>2. [k \in 1 .. n |-> F(k)] \in Seq(T) /\ Len([k \in 1 .. n |-> F(k)]) = n
    BY <1>0, <2>1
  <2> QED BY <1>1, <2>2 DEF F
<1>4. HasFront(r) <=> n # 0
  <2>1. (Bit(r, r.dequeue) <=> Own(r, r.dequeue)) <=> Off(r, E, r.dequeue) < n
    BY <1>0 DEF Holds
  <2>2. Off(r, E, r.dequeue) = 0 /\ Own(r, r.dequeue) = r.consumer_cycle
    BY <1>0 DEF Off, Own
  <2>3. Bit(r, r.dequeue) \in BOOLEAN /\ r.consumer_cycle \in BOOLEAN
    BY <1>0 DEF RingOf, Bit
  <2> QED BY <1>0, <2>1, <2>2, <2>3 DEF HasFront, Bit
<1>5. Idx(r, E, 1 - 1) = r.dequeue
  BY <1>0 DEF Idx
<1>6. Item(r, E, 1) = Front(r)
  <2> DEFINE one == 1
  <2>1. Idx(r, E, one - 1) = r.dequeue
    BY <1>0 DEF Idx
  <2> HIDE DEF one
  <2>2. Item(r, E, one) = r.buf_[r.dequeue].trb
    BY <2>1 DEF Item
  <2> QED BY <2>2 DEF Front, one
<1> QED BY <1>0, <1>1, <1>3, <1>4, <1>6

(***************************************************************************)
(* The inductive invariant.                                                *)
(***************************************************************************)
Entries == kCommandRing - 1
Pending == Contents(cr_, Entries)

\* Commands on their way: queued in the command ring, or executed with the
\* completion not handled, when the driver will read the command again where it
\* lies.
Command == TRBs \ [type : {"none", "link"}]
Completions(u) == {k \in 1 .. Len(u) : u[k].type = "CommandCompletion"}
Issuer(c, u, k) == c.buf_[u[k].trb].trb
Place(c, u, k) == Off(c, Entries, u[k].trb)
QueueOf(c) == Contents(c, Entries)
Queued(c) == {QueueOf(c)[k] : k \in 1 .. Len(QueueOf(c))}
Executed(c, u) == {Issuer(c, u, k) : k \in Completions(u)}

\* The last m commands that the controller has fetched lie before the place that
\* it has reached, and their completions come in the same order.
Behind(c, u, m) ==
  /\ \A k \in Completions(u) : Place(c, u, k) >= Entries - m
  /\ \A k, l \in Completions(u) : k < l => Place(c, u, k) < Place(c, u, l)
  /\ \A o \in Entries - m .. Entries - 1 : \E k \in Completions(u) : Place(c, u, k) = o

\* One command at most is about an address.
Addresses(trb) == trb.type \in {"EnableSlot", "AddressDevice"}
OneAddresses(c, u) ==
  /\ \A k, l \in 1 .. Len(QueueOf(c)) : Addresses(QueueOf(c)[k]) /\ Addresses(QueueOf(c)[l]) => k = l
  /\ \A k, l \in Completions(u) :
       Addresses(Issuer(c, u, k)) /\ Addresses(Issuer(c, u, l)) => k = l
  /\ \A s \in Queued(c), t \in Executed(c, u) : ~(Addresses(s) /\ Addresses(t))

InOrder(c, u, m) ==
  /\ c \in RingOf(kCommandRing, TRBs) /\ Holds(c, Entries, Len(QueueOf(c)))
  /\ u \in Seq(Events) /\ m \in Nat /\ Behind(c, u, m)
  /\ Queued(c) \subseteq Command /\ Executed(c, u) \subseteq Command
  /\ OneAddresses(c, u)
  /\ \A k \in Completions(u) :
       Issuer(c, u, k).type # "EnableSlot" => u[k].slot_id = Issuer(c, u, k).slot_id

\* What a command of the port that is being addressed says.
Expected(trb) ==
  /\ trb.type = "EnableSlot" =>
       addressing_port # NoPort /\ port_config_phase[addressing_port] = "kEnablingSlot"
  /\ trb.type = "AddressDevice" =>
       /\ addressing_port # NoPort /\ port_config_phase[addressing_port] = "kAddressingDevice"
       /\ trb.input_context.slot_context.root_hub_port_num = addressing_port
  /\ trb.type # "EnableSlot" => trb.slot_id \in DOMAIN devices_

\* The control transfers of an endpoint, whole ones.
Reported(ep0, i) ==
  ep0[i].ioc \/ (i > 1 /\ ep0[i - 1].ioc /\ ep0[i - 1].stage = "data")
WholeTransfers(ep0) ==
  /\ ep0 # << >> => ep0[Len(ep0)].stage = "status"
  /\ \A i \in 1 .. Len(ep0) : ep0[i].stage = "status" => Reported(ep0, i)

TypeInv ==
  /\ port_config_phase \in [Port -> ConfigPhase] /\ addressing_port \in Port \cup {NoPort}
  /\ cr_ \in RingOf(kCommandRing, TRBs) /\ er_ \in RingOf(kEventRing, Events)
  /\ main \in {"Initialize", "wait", "loop"}
  /\ next_port \in 1 .. kPorts + 1 /\ (main = "Initialize" => next_port \in Port)
  /\ bus \in [Port -> {"absent", "attached", "default", "addressed"}]
  /\ portsc \in [Port -> PORTSC_Bitmap] /\ owed \subseteq Port /\ slots \in 0 .. kDeviceSize
  /\ message \in BOOLEAN /\ ipe \in BOOLEAN /\ event_handler_busy \in BOOLEAN
  /\ faults \in 0 .. MaxFaults
DeviceOK(d) ==
  /\ d \in DeviceType /\ WholeTransfers(d.ep0)
  /\ Len(d.setup_stage_map_) <= kSetupStages /\ Len(d.event_waiters_) <= kWaiters
DevicesInv ==
  /\ DOMAIN devices_ \subseteq Slot /\ \A s \in DOMAIN devices_ : DeviceOK(devices_[s])
  /\ devices_ = [s \in DOMAIN devices_ |-> devices_[s]]
RingsInv ==
  /\ Holds(cr_, Entries, Len(Pending))
  /\ Holds(er_, kEventRing, Len(Unhandled)) /\ Len(Unhandled) < kEventRing

\* No port has two commands on their way.
BusyIn(phases) ==
  {p \in Port : phases[p] \in {"kEnablingSlot", "kAddressingDevice", "kConfiguringEndpoints"}}
Busy == BusyIn(port_config_phase)
CommandsInv ==
  /\ \E m \in Nat : InOrder(cr_, Unhandled, m) /\ Len(Pending) + m <= Cardinality(Busy)
  /\ \A trb \in Queued(cr_) \cup Executed(cr_, Unhandled) : Expected(trb)
  /\ \A trb \in Executed(cr_, Unhandled) :
       trb.type = "AddressDevice" => bus[addressing_port] # "default"

TransfersInv ==
  \A k \in 1 .. Len(Unhandled) : Unhandled[k].type = "Transfer" =>
    /\ Unhandled[k].slot_id \in DOMAIN devices_
    /\ Unhandled[k].ok => devices_[Unhandled[k].slot_id].port # NoPort
PortsAre(phases, addressing, devices) ==
  /\ \A p \in Port :
       phases[p] \in {"kResettingPort", "kEnablingSlot", "kAddressingDevice"} <=> addressing = p
  /\ \A p \in Port : devices[p] = "default" => addressing = p
PortsInv == PortsAre(port_config_phase, addressing_port, bus)
InterruptsInv ==
  /\ event_handler_busy => Unhandled # << >> /\ (message \/ main = "loop")
  /\ Unhandled # << >> /\ main # "loop" => ipe \/ message

IInv ==
  /\ TypeInv /\ DevicesInv /\ RingsInv /\ CommandsInv /\ TransfersInv
  /\ PortsInv /\ InterruptsInv

-----------------------------------------------------------------------------
(***************************************************************************)
(* What the operations on the rings do to the two queues.                  *)
(***************************************************************************)
LEMMA Sizes == kEventRing \in Nat \ {0, 1} /\ Entries \in Nat \ {0, 1} /\ Entries <= kCommandRing
BY RingAssumption DEF Entries

LEMMA Queues ==
  ASSUME TypeInv, RingsInv
  PROVE  /\ Unhandled \in Seq(Events) /\ Pending \in Seq(TRBs)
         /\ HasFront(er_) <=> Unhandled # << >>
         /\ Unhandled # << >> => Front(er_) = Unhandled[1]
         /\ HasFront(cr_) <=> Pending # << >>
         /\ Pending # << >> => Front(cr_) = Pending[1]
<1>1. cr_ \in RingOf(kCommandRing, TRBs) /\ er_ \in RingOf(kEventRing, Events)
  BY DEF TypeInv
<1>2. Holds(cr_, Entries, Len(Pending)) /\ Holds(er_, kEventRing, Len(Unhandled))
  BY DEF RingsInv
<1> DEFINE n == Len(Unhandled)
<1> DEFINE m == Len(Pending)
<1>3. /\ Contents(er_, kEventRing) \in Seq(Events) /\ (HasFront(er_) <=> n # 0)
      /\ n # 0 => Front(er_) = Contents(er_, kEventRing)[1]
  <2> HIDE DEF n
  <2>1. Holds(er_, kEventRing, n)
    BY <1>2 DEF n
  <2> QED BY <1>1, <2>1, Sizes, FrontOfRing
<1>4. /\ Contents(cr_, Entries) \in Seq(TRBs) /\ (HasFront(cr_) <=> m # 0)
      /\ m # 0 => Front(cr_) = Contents(cr_, Entries)[1]
  <2> HIDE DEF m
  <2>1. Holds(cr_, Entries, m)
    BY <1>2 DEF m
  <2>2. kCommandRing \in Nat
    BY RingAssumption
  <2> QED BY <1>1, <2>1, <2>2, Sizes, FrontOfRing
<1> QED BY <1>3, <1>4 DEF Unhandled, Pending

EventSent(e) ==
  /\ er_' \in RingOf(kEventRing, Events)
  /\ Unhandled' = Append(Unhandled, e)
  /\ Holds(er_', kEventRing, Len(Unhandled')) /\ Len(Unhandled') < kEventRing
  /\ er_'.write_index_ # er_.write_index_ /\ er_'.dequeue = er_.dequeue
LEMMA Sent ==
  ASSUME TypeInv, RingsInv, NEW e \in Events, Send(e)
  PROVE  EventSent(e)
<1> DEFINE E == kEventRing
<1> DEFINE n == Len(Unhandled)
<1> DEFINE q == Post(er_, kEventRing, e)
<1>1. er_ \in RingOf(E, Events) /\ Holds(er_, E, n) /\ n < E /\ er_' = q
  BY DEF TypeInv, RingsInv, Send
<1>2. E \in Nat \ {0, 1}
  BY Sizes
<1>3. q \in RingOf(E, Events) /\ Written(er_, q, E, e)
  BY <1>1, <1>2, Posted
<1> HIDE DEF q
<1>4. n + 1 < E
  <2>1. er_.write_index_ = Idx(er_, E, n) /\ n \in 0 .. E - 1 /\ er_.dequeue \in 0 .. E - 1
    BY <1>1, <1>2 DEF Holds
  <2> DEFINE at == er_.write_index_ + 1
  <2> DEFINE mod == at % E
  <2>2. at \in Nat /\ at < 2 * E
    BY <1>2, <2>1 DEF Idx
  <2>3. mod # er_.dequeue
    BY DEF Send, HasRoom
  <2>4. at = IF er_.dequeue + n < E THEN er_.dequeue + n + 1 ELSE er_.dequeue + n - E + 1
    BY <1>2, <2>1 DEF Idx
  <2> HIDE DEF at
  <2>5. mod = IF at < E THEN at ELSE at - E
    BY <1>2, <2>2, Modulo
  <2> HIDE DEF mod, E, n
  <2> QED BY <1>2, <2>1, <2>3, <2>4, <2>5
<1> HIDE DEF E, n
<1>5. Contents(q, E) = Append(Contents(er_, E), e)
  BY <1>1, <1>2, <1>3, WrittenContents
<1>6. Holds(q, E, n + 1)
  BY <1>1, <1>2, <1>3, WrittenHolds
<1>7. Unhandled' = Append(Unhandled, e)
  BY <1>1, <1>5 DEF Unhandled, E
<1>8. Len(Unhandled') = n + 1
  <2>1. Unhandled \in Seq(Events)
    BY Queues
  <2> QED BY <1>7, <2>1 DEF n
<1>9. q.write_index_ # er_.write_index_ /\ q.dequeue = er_.dequeue
  BY <1>1, <1>2, <1>3 DEF Written, RingOf
<1> QED BY <1>1, <1>3, <1>4, <1>6, <1>7, <1>8, <1>9 DEF EventSent, E

EventTaken ==
  /\ er_' \in RingOf(kEventRing, Events)
  /\ Unhandled # << >> /\ Unhandled' = Tail(Unhandled)
  /\ Holds(er_', kEventRing, Len(Unhandled')) /\ Len(Unhandled') < kEventRing
  /\ er_'.write_index_ = er_.write_index_ /\ er_'.dequeue # er_.dequeue
LEMMA TakenEvent ==
  ASSUME TypeInv, RingsInv, HasFront(er_), er_' = Pop(er_, kEventRing)
  PROVE  EventTaken
<1> DEFINE E == kEventRing
<1> DEFINE n == Len(Unhandled)
<1> DEFINE q == Pop(er_, E)
<1>1. er_ \in RingOf(E, Events) /\ Holds(er_, E, n) /\ n < E /\ er_' = q
  BY DEF TypeInv, RingsInv
<1>2. E \in Nat \ {0, 1} /\ Unhandled # << >> /\ Unhandled \in Seq(Events)
  BY Sizes, Queues
<1>3. n # 0 /\ Len(Tail(Unhandled)) = n - 1 /\ n \in Nat
  BY <1>2
<1>4. None \in Events
  BY DEF Events, None
<1>5. q \in RingOf(E, Events) /\ Taken(er_, q, E)
  BY <1>1, <1>2, <1>4, PoppedRing
<1> HIDE DEF q, E, n
<1>6. Contents(q, E) = Tail(Contents(er_, E)) /\ Holds(q, E, n - 1)
  BY <1>1, <1>2, <1>3, <1>5, TakenContents, TakenHolds
<1>7. Unhandled' = Tail(Unhandled)
  BY <1>1, <1>6 DEF Unhandled, E
<1>8. q.write_index_ = er_.write_index_ /\ q.dequeue # er_.dequeue
  BY <1>1, <1>2, <1>5 DEF Taken, RingOf
<1> QED BY <1>1, <1>2, <1>3, <1>5, <1>6, <1>7, <1>8 DEF EventTaken, E

CommandPushed(r, q, n, trb) ==
  /\ q \in RingOf(kCommandRing, TRBs) /\ Holds(q, Entries, n + 1)
  /\ Contents(q, Entries) = Append(Contents(r, Entries), trb)
  /\ q.write_index_ # r.write_index_ /\ q.dequeue = r.dequeue
  /\ \A i \in 0 .. Entries - 1 : /\ Off(q, Entries, i) = Off(r, Entries, i)
                                 /\ Off(r, Entries, i) # n => q.buf_[i] = r.buf_[i]
LEMMA PushedCommand ==
  ASSUME NEW r \in RingOf(kCommandRing, TRBs), NEW n, Holds(r, Entries, n), n < Entries,
         NEW trb \in TRBs
  PROVE  CommandPushed(r, Push(r, kCommandRing, trb), n, trb)
<1> DEFINE B == kCommandRing
<1> DEFINE E == Entries
<1> DEFINE q == Push(r, B, trb)
<1>1. /\ B \in Nat /\ B >= 3 /\ E \in Nat \ {0, 1} /\ E <= B /\ E = B - 1
      /\ r \in RingOf(B, TRBs) /\ Holds(r, E, n) /\ n < E
  BY Sizes, RingAssumption DEF Entries
<1>2. r.write_index_ \in 0 .. E - 1 /\ r.dequeue \in 0 .. E - 1 /\ r.write_index_ = Idx(r, E, n)
      /\ n \in 0 .. E - 1
  BY <1>1 DEF Holds, Idx
<1>3. Link \in TRBs
  BY DEF TRBs, Link
<1> HIDE DEF E
<1>4. q \in RingOf(B, TRBs) /\ Written(r, q, E, trb)
  <2>1. q \in RingOf(B, TRBs) /\ Written(r, q, B - 1, trb)
    BY <1>1, <1>2, <1>3, Pushed
  <2> QED BY <1>1, <2>1
<1> HIDE DEF B, q
<1>5. Contents(q, E) = Append(Contents(r, E), trb) /\ Holds(q, E, n + 1)
  BY <1>1, <1>4, WrittenContents, WrittenHolds
<1>6. q.write_index_ # r.write_index_ /\ q.dequeue = r.dequeue
  BY <1>1, <1>2, <1>4 DEF Written
<1>7. ASSUME NEW i \in 0 .. E - 1
      PROVE  Off(q, E, i) = Off(r, E, i) /\ (Off(r, E, i) # n => q.buf_[i] = r.buf_[i])
  <2>1. Off(q, E, i) = Off(r, E, i)
    BY <1>6 DEF Off
  <2>2. Off(r, E, i) # n => i # r.write_index_
    BY <1>1, <1>2 DEF Off, Idx
  <2> QED BY <1>4, <2>1, <2>2 DEF Written
<1> QED BY <1>4, <1>5, <1>6, <1>7 DEF CommandPushed, B, E, q

CommandFetched(r, q, n) ==
  /\ q \in RingOf(kCommandRing, TRBs) /\ Holds(q, Entries, n - 1) /\ q.buf_ = r.buf_
  /\ Contents(q, Entries) = Tail(Contents(r, Entries))
  /\ q.write_index_ = r.write_index_ /\ q.dequeue # r.dequeue
  /\ r.dequeue \in 0 .. Entries - 1 /\ Off(q, Entries, r.dequeue) = Entries - 1
  /\ \A i \in 0 .. Entries - 1 : i # r.dequeue =>
       Off(q, Entries, i) = Off(r, Entries, i) - 1 /\ Off(r, Entries, i) > 0
LEMMA FetchedCommand ==
  ASSUME NEW r \in RingOf(kCommandRing, TRBs), NEW n, Holds(r, Entries, n), n # 0
  PROVE  CommandFetched(r, Fetch(r, kCommandRing), n)
<1> DEFINE B == kCommandRing
<1> DEFINE E == Entries
<1> DEFINE q == Fetch(r, B)
<1>1. /\ B \in Nat /\ B >= 2 /\ E \in Nat \ {0, 1} /\ E <= B /\ E = B - 1
      /\ r \in RingOf(B, TRBs) /\ Holds(r, E, n)
  BY Sizes, RingAssumption DEF Entries
<1>2. r.dequeue \in 0 .. E - 1
  BY <1>1 DEF Holds
<1> HIDE DEF E
<1>3. q \in RingOf(B, TRBs) /\ Taken(r, q, E) /\ q.buf_ = r.buf_
  <2>1. q \in RingOf(B, TRBs) /\ Taken(r, q, B - 1) /\ q.buf_ = r.buf_
    BY <1>1, <1>2, FetchedRing
  <2> QED BY <1>1, <2>1
<1> HIDE DEF B, q
<1>4. Contents(q, E) = Tail(Contents(r, E)) /\ Holds(q, E, n - 1)
  BY <1>1, <1>3, TakenContents, TakenHolds
<1>5. q.write_index_ = r.write_index_ /\ q.dequeue # r.dequeue
      /\ q.dequeue = IF r.dequeue + 1 = E THEN 0 ELSE r.dequeue + 1
  BY <1>1, <1>2, <1>3 DEF Taken
<1>6. Off(q, E, r.dequeue) = E - 1
  BY <1>1, <1>2, <1>5 DEF Off
<1>7. ASSUME NEW i \in 0 .. E - 1, i # r.dequeue
      PROVE  Off(q, E, i) = Off(r, E, i) - 1 /\ Off(r, E, i) > 0
  BY <1>1, <1>2, <1>5, <1>7 DEF Off
<1> QED BY <1>2, <1>3, <1>4, <1>5, <1>6, <1>7 DEF CommandFetched, B, E, q

CommandForgotten(r, q, i) ==
  /\ q \in RingOf(kCommandRing, TRBs) /\ Holds(q, Entries, Len(Contents(r, Entries)))
  /\ Contents(q, Entries) = Contents(r, Entries)
  /\ q.write_index_ = r.write_index_ /\ q.dequeue = r.dequeue
  /\ \A k \in 0 .. Entries - 1 : /\ Off(q, Entries, k) = Off(r, Entries, k)
                                 /\ k # i => q.buf_[k] = r.buf_[k]
LEMMA ForgottenCommand ==
  ASSUME TypeInv, RingsInv, NEW i \in 0 .. Entries - 1, Off(cr_, Entries, i) >= Len(Pending)
  PROVE  CommandForgotten(cr_, Forget(cr_, i), i)
<1> DEFINE B == kCommandRing
<1> DEFINE E == Entries
<1> DEFINE n == Len(Pending)
<1> DEFINE q == Forget(cr_, i)
<1>1. /\ B \in Nat /\ E \in Nat \ {0} /\ E <= B /\ cr_ \in RingOf(B, TRBs) /\ i \in 0 .. E - 1
      /\ Holds(cr_, E, n) /\ Off(cr_, E, i) >= n
  BY Sizes, RingAssumption DEF RingsInv, TypeInv
<1>2. None \in TRBs /\ i \in 0 .. B - 1
  BY <1>1 DEF TRBs, None
<1>3. Forgot(cr_, q, B, TRBs, i)
  BY <1>1, <1>2, ForgottenRing
<1> HIDE DEF B, E, q, n
<1>4. Holds(q, E, n) /\ \A k \in 0 .. E - 1 : Off(q, E, k) = Off(cr_, E, k)
  BY <1>1, <1>3, ForgottenHolds
<1>5. Contents(q, E) = Contents(cr_, E)
  BY <1>1, <1>3, ForgottenContents
<1>6. \A k \in 0 .. E - 1 : k # i => q.buf_[k] = cr_.buf_[k]
  BY <1>1, <1>3 DEF Forgot
<1>7. /\ q \in RingOf(B, TRBs) /\ q.write_index_ = cr_.write_index_ /\ q.dequeue = cr_.dequeue
  BY <1>3 DEF Forgot
<1>8. Holds(q, E, Len(Contents(cr_, E)))
  BY <1>4 DEF n, Pending, E
<1> QED BY <1>4, <1>5, <1>6, <1>7, <1>8 DEF CommandForgotten, B, E, q

-----------------------------------------------------------------------------
(***************************************************************************)
(* Ports and devices.                                                      *)
(***************************************************************************)
BusStates == [Port -> {"absent", "attached", "default", "addressed"}]
PortsAfter(phases, addressing) ==
  /\ port_config_phase' \in [Port -> ConfigPhase] /\ addressing_port' \in Port \cup {NoPort}
  /\ bus' \in BusStates /\ portsc' \in [Port -> PORTSC_Bitmap] /\ owed' \subseteq Port
  /\ PortsAre(port_config_phase', addressing_port', bus')
  /\ BusyIn(port_config_phase') = BusyIn(phases)
  /\ addressing # NoPort =>
       /\ addressing_port' = addressing /\ bus' = bus
       /\ port_config_phase'[addressing] = phases[addressing]

LEMMA NoPortIsNone == NoPort \notin Port
BY DEF NoPort, Port

LEMMA ResetPorts ==
  ASSUME NEW p \in Port, portsc \in [Port -> PORTSC_Bitmap], owed \subseteq Port,
         bus \in BusStates, Reset(p)
  PROVE  /\ bus' \in BusStates /\ portsc' \in [Port -> PORTSC_Bitmap] /\ owed' \subseteq Port
         /\ \A q \in Port : bus'[q] = IF q = p THEN "default" ELSE bus[q]
<1>1. bus' \in BusStates /\ \A q \in Port : bus'[q] = IF q = p THEN "default" ELSE bus[q]
  BY DEF Reset, BusStates
<1>2. owed' \subseteq Port
  BY DEF Reset
<1>3. portsc' \in [Port -> PORTSC_Bitmap]
  <2> DEFINE new == [portsc[p] EXCEPT !.enabled = TRUE, !.connect_change = FALSE, !.reset_change = TRUE]
  <2>1. portsc' = [portsc EXCEPT ![p].enabled = TRUE, ![p].connect_change = FALSE,
                                 ![p].reset_change = TRUE]
    BY DEF Reset
  <2>2. portsc' = [portsc EXCEPT ![p] = new]
    BY <2>1
  <2>3. new \in PORTSC_Bitmap
    BY DEF PORTSC_Bitmap
  <2> HIDE DEF new
  <2> QED BY <2>2, <2>3
<1> QED BY <1>1, <1>2, <1>3

LEMMA PortReset ==
  ASSUME TypeInv, NEW phases \in [Port -> ConfigPhase], NEW addressing \in Port \cup {NoPort},
         PortsAre(phases, addressing, bus), NEW p \in Port,
         phases[p] \in {"kNotConnected", "kWaitingAddressed"}, ResetPort(p, phases, addressing)
  PROVE  PortsAfter(phases, addressing)
<1>0. /\ bus \in BusStates /\ portsc \in [Port -> PORTSC_Bitmap] /\ owed \subseteq Port
      /\ NoPort \notin Port
  BY NoPortIsNone DEF TypeInv, BusStates
<1>1. CASE port_config_phase' = phases /\ addressing_port' = addressing /\ UNCHANGED hub
  BY <1>0, <1>1 DEF PortsAfter, hub
<1>2. CASE /\ port_config_phase' = [phases EXCEPT ![p] = "kWaitingAddressed"]
           /\ addressing_port' = addressing /\ UNCHANGED hub /\ addressing # NoPort
  <2>1. \A q \in Port : port_config_phase'[q] = IF q = p THEN "kWaitingAddressed" ELSE phases[q]
    BY <1>2
  <2>2. port_config_phase' \in [Port -> ConfigPhase]
    BY <1>2 DEF ConfigPhase
  <2>3. PortsAre(port_config_phase', addressing_port', bus') /\ addressing # p
    BY <1>2, <2>1 DEF PortsAre, hub
  <2>4. BusyIn(port_config_phase') = BusyIn(phases)
    BY <2>1 DEF BusyIn
  <2> QED BY <1>0, <1>2, <2>1, <2>2, <2>3, <2>4 DEF PortsAfter, hub
<1>3. CASE /\ port_config_phase' = [phases EXCEPT ![p] = "kResettingPort"]
           /\ addressing_port' = p /\ Reset(p) /\ addressing = NoPort
  <2>1. \A q \in Port : port_config_phase'[q] = IF q = p THEN "kResettingPort" ELSE phases[q]
    BY <1>3
  <2>2. port_config_phase' \in [Port -> ConfigPhase]
    BY <1>3 DEF ConfigPhase
  <2>3. /\ bus' \in BusStates /\ portsc' \in [Port -> PORTSC_Bitmap] /\ owed' \subseteq Port
        /\ \A q \in Port : bus'[q] = IF q = p THEN "default" ELSE bus[q]
    BY <1>0, <1>3, ResetPorts
  <2>4. PortsAre(port_config_phase', addressing_port', bus')
    BY <1>0, <1>3, <2>1, <2>3 DEF PortsAre
  <2>5. BusyIn(port_config_phase') = BusyIn(phases)
    BY <2>1 DEF BusyIn
  <2> QED BY <1>0, <1>3, <2>2, <2>3, <2>4, <2>5 DEF PortsAfter
<1> QED BY <1>1, <1>2, <1>3 DEF ResetPort

\* The tables and the transfers of a device.
LEMMA Tables ==
  ASSUME NEW T, NEW table \in Seq(T), NEW key \in T, NEW room \in Nat, Len(table) <= room
  PROVE  /\ Put(table, key, room) \in Seq(T) /\ Len(Put(table, key, room)) <= room
         /\ Delete(table, key) \in Seq(T) /\ Len(Delete(table, key)) <= room
<1>1. Put(table, key, room) \in Seq(T) /\ Len(Put(table, key, room)) <= room
  BY DEF Put
<1>2. CASE ~Has(table, key)
  BY <1>1, <1>2 DEF Delete
<1>3. CASE Has(table, key)
  <2> DEFINE i == CHOOSE i \in 1 .. Len(table) : table[i] = key
  <2>1. i \in 1 .. Len(table)
    BY <1>3 DEF Has
  <2>2. Delete(table, key) = SubSeq(table, 1, i - 1) \o SubSeq(table, i + 1, Len(table))
    BY <1>3 DEF Delete
  <2> HIDE DEF i
  <2>3. /\ SubSeq(table, 1, i - 1) \in Seq(T) /\ Len(SubSeq(table, 1, i - 1)) = i - 1
        /\ SubSeq(table, i + 1, Len(table)) \in Seq(T)
        /\ Len(SubSeq(table, i + 1, Len(table))) = Len(table) - i
    BY <2>1
  <2> DEFINE before == SubSeq(table, 1, i - 1)
  <2> DEFINE after == SubSeq(table, i + 1, Len(table))
  <2>4. Len(before) = i - 1 /\ Len(after) = Len(table) - i
    BY <2>3
  <2> HIDE DEF before, after
  <2>a. Len(before) + Len(after) <= room
    BY <2>1, <2>4
  <2>5. before \o after \in Seq(T) /\ Len(before \o after) = Len(before) + Len(after)
    BY <2>3 DEF before, after
  <2>6. Delete(table, key) = before \o after
    BY <2>2 DEF before, after
  <2> QED BY <1>1, <2>a, <2>5, <2>6
<1> QED BY <1>2, <1>3

LEMMA Stages ==
  ASSUME NEW request \in Request
  PROVE  /\ ControlStages(request) \in Seq(TransferTRBs) /\ ControlStages(request) # << >>
         /\ MapKey(request) \in TransferTRBs /\ WholeTransfers(ControlStages(request))
         /\ ~ControlStages(request)[1].stage = "status"
<1> DEFINE s == ControlStages(request)
<1>1. \A i \in DOMAIN s : s[i] \in TransferTRBs
  BY DEF TransferTRBs
<1>a. ASSUME NEW T, NEW a \in T, NEW b \in T, NEW c \in T
      PROVE  <<a, b>> \in Seq(T) /\ <<a, b, c>> \in Seq(T)
  OBVIOUS
<1>2. CASE HasBuffer(request)
  <2>1. s = <<SetupStageTRB(request), DataStageTRB(request, TRUE), StatusStageTRB(request, FALSE)>>
    BY <1>2 DEF ControlStages
  <2>2. /\ DOMAIN s = 1 .. 3 /\ Len(s) = 3 /\ s[1].stage = "setup" /\ s[2].stage = "data"
        /\ s[2].ioc = TRUE /\ s[3].stage = "status" /\ s[2] = MapKey(request)
    BY <1>2, <2>1 DEF SetupStageTRB, DataStageTRB, StatusStageTRB, MapKey
  <2>3. s \in Seq(TransferTRBs) /\ s # << >>
    <3> DEFINE a == SetupStageTRB(request)
    <3> DEFINE b == DataStageTRB(request, TRUE)
    <3> DEFINE c == StatusStageTRB(request, FALSE)
    <3>1. s[1] = a /\ s[2] = b /\ s[3] = c /\ s = <<a, b, c>>
      BY <2>1
    <3>a. DOMAIN s = 1 .. 3
      BY <2>2
    <3> HIDE DEF a, b, c, s
    <3>2. a \in TransferTRBs /\ b \in TransferTRBs /\ c \in TransferTRBs
      BY <1>1, <3>a, <3>1
    <3>3. <<a, b, c>> \in Seq(TransferTRBs)
      BY <1>a, <3>2
    <3> QED BY <2>2, <3>1, <3>3
  <2> HIDE DEF s
  <2>4. WholeTransfers(s)
    BY <2>2, <2>3 DEF WholeTransfers, Reported
  <2> QED BY <1>1, <2>2, <2>3, <2>4 DEF s
<1>3. CASE ~HasBuffer(request)
  <2>1. s = <<SetupStageTRB(request), StatusStageTRB(request, TRUE)>>
    BY <1>3 DEF ControlStages
  <2>2. /\ DOMAIN s = 1 .. 2 /\ Len(s) = 2 /\ s[1].stage = "setup"
        /\ s[2].ioc = TRUE /\ s[2].stage = "status" /\ s[2] = MapKey(request)
    BY <1>3, <2>1 DEF SetupStageTRB, StatusStageTRB, MapKey
  <2>3. s \in Seq(TransferTRBs) /\ s # << >>
    <3> DEFINE a == SetupStageTRB(request)
    <3> DEFINE b == StatusStageTRB(request, TRUE)
    <3>1. s[1] = a /\ s[2] = b /\ s = <<a, b>>
      BY <2>1
    <3>a. DOMAIN s = 1 .. 2
      BY <2>2
    <3> HIDE DEF a, b, s
    <3>2. a \in TransferTRBs /\ b \in TransferTRBs
      BY <1>1, <3>a, <3>1
    <3>3. <<a, b>> \in Seq(TransferTRBs)
      BY <1>a, <3>2
    <3> QED BY <2>2, <3>1, <3>3
  <2> HIDE DEF s
  <2>4. WholeTransfers(s)
    BY <2>2, <2>3 DEF WholeTransfers, Reported
  <2> QED BY <1>1, <2>2, <2>3, <2>4 DEF s
<1> QED BY <1>2, <1>3

LEMMA MoreTransfers ==
  ASSUME NEW ep0 \in Seq(TransferTRBs), WholeTransfers(ep0), NEW request \in Request
  PROVE  /\ ep0 \o ControlStages(request) \in Seq(TransferTRBs)
         /\ WholeTransfers(ep0 \o ControlStages(request))
<1> DEFINE s == ControlStages(request)
<1> DEFINE n == Len(ep0)
<1> DEFINE t == ep0 \o s
<1>1. s \in Seq(TransferTRBs) /\ s # << >> /\ WholeTransfers(s) /\ ~s[1].stage = "status"
  BY Stages
<1> HIDE DEF s
<1>2. /\ t \in Seq(TransferTRBs) /\ Len(t) = n + Len(s) /\ n \in Nat /\ Len(s) \in Nat \ {0}
      /\ \A i \in 1 .. n : t[i] = ep0[i]
      /\ \A i \in n + 1 .. n + Len(s) : t[i] = s[i - n]
  BY <1>1
<1> HIDE DEF n, t
<1>3. t[Len(t)].stage = "status"
  <2>1. t[Len(t)] = s[Len(s)]
    BY <1>2
  <2> QED BY <1>1, <2>1 DEF WholeTransfers
<1>4. ASSUME NEW i \in 1 .. Len(t), t[i].stage = "status" PROVE Reported(t, i)
  <2>1. CASE i <= n
    <3>1. t[i] = ep0[i] /\ i \in 1 .. n /\ (i > 1 => t[i - 1] = ep0[i - 1])
      BY <1>2, <2>1
    <3>2. Reported(ep0, i)
      BY <1>4, <3>1 DEF WholeTransfers, n
    <3> QED BY <3>1, <3>2 DEF Reported
  <2>2. CASE i > n
    <3> DEFINE j == i - n
    <3>1. t[i] = s[j] /\ j \in 1 .. Len(s) /\ (j > 1 => t[i - 1] = s[j - 1] /\ i > 1)
      BY <1>2, <2>2
    <3> HIDE DEF j
    <3>2. Reported(s, j) /\ j # 1
      BY <1>1, <1>4, <3>1 DEF WholeTransfers
    <3> QED BY <3>1, <3>2 DEF Reported
  <2> QED BY <1>2, <2>1, <2>2
<1> QED BY <1>2, <1>3, <1>4 DEF WholeTransfers, t, s

\* A device after an operation of the driver: the same one, still in order.
Same(d, e) == DeviceOK(e) /\ e.port = d.port

LEMMA Phases ==
  ASSUME NEW d, DeviceOK(d)
  PROVE  /\ Same(d, d) /\ Same(d, InterruptIn(d))
         /\ Same(d, [d EXCEPT !.hid = 1]) /\ Same(d, [d EXCEPT !.hid = 2])
         /\ Same(d, [d EXCEPT !.initialize_phase_ = 2])
         /\ Same(d, [d EXCEPT !.initialize_phase_ = 3])
         /\ Same(d, [d EXCEPT !.initialize_phase_ = 4, !.is_initialized_ = TRUE])
         /\ Same(d, [d EXCEPT !.is_initialized_ = FALSE, !.initialize_phase_ = 1])
<1>1. Same(d, InterruptIn(d))
  BY DEF Same, DeviceOK, DeviceType, InterruptIn
<1>2. Same(d, d) /\ Same(d, [d EXCEPT !.hid = 1]) /\ Same(d, [d EXCEPT !.hid = 2])
  <2>1. \A h \in 0 .. 2 : Same(d, [d EXCEPT !.hid = h])
    BY DEF Same, DeviceOK, DeviceType
  <2>2. 1 \in 0 .. 2 /\ 2 \in 0 .. 2
    OBVIOUS
  <2>3. Same(d, d)
    BY DEF Same
  <2> QED BY <2>1, <2>2, <2>3, Zenon
<1>3. \A i \in 0 .. 4 : Same(d, [d EXCEPT !.initialize_phase_ = i])
  BY DEF Same, DeviceOK, DeviceType
<1>4. /\ Same(d, [d EXCEPT !.initialize_phase_ = 2])
      /\ Same(d, [d EXCEPT !.initialize_phase_ = 3])
  <2>1. 2 \in 0 .. 4 /\ 3 \in 0 .. 4
    OBVIOUS
  <2> QED BY <1>3, <2>1, Zenon
<1>5. \A c \in BOOLEAN, i \in 0 .. 4 :
        /\ Same(d, [d EXCEPT !.initialize_phase_ = i, !.is_initialized_ = c])
        /\ Same(d, [d EXCEPT !.is_initialized_ = c, !.initialize_phase_ = i])
  <2> TAKE c \in BOOLEAN, i \in 0 .. 4
  <2>1. Same(d, [d EXCEPT !.initialize_phase_ = i, !.is_initialized_ = c])
    BY DEF Same, DeviceOK, DeviceType
  <2>2. Same(d, [d EXCEPT !.is_initialized_ = c, !.initialize_phase_ = i])
    BY DEF Same, DeviceOK, DeviceType
  <2> QED BY <2>1, <2>2
<1>6. TRUE \in BOOLEAN /\ FALSE \in BOOLEAN /\ 1 \in 0 .. 4 /\ 4 \in 0 .. 4
  OBVIOUS
<1>7. Same(d, [d EXCEPT !.initialize_phase_ = 4, !.is_initialized_ = TRUE])
  BY <1>5, <1>6, Zenon
<1>8. Same(d, [d EXCEPT !.is_initialized_ = FALSE, !.initialize_phase_ = 1])
  BY <1>5, <1>6, Zenon
<1> QED BY <1>1, <1>2, <1>4, <1>7, <1>8, Zenon

LEMMA Transfers ==
  ASSUME NEW d, DeviceOK(d), NEW s \in Seq(TransferTRBs), Len(s) <= kSetupStages,
         NEW w \in Seq(Request), Len(w) <= kWaiters, NEW t \in Seq(TransferTRBs), WholeTransfers(t),
         NEW x \in BOOLEAN
  PROVE  /\ Same(d, [d EXCEPT !.setup_stage_map_ = s])
         /\ Same(d, [d EXCEPT !.event_waiters_ = w])
         /\ Same(d, [d EXCEPT !.ep0 = t])
         /\ Same(d, [d EXCEPT !.ep0 = t, !.setup_stage_map_ = s])
         /\ Same(d, [d EXCEPT !.ep0 = t, !.halted = x])
<1>1. Same(d, [d EXCEPT !.setup_stage_map_ = s])
  BY DEF Same, DeviceOK, DeviceType
<1>2. Same(d, [d EXCEPT !.event_waiters_ = w])
  BY DEF Same, DeviceOK, DeviceType
<1>3. Same(d, [d EXCEPT !.ep0 = t])
  BY DEF Same, DeviceOK, DeviceType
<1>4. Same(d, [d EXCEPT !.ep0 = t, !.setup_stage_map_ = s])
  BY DEF Same, DeviceOK, DeviceType
<1>5. Same(d, [d EXCEPT !.ep0 = t, !.halted = x])
  BY DEF Same, DeviceOK, DeviceType
<1> QED BY <1>1, <1>2, <1>3, <1>4, <1>5

LEMMA Fresh ==
  /\ DeviceOK(NewDevice)
  /\ \A d : DeviceOK(d) => Same(d, AllocTransferRing(d))
<1>1. << >> \in Seq(TransferTRBs) /\ << >> \in Seq(Request) /\ WholeTransfers(<< >>)
  BY DEF WholeTransfers
<1>2. DeviceOK(NewDevice)
  BY <1>1, TableAssumption DEF NewDevice, DeviceOK, DeviceType, NoPort
<1>3. ASSUME NEW d, DeviceOK(d) PROVE Same(d, AllocTransferRing(d))
  <2> DEFINE none == << >>
  <2>1. /\ none \in Seq(TransferTRBs) /\ WholeTransfers(none) /\ none \in Seq(Request)
        /\ Len(none) <= kSetupStages /\ Len(none) <= kWaiters /\ TRUE \in BOOLEAN
    BY <1>1, TableAssumption
  <2> HIDE DEF none
  <2>2. Same(d, [d EXCEPT !.ep0 = none])
    BY <1>3, <2>1, Transfers
  <2> QED BY <2>2 DEF AllocTransferRing, none
<1> QED BY <1>2, <1>3

LEMMA Controlled ==
  ASSUME NEW d, DeviceOK(d), NEW request \in Request
  PROVE  /\ Same(d, Control(d, request))
         /\ Same(d, ControlForDriver(d, request))
<1>1. ASSUME NEW e, DeviceOK(e) PROVE Same(e, Control(e, request))
  <2> DEFINE s == Put(e.setup_stage_map_, MapKey(request), kSetupStages)
  <2> DEFINE t == e.ep0 \o ControlStages(request)
  <2>0. /\ e.setup_stage_map_ \in Seq(TransferTRBs) /\ Len(e.setup_stage_map_) <= kSetupStages
        /\ e.ep0 \in Seq(TransferTRBs) /\ WholeTransfers(e.ep0)
        /\ e.event_waiters_ \in Seq(Request) /\ Len(e.event_waiters_) <= kWaiters
        /\ MapKey(request) \in TransferTRBs /\ kSetupStages \in Nat /\ TRUE \in BOOLEAN
    BY <1>1, Stages, TableAssumption DEF DeviceOK, DeviceType
  <2>1. s \in Seq(TransferTRBs) /\ Len(s) <= kSetupStages
    BY <2>0, Tables
  <2>2. t \in Seq(TransferTRBs) /\ WholeTransfers(t)
    BY <2>0, MoreTransfers
  <2>3. Control(e, request) = [e EXCEPT !.ep0 = t, !.setup_stage_map_ = s]
    BY DEF Control
  <2> HIDE DEF s, t
  <2>4. Same(e, [e EXCEPT !.ep0 = t, !.setup_stage_map_ = s])
    BY <1>1, <2>0, <2>1, <2>2, Transfers
  <2> QED BY <2>3, <2>4
<1> DEFINE w == Put(d.event_waiters_, request, kWaiters)
<1> DEFINE e == [d EXCEPT !.event_waiters_ = w]
<1>2. Same(d, e)
  <2>0. /\ d.event_waiters_ \in Seq(Request) /\ Len(d.event_waiters_) <= kWaiters
        /\ d.ep0 \in Seq(TransferTRBs) /\ WholeTransfers(d.ep0)
        /\ d.setup_stage_map_ \in Seq(TransferTRBs) /\ Len(d.setup_stage_map_) <= kSetupStages
        /\ kWaiters \in Nat /\ TRUE \in BOOLEAN
    BY TableAssumption DEF DeviceOK, DeviceType
  <2>1. w \in Seq(Request) /\ Len(w) <= kWaiters
    BY <2>0, Tables
  <2> HIDE DEF w
  <2> QED BY <2>0, <2>1, Transfers
<1>3. ControlForDriver(d, request) = Control(e, request)
  BY DEF ControlForDriver
<1> HIDE DEF e
<1> QED BY <1>1, <1>2, <1>3 DEF Same

LEMMA Started ==
  ASSUME NEW d, DeviceOK(d)
  PROVE  Same(d, StartInitialize(d))
<1> DEFINE e == [d EXCEPT !.is_initialized_ = FALSE, !.initialize_phase_ = 1]
<1>1. Same(d, e)
  BY Phases
<1>2. StartInitialize(d) = Control(e, "device") /\ "device" \in Request
  BY DEF StartInitialize, GetDescriptor, Request
<1> HIDE DEF e
<1>3. Same(e, Control(e, "device"))
  BY <1>1, <1>2, Controlled DEF Same
<1> QED BY <1>1, <1>2, <1>3 DEF Same

LEMMA Configured ==
  ASSUME NEW d, DeviceOK(d), NEW endpoints
  PROVE  Same(d, OnEndpointsConfigured(d, endpoints))
<1>1. ASSUME NEW e, DeviceOK(e) PROVE Same(e, DriverEndpointsConfigured(e))
  <2> DEFINE f == [e EXCEPT !.hid = 1]
  <2>1. Same(e, f)
    BY <1>1, Phases
  <2>2. DriverEndpointsConfigured(e) = ControlForDriver(f, "SetProtocol") /\ "SetProtocol" \in Request
    BY DEF DriverEndpointsConfigured, Request
  <2> HIDE DEF f
  <2>3. Same(f, ControlForDriver(f, "SetProtocol"))
    BY <2>1, <2>2, Controlled DEF Same
  <2> QED BY <2>1, <2>2, <2>3 DEF Same
<1>2. Same(d, DriverEndpointsConfigured(d))
  BY <1>1
<1>3. Same(d, DriverEndpointsConfigured(DriverEndpointsConfigured(d)))
  BY <1>1, <1>2 DEF Same
<1>4. Same(d, d)
  BY Phases
<1> QED BY <1>2, <1>3, <1>4 DEF OnEndpointsConfigured

LEMMA Received ==
  ASSUME NEW d, DeviceOK(d), NEW trb \in TransferTRBs, NEW ok \in BOOLEAN, NEW endpoints
  PROVE  Same(d, OnTransferEventReceived(d, trb, ok, endpoints))
<1>1. ASSUME NEW e, DeviceOK(e), NEW request PROVE Same(e, OnControlCompleted(e, request, endpoints))
  <2>1. Same(e, e) /\ Same(e, InitializePhase3(e))
    BY <1>1, Phases DEF InitializePhase3
  <2>2. Same(e, DriverControlCompleted(e))
    <3>1. Same(e, [e EXCEPT !.hid = 2])
      BY <1>1, Phases
    <3> DEFINE f == [e EXCEPT !.hid = 2]
    <3>2. DriverControlCompleted(e) = IF e.hid = 1 THEN InterruptIn(f) ELSE e
      BY DEF DriverControlCompleted
    <3> HIDE DEF f
    <3>3. Same(f, InterruptIn(f))
      BY <3>1, Phases DEF Same, f
    <3> QED BY <2>1, <3>1, <3>2, <3>3 DEF Same, f
  <2>3. Same(e, InitializePhase1(e))
    <3> DEFINE f == [e EXCEPT !.initialize_phase_ = 2]
    <3>1. Same(e, f)
      BY <1>1, Phases
    <3>2. InitializePhase1(e) = Control(f, "config") /\ "config" \in Request
      BY DEF InitializePhase1, GetDescriptor, Request
    <3> HIDE DEF f
    <3>3. Same(f, Control(f, "config"))
      BY <3>1, <3>2, Controlled DEF Same
    <3> QED BY <3>1, <3>2, <3>3 DEF Same
  <2>4. Same(e, InitializePhase2(e, endpoints))
    <3> DEFINE f == [e EXCEPT !.initialize_phase_ = 3]
    <3>1. Same(e, f)
      BY <1>1, Phases
    <3>2. /\ InitializePhase2(e, endpoints) =
               IF endpoints = 0 THEN e ELSE Control(f, "SetConfiguration")
          /\ "SetConfiguration" \in Request
      BY DEF InitializePhase2, SetConfiguration, Request
    <3> HIDE DEF f
    <3>3. Same(f, Control(f, "SetConfiguration"))
      BY <3>1, <3>2, Controlled DEF Same
    <3> QED BY <2>1, <3>1, <3>2, <3>3 DEF Same
  <2> QED BY <2>1, <2>2, <2>3, <2>4 DEF OnControlCompleted
<1> DEFINE s == Delete(d.setup_stage_map_, trb)
<1> DEFINE f == [d EXCEPT !.setup_stage_map_ = s]
<1>2. Same(d, f)
  <2>0. /\ d.event_waiters_ \in Seq(Request) /\ Len(d.event_waiters_) <= kWaiters
        /\ d.ep0 \in Seq(TransferTRBs) /\ WholeTransfers(d.ep0)
        /\ d.setup_stage_map_ \in Seq(TransferTRBs) /\ Len(d.setup_stage_map_) <= kSetupStages
        /\ kSetupStages \in Nat /\ TRUE \in BOOLEAN
    BY TableAssumption DEF DeviceOK, DeviceType
  <2>1. s \in Seq(TransferTRBs) /\ Len(s) <= kSetupStages
    BY <2>0, Tables
  <2> HIDE DEF s
  <2> QED BY <2>0, <2>1, Transfers
<1>3. OnTransferEventReceived(d, trb, ok, endpoints) =
        CASE ~ok -> d
          [] ok /\ trb = NormalTRB -> InterruptIn(d)
          [] ok /\ trb # NormalTRB /\ Has(d.setup_stage_map_, trb) ->
               OnControlCompleted(f, trb.request, endpoints)
          [] OTHER -> d
  BY DEF OnTransferEventReceived, OnInterruptCompleted
<1> HIDE DEF f
<1>4. Same(d, OnControlCompleted(f, trb.request, endpoints))
  <2>1. Same(f, OnControlCompleted(f, trb.request, endpoints))
    BY <1>1, <1>2 DEF Same
  <2> QED BY <1>2, <2>1 DEF Same
<1>5. Same(d, d) /\ Same(d, InterruptIn(d))
  BY Phases
<1> QED BY <1>3, <1>4, <1>5

LEMMA Minimum ==
  ASSUME NEW T, T \subseteq Nat, T # {}
  PROVE  SE!Min(T) \in T /\ \A i \in T : SE!Min(T) <= i
<1>1. PICK m \in T : \A i \in T : <<i, m>> \notin OpToRel(<, Nat)
  BY WFMin, NatLessThanWellFounded
<1>2. ASSUME NEW i \in T PROVE m <= i
  <2>1. <<i, m>> \notin {ss \in Nat \X Nat : ss[1] < ss[2]}
    BY <1>1 DEF OpToRel
  <2>2. m \in Nat /\ i \in Nat /\ ~(i < m)
    BY <2>1
  <2> QED BY <2>2
<1> QED BY <1>2 DEF SE!Min

LEMMA EndedTransfer ==
  ASSUME NEW ep0 \in Seq(TransferTRBs), WholeTransfers(ep0), ep0 # << >>,
         NEW last, last = SE!SelectInSeq(ep0, LAMBDA trb : trb.stage = "status"),
         NEW reported, reported = SE!SelectInSeq(ep0, LAMBDA trb : trb.ioc)
  PROVE  /\ ep0[reported] \in TransferTRBs
         /\ SubSeq(ep0, last + 1, Len(ep0)) \in Seq(TransferTRBs)
         /\ WholeTransfers(SubSeq(ep0, last + 1, Len(ep0)))
<1> DEFINE S == {i \in 1 .. Len(ep0) : ep0[i].stage = "status"}
<1> DEFINE R == {i \in 1 .. Len(ep0) : ep0[i].ioc}
<1>1. /\ last = IF S # {} THEN SE!Min(S) ELSE 0
      /\ reported = IF R # {} THEN SE!Min(R) ELSE 0
  BY DEF SE!SelectInSeq
<1>2. Len(ep0) \in S
  BY DEF WholeTransfers
<1>3. R # {}
  <2>1. Reported(ep0, Len(ep0))
    BY <1>2 DEF WholeTransfers
  <2> QED BY <2>1, <1>2 DEF Reported
<1>4. S \subseteq Nat /\ R \subseteq Nat
  OBVIOUS
<1>5. last \in S /\ reported \in R
  <2> HIDE DEF S, R
  <2>1. SE!Min(S) \in S /\ SE!Min(R) \in R
    BY <1>2, <1>3, <1>4, Minimum
  <2> QED BY <1>1, <1>2, <1>3, <2>1
<1> DEFINE n == Len(ep0)
<1> DEFINE t == SubSeq(ep0, last + 1, n)
<1>6. /\ n \in Nat /\ last \in 1 .. n /\ ep0[last].stage = "status" /\ ep0[reported] \in TransferTRBs
  BY <1>5
<1>7. t \in Seq(TransferTRBs) /\ Len(t) = n - last /\ \A i \in 1 .. Len(t) : t[i] = ep0[last + i]
  BY <1>6
<1> HIDE DEF t, n
<1>8. t # << >> => t[Len(t)].stage = "status"
  <2>1. ASSUME t # << >> PROVE t[Len(t)] = ep0[n]
    <3>1. Len(t) \in 1 .. Len(t) /\ last + Len(t) = n
      BY <1>6, <1>7, <2>1
    <3> QED BY <1>7, <3>1
  <2> QED BY <1>2, <2>1 DEF n
<1>9. ASSUME NEW i \in 1 .. Len(t), t[i].stage = "status" PROVE Reported(t, i)
  <2> DEFINE j == last + i
  <2>a. j \in 1 .. n /\ t[i] = ep0[j] /\ j > 1 /\ (i = 1 => j - 1 = last)
    BY <1>6, <1>7
  <2>b. i > 1 => t[i - 1] = ep0[j - 1]
    <3>1. i > 1 => i - 1 \in 1 .. Len(t) /\ last + (i - 1) = j - 1
      BY <1>6, <1>7
    <3> QED BY <1>7, <3>1
  <2>1. j \in 1 .. n /\ t[i] = ep0[j] /\ j > 1 /\ (i > 1 => t[i - 1] = ep0[j - 1])
        /\ (i = 1 => j - 1 = last)
    BY <2>a, <2>b
  <2> HIDE DEF j
  <2>2. Reported(ep0, j)
    BY <1>9, <2>1 DEF WholeTransfers, n
  <2>3. CASE i = 1
    <3>1. ~(ep0[j - 1].stage = "data")
      BY <1>6, <2>1, <2>3
    <3> QED BY <2>1, <2>2, <3>1 DEF Reported
  <2>4. CASE i # 1
    BY <2>1, <2>2, <2>4 DEF Reported
  <2> QED BY <2>3, <2>4
<1> QED BY <1>6, <1>7, <1>8, <1>9 DEF WholeTransfers, t, n

-----------------------------------------------------------------------------
(***************************************************************************)
(* How the commands stay in order.                                         *)
(***************************************************************************)
LEMMA TrbOfCompletion ==
  ASSUME NEW u \in Seq(Events), NEW k \in Completions(u)
  PROVE  k \in 1 .. Len(u) /\ u[k] \in Events /\ u[k].trb \in 0 .. Entries - 1 /\ u[k].slot_id \in Slot
<1>1. k \in 1 .. Len(u) /\ u[k] \in Events /\ u[k].type = "CommandCompletion"
  BY DEF Completions
<1>2. u[k].trb \in 0 .. kCommandRing - 2 /\ u[k].slot_id \in Slot
  BY <1>1 DEF Events
<1> QED BY <1>1, <1>2, RingAssumption DEF Entries

\* Other events come and go.
LEMMA Renumbered ==
  ASSUME NEW c, NEW u, NEW m, InOrder(c, u, m), NEW v \in Seq(Events), NEW d \in {0, 1},
         \A k \in Completions(v) : k + d \in Completions(u) /\ v[k] = u[k + d],
         \A k \in Completions(u) : k - d \in Completions(v)
  PROVE  InOrder(c, v, m) /\ Executed(c, v) = Executed(c, u)
<1>1. \A k \in Completions(v) : /\ Issuer(c, v, k) = Issuer(c, u, k + d)
                                /\ Place(c, v, k) = Place(c, u, k + d)
  BY DEF Issuer, Place
<1>2. /\ \A k \in Completions(v) : k \in Int
      /\ \A k \in Completions(u) : k \in Int /\ (k - d) + d = k
  BY DEF Completions
<1>3. Executed(c, v) = Executed(c, u)
  <2>1. ASSUME NEW k \in Completions(v) PROVE Issuer(c, v, k) \in Executed(c, u)
    BY <1>1 DEF Executed
  <2>2. ASSUME NEW k \in Completions(u) PROVE Issuer(c, u, k) \in Executed(c, v)
    <3> DEFINE l == k - d
    <3>1. l \in Completions(v) /\ l + d = k
      BY <1>2
    <3> HIDE DEF l
    <3>2. Issuer(c, v, l) = Issuer(c, u, k)
      BY <1>1, <3>1
    <3> QED BY <3>1, <3>2 DEF Executed
  <2> QED BY <2>1, <2>2 DEF Executed
<1>4. Behind(c, v, m)
  <2>1. \A k \in Completions(v) : Place(c, v, k) >= Entries - m
    BY <1>1 DEF InOrder, Behind
  <2>2. ASSUME NEW k \in Completions(v), NEW l \in Completions(v), k < l
        PROVE  Place(c, v, k) < Place(c, v, l)
    <3>1. k + d < l + d
      BY <1>2, <2>2
    <3> QED BY <1>1, <3>1 DEF InOrder, Behind
  <2>3. ASSUME NEW o \in Entries - m .. Entries - 1 PROVE \E k \in Completions(v) : Place(c, v, k) = o
    <3>1. PICK k \in Completions(u) : Place(c, u, k) = o
      BY DEF InOrder, Behind
    <3> DEFINE l == k - d
    <3>2. l \in Completions(v) /\ l + d = k
      BY <1>2
    <3> HIDE DEF l
    <3> QED BY <1>1, <3>1, <3>2
  <2> QED BY <2>1, <2>2, <2>3 DEF Behind
<1>5. OneAddresses(c, v)
  <2>1. ASSUME NEW k \in Completions(v), NEW l \in Completions(v),
               Addresses(Issuer(c, v, k)), Addresses(Issuer(c, v, l))
        PROVE  k = l
    <3>1. k + d = l + d
      BY <1>1, <2>1 DEF InOrder, OneAddresses
    <3> QED BY <1>2, <3>1
  <2> QED BY <1>3, <2>1 DEF InOrder, OneAddresses
<1>6. \A k \in Completions(v) : 
        Issuer(c, v, k).type # "EnableSlot" => v[k].slot_id = Issuer(c, v, k).slot_id
  BY <1>1 DEF InOrder
<1> QED BY <1>3, <1>4, <1>5, <1>6 DEF InOrder

LEMMA OtherSent ==
  ASSUME NEW c, NEW u, NEW m, InOrder(c, u, m), NEW e \in Events, e.type # "CommandCompletion"
  PROVE  InOrder(c, Append(u, e), m) /\ Executed(c, Append(u, e)) = Executed(c, u)
<1> DEFINE v == Append(u, e)
<1>1. /\ u \in Seq(Events) /\ v \in Seq(Events) /\ Len(v) = Len(u) + 1 /\ v[Len(u) + 1] = e
      /\ \A k \in 1 .. Len(u) : v[k] = u[k]
  BY DEF InOrder
<1> HIDE DEF v
<1>2. \A k \in Completions(v) : k + 0 \in Completions(u) /\ v[k] = u[k + 0]
  BY <1>1 DEF Completions
<1>3. \A k \in Completions(u) : k - 0 \in Completions(v)
  BY <1>1 DEF Completions
<1> DEFINE d == 0
<1>4. d \in {0, 1}
  OBVIOUS
<1> HIDE DEF d
<1>5. InOrder(c, v, m) /\ Executed(c, v) = Executed(c, u)
  <2>1. \A k \in Completions(v) : k + d \in Completions(u) /\ v[k] = u[k + d]
    BY <1>2 DEF d
  <2>2. \A k \in Completions(u) : k - d \in Completions(v)
    BY <1>3 DEF d
  <2> QED BY <1>1, <1>4, <2>1, <2>2, Renumbered
<1> QED BY <1>5 DEF v

LEMMA OtherTaken ==
  ASSUME NEW c, NEW u, NEW m, InOrder(c, u, m), u # << >>, u[1].type # "CommandCompletion"
  PROVE  InOrder(c, Tail(u), m) /\ Executed(c, Tail(u)) = Executed(c, u)
<1> DEFINE v == Tail(u)
<1>1. /\ u \in Seq(Events) /\ v \in Seq(Events) /\ Len(v) = Len(u) - 1
      /\ \A k \in 1 .. Len(v) : v[k] = u[k + 1]
  BY DEF InOrder
<1> HIDE DEF v
<1> DEFINE d == 1
<1>2. \A k \in Completions(v) : k + d \in Completions(u) /\ v[k] = u[k + d]
  BY <1>1 DEF Completions
<1>3. \A k \in Completions(u) : k - d \in Completions(v)
  BY <1>1 DEF Completions
<1>4. d \in {0, 1}
  OBVIOUS
<1> HIDE DEF d
<1>5. InOrder(c, v, m) /\ Executed(c, v) = Executed(c, u)
  BY <1>1, <1>2, <1>3, <1>4, Renumbered
<1> QED BY <1>5 DEF v

\* The driver comes to the first completion: the command is the oldest of those
\* behind the controller.
HandledInOrder(c, q, u, m) ==
  /\ m - 1 \in Nat /\ InOrder(q, Tail(u), m - 1) /\ QueueOf(q) = QueueOf(c)
  /\ Executed(q, Tail(u)) \subseteq Executed(c, u) /\ Queued(q) = Queued(c)
  /\ Issuer(c, u, 1) \in Executed(c, u)
  /\ Addresses(Issuer(c, u, 1)) =>
       \A trb \in Queued(q) \cup Executed(q, Tail(u)) : ~Addresses(trb)

LEMMA FirstCompletion ==
  ASSUME NEW c, NEW u, NEW m, InOrder(c, u, m), 1 \in Completions(u),
         Len(QueueOf(c)) + m <= Entries
  PROVE  /\ u[1].trb \in 0 .. Entries - 1 /\ m # 0
         /\ Off(c, Entries, u[1].trb) >= Len(QueueOf(c))
<1>1. u \in Seq(Events) /\ m \in Nat /\ Len(QueueOf(c)) \in 0 .. Entries /\ Entries \in Nat
      /\ c.dequeue \in 0 .. Entries - 1
  BY Sizes DEF InOrder, Holds
<1>2. u[1].trb \in 0 .. Entries - 1
  BY <1>1, TrbOfCompletion
<1>3. Place(c, u, 1) >= Entries - m
  BY DEF InOrder, Behind
<1>4. Place(c, u, 1) \in 0 .. Entries - 1 /\ Place(c, u, 1) = Off(c, Entries, u[1].trb)
  BY <1>1, <1>2 DEF Place, Off
<1> QED BY <1>1, <1>2, <1>3, <1>4

LEMMA Handled ==
  ASSUME NEW c, NEW u, NEW m, InOrder(c, u, m), 1 \in Completions(u),
         Len(QueueOf(c)) + m <= Entries, NEW q, CommandForgotten(c, q, u[1].trb)
  PROVE  HandledInOrder(c, q, u, m)
<1> DEFINE v == Tail(u)
<1> DEFINE E == Entries
<1>0. u \in Seq(Events) /\ u # << >> /\ m \in Nat /\ E \in Nat
  BY Sizes DEF InOrder, Completions
<1>1. v \in Seq(Events) /\ Len(v) = Len(u) - 1 /\ \A k \in 1 .. Len(v) : v[k] = u[k + 1]
  BY <1>0
<1> HIDE DEF v, E
<1>2. \A k \in Completions(v) : k + 1 \in Completions(u) /\ v[k] = u[k + 1] /\ k \in Nat \ {0}
  BY <1>1 DEF Completions
<1>3. \A k \in Completions(u) : k # 1 => k - 1 \in Completions(v) /\ k \in Int
  BY <1>1 DEF Completions
<1>4. m # 0
  BY FirstCompletion
<1>5. ASSUME NEW k \in Completions(v)
      PROVE  Place(q, v, k) = Place(c, u, k + 1) /\ Issuer(q, v, k) = Issuer(c, u, k + 1)
             /\ Place(c, u, k + 1) > Place(c, u, 1) /\ Place(c, u, k + 1) \in Int
  <2> DEFINE l == k + 1
  <2>1. l \in Completions(u) /\ v[k] = u[l] /\ 1 < l
    BY <1>2
  <2> HIDE DEF l
  <2>2. u[l].trb \in 0 .. E - 1 /\ u[1].trb \in 0 .. E - 1
    BY <1>0, <2>1, TrbOfCompletion DEF E
  <2>3. Place(c, u, 1) < Place(c, u, l)
    BY <2>1 DEF InOrder, Behind
  <2>4. c.dequeue \in 0 .. E - 1
    BY DEF InOrder, Holds, E
  <2>5. Place(c, u, l) \in Int /\ Place(c, u, 1) \in Int
    <3>1. \A i \in 0 .. E - 1 : Off(c, E, i) \in Int
      BY <1>0, <2>4 DEF Off, E
    <3> QED BY <2>2, <3>1, Zenon DEF Place, E
  <2>6. u[l].trb # u[1].trb
    BY <2>3, <2>5, SMTT(30) DEF Place
  <2>7. Place(q, v, k) = Place(c, u, l)
    BY <2>1, <2>2 DEF Place, CommandForgotten, E
  <2>8. Issuer(q, v, k) = Issuer(c, u, l)
    <3>1. q.buf_[u[l].trb] = c.buf_[u[l].trb]
      BY <2>2, <2>6 DEF CommandForgotten, E
    <3> QED BY <2>1, <3>1 DEF Issuer
  <2> QED BY <2>3, <2>5, <2>7, <2>8 DEF l
<1>6. QueueOf(q) = QueueOf(c) /\ Queued(q) = Queued(c)
  BY DEF CommandForgotten, QueueOf, Queued
<1>7. Executed(q, v) \subseteq Executed(c, u)
  BY <1>2, <1>5 DEF Executed
<1> DEFINE p == m - 1
<1>8. p \in Nat /\ E - p = (E - m) + 1
  BY <1>0, <1>4
<1>9. Behind(q, v, p)
  <2>0. Place(c, u, 1) >= E - m /\ Place(c, u, 1) \in Int
    <3>1. u[1].trb \in 0 .. E - 1 /\ c.dequeue \in 0 .. E - 1
      BY <1>0, TrbOfCompletion DEF E, InOrder, Holds
    <3> QED BY <1>0, <3>1 DEF Place, Off, E, InOrder, Behind
  <2>1. \A k \in Completions(v) : Place(q, v, k) >= E - p
    BY <1>0, <1>5, <1>8, <2>0
  <2>2. ASSUME NEW k \in Completions(v), NEW l \in Completions(v), k < l
        PROVE  Place(q, v, k) < Place(q, v, l)
    <3>1. k + 1 < l + 1
      BY <1>2, <2>2
    <3>2. Place(c, u, k + 1) < Place(c, u, l + 1)
      BY <1>2, <3>1 DEF InOrder, Behind
    <3> QED BY <1>5, <3>2
  <2>3. ASSUME NEW o \in E - p .. E - 1 PROVE \E k \in Completions(v) : Place(q, v, k) = o
    <3>1. o \in E - m .. E - 1 /\ o > E - m
      BY <1>0, <1>8
    <3>2. PICK k \in Completions(u) : Place(c, u, k) = o
      BY <3>1 DEF InOrder, Behind, E
    <3>3. k # 1
      <4>1. PICK l \in Completions(u) : Place(c, u, l) = E - m
        <5>1. E - m \in E - m .. E - 1
          BY <1>0, <1>4
        <5> QED BY <5>1 DEF InOrder, Behind, E
      <4>2. CASE l = 1
        BY <1>0, <3>1, <3>2, <4>1, <4>2
      <4>3. CASE l # 1
        <5>1. 1 < l
          BY <4>3 DEF Completions
        <5>2. Place(c, u, 1) < Place(c, u, l)
          BY <5>1 DEF InOrder, Behind
        <5> QED BY <1>0, <2>0, <4>1, <5>2
      <4> QED BY <4>2, <4>3
    <3> DEFINE l == k - 1
    <3>4. l \in Completions(v) /\ l + 1 = k
      BY <1>3, <3>3
    <3> HIDE DEF l
    <3>5. Place(q, v, l) = o
      BY <1>5, <3>2, <3>4
    <3> QED BY <3>4, <3>5
  <2> QED BY <2>1, <2>2, <2>3 DEF Behind, E
<1>10. OneAddresses(q, v)
  <2>1. ASSUME NEW k \in Completions(v), NEW l \in Completions(v),
               Addresses(Issuer(q, v, k)), Addresses(Issuer(q, v, l))
        PROVE  k = l
    <3>1. k + 1 = l + 1
      BY <1>2, <1>5, <2>1 DEF InOrder, OneAddresses
    <3> QED BY <1>2, <3>1
  <2> QED BY <1>6, <1>7, <2>1 DEF InOrder, OneAddresses
<1>11. \A k \in Completions(v) :
         Issuer(q, v, k).type # "EnableSlot" => v[k].slot_id = Issuer(q, v, k).slot_id
  BY <1>2, <1>5 DEF InOrder
<1>12. InOrder(q, v, p)
  <2>1. q \in RingOf(kCommandRing, TRBs) /\ Holds(q, Entries, Len(QueueOf(q)))
    BY <1>6 DEF CommandForgotten, QueueOf
  <2> QED BY <1>1, <1>6, <1>7, <1>8, <1>9, <1>10, <1>11, <2>1 DEF InOrder
<1>13. ASSUME Addresses(Issuer(c, u, 1)), NEW trb \in Queued(q) \cup Executed(q, v)
       PROVE  ~Addresses(trb)
  <2>1. CASE trb \in Queued(q)
    BY <1>6, <1>13, <2>1 DEF InOrder, OneAddresses, Executed
  <2>2. CASE trb \in Executed(q, v)
    <3>1. PICK k \in Completions(v) : trb = Issuer(q, v, k)
      BY <2>2 DEF Executed
    <3>2. trb = Issuer(c, u, k + 1) /\ k + 1 \in Completions(u) /\ k + 1 # 1
      BY <1>2, <1>5, <3>1
    <3> QED BY <1>13, <3>2 DEF InOrder, OneAddresses
  <2> QED BY <2>1, <2>2
<1>14. Issuer(c, u, 1) \in Executed(c, u)
  BY DEF Executed
<1> QED BY <1>6, <1>7, <1>8, <1>12, <1>13, <1>14 DEF HandledInOrder, v

\* The driver sends a command.
LEMMA PushedInOrder ==
  ASSUME NEW c, NEW u, NEW m, InOrder(c, u, m), Len(QueueOf(c)) + m < Entries,
         NEW trb \in Command,
         Addresses(trb) => \A t \in Queued(c) \cup Executed(c, u) : ~Addresses(t),
         NEW q, CommandPushed(c, q, Len(QueueOf(c)), trb)
  PROVE  /\ InOrder(q, u, m) /\ Executed(q, u) = Executed(c, u)
         /\ Queued(q) = Queued(c) \cup {trb} /\ Len(QueueOf(q)) = Len(QueueOf(c)) + 1
<1> DEFINE E == Entries
<1> DEFINE n == Len(QueueOf(c))
<1>0. u \in Seq(Events) /\ m \in Nat /\ E \in Nat /\ n \in Nat /\ c.dequeue \in 0 .. E - 1 /\ n + m < E
  BY Sizes DEF InOrder, Holds
<1> HIDE DEF E
<1>1. ASSUME NEW k \in Completions(u)
      PROVE  Place(q, u, k) = Place(c, u, k) /\ Issuer(q, u, k) = Issuer(c, u, k)
  <2>1. u[k].trb \in 0 .. E - 1
    BY <1>0, TrbOfCompletion DEF E
  <2>2. Place(c, u, k) >= E - m /\ Place(c, u, k) \in Int
    BY <1>0, <2>1 DEF InOrder, Behind, Place, Off, E
  <2>3. Off(c, E, u[k].trb) # n
    BY <1>0, <2>2 DEF Place, E
  <2> HIDE DEF n
  <2>4. CommandPushed(c, q, n, trb)
    BY DEF n
  <2> QED BY <2>1, <2>3, <2>4 DEF CommandPushed, Place, Issuer, E
<1>2. Executed(q, u) = Executed(c, u)
  BY <1>1 DEF Executed
<1>3. QueueOf(q) = Append(QueueOf(c), trb) /\ QueueOf(c) \in Seq(TRBs)
  <2>1. c \in RingOf(kCommandRing, TRBs) /\ Holds(c, E, n) /\ kCommandRing \in Nat
    BY RingAssumption DEF InOrder, E
  <2> HIDE DEF n
  <2>2. Contents(c, E) \in Seq(TRBs)
    BY <2>1, Sizes, FrontOfRing DEF E
  <2> QED BY <2>2 DEF CommandPushed, QueueOf, E
<1>4. /\ Len(QueueOf(q)) = n + 1 /\ QueueOf(q)[n + 1] = trb
      /\ \A k \in 1 .. n : QueueOf(q)[k] = QueueOf(c)[k]
  BY <1>3
<1>5. Queued(q) = Queued(c) \cup {trb}
  <2>1. ASSUME NEW k \in 1 .. n + 1 PROVE QueueOf(q)[k] \in Queued(c) \cup {trb}
    BY <1>0, <1>4 DEF Queued
  <2>2. ASSUME NEW k \in 1 .. n PROVE QueueOf(c)[k] \in Queued(q)
    BY <1>0, <1>4 DEF Queued
  <2>3. trb \in Queued(q)
    BY <1>0, <1>4 DEF Queued
  <2> QED BY <1>4, <2>1, <2>2, <2>3 DEF Queued
<1>6. Behind(q, u, m)
  BY <1>1 DEF InOrder, Behind
<1>7. OneAddresses(q, u)
  <2>1. ASSUME NEW k \in 1 .. n + 1, NEW l \in 1 .. n + 1,
               Addresses(QueueOf(q)[k]), Addresses(QueueOf(q)[l])
        PROVE  k = l
    <3>1. \A i \in 1 .. n : QueueOf(c)[i] \in Queued(c)
      BY DEF Queued
    <3>2. CASE k = n + 1 \/ l = n + 1
      BY <1>0, <1>4, <2>1, <3>1, <3>2
    <3>3. CASE k \in 1 .. n /\ l \in 1 .. n
      BY <1>4, <2>1, <3>3 DEF InOrder, OneAddresses
    <3> QED BY <1>0, <3>2, <3>3
  <2>2. \A k, l \in Completions(u) : Addresses(Issuer(q, u, k)) /\ Addresses(Issuer(q, u, l)) => k = l
    BY <1>1 DEF InOrder, OneAddresses
  <2>3. \A s \in Queued(q), t \in Executed(q, u) : ~(Addresses(s) /\ Addresses(t))
    BY <1>2, <1>5 DEF InOrder, OneAddresses
  <2> QED BY <1>4, <2>1, <2>2, <2>3 DEF OneAddresses
<1>8. \A k \in Completions(u) :
         Issuer(q, u, k).type # "EnableSlot" => u[k].slot_id = Issuer(q, u, k).slot_id
  BY <1>1 DEF InOrder
<1>9. q \in RingOf(kCommandRing, TRBs) /\ Holds(q, Entries, Len(QueueOf(q)))
  BY <1>4 DEF CommandPushed
<1>10. Queued(q) \subseteq Command /\ Executed(q, u) \subseteq Command
  BY <1>2, <1>5 DEF InOrder
<1>11. InOrder(q, u, m)
  BY <1>0, <1>6, <1>7, <1>8, <1>9, <1>10 DEF InOrder
<1> QED BY <1>2, <1>4, <1>5, <1>11

\* The controller executes the command in front.
LEMMA ExecutedInOrder ==
  ASSUME NEW c, NEW u, NEW m, InOrder(c, u, m), QueueOf(c) # << >>,
         Len(QueueOf(c)) + m <= Entries, Front(c) = QueueOf(c)[1],
         NEW q, CommandFetched(c, q, Len(QueueOf(c))),
         NEW e \in Events, e.type = "CommandCompletion", e.trb = c.dequeue,
         Front(c).type # "EnableSlot" => e.slot_id = Front(c).slot_id
  PROVE  /\ m + 1 \in Nat /\ InOrder(q, Append(u, e), m + 1)
         /\ Front(c) \in Queued(c) /\ Queued(q) \subseteq Queued(c)
         /\ Executed(q, Append(u, e)) = Executed(c, u) \cup {Front(c)}
         /\ Len(QueueOf(q)) = Len(QueueOf(c)) - 1
<1> DEFINE E == Entries
<1> DEFINE n == Len(QueueOf(c))
<1> DEFINE v == Append(u, e)
<1> DEFINE last == Len(u) + 1
<1> DEFINE trb == Front(c)
<1>1. /\ QueueOf(c) \in Seq(TRBs) /\ QueueOf(q) = Tail(QueueOf(c))
  <2>1. c \in RingOf(kCommandRing, TRBs) /\ Holds(c, E, n) /\ kCommandRing \in Nat
    BY RingAssumption DEF InOrder
  <2> HIDE DEF n, E
  <2>2. Contents(c, E) \in Seq(TRBs)
    BY <2>1, Sizes, FrontOfRing DEF E
  <2> QED BY <2>2 DEF CommandFetched, QueueOf, E
<1>0. /\ u \in Seq(Events) /\ m \in Nat /\ E \in Nat /\ n \in Nat \ {0} /\ c.dequeue \in 0 .. E - 1
      /\ n + m <= E /\ last \in Nat
  BY Sizes, <1>1 DEF InOrder, Holds
<1>2. /\ Len(QueueOf(q)) = n - 1 /\ \A k \in 1 .. n - 1 : QueueOf(q)[k] = QueueOf(c)[k + 1]
  BY <1>1
<1>3. /\ v \in Seq(Events) /\ Len(v) = last /\ v[last] = e /\ \A k \in 1 .. Len(u) : v[k] = u[k]
  BY <1>0
<1> HIDE DEF E, n, v, trb
<1>4. Completions(v) = Completions(u) \cup {last} /\ \A k \in Completions(u) : k < last /\ k \in Int /\ v[k] = u[k]
  BY <1>0, <1>3 DEF Completions
<1>5. ASSUME NEW k \in Completions(u)
      PROVE  /\ Place(q, v, k) = Place(c, u, k) - 1 /\ Place(c, u, k) \in 1 .. E - 1
             /\ Issuer(q, v, k) = Issuer(c, u, k)
  <2>1. u[k].trb \in 0 .. E - 1
    BY <1>0, TrbOfCompletion DEF E
  <2>2. Place(c, u, k) >= E - m /\ Place(c, u, k) \in 0 .. E - 1
    BY <1>0, <2>1 DEF InOrder, Behind, Place, Off, E
  <2>3. u[k].trb # c.dequeue
    BY <1>0, <2>1, <2>2 DEF Place, Off, E
  <2>4. v[k] = u[k]
    BY <1>4
  <2>5. Off(q, E, u[k].trb) = Off(c, E, u[k].trb) - 1 /\ Off(c, E, u[k].trb) > 0
    BY <2>1, <2>3 DEF CommandFetched, E
  <2>6. Issuer(q, v, k) = Issuer(c, u, k)
    BY <2>4 DEF CommandFetched, Issuer
  <2>7. Place(q, v, k) = Place(c, u, k) - 1 /\ Place(c, u, k) > 0
    BY <2>4, <2>5 DEF Place, E
  <2> QED BY <1>0, <2>2, <2>6, <2>7
<1>6. Place(q, v, last) = E - 1 /\ Issuer(q, v, last) = trb
  BY <1>3 DEF CommandFetched, Place, Issuer, Front, trb, E
<1>7. Executed(q, v) = Executed(c, u) \cup {trb}
  <2>1. \A k \in Completions(u) : Issuer(c, u, k) \in Executed(q, v)
    BY <1>4, <1>5 DEF Executed
  <2>2. trb \in Executed(q, v)
    BY <1>4, <1>6 DEF Executed
  <2>3. ASSUME NEW k \in Completions(v) PROVE Issuer(q, v, k) \in Executed(c, u) \cup {trb}
    BY <1>4, <1>5, <1>6 DEF Executed
  <2> QED BY <2>1, <2>2, <2>3 DEF Executed
<1>8. trb \in Queued(c) /\ Queued(q) \subseteq Queued(c)
  <2>1. trb = QueueOf(c)[1] /\ 1 \in 1 .. n
    BY <1>0 DEF trb
  <2>2. ASSUME NEW k \in 1 .. n - 1 PROVE QueueOf(q)[k] \in Queued(c)
    <3>1. k + 1 \in 1 .. n
      BY <1>0
    <3> QED BY <1>2, <3>1 DEF Queued, n
  <2> QED BY <1>2, <2>1, <2>2 DEF Queued, n
<1> DEFINE p == m + 1
<1>9. p \in Nat /\ E - p = (E - m) - 1
  BY <1>0
<1> HIDE DEF p
<1>10. Behind(q, v, p)
  <2>1. ASSUME NEW k \in Completions(v) PROVE Place(q, v, k) >= E - p
    <3>1. CASE k \in Completions(u)
      BY <1>0, <1>5, <1>9, <3>1 DEF InOrder, Behind, E
    <3>2. CASE k = last
      BY <1>0, <1>6, <1>9, <3>2
    <3> QED BY <1>4, <3>1, <3>2
  <2>2. ASSUME NEW k \in Completions(v), NEW l \in Completions(v), k < l
        PROVE  Place(q, v, k) < Place(q, v, l)
    <3>0. k \in Completions(u)
      <4>1. l \in Int /\ l <= last
        BY <1>0, <1>4
      <4>2. k # last
        BY <1>0, <2>2, <4>1
      <4> QED BY <1>4, <4>2
    <3>1. CASE l \in Completions(u)
      <4>1. Place(c, u, k) < Place(c, u, l)
        BY <2>2, <3>0, <3>1 DEF InOrder, Behind
      <4> QED BY <1>5, <3>0, <3>1, <4>1
    <3>2. CASE l = last
      BY <1>0, <1>5, <1>6, <3>0, <3>2
    <3> QED BY <1>4, <3>1, <3>2
  <2>3. ASSUME NEW o \in E - p .. E - 1 PROVE \E k \in Completions(v) : Place(q, v, k) = o
    <3>1. CASE o = E - 1
      BY <1>4, <1>6, <3>1
    <3>2. CASE o # E - 1
      <4> DEFINE w == o + 1
      <4>1. w \in E - m .. E - 1 /\ w - 1 = o
        BY <1>0, <1>9, <3>2
      <4> HIDE DEF w
      <4>2. PICK k \in Completions(u) : Place(c, u, k) = w
        BY <4>1 DEF InOrder, Behind, E
      <4>3. Place(q, v, k) = o
        BY <1>5, <4>1, <4>2
      <4> QED BY <1>4, <4>3
    <3> QED BY <3>1, <3>2
  <2> QED BY <2>1, <2>2, <2>3 DEF Behind, E
<1>11. OneAddresses(q, v)
  <2>1. ASSUME NEW k \in 1 .. n - 1, NEW l \in 1 .. n - 1,
               Addresses(QueueOf(q)[k]), Addresses(QueueOf(q)[l])
        PROVE  k = l
    <3>1. k + 1 \in 1 .. n /\ l + 1 \in 1 .. n
      BY <1>0
    <3>2. k + 1 = l + 1
      BY <1>2, <2>1, <3>1 DEF InOrder, OneAddresses, n
    <3> QED BY <3>2
  <2>2. ASSUME Addresses(trb), NEW k \in 1 .. n - 1 PROVE ~Addresses(QueueOf(q)[k])
    <3>1. k + 1 \in 1 .. n /\ 1 \in 1 .. n /\ k + 1 # 1
      BY <1>0
    <3> QED BY <1>2, <2>2, <3>1 DEF InOrder, OneAddresses, n, trb
  <2>3. ASSUME NEW k \in Completions(v), NEW l \in Completions(v),
               Addresses(Issuer(q, v, k)), Addresses(Issuer(q, v, l))
        PROVE  k = l
    <3>1. \A i \in Completions(u) : Issuer(c, u, i) \in Executed(c, u)
      BY DEF Executed
    <3>2. \A t \in Executed(c, u) : ~(Addresses(trb) /\ Addresses(t))
      BY <1>8 DEF InOrder, OneAddresses
    <3>3. CASE k \in Completions(u) /\ l \in Completions(u)
      BY <1>5, <2>3, <3>3 DEF InOrder, OneAddresses
    <3>4. CASE k = last \/ l = last
      BY <1>4, <1>5, <1>6, <2>3, <3>1, <3>2, <3>4
    <3> QED BY <1>4, <3>3, <3>4
  <2>4. ASSUME NEW s \in Queued(q), NEW t \in Executed(q, v) PROVE ~(Addresses(s) /\ Addresses(t))
    <3>1. CASE t \in Executed(c, u)
      BY <1>8, <3>1 DEF InOrder, OneAddresses
    <3>2. CASE t = trb
      BY <1>2, <2>2, <3>2 DEF Queued
    <3> QED BY <1>7, <3>1, <3>2
  <2> QED BY <1>2, <2>1, <2>3, <2>4 DEF OneAddresses
<1>12. \A k \in Completions(v) :
         Issuer(q, v, k).type # "EnableSlot" => v[k].slot_id = Issuer(q, v, k).slot_id
  BY <1>3, <1>4, <1>5, <1>6 DEF InOrder, trb
<1>13. q \in RingOf(kCommandRing, TRBs) /\ Holds(q, Entries, Len(QueueOf(q)))
  BY <1>2 DEF CommandFetched, n
<1>14. Queued(q) \subseteq Command /\ Executed(q, v) \subseteq Command
  BY <1>7, <1>8 DEF InOrder
<1>15. InOrder(q, v, p)
  BY <1>3, <1>9, <1>10, <1>11, <1>12, <1>13, <1>14 DEF InOrder
<1> QED BY <1>2, <1>7, <1>8, <1>9, <1>15 DEF v, trb, p, n

-----------------------------------------------------------------------------
(***************************************************************************)
(* Steps that leave the commands alone.                                    *)
(***************************************************************************)
LEMMA BusyIsSmall ==
  /\ Cardinality(Busy) \in Nat /\ Cardinality(Busy) <= kPorts /\ kPorts <= Entries
  /\ kPorts \in Nat /\ Entries \in Nat
  /\ \A p \in Port \ Busy : Cardinality(Busy) < kPorts /\ Cardinality(Busy \cup {p}) = Cardinality(Busy) + 1
  /\ \A p \in Busy : Cardinality(Busy \ {p}) = Cardinality(Busy) - 1
<1>1. kPorts \in Nat /\ kPorts <= Entries /\ Entries \in Nat
  BY PortAssumption, RingAssumption DEF Entries
<1>2. IsFiniteSet(Port) /\ Cardinality(Port) = kPorts
  BY <1>1, FS_Interval, PortAssumption DEF Port
<1>3. Busy \in SUBSET Port
  BY DEF Busy, BusyIn
<1>4. IsFiniteSet(Busy) /\ Cardinality(Busy) <= kPorts
  BY <1>2, <1>3, FS_Subset
<1>5. Cardinality(Busy) \in Nat
  BY <1>4, FS_CardinalityType
<1>6. ASSUME NEW p \in Port \ Busy
      PROVE  Cardinality(Busy) < kPorts /\ Cardinality(Busy \cup {p}) = Cardinality(Busy) + 1
  <2>1. IsFiniteSet(Busy \cup {p}) /\ Cardinality(Busy \cup {p}) = Cardinality(Busy) + 1
    BY <1>4, FS_AddElement
  <2>2. Busy \cup {p} \in SUBSET Port
    BY <1>3
  <2>3. Cardinality(Busy \cup {p}) <= kPorts
    BY <1>2, <2>2, FS_Subset
  <2> QED BY <1>1, <1>5, <2>1, <2>3
<1>7. ASSUME NEW p \in Busy PROVE Cardinality(Busy \ {p}) = Cardinality(Busy) - 1
  BY <1>4, FS_RemoveElement
<1> QED BY <1>1, <1>4, <1>5, <1>6, <1>7

LEMMA StaysExpected ==
  ASSUME NEW trb, Expected(trb), DOMAIN devices_ \subseteq DOMAIN devices_',
         addressing_port # NoPort =>
           /\ addressing_port' = addressing_port
           /\ port_config_phase'[addressing_port] = port_config_phase[addressing_port]
  PROVE  Expected(trb)'
BY DEF Expected

\* The ports are as busy as before, and the one that is being addressed is where
\* it was; its device is not reset again.
Undisturbed ==
  /\ BusyIn(port_config_phase') = Busy
  /\ DOMAIN devices_ \subseteq DOMAIN devices_'
  /\ addressing_port # NoPort =>
       /\ addressing_port' = addressing_port
       /\ port_config_phase'[addressing_port] = port_config_phase[addressing_port]
       /\ bus'[addressing_port] = "default" => bus[addressing_port] = "default"
Others ==
  \/ Unhandled' = Unhandled
  \/ \E e \in Events : e.type # "CommandCompletion" /\ Unhandled' = Append(Unhandled, e)
  \/ Unhandled # << >> /\ Unhandled[1].type # "CommandCompletion" /\ Unhandled' = Tail(Unhandled)

LEMMA OtherOrder ==
  ASSUME NEW m, InOrder(cr_, Unhandled, m), Others
  PROVE  InOrder(cr_, Unhandled', m) /\ Executed(cr_, Unhandled') = Executed(cr_, Unhandled)
<1>1. CASE Unhandled' = Unhandled
  BY <1>1
<1>2. CASE \E e \in Events : e.type # "CommandCompletion" /\ Unhandled' = Append(Unhandled, e)
  <2>1. PICK e \in Events : e.type # "CommandCompletion" /\ Unhandled' = Append(Unhandled, e)
    BY <1>2
  <2>2. /\ InOrder(cr_, Append(Unhandled, e), m)
        /\ Executed(cr_, Append(Unhandled, e)) = Executed(cr_, Unhandled)
    BY <2>1, OtherSent
  <2> QED BY <2>1, <2>2
<1>3. CASE Unhandled # << >> /\ Unhandled[1].type # "CommandCompletion" /\ Unhandled' = Tail(Unhandled)
  <2>1. /\ InOrder(cr_, Tail(Unhandled), m)
        /\ Executed(cr_, Tail(Unhandled)) = Executed(cr_, Unhandled)
    BY <1>3, OtherTaken
  <2> QED BY <1>3, <2>1
<1> QED BY <1>1, <1>2, <1>3 DEF Others

LEMMA CommandsStay ==
  ASSUME CommandsInv, cr_' = cr_, Others, Undisturbed
  PROVE  CommandsInv'
<1>1. PICK m \in Nat : InOrder(cr_, Unhandled, m) /\ Len(Pending) + m <= Cardinality(Busy)
  BY DEF CommandsInv
<1>2. InOrder(cr_, Unhandled', m) /\ Executed(cr_, Unhandled') = Executed(cr_, Unhandled)
  BY <1>1, OtherOrder
<1>3. Pending' = Pending /\ Busy' = Busy
  BY DEF Pending, Undisturbed, Busy
<1>4. \E k \in Nat : InOrder(cr_', Unhandled', k) /\ Len(Pending') + k <= Cardinality(Busy')
  BY <1>1, <1>2, <1>3
<1>5. \A trb \in Queued(cr_) \cup Executed(cr_, Unhandled) : Expected(trb)'
  BY StaysExpected DEF CommandsInv, Undisturbed
<1>6. \A trb \in Executed(cr_, Unhandled) :
        trb.type = "AddressDevice" => bus'[addressing_port'] # "default"
  BY DEF CommandsInv, Undisturbed, Expected
<1> QED BY <1>2, <1>4, <1>5, <1>6 DEF CommandsInv

\* What became of devices and their ports.
DevicesStay ==
  \A s \in DOMAIN devices_ :
    s \in DOMAIN devices_' /\ (devices_[s].port # NoPort => devices_'[s].port # NoPort)
LEMMA TransfersStay ==
  ASSUME TransfersInv, DevicesStay, Unhandled \in Seq(Events),
         \/ Unhandled' = Unhandled
         \/ Unhandled # << >> /\ Unhandled' = Tail(Unhandled)
         \/ \E e \in Events :
              /\ Unhandled' = Append(Unhandled, e)
              /\ e.type = "Transfer" =>
                   e.slot_id \in DOMAIN devices_' /\ (e.ok => devices_'[e.slot_id].port # NoPort)
  PROVE  TransfersInv'
<1> DEFINE OK(e) ==
      e.type = "Transfer" =>
        e.slot_id \in DOMAIN devices_' /\ (e.ok => devices_'[e.slot_id].port # NoPort)
<1>1. \A k \in 1 .. Len(Unhandled) : OK(Unhandled[k])
  BY DEF TransfersInv, DevicesStay
<1>2. TransfersInv' <=> \A k \in 1 .. Len(Unhandled') : OK(Unhandled'[k])
  BY DEF TransfersInv
<1> HIDE DEF OK
<1>3. CASE Unhandled' = Unhandled
  BY <1>1, <1>2, <1>3
<1>4. CASE Unhandled # << >> /\ Unhandled' = Tail(Unhandled)
  <2>1. \A k \in 1 .. Len(Unhandled') : k + 1 \in 1 .. Len(Unhandled) /\ Unhandled'[k] = Unhandled[k + 1]
    BY <1>4
  <2> QED BY <1>1, <1>2, <2>1
<1>5. CASE \E e \in Events : Unhandled' = Append(Unhandled, e) /\ OK(e)
  <2>1. PICK e \in Events : Unhandled' = Append(Unhandled, e) /\ OK(e)
    BY <1>5
  <2>2. \A k \in 1 .. Len(Unhandled') :
          Unhandled'[k] = e \/ (k \in 1 .. Len(Unhandled) /\ Unhandled'[k] = Unhandled[k])
    BY <2>1
  <2> QED BY <1>1, <1>2, <2>1, <2>2
<1> QED BY <1>3, <1>4, <1>5 DEF OK

LEMMA Quiet ==
  ASSUME IInv, UNCHANGED <<er_, cr_, devices_>>, Undisturbed
  PROVE  /\ DevicesInv' /\ RingsInv' /\ CommandsInv' /\ TransfersInv'
         /\ Unhandled' = Unhandled /\ Unhandled \in Seq(Events)
<1>1. Unhandled' = Unhandled /\ Pending' = Pending
  BY DEF Unhandled, Pending
<1>2. RingsInv' /\ DevicesInv'
  BY <1>1 DEF IInv, RingsInv, DevicesInv
<1>3. CommandsInv'
  BY <1>1, CommandsStay DEF IInv, Others
<1>4. Unhandled \in Seq(Events)
  BY Queues DEF IInv
<1>5. TransfersInv'
  BY <1>1, <1>4, TransfersStay DEF IInv, DevicesStay
<1> QED BY <1>1, <1>2, <1>3, <1>4, <1>5

LEMMA StepUser ==
  ASSUME IInv, NEW p \in Port, Plug(p) \/ Unplug(p)
  PROVE  IInv'
<1>1. /\ UNCHANGED <<driver, interrupter, cr_, er_, slots>>
      /\ \E state \in {"attached", "absent"} : bus' = [bus EXCEPT ![p] = state]
      /\ \E register : Changed(p, register) /\ register \in PORTSC_Bitmap
      /\ faults' \in 0 .. MaxFaults
  <2>1. portsc[p] \in PORTSC_Bitmap /\ faults \in 0 .. MaxFaults /\ MaxFaults \in Nat
    BY TableAssumption DEF IInv, TypeInv
  <2>2. CASE Plug(p)
    <3> DEFINE register == [portsc[p] EXCEPT !.connected = TRUE, !.connect_change = TRUE]
    <3>1. register \in PORTSC_Bitmap
      BY <2>1 DEF PORTSC_Bitmap
    <3>2. Changed(p, register) /\ faults' = faults
      BY <2>2 DEF Plug
    <3> HIDE DEF register
    <3> QED BY <2>1, <2>2, <3>1, <3>2 DEF Plug
  <2>3. CASE Unplug(p)
    <3> DEFINE register == [portsc[p] EXCEPT !.connected = FALSE, !.enabled = FALSE, !.connect_change = TRUE]
    <3>1. register \in PORTSC_Bitmap
      BY <2>1 DEF PORTSC_Bitmap
    <3>2. Changed(p, register)
      BY <2>3 DEF Unplug
    <3>3. faults' \in 0 .. MaxFaults
      BY <2>1, <2>3 DEF Unplug
    <3> HIDE DEF register
    <3> QED BY <2>3, <3>1, <3>2, <3>3 DEF Unplug
  <2> QED BY <2>2, <2>3
<1>2. PICK state \in {"attached", "absent"} : bus' = [bus EXCEPT ![p] = state]
  BY <1>1
<1>3. \A q \in Port : bus'[q] = IF q = p THEN state ELSE bus[q]
  BY <1>2 DEF IInv, TypeInv
<1>4. bus' \in [Port -> {"absent", "attached", "default", "addressed"}]
  BY <1>2 DEF IInv, TypeInv
<1>5. portsc' \in [Port -> PORTSC_Bitmap] /\ owed' \subseteq Port
  <2>1. PICK register \in PORTSC_Bitmap : Changed(p, register)
    BY <1>1
  <2> QED BY <2>1 DEF IInv, TypeInv, Changed
<1>6. TypeInv'
  BY <1>1, <1>4, <1>5 DEF IInv, TypeInv, driver, interrupter
<1>7. Undisturbed
  BY <1>1, <1>3 DEF IInv, TypeInv, driver, Undisturbed, Busy
<1>8. PortsInv'
  BY <1>1, <1>3 DEF IInv, PortsInv, PortsAre, driver
<1>9. /\ DevicesInv' /\ RingsInv' /\ CommandsInv' /\ TransfersInv' /\ Unhandled' = Unhandled
  BY <1>1, <1>7, Quiet DEF driver
<1>10. InterruptsInv'
  BY <1>1, <1>9 DEF IInv, InterruptsInv, driver, interrupter
<1> QED BY <1>6, <1>8, <1>9, <1>10 DEF IInv

LEMMA StepInterrupt ==
  ASSUME IInv, Interrupt
  PROVE  IInv'
<1>1. UNCHANGED <<driver, hub, cr_, er_, slots, faults>> /\ ipe' = FALSE
      /\ event_handler_busy' = TRUE /\ message' = TRUE
  BY DEF Interrupt
<1>2. TypeInv' /\ PortsInv' /\ Undisturbed
  BY <1>1 DEF IInv, TypeInv, PortsInv, PortsAre, Undisturbed, Busy, driver, hub
<1>3. DevicesInv' /\ RingsInv' /\ CommandsInv' /\ TransfersInv' /\ Unhandled' = Unhandled
  BY <1>1, <1>2, Quiet DEF driver
<1>4. Unhandled # << >>
  <2> DEFINE n == Len(Unhandled)
  <2>1. Holds(er_, kEventRing, n) /\ er_.dequeue # er_.write_index_
    BY DEF IInv, RingsInv, Interrupt
  <2>2. n = 0 => er_.write_index_ = er_.dequeue
    <3> HIDE DEF n
    <3> QED BY <2>1, Sizes DEF Holds, Idx
  <2> QED BY <2>1, <2>2
<1>5. InterruptsInv'
  BY <1>1, <1>3, <1>4 DEF InterruptsInv
<1> QED BY <1>2, <1>3, <1>5 DEF IInv

LEMMA StepLoop ==
  ASSUME IInv, ProcessEvents \/ NoMoreEvents
  PROVE  IInv'
<1>1. /\ UNCHANGED <<port_config_phase, addressing_port, devices_, next_port, hub, ipe,
                     event_handler_busy, cr_, er_, slots, faults>>
      /\ \/ main = "wait" /\ main' = "loop" /\ message' = FALSE
         \/ main = "loop" /\ main' = "wait" /\ ~HasFront(er_) /\ message' = message
  BY DEF ProcessEvents, NoMoreEvents, interrupter
<1>2. PortsInv' /\ Undisturbed
  BY <1>1 DEF IInv, PortsInv, PortsAre, Undisturbed, Busy, hub
<1>3. TypeInv'
  BY <1>1 DEF IInv, TypeInv, hub
<1>4. DevicesInv' /\ RingsInv' /\ CommandsInv' /\ TransfersInv' /\ Unhandled' = Unhandled
  BY <1>1, <1>2, Quiet
<1>5. HasFront(er_) <=> Unhandled # << >>
  BY Queues DEF IInv
<1>6. InterruptsInv'
  BY <1>1, <1>4, <1>5 DEF IInv, InterruptsInv
<1> QED BY <1>2, <1>3, <1>4, <1>6 DEF IInv

LEMMA StepConfigurePort ==
  ASSUME IInv, ConfigurePort
  PROVE  IInv'
<1>0. next_port \in Port /\ kPorts \in Nat
  BY PortAssumption DEF IInv, TypeInv, ConfigurePort
<1>1. PortsAfter(port_config_phase, addressing_port)
  <2>1. CASE port_config_phase[next_port] = "kNotConnected"
    <3>1. ResetPort(next_port, port_config_phase, addressing_port)
      BY <2>1 DEF ConfigurePort
    <3> QED BY <1>0, <2>1, <3>1, PortReset DEF IInv, TypeInv, PortsInv
  <2>2. CASE port_config_phase[next_port] # "kNotConnected"
    <3>1. UNCHANGED <<port_config_phase, addressing_port, hub>>
      BY <2>2 DEF ConfigurePort
    <3> QED BY <3>1 DEF IInv, TypeInv, PortsInv, PortsAfter, BusStates, hub
  <2> QED BY <2>1, <2>2
<1>2. UNCHANGED <<devices_, cr_, er_, interrupter, slots, faults>>
  BY DEF ConfigurePort
<1>3. /\ main' \in {"Initialize", "wait", "loop"} /\ next_port' \in 1 .. kPorts + 1
      /\ main' = "Initialize" => next_port' \in Port
  BY <1>0 DEF ConfigurePort, Port
<1>4. TypeInv'
  BY <1>1, <1>2, <1>3 DEF IInv, TypeInv, PortsAfter, BusStates, interrupter
<1>5. PortsInv' /\ Undisturbed
  BY <1>1, <1>2 DEF PortsAfter, PortsInv, Undisturbed, Busy
<1>6. DevicesInv' /\ RingsInv' /\ CommandsInv' /\ TransfersInv' /\ Unhandled' = Unhandled
  BY <1>2, <1>5, Quiet
<1>7. InterruptsInv'
  BY <1>2, <1>6 DEF IInv, InterruptsInv, ConfigurePort, interrupter
<1> QED BY <1>4, <1>5, <1>6, <1>7 DEF IInv

\* Another event is sent than a completion.
LEMMA SentStep ==
  ASSUME IInv, NEW e \in Events, e.type # "CommandCompletion", Send(e), UNCHANGED <<cr_, main>>,
         Undisturbed, DevicesStay,
         e.type = "Transfer" =>
           e.slot_id \in DOMAIN devices_' /\ (e.ok => devices_'[e.slot_id].port # NoPort)
  PROVE  /\ RingsInv' /\ CommandsInv' /\ TransfersInv' /\ InterruptsInv' /\ EventSent(e)
<1>1. EventSent(e) /\ Unhandled \in Seq(Events)
  BY Sent, Queues DEF IInv
<1>2. Unhandled' = Append(Unhandled, e) /\ Pending' = Pending
  BY <1>1 DEF EventSent, Pending
<1>3. RingsInv'
  BY <1>1, <1>2 DEF IInv, RingsInv, EventSent
<1>4. CommandsInv'
  BY <1>2, CommandsStay DEF IInv, Others
<1>5. TransfersInv'
  BY <1>1, <1>2, TransfersStay DEF IInv
<1>6. Unhandled' # << >> /\ (Unhandled # << >> => Unhandled' # << >>)
  BY <1>1, <1>2
<1>7. InterruptsInv'
  BY <1>6 DEF IInv, InterruptsInv, Send
<1> QED BY <1>1, <1>3, <1>4, <1>5, <1>7

LEMMA StepSendPortEvent ==
  ASSUME IInv, NEW p \in Port, SendPortEvent(p)
  PROVE  IInv' /\ \E e \in Events : EventSent(e)
<1> DEFINE e == PortEvent(p)
<1>1. e \in Events /\ e.type = "PortStatusChange"
  BY DEF PortEvent, Events
<1>2. Send(e) /\ UNCHANGED <<driver, bus, portsc, cr_, slots, faults>> /\ owed' = owed \ {p}
  BY DEF SendPortEvent
<1> HIDE DEF e
<1>3. Undisturbed /\ DevicesStay /\ PortsInv' /\ DevicesInv'
  BY <1>2 DEF IInv, Undisturbed, DevicesStay, PortsInv, PortsAre, DevicesInv, Busy, driver
<1>4. RingsInv' /\ CommandsInv' /\ TransfersInv' /\ InterruptsInv' /\ EventSent(e)
  BY <1>1, <1>2, <1>3, SentStep DEF driver
<1>5. TypeInv'
  BY <1>2, <1>4 DEF IInv, TypeInv, EventSent, Send, driver
<1> QED BY <1>1, <1>3, <1>4, <1>5 DEF IInv

\* A transfer ends: whatever became of the device it belongs to.
LEMMA StepTransferEnds ==
  ASSUME IInv, NEW s \in DOMAIN devices_, NEW trb \in TransferTRBs, NEW ok \in BOOLEAN,
         TransferEnds(s, trb, ok), NEW d, Same(devices_[s], d), devices_' = [devices_ EXCEPT ![s] = d]
  PROVE  IInv' /\ \E e \in Events : EventSent(e)
<1> DEFINE e == TransferEvent(s, trb, ok)
<1>0. s \in Slot
  BY DEF IInv, DevicesInv
<1>1. e \in Events /\ e.type = "Transfer" /\ e.slot_id = s /\ e.ok = ok
  BY <1>0 DEF TransferEvent, Events
<1>2. /\ Send(e) /\ faults' \in 0 .. MaxFaults
      /\ UNCHANGED <<port_config_phase, addressing_port, main, next_port, hub, cr_, slots>>
  <2>1. faults \in 0 .. MaxFaults /\ MaxFaults \in Nat
    BY TableAssumption DEF IInv, TypeInv
  <2>2. faults' \in 0 .. MaxFaults
    BY <2>1 DEF TransferEnds
  <2> QED BY <2>2 DEF TransferEnds
<1> HIDE DEF e
<1>3. /\ DOMAIN devices_' = DOMAIN devices_
      /\ \A t \in DOMAIN devices_ : devices_'[t] = IF t = s THEN d ELSE devices_[t]
      /\ devices_' = [t \in DOMAIN devices_' |-> devices_'[t]]
  <2>1. devices_ = [t \in DOMAIN devices_ |-> devices_[t]]
    BY DEF IInv, DevicesInv
  <2> QED BY <2>1
<1>4. DevicesInv' /\ DevicesStay
  BY <1>3 DEF IInv, DevicesInv, DevicesStay, Same
<1>5. Undisturbed /\ PortsInv'
  BY <1>2, <1>3 DEF IInv, Undisturbed, PortsInv, PortsAre, Busy, hub
<1>6. ok => devices_'[s].port # NoPort
  BY <1>3 DEF TransferEnds, Present, Same
<1>7. RingsInv' /\ CommandsInv' /\ TransfersInv' /\ InterruptsInv' /\ EventSent(e)
  BY <1>1, <1>2, <1>3, <1>4, <1>5, <1>6, SentStep
<1>8. TypeInv'
  BY <1>2, <1>7 DEF IInv, TypeInv, EventSent, Send, hub
<1> QED BY <1>1, <1>4, <1>5, <1>7, <1>8 DEF IInv

LEMMA StepControlTransferEnds ==
  ASSUME IInv, NEW s \in Slot, NEW ok \in BOOLEAN, ControlTransferEnds(s, ok)
  PROVE  IInv' /\ \E e \in Events : EventSent(e)
<1> DEFINE d == devices_[s]
<1> DEFINE last == SE!SelectInSeq(d.ep0, LAMBDA trb : trb.stage = "status")
<1> DEFINE reported == SE!SelectInSeq(d.ep0, LAMBDA trb : trb.ioc)
<1> DEFINE rest == SubSeq(d.ep0, last + 1, Len(d.ep0))
<1>1. /\ s \in DOMAIN devices_ /\ d.ep0 # << >> /\ TransferEnds(s, d.ep0[reported], ok)
      /\ devices_' = [devices_ EXCEPT ![s].ep0 = rest, ![s].halted = ~ok]
  BY DEF ControlTransferEnds
<1>2. DeviceOK(d) /\ d.ep0 \in Seq(TransferTRBs) /\ WholeTransfers(d.ep0)
  BY <1>1 DEF IInv, DevicesInv, DeviceOK, DeviceType
<1>3. d.ep0[reported] \in TransferTRBs /\ rest \in Seq(TransferTRBs) /\ WholeTransfers(rest)
  BY <1>1, <1>2, EndedTransfer
<1> DEFINE halted == ~ok
<1> DEFINE new == [d EXCEPT !.ep0 = rest, !.halted = halted]
<1>4. devices_' = [devices_ EXCEPT ![s] = new]
  BY <1>1
<1> HIDE DEF last, reported, rest
<1>5. Same(d, new)
  <2>1. halted \in BOOLEAN
    OBVIOUS
  <2>2. /\ d.setup_stage_map_ \in Seq(TransferTRBs) /\ Len(d.setup_stage_map_) <= kSetupStages
        /\ d.event_waiters_ \in Seq(Request) /\ Len(d.event_waiters_) <= kWaiters
    BY <1>2 DEF DeviceOK, DeviceType
  <2> HIDE DEF halted, d
  <2> QED BY <1>2, <1>3, <2>1, <2>2, Transfers
<1> DEFINE trb == d.ep0[reported]
<1> HIDE DEF new, trb
<1>6. TransferEnds(s, trb, ok) /\ trb \in TransferTRBs
  BY <1>1, <1>3 DEF trb
<1> QED BY <1>1, <1>4, <1>5, <1>6, StepTransferEnds

LEMMA StepInterruptTransferEnds ==
  ASSUME IInv, NEW s \in Slot, NEW ok \in BOOLEAN, InterruptTransferEnds(s, ok)
  PROVE  IInv' /\ \E e \in Events : EventSent(e)
<1> DEFINE d == devices_[s]
<1>1. /\ s \in DOMAIN devices_ /\ d.in > 0 /\ TransferEnds(s, NormalTRB, ok)
      /\ devices_' = [devices_ EXCEPT ![s].in = @ - 1]
  BY DEF InterruptTransferEnds
<1>2. DeviceOK(d)
  BY <1>1 DEF IInv, DevicesInv
<1> DEFINE less == d.in - 1
<1> DEFINE new == [d EXCEPT !.in = less]
<1>3. devices_' = [devices_ EXCEPT ![s] = new]
  BY <1>1
<1>4. less \in Nat
  BY <1>1, <1>2 DEF DeviceOK, DeviceType
<1>5. Same(d, new)
  <2> HIDE DEF less, d
  <2> QED BY <1>2, <1>4 DEF Same, DeviceOK, DeviceType
<1>6. NormalTRB \in TransferTRBs
  BY DEF TransferTRBs
<1> HIDE DEF new
<1> QED BY <1>1, <1>3, <1>5, <1>6, StepTransferEnds

-----------------------------------------------------------------------------
(***************************************************************************)
(* Steps of commands.                                                      *)
(***************************************************************************)
LEMMA Kinds ==
  ASSUME NEW trb \in Command
  PROVE  /\ trb \in TRBs /\ trb.type \in {"EnableSlot", "AddressDevice", "ConfigureEndpoint"}
         /\ trb.type # "EnableSlot" => trb.slot_id \in Slot
         /\ trb.type = "AddressDevice" => trb.input_context.slot_context.root_hub_port_num \in Port
BY DEF Command, TRBs, InputContext, SlotContext

\* The commands of the invariant, with the room there is.
LEMMA Room ==
  ASSUME IInv
  PROVE  \E m \in Nat : /\ InOrder(cr_, Unhandled, m)
                        /\ Len(QueueOf(cr_)) + m <= Cardinality(Busy)
                        /\ Len(QueueOf(cr_)) + m <= Entries
                        /\ Cardinality(Busy) <= kPorts
<1>1. PICK m \in Nat : InOrder(cr_, Unhandled, m) /\ Len(Pending) + m <= Cardinality(Busy)
  BY DEF IInv, CommandsInv
<1>2. Pending = QueueOf(cr_)
  BY DEF Pending, QueueOf
<1>3. Len(Pending) \in Nat
  BY Queues DEF IInv
<1> QED BY <1>1, <1>2, <1>3, BusyIsSmall

\* The controller takes a command.
CommandTaken ==
  /\ Pending # << >> /\ Pending' = Tail(Pending)
  /\ cr_'.dequeue # cr_.dequeue /\ cr_'.write_index_ = cr_.write_index_

LEMMA StepExecuteCommand ==
  ASSUME IInv, ExecuteCommand
  PROVE  IInv' /\ CommandTaken /\ \E e \in Events : EventSent(e)
<1> DEFINE trb == Front(cr_)
<1>0. /\ Unhandled \in Seq(Events) /\ Pending # << >> /\ trb = Pending[1] /\ Pending = QueueOf(cr_)
      /\ Pending \in Seq(TRBs)
  BY Queues DEF IInv, ExecuteCommand, Pending, QueueOf
<1>1. PICK m \in Nat : /\ InOrder(cr_, Unhandled, m)
                       /\ Len(QueueOf(cr_)) + m <= Cardinality(Busy)
                       /\ Len(QueueOf(cr_)) + m <= Entries
                       /\ Cardinality(Busy) <= kPorts
  BY Room
<1> DEFINE n == Len(QueueOf(cr_))
<1>2. CommandFetched(cr_, cr_', n)
  <2>1. cr_ \in RingOf(kCommandRing, TRBs) /\ Holds(cr_, Entries, n) /\ n # 0
    BY <1>0, <1>1 DEF InOrder
  <2>2. cr_' = Fetch(cr_, kCommandRing)
    BY DEF ExecuteCommand
  <2> HIDE DEF n
  <2>3. CommandFetched(cr_, Fetch(cr_, kCommandRing), n)
    BY <2>1, FetchedCommand
  <2> QED BY <2>2, <2>3
<1>3. trb \in Queued(cr_) /\ trb \in Command /\ Expected(trb)
  <2>1. trb \in Queued(cr_)
    BY <1>0 DEF Queued
  <2> QED BY <1>1, <2>1 DEF InOrder, IInv, CommandsInv
<1>4. cr_.dequeue \in 0 .. kCommandRing - 2
  BY <1>2, RingAssumption DEF CommandFetched, Entries
<1> HIDE DEF trb
<1>5. \E slot_id \in Slot :
        /\ Send(CommandEvent(cr_.dequeue, slot_id))
        /\ trb.type # "EnableSlot" => slot_id = trb.slot_id
        /\ slots' \in 0 .. kDeviceSize
  <2>0. slots \in 0 .. kDeviceSize /\ kDeviceSize \in Nat
    BY PortAssumption DEF IInv, TypeInv
  <2>1. CASE trb.type = "EnableSlot"
    <3> DEFINE slot_id == IF slots < kDeviceSize THEN slots + 1 ELSE 0
    <3>1. /\ slots' = slots + (IF slot_id = 0 THEN 0 ELSE 1)
          /\ Send(CommandEvent(cr_.dequeue, slot_id))
      BY <2>1 DEF ExecuteCommand, trb
    <3>2. slot_id \in Slot /\ slots' \in 0 .. kDeviceSize
      BY <2>0, <3>1 DEF Slot
    <3> QED BY <2>1, <3>1, <3>2
  <2>2. CASE trb.type # "EnableSlot"
    <3>1. Send(CommandEvent(cr_.dequeue, trb.slot_id)) /\ slots' = slots
      BY <2>2 DEF ExecuteCommand, trb
    <3> QED BY <1>3, <2>0, <2>2, <3>1, Kinds
  <2> QED BY <2>1, <2>2
<1>6. PICK slot_id \in Slot : /\ Send(CommandEvent(cr_.dequeue, slot_id))
                              /\ trb.type # "EnableSlot" => slot_id = trb.slot_id
                              /\ slots' \in 0 .. kDeviceSize
  BY <1>5
<1> DEFINE e == CommandEvent(cr_.dequeue, slot_id)
<1>7. e \in Events /\ e.type = "CommandCompletion" /\ e.trb = cr_.dequeue /\ e.slot_id = slot_id
  BY <1>4 DEF CommandEvent, Events
<1> HIDE DEF e
<1>8. EventSent(e) /\ UNCHANGED <<message, event_handler_busy>> /\ ipe' = TRUE
  BY <1>6, <1>7, Sent DEF IInv, e, Send
<1>9. /\ m + 1 \in Nat /\ InOrder(cr_', Append(Unhandled, e), m + 1)
      /\ Queued(cr_') \subseteq Queued(cr_)
      /\ Executed(cr_', Append(Unhandled, e)) = Executed(cr_, Unhandled) \cup {trb}
      /\ Len(QueueOf(cr_')) = n - 1
  <2>1. Front(cr_) = QueueOf(cr_)[1] /\ QueueOf(cr_) # << >>
    BY <1>0 DEF trb
  <2>2. Front(cr_).type # "EnableSlot" => e.slot_id = Front(cr_).slot_id
    BY <1>6, <1>7 DEF trb
  <2> QED BY <1>1, <1>2, <1>7, <2>1, <2>2, ExecutedInOrder DEF trb
<1>10. Unhandled' = Append(Unhandled, e) /\ Unhandled' # << >> /\ Pending' = QueueOf(cr_')
  BY <1>0, <1>8 DEF EventSent, Pending, QueueOf
<1>11. RingsInv'
  BY <1>8, <1>9, <1>10 DEF RingsInv, EventSent, InOrder
<1>12. InterruptsInv'
  BY <1>8, <1>10 DEF IInv, InterruptsInv, ExecuteCommand
\* What the controller does to the device.
<1>13. /\ bus' \in [Port -> {"absent", "attached", "default", "addressed"}]
       /\ \A p \in Port : bus'[p] = "default" => bus[p] = "default"
       /\ trb.type = "AddressDevice" => bus'[addressing_port] # "default"
       /\ DevicesInv' /\ DevicesStay /\ DOMAIN devices_' = DOMAIN devices_
  <2>0. /\ bus \in [Port -> {"absent", "attached", "default", "addressed"}]
        /\ DevicesInv
    BY DEF IInv, TypeInv
  <2>1. CASE UNCHANGED <<bus, devices_>> /\ trb.type # "AddressDevice"
    BY <2>0, <2>1 DEF DevicesInv, DevicesStay
  <2>2. CASE trb.type = "AddressDevice"
    <3> DEFINE p == trb.input_context.slot_context.root_hub_port_num
    <3>1. p \in Port /\ p = addressing_port /\ trb.slot_id \in DOMAIN devices_
      BY <1>3, <2>2, Kinds DEF Expected
    <3>2. IF bus[p] = "default"
          THEN /\ bus' = [bus EXCEPT ![p] = "addressed"]
               /\ devices_' = [devices_ EXCEPT ![trb.slot_id].port = p]
          ELSE UNCHANGED <<bus, devices_>>
      BY <2>2 DEF ExecuteCommand, trb
    <3> HIDE DEF p
    <3>3. CASE bus[p] # "default"
      BY <2>0, <3>1, <3>2, <3>3 DEF DevicesInv, DevicesStay
    <3>4. CASE bus[p] = "default"
      <4> DEFINE s == trb.slot_id
      <4> DEFINE d == [devices_[s] EXCEPT !.port = p]
      <4>1. devices_' = [devices_ EXCEPT ![s] = d] /\ bus' = [bus EXCEPT ![p] = "addressed"]
        BY <3>2, <3>4
      <4>2. DeviceOK(devices_[s]) /\ p \in Port \cup {NoPort} /\ p # NoPort
        BY <2>0, <3>1, NoPortIsNone DEF DevicesInv
      <4>3. DeviceOK(d) /\ d.port = p
        BY <4>2 DEF DeviceOK, DeviceType
      <4> HIDE DEF d, s
      <4>4. /\ DOMAIN devices_' = DOMAIN devices_
            /\ \A t \in DOMAIN devices_ : devices_'[t] = IF t = s THEN d ELSE devices_[t]
            /\ devices_' = [t \in DOMAIN devices_' |-> devices_'[t]]
        <5>1. devices_ = [t \in DOMAIN devices_ |-> devices_[t]]
          BY <2>0 DEF DevicesInv
        <5> QED BY <4>1, <5>1
      <4>5. DevicesInv' /\ DevicesStay
        BY <2>0, <4>2, <4>3, <4>4 DEF DevicesInv, DevicesStay
      <4> QED BY <2>0, <3>1, <4>1, <4>4, <4>5
    <3> QED BY <3>3, <3>4
  <2>3. trb.type # "AddressDevice" => UNCHANGED <<bus, devices_>>
    BY DEF ExecuteCommand, trb
  <2> QED BY <2>1, <2>2, <2>3
<1>14. UNCHANGED <<port_config_phase, addressing_port, main, next_port, portsc, owed, faults>>
  BY DEF ExecuteCommand
<1>15. TypeInv'
  BY <1>2, <1>6, <1>8, <1>13, <1>14 DEF IInv, TypeInv, EventSent, CommandFetched
<1>16. PortsInv'
  BY <1>13, <1>14 DEF IInv, PortsInv, PortsAre
<1>17. TransfersInv'
  BY <1>0, <1>7, <1>10, <1>13, TransfersStay DEF IInv
<1>18. CommandsInv'
  <2>1. \A t \in Queued(cr_) \cup Executed(cr_, Unhandled) \cup {trb} : Expected(t)'
    BY <1>3, <1>13, <1>14, StaysExpected DEF IInv, CommandsInv
  <2>2. \A t \in Executed(cr_, Unhandled) \cup {trb} :
          t.type = "AddressDevice" => bus'[addressing_port'] # "default"
    <3>1. ASSUME NEW t \in Executed(cr_, Unhandled), t.type = "AddressDevice"
          PROVE  bus'[addressing_port'] # "default"
      <4>1. Expected(t) /\ bus[addressing_port] # "default"
        BY <3>1 DEF IInv, CommandsInv
      <4>2. addressing_port \in Port
        BY <3>1, <4>1 DEF Expected, IInv, TypeInv
      <4> QED BY <1>13, <1>14, <4>1, <4>2
    <3> QED BY <1>13, <1>14, <3>1
  <2> DEFINE k == m + 1
  <2>3. k \in Nat /\ Len(Pending') + k <= Cardinality(Busy')
    <3>1. Busy' = Busy
      BY <1>14 DEF Busy
    <3>2. Len(Pending') = n - 1 /\ n \in Nat /\ n + m <= Cardinality(Busy)
      BY <1>0, <1>1, <1>9, <1>10
    <3> HIDE DEF n
    <3> QED BY <3>1, <3>2, BusyIsSmall
  <2>4. InOrder(cr_', Unhandled', k)
    BY <1>9, <1>10
  <2>5. Executed(cr_', Unhandled') = Executed(cr_, Unhandled) \cup {trb}
    BY <1>9, <1>10
  <2> HIDE DEF k
  <2>6. \A t \in Queued(cr_') \cup Executed(cr_', Unhandled') : Expected(t)'
    BY <1>9, <2>1, <2>5
  <2>7. \A t \in Executed(cr_', Unhandled') :
          t.type = "AddressDevice" => bus'[addressing_port'] # "default"
    BY <2>2, <2>5
  <2> QED BY <2>3, <2>4, <2>6, <2>7 DEF CommandsInv
<1>19. CommandTaken
  BY <1>0, <1>2, <1>10 DEF CommandTaken, CommandFetched, QueueOf
<1> QED BY <1>7, <1>8, <1>11, <1>12, <1>13, <1>15, <1>16, <1>17, <1>18, <1>19 DEF IInv

\* An event is handled.
LEMMA Handling ==
  ASSUME IInv, ProcessEvent
  PROVE  /\ EventTaken /\ Unhandled \in Seq(Events) /\ InterruptsInv'
         /\ Front(er_) = Unhandled[1] /\ Unhandled[1] \in Events
         /\ UNCHANGED <<main, next_port, slots, faults, message, ipe>>
         /\ event_handler_busy' = FALSE /\ main = "loop"
<1>1. HasFront(er_) /\ er_' = Pop(er_, kEventRing) /\ main = "loop" /\ main' = main
      /\ event_handler_busy' = FALSE /\ UNCHANGED <<next_port, slots, faults, message, ipe>>
  BY DEF ProcessEvent, PopEvent
<1>2. EventTaken
  BY <1>1, TakenEvent DEF IInv
<1>3. Unhandled \in Seq(Events) /\ Front(er_) = Unhandled[1] /\ Unhandled[1] \in Events
  BY <1>1, Queues DEF IInv
<1>4. InterruptsInv'
  BY <1>1 DEF InterruptsInv
<1> QED BY <1>1, <1>2, <1>3, <1>4

\* What a step does to the queue of commands.
QueueStays ==
  /\ cr_'.write_index_ = cr_.write_index_ /\ cr_'.dequeue = cr_.dequeue
  /\ QueueOf(cr_') = QueueOf(cr_)
QueueGrows ==
  /\ cr_'.write_index_ # cr_.write_index_ /\ cr_'.dequeue = cr_.dequeue
  /\ \E trb \in TRBs : QueueOf(cr_') = Append(QueueOf(cr_), trb)

\* ... without a command before or after it.
LEMMA OtherHandled ==
  ASSUME IInv, EventTaken, Unhandled \in Seq(Events), Unhandled[1].type # "CommandCompletion",
         cr_' = cr_, Undisturbed, DevicesStay
  PROVE  RingsInv' /\ CommandsInv' /\ TransfersInv'
<1>1. Pending' = Pending /\ Unhandled # << >> /\ Unhandled' = Tail(Unhandled)
  BY DEF Pending, EventTaken
<1>2. RingsInv'
  BY <1>1 DEF IInv, RingsInv, EventTaken
<1>3. CommandsInv'
  BY <1>1, CommandsStay DEF IInv, Others
<1>4. TransfersInv'
  BY <1>1, TransfersStay DEF IInv
<1> QED BY <1>2, <1>3, <1>4

\* The commands on their way after the step.
OnTheWay(c, u) == Queued(c) \cup Executed(c, u)
Awaited(c, u) ==
  /\ \A t \in OnTheWay(c, u) : Expected(t)'
  /\ \A t \in Executed(c, u) : t.type = "AddressDevice" => bus'[addressing_port'] # "default"

\* ... and a command of a port that had none is sent.
LEMMA OtherHandledAndSent ==
  ASSUME IInv, EventTaken, Unhandled[1].type # "CommandCompletion",
         NEW trb \in Command, cr_' = Push(cr_, kCommandRing, trb), Expected(trb)',
         Awaited(cr_, Unhandled),
         Addresses(trb) => \A t \in OnTheWay(cr_, Unhandled) : ~Addresses(t),
         NEW p \in Port \ Busy, BusyIn(port_config_phase') = Busy \cup {p}
  PROVE  RingsInv' /\ CommandsInv' /\ cr_' \in RingOf(kCommandRing, TRBs) /\ QueueGrows
<1>1. PICK m \in Nat : /\ InOrder(cr_, Unhandled, m)
                       /\ Len(QueueOf(cr_)) + m <= Cardinality(Busy)
                       /\ Len(QueueOf(cr_)) + m <= Entries
                       /\ Cardinality(Busy) <= kPorts
  BY Room
<1> DEFINE v == Tail(Unhandled)
<1> DEFINE n == Len(QueueOf(cr_))
<1>2. InOrder(cr_, v, m) /\ Executed(cr_, v) = Executed(cr_, Unhandled) /\ Unhandled' = v
  BY <1>1, OtherTaken DEF EventTaken
<1>3. n \in Nat /\ n + m < Entries /\ n + m <= Cardinality(Busy) /\ Busy' = Busy \cup {p}
      /\ Cardinality(Busy') = Cardinality(Busy) + 1
  <2>1. n \in Nat
    BY <1>1, Queues DEF IInv, Pending, QueueOf
  <2>2. Busy' = Busy \cup {p}
    BY DEF Busy
  <2> HIDE DEF n
  <2>3. n + m <= Cardinality(Busy)
    BY <1>1 DEF n
  <2>4. Cardinality(Busy) < kPorts /\ Cardinality(Busy \cup {p}) = Cardinality(Busy) + 1
    BY BusyIsSmall
  <2> QED BY <2>1, <2>2, <2>3, <2>4, BusyIsSmall
<1>4. CommandPushed(cr_, cr_', n, trb)
  <2>1. cr_ \in RingOf(kCommandRing, TRBs) /\ Holds(cr_, Entries, n) /\ n < Entries /\ trb \in TRBs
    BY <1>1, <1>3, Kinds, BusyIsSmall DEF InOrder
  <2> HIDE DEF n
  <2>2. CommandPushed(cr_, Push(cr_, kCommandRing, trb), n, trb)
    BY <2>1, PushedCommand
  <2> QED BY <2>2
<1>5. /\ InOrder(cr_', v, m) /\ Executed(cr_', v) = Executed(cr_, v)
      /\ Queued(cr_') = Queued(cr_) \cup {trb} /\ Len(QueueOf(cr_')) = n + 1
  <2>1. Addresses(trb) => \A t \in Queued(cr_) \cup Executed(cr_, v) : ~Addresses(t)
    BY <1>2 DEF OnTheWay
  <2> DEFINE q == cr_'
  <2>2. CommandPushed(cr_, q, Len(QueueOf(cr_)), trb)
    BY <1>4
  <2> HIDE DEF q, v
  <2>3. /\ InOrder(q, v, m) /\ Executed(q, v) = Executed(cr_, v)
        /\ Queued(q) = Queued(cr_) \cup {trb} /\ Len(QueueOf(q)) = Len(QueueOf(cr_)) + 1
    BY <1>2, <1>3, <2>1, <2>2, PushedInOrder
  <2> QED BY <2>3 DEF q, v
<1>6. Pending' = QueueOf(cr_')
  BY DEF Pending, QueueOf
<1>7. RingsInv'
  BY <1>5, <1>6 DEF InOrder, RingsInv, EventTaken
<1>8. Len(Pending') + m <= Cardinality(Busy')
  <2>1. Len(Pending') = n + 1
    BY <1>5, <1>6
  <2> HIDE DEF n
  <2> QED BY <1>3, <2>1, BusyIsSmall
<1>9. \A t \in Queued(cr_') \cup Executed(cr_', Unhandled') : Expected(t)'
  BY <1>2, <1>5 DEF Awaited, OnTheWay
<1>10. \A t \in Executed(cr_', Unhandled') :
         t.type = "AddressDevice" => bus'[addressing_port'] # "default"
  BY <1>2, <1>5 DEF Awaited
<1>11. InOrder(cr_', Unhandled', m)
  BY <1>2, <1>5
<1>12. CommandsInv'
  BY <1>8, <1>9, <1>10, <1>11 DEF CommandsInv
<1>13. QueueGrows
  <2> HIDE DEF n
  <2> QED BY <1>4, Kinds DEF CommandPushed, QueueOf, QueueGrows
<1> QED BY <1>7, <1>11, <1>12, <1>13 DEF InOrder

\* A completion is handled.
LEMMA CompletionHandled ==
  ASSUME IInv, EventTaken, Unhandled[1].type = "CommandCompletion",
         NEW q, q = Forget(cr_, Unhandled[1].trb)
  PROVE  /\ \E m \in Nat : /\ InOrder(q, Unhandled', m)
                           /\ Len(QueueOf(q)) + m + 1 <= Cardinality(Busy)
         /\ Queued(q) \subseteq Queued(cr_)
         /\ Executed(q, Unhandled') \subseteq Executed(cr_, Unhandled)
         /\ Issuer(cr_, Unhandled, 1) \in Executed(cr_, Unhandled)
         /\ Issuer(cr_, Unhandled, 1) \in Command /\ Expected(Issuer(cr_, Unhandled, 1))
         /\ Issuer(cr_, Unhandled, 1).type # "EnableSlot" =>
              Unhandled[1].slot_id = Issuer(cr_, Unhandled, 1).slot_id
         /\ Addresses(Issuer(cr_, Unhandled, 1)) => \A t \in OnTheWay(q, Unhandled') : ~Addresses(t)
         /\ q.write_index_ = cr_.write_index_ /\ q.dequeue = cr_.dequeue
         /\ QueueOf(q) = QueueOf(cr_)
<1>1. PICK m \in Nat : /\ InOrder(cr_, Unhandled, m)
                       /\ Len(QueueOf(cr_)) + m <= Cardinality(Busy)
                       /\ Len(QueueOf(cr_)) + m <= Entries
                       /\ Cardinality(Busy) <= kPorts
  BY Room
<1>2. 1 \in Completions(Unhandled) /\ Unhandled' = Tail(Unhandled) /\ Pending = QueueOf(cr_)
  BY Queues DEF EventTaken, Completions, IInv, Pending, QueueOf
<1>3. /\ Unhandled[1].trb \in 0 .. Entries - 1 /\ m # 0
      /\ Off(cr_, Entries, Unhandled[1].trb) >= Len(Pending)
  BY <1>1, <1>2, FirstCompletion
<1>4. CommandForgotten(cr_, q, Unhandled[1].trb)
  <2>1. CommandForgotten(cr_, Forget(cr_, Unhandled[1].trb), Unhandled[1].trb)
    BY <1>3, ForgottenCommand DEF IInv
  <2> QED BY <2>1
<1>5. HandledInOrder(cr_, q, Unhandled, m)
  BY <1>1, <1>2, <1>4, Handled
<1> DEFINE k == m - 1
<1>6. k \in Nat /\ InOrder(q, Unhandled', k)
  BY <1>2, <1>5 DEF HandledInOrder
<1>7. Len(QueueOf(q)) + k + 1 <= Cardinality(Busy)
  <2>1. Len(QueueOf(q)) = Len(QueueOf(cr_)) /\ Len(QueueOf(cr_)) \in Nat
    BY <1>2, <1>5, Queues DEF HandledInOrder, IInv
  <2> QED BY <1>1, <2>1, BusyIsSmall
<1>8. \E l \in Nat : InOrder(q, Unhandled', l) /\ Len(QueueOf(q)) + l + 1 <= Cardinality(Busy)
  <2> HIDE DEF k
  <2> QED BY <1>6, <1>7
<1>9. /\ Issuer(cr_, Unhandled, 1) \in Executed(cr_, Unhandled)
      /\ Issuer(cr_, Unhandled, 1) \in Command /\ Expected(Issuer(cr_, Unhandled, 1))
  <2>1. Issuer(cr_, Unhandled, 1) \in Executed(cr_, Unhandled)
    BY <1>5 DEF HandledInOrder
  <2> QED BY <1>1, <2>1 DEF InOrder, IInv, CommandsInv
<1>10. Issuer(cr_, Unhandled, 1).type # "EnableSlot" =>
         Unhandled[1].slot_id = Issuer(cr_, Unhandled, 1).slot_id
  BY <1>1, <1>2 DEF InOrder
<1>11. q.write_index_ = cr_.write_index_ /\ q.dequeue = cr_.dequeue
  BY <1>4 DEF CommandForgotten
<1> QED BY <1>2, <1>5, <1>8, <1>9, <1>10, <1>11 DEF HandledInOrder, OnTheWay

LEMMA CompletionDone ==
  ASSUME IInv, EventTaken, Unhandled[1].type = "CommandCompletion",
         cr_' = Forget(cr_, Unhandled[1].trb), Awaited(cr_', Unhandled'),
         BusyIn(port_config_phase') = Busy
           \/ \E p \in Busy : BusyIn(port_config_phase') = Busy \ {p}
  PROVE  RingsInv' /\ CommandsInv' /\ cr_' \in RingOf(kCommandRing, TRBs) /\ QueueStays
<1> DEFINE q == Forget(cr_, Unhandled[1].trb)
<1>1. \E m \in Nat : InOrder(q, Unhandled', m) /\ Len(QueueOf(q)) + m + 1 <= Cardinality(Busy)
  BY CompletionHandled
<1>2. PICK m \in Nat : InOrder(cr_', Unhandled', m) /\ Len(QueueOf(cr_')) + m + 1 <= Cardinality(Busy)
  BY <1>1
<1>3. Pending' = QueueOf(cr_') /\ Len(QueueOf(cr_')) \in Nat
  <2>1. QueueOf(cr_') = QueueOf(cr_)
    BY CompletionHandled
  <2> QED BY <2>1, Queues DEF Pending, QueueOf, IInv
<1>4. Len(Pending') + m <= Cardinality(Busy')
  <2>1. Cardinality(Busy) <= Cardinality(Busy') + 1 /\ Cardinality(Busy') \in Nat
    <3>1. CASE Busy' = Busy
      BY <3>1, BusyIsSmall
    <3>2. CASE \E p \in Busy : Busy' = Busy \ {p}
      <4>1. PICK p \in Busy : Busy' = Busy \ {p}
        BY <3>2
      <4>2. Cardinality(Busy') = Cardinality(Busy) - 1
        BY <4>1, BusyIsSmall
      <4>3. Cardinality(Busy) # 0
        <5>1. IsFiniteSet(Busy)
          <6>1. Busy \in SUBSET Port /\ IsFiniteSet(Port)
            BY FS_Interval, PortAssumption DEF Busy, BusyIn, Port
          <6> QED BY <6>1, FS_Subset
        <5> QED BY <5>1, FS_EmptySet
      <4> QED BY <4>2, <4>3, BusyIsSmall
    <3> QED BY <3>1, <3>2 DEF Busy
  <2> QED BY <1>2, <1>3, <2>1, BusyIsSmall
<1>5. CommandsInv'
  BY <1>2, <1>4 DEF CommandsInv, Awaited, OnTheWay
<1>6. RingsInv'
  BY <1>2, <1>3 DEF RingsInv, InOrder, EventTaken
<1>7. QueueStays
  BY CompletionHandled DEF QueueStays
<1> QED BY <1>2, <1>5, <1>6, <1>7 DEF InOrder

LEMMA CompletionDoneAndSent ==
  ASSUME IInv, EventTaken, Unhandled[1].type = "CommandCompletion",
         NEW q, q = Forget(cr_, Unhandled[1].trb), NEW trb \in Command,
         cr_' = Push(q, kCommandRing, trb), Expected(trb)', Awaited(q, Unhandled'),
         Addresses(trb) => \A t \in OnTheWay(q, Unhandled') : ~Addresses(t),
         BusyIn(port_config_phase') = Busy
  PROVE  RingsInv' /\ CommandsInv' /\ cr_' \in RingOf(kCommandRing, TRBs) /\ QueueGrows
<1>1. PICK m \in Nat : InOrder(q, Unhandled', m) /\ Len(QueueOf(q)) + m + 1 <= Cardinality(Busy)
  BY CompletionHandled
<1> DEFINE n == Len(QueueOf(q))
<1>2. QueueOf(q) = QueueOf(cr_) /\ q.write_index_ = cr_.write_index_ /\ q.dequeue = cr_.dequeue
  BY CompletionHandled
<1>3. n \in Nat /\ n + m < Entries
  <2>1. n \in Nat
    BY <1>2, Queues DEF Pending, QueueOf, IInv
  <2> QED BY <1>1, <2>1, BusyIsSmall
<1>4. CommandPushed(q, cr_', n, trb)
  <2>1. q \in RingOf(kCommandRing, TRBs) /\ Holds(q, Entries, n) /\ n < Entries /\ trb \in TRBs
    BY <1>1, <1>3, Kinds, BusyIsSmall DEF InOrder
  <2> HIDE DEF n
  <2>2. CommandPushed(q, Push(q, kCommandRing, trb), n, trb)
    BY <2>1, PushedCommand
  <2> QED BY <2>2
<1> DEFINE r == cr_'
<1> DEFINE v == Unhandled'
<1>5. /\ InOrder(r, v, m) /\ Executed(r, v) = Executed(q, v)
      /\ Queued(r) = Queued(q) \cup {trb} /\ Len(QueueOf(r)) = Len(QueueOf(q)) + 1
  <2>1. CommandPushed(q, r, Len(QueueOf(q)), trb) /\ InOrder(q, v, m) /\ Len(QueueOf(q)) + m < Entries
        /\ (Addresses(trb) => \A t \in Queued(q) \cup Executed(q, v) : ~Addresses(t))
    BY <1>1, <1>3, <1>4 DEF OnTheWay
  <2> HIDE DEF r, v
  <2> QED BY <2>1, PushedInOrder
<1>6. Pending' = QueueOf(cr_') /\ Busy' = Busy
  BY DEF Pending, QueueOf, Busy
<1>7. Len(Pending') + m <= Cardinality(Busy')
  <2>1. Len(Pending') = n + 1 /\ n + m + 1 <= Cardinality(Busy) /\ n \in Nat
    BY <1>1, <1>3, <1>5, <1>6
  <2> HIDE DEF n
  <2> QED BY <1>6, <2>1, BusyIsSmall
<1>8. \A t \in Queued(cr_') \cup Executed(cr_', Unhandled') : Expected(t)'
  BY <1>5 DEF Awaited, OnTheWay
<1>9. \A t \in Executed(cr_', Unhandled') :
        t.type = "AddressDevice" => bus'[addressing_port'] # "default"
  BY <1>5 DEF Awaited
<1>10. CommandsInv'
  BY <1>5, <1>7, <1>8, <1>9 DEF CommandsInv
<1>11. RingsInv'
  BY <1>5, <1>6 DEF InOrder, RingsInv, EventTaken
<1>12. /\ cr_'.write_index_ # cr_.write_index_ /\ cr_'.dequeue = cr_.dequeue
       /\ QueueOf(cr_') = Append(QueueOf(cr_), trb)
  <2> HIDE DEF n
  <2> QED BY <1>2, <1>4 DEF CommandPushed, QueueOf
<1>13. QueueGrows
  BY <1>12, Kinds DEF QueueGrows
<1> QED BY <1>5, <1>10, <1>11, <1>13 DEF InOrder

-----------------------------------------------------------------------------
(***************************************************************************)
(* An event is handled: what the driver does about it.                     *)
(***************************************************************************)
LEMMA HandledWell ==
  ASSUME IInv, ProcessEvent,
         port_config_phase' \in [Port -> ConfigPhase], addressing_port' \in Port \cup {NoPort},
         bus' \in BusStates, portsc' \in [Port -> PORTSC_Bitmap], owed' \subseteq Port,
         cr_' \in RingOf(kCommandRing, TRBs),
         DevicesInv', PortsInv', RingsInv', CommandsInv', TransfersInv'
  PROVE  IInv'
<1>1. EventTaken /\ InterruptsInv' /\ UNCHANGED <<main, next_port, slots, faults, message, ipe>>
      /\ event_handler_busy' = FALSE
  BY Handling
<1>2. TypeInv'
  BY <1>1 DEF IInv, TypeInv, EventTaken, BusStates
<1> QED BY <1>1, <1>2 DEF IInv

\* Commands that are not about an address stay expected, whatever becomes of the
\* port that is being addressed; all do, when nothing becomes of it.
LEMMA OthersAwaited ==
  ASSUME IInv, NEW q, NEW u, OnTheWay(q, u) \subseteq OnTheWay(cr_, Unhandled),
         \A t \in OnTheWay(q, u) : ~Addresses(t), DOMAIN devices_ \subseteq DOMAIN devices_'
  PROVE  Awaited(q, u)
<1>1. ASSUME NEW t \in OnTheWay(q, u) PROVE Expected(t)'
  <2>1. Expected(t) /\ ~Addresses(t)
    BY DEF IInv, CommandsInv, OnTheWay
  <2> QED BY <2>1 DEF Expected, Addresses
<1>2. \A t \in Executed(q, u) : t.type # "AddressDevice"
  BY DEF OnTheWay, Addresses
<1> QED BY <1>1, <1>2 DEF Awaited

LEMMA StillAwaited ==
  ASSUME IInv, NEW q, NEW u, Queued(q) \subseteq Queued(cr_),
         Executed(q, u) \subseteq Executed(cr_, Unhandled), DOMAIN devices_ \subseteq DOMAIN devices_',
         addressing_port # NoPort =>
           /\ addressing_port' = addressing_port
           /\ port_config_phase'[addressing_port] = port_config_phase[addressing_port]
           /\ bus'[addressing_port] = "default" => bus[addressing_port] = "default"
  PROVE  Awaited(q, u)
<1>1. ASSUME NEW t \in OnTheWay(q, u) PROVE Expected(t)'
  <2>1. Expected(t)
    BY DEF IInv, CommandsInv, OnTheWay
  <2> QED BY <2>1, StaysExpected
<1>2. ASSUME NEW t \in Executed(q, u), t.type = "AddressDevice"
      PROVE  bus'[addressing_port'] # "default"
  <2>1. Expected(t) /\ bus[addressing_port] # "default"
    BY <1>2 DEF IInv, CommandsInv
  <2> QED BY <1>2, <2>1 DEF Expected
<1> QED BY <1>1, <1>2 DEF Awaited

\* One device is changed, or added.
LEMMA DeviceChanged ==
  ASSUME DevicesInv, NEW s \in Slot, NEW d, DeviceOK(d),
         s \in DOMAIN devices_ => Same(devices_[s], d),
         DOMAIN devices_' = DOMAIN devices_ \cup {s},
         \A t \in DOMAIN devices_ \cup {s} : devices_'[t] = IF t = s THEN d ELSE devices_[t],
         devices_' = [t \in DOMAIN devices_' |-> devices_'[t]]
  PROVE  DevicesInv' /\ DevicesStay
<1>1. DevicesInv'
  BY DEF DevicesInv
<1>2. DevicesStay
  BY DEF DevicesStay, Same
<1> QED BY <1>1, <1>2

LEMMA DeviceSame ==
  ASSUME DevicesInv, NEW s \in DOMAIN devices_, NEW d, Same(devices_[s], d),
         devices_' = [devices_ EXCEPT ![s] = d]
  PROVE  DevicesInv' /\ DevicesStay /\ DOMAIN devices_' = DOMAIN devices_
<1>1. DOMAIN devices_' = DOMAIN devices_ /\ s \in Slot /\ DeviceOK(d)
  BY DEF DevicesInv, Same
<1>2. \A t \in DOMAIN devices_ : devices_'[t] = IF t = s THEN d ELSE devices_[t]
  OBVIOUS
<1>3. devices_' = [t \in DOMAIN devices_' |-> devices_'[t]]
  <2>1. devices_ = [t \in DOMAIN devices_ |-> devices_[t]]
    BY DEF DevicesInv
  <2> QED BY <2>1
<1>4. /\ DOMAIN devices_' = DOMAIN devices_ \cup {s}
      /\ \A t \in DOMAIN devices_ \cup {s} : devices_'[t] = IF t = s THEN d ELSE devices_[t]
  BY <1>1, <1>2
<1>5. DevicesInv' /\ DevicesStay
  BY <1>1, <1>3, <1>4, DeviceChanged
<1> QED BY <1>1, <1>5

LEMMA StepPortStatusChange ==
  ASSUME IInv, ProcessEvent, Unhandled[1].type = "PortStatusChange"
  PROVE  IInv' /\ (QueueStays \/ QueueGrows)
<1> DEFINE p == Unhandled[1].port_id
<1>0. /\ EventTaken /\ Unhandled \in Seq(Events) /\ Front(er_) = Unhandled[1]
      /\ Unhandled[1] \in Events
  BY Handling
<1>1. p \in Port /\ OnPortStatusChange(p)
  BY <1>0 DEF ProcessEvent, Events
<1> HIDE DEF p
<1>2. TypeInv /\ DevicesInv /\ PortsInv /\ TransfersInv
  BY DEF IInv
<1>3. devices_' = devices_ /\ DevicesStay /\ DevicesInv' /\ TransfersInv'
  <2>1. devices_' = devices_
    BY <1>1 DEF OnPortStatusChange
  <2>2. DevicesStay /\ DevicesInv'
    BY <1>2, <2>1 DEF DevicesStay, DevicesInv
  <2> QED BY <1>0, <1>2, <2>1, <2>2, TransfersStay DEF EventTaken
<1>4. CASE PortsAfter(port_config_phase, addressing_port) /\ UNCHANGED cr_
  <2>1. Undisturbed
    BY <1>3, <1>4 DEF PortsAfter, Undisturbed, Busy
  <2>2. RingsInv' /\ CommandsInv'
    BY <1>0, <1>3, <1>4, <2>1, OtherHandled
  <2>3. cr_' \in RingOf(kCommandRing, TRBs) /\ QueueStays
    BY <1>2, <1>4 DEF TypeInv, QueueStays
  <2>4. PortsInv'
    BY <1>4 DEF PortsAfter, PortsInv
  <2>5. IInv'
    BY <1>3, <1>4, <2>2, <2>3, <2>4, HandledWell DEF PortsAfter
  <2> QED BY <2>3, <2>5
<1>5. ASSUME port_config_phase[p] = "kNotConnected"
      PROVE  PortsAfter(port_config_phase, addressing_port) /\ UNCHANGED cr_
  <2>1. ResetPort(p, port_config_phase, addressing_port) /\ UNCHANGED cr_
    BY <1>1, <1>5 DEF OnPortStatusChange
  <2> QED BY <1>1, <1>2, <1>5, <2>1, PortReset DEF TypeInv, PortsInv
<1>6. ASSUME UNCHANGED <<port_config_phase, addressing_port, hub, cr_>>
      PROVE  PortsAfter(port_config_phase, addressing_port) /\ UNCHANGED cr_
  BY <1>2, <1>6 DEF TypeInv, PortsInv, PortsAfter, BusStates, hub
<1>7. CASE /\ port_config_phase[p] = "kResettingPort"
           /\ portsc[p].enabled /\ portsc[p].reset_change /\ EnableSlot(p)
  <2>1. /\ port_config_phase' = [port_config_phase EXCEPT ![p] = "kEnablingSlot"]
        /\ portsc' = [portsc EXCEPT ![p].reset_change = FALSE]
        /\ cr_' = Push(cr_, kCommandRing, EnableSlotTRB)
        /\ UNCHANGED <<addressing_port, bus, owed>>
    BY <1>7 DEF EnableSlot, PushCommand
  <2>2. addressing_port = p /\ p # NoPort
    BY <1>1, <1>2, <1>7, NoPortIsNone DEF PortsInv, PortsAre
  <2>3. /\ \A q \in Port : port_config_phase'[q] =
             IF q = p THEN "kEnablingSlot" ELSE port_config_phase[q]
        /\ port_config_phase' \in [Port -> ConfigPhase]
    BY <1>2, <2>1 DEF TypeInv, ConfigPhase
  <2>4. portsc' \in [Port -> PORTSC_Bitmap]
    <3> DEFINE new == [portsc[p] EXCEPT !.reset_change = FALSE]
    <3>1. portsc \in [Port -> PORTSC_Bitmap] /\ portsc' = [portsc EXCEPT ![p] = new]
      BY <1>2, <2>1 DEF TypeInv
    <3>2. new \in PORTSC_Bitmap
      BY <1>1, <3>1 DEF PORTSC_Bitmap
    <3> HIDE DEF new
    <3> QED BY <3>1, <3>2
  <2>5. PortsInv'
    BY <1>1, <1>2, <1>7, <2>1, <2>3 DEF PortsInv, PortsAre
  <2>6. p \in Port \ Busy /\ BusyIn(port_config_phase') = Busy \cup {p}
    BY <1>1, <1>7, <2>3 DEF Busy, BusyIn
  <2>7. \A t \in OnTheWay(cr_, Unhandled) : ~Addresses(t)
    <3>1. ASSUME NEW t \in OnTheWay(cr_, Unhandled), Addresses(t) PROVE FALSE
      <4>1. Expected(t)
        BY DEF OnTheWay, IInv, CommandsInv
      <4> QED BY <1>7, <2>2, <3>1, <4>1 DEF Expected, Addresses
    <3> QED BY <3>1
  <2>8. Awaited(cr_, Unhandled)
    BY <1>3, <2>7, OthersAwaited
  <2> DEFINE trb == EnableSlotTRB
  <2>9. trb \in Command /\ Expected(trb)'
    <3>1. trb \in Command
      BY DEF EnableSlotTRB, Command, TRBs
    <3>2. Expected(trb)'
      BY <1>1, <2>1, <2>2, <2>3 DEF EnableSlotTRB, Expected
    <3> QED BY <3>1, <3>2
  <2> HIDE DEF trb
  <2>10. cr_' = Push(cr_, kCommandRing, trb)
    BY <2>1 DEF trb
  <2>11. RingsInv' /\ CommandsInv' /\ cr_' \in RingOf(kCommandRing, TRBs) /\ QueueGrows
    <3>1. Unhandled[1].type # "CommandCompletion"
      OBVIOUS
    <3> QED BY <1>0, <2>6, <2>7, <2>8, <2>9, <2>10, <3>1, OtherHandledAndSent
  <2>12. addressing_port' \in Port \cup {NoPort} /\ bus' \in BusStates /\ owed' \subseteq Port
    BY <1>2, <2>1 DEF TypeInv, BusStates
  <2>13. IInv'
    BY <1>3, <2>3, <2>4, <2>5, <2>11, <2>12, HandledWell
  <2> QED BY <2>11, <2>13
<1>8. CASE port_config_phase[p] = "kNotConnected"
  BY <1>4, <1>5, <1>8
<1>9. CASE port_config_phase[p] = "kResettingPort"
  <2>1. EnableSlot(p)
    BY <1>1, <1>9 DEF OnPortStatusChange
  <2>2. CASE ~(portsc[p].enabled /\ portsc[p].reset_change)
    <3>1. UNCHANGED <<port_config_phase, addressing_port, hub, cr_>>
      BY <2>1, <2>2 DEF EnableSlot, hub
    <3> QED BY <1>4, <1>6, <3>1
  <2> QED BY <1>7, <1>9, <2>1, <2>2
<1>10. CASE port_config_phase[p] \notin {"kNotConnected", "kResettingPort"}
  <2>1. UNCHANGED <<port_config_phase, addressing_port, hub, cr_>>
    BY <1>1, <1>10 DEF OnPortStatusChange
  <2> QED BY <1>4, <1>6, <2>1
<1> QED BY <1>8, <1>9, <1>10

LEMMA StepTransfer ==
  ASSUME IInv, ProcessEvent, Unhandled[1].type = "Transfer"
  PROVE  IInv' /\ (QueueStays \/ QueueGrows)
<1> DEFINE s == Unhandled[1].slot_id
<1> DEFINE trb == Unhandled[1].trb
<1> DEFINE ok == Unhandled[1].ok
<1>0. /\ EventTaken /\ Unhandled \in Seq(Events) /\ Front(er_) = Unhandled[1]
      /\ Unhandled[1] \in Events
  BY Handling
<1>1. OnTransfer(s, trb, ok)
  BY <1>0 DEF ProcessEvent
<1>2. trb \in TransferTRBs /\ ok \in BOOLEAN
  BY <1>0 DEF Events
<1>3. TypeInv /\ DevicesInv /\ PortsInv /\ TransfersInv
  BY DEF IInv
<1>4. s \in DOMAIN devices_ /\ (ok => devices_[s].port # NoPort)
  <2>1. 1 \in 1 .. Len(Unhandled)
    BY <1>0 DEF EventTaken
  <2> QED BY <1>3, <2>1 DEF TransfersInv
<1> DEFINE d == devices_[s]
<1> DEFINE endpoints == IF d.port = NoPort THEN 0 ELSE Endpoints[d.port]
<1> DEFINE received == OnTransferEventReceived(d, trb, ok, endpoints)
<1>5. /\ devices_' = [devices_ EXCEPT ![s] = received]
      /\ IF ok /\ received.is_initialized_ /\ port_config_phase[d.port] = "kInitializingDevice"
         THEN ConfigureEndpoints(d.port, s)
         ELSE UNCHANGED <<port_config_phase, cr_>>
      /\ UNCHANGED <<addressing_port, hub>>
  BY <1>1 DEF OnTransfer
<1> HIDE DEF s, trb, ok, endpoints
<1>6. DeviceOK(d)
  BY <1>3, <1>4 DEF DevicesInv
<1>7. Same(d, received)
  BY <1>2, <1>6, Received
<1> HIDE DEF received
<1>8. DevicesInv' /\ DevicesStay /\ DOMAIN devices_' = DOMAIN devices_
  BY <1>3, <1>4, <1>5, <1>7, DeviceSame
<1>9. TransfersInv'
  BY <1>0, <1>3, <1>8, TransfersStay DEF EventTaken
<1>10. /\ addressing_port' \in Port \cup {NoPort} /\ bus' \in BusStates
       /\ portsc' \in [Port -> PORTSC_Bitmap] /\ owed' \subseteq Port
  BY <1>3, <1>5 DEF TypeInv, BusStates, hub
<1>11. CASE UNCHANGED <<port_config_phase, cr_>>
  <2>1. Undisturbed /\ PortsInv'
    BY <1>3, <1>5, <1>8, <1>11 DEF Undisturbed, Busy, PortsInv, PortsAre, hub
  <2>2. RingsInv' /\ CommandsInv'
    <3>1. Unhandled[1].type # "CommandCompletion"
      OBVIOUS
    <3> QED BY <1>0, <1>8, <1>11, <2>1, <3>1, OtherHandled
  <2>3. port_config_phase' \in [Port -> ConfigPhase] /\ cr_' \in RingOf(kCommandRing, TRBs) /\ QueueStays
    BY <1>3, <1>11 DEF TypeInv, QueueStays
  <2>4. IInv'
    BY <1>8, <1>9, <1>10, <2>1, <2>2, <2>3, HandledWell
  <2> QED BY <2>3, <2>4
<1> DEFINE p == d.port
<1>12. CASE /\ ok /\ port_config_phase[p] = "kInitializingDevice"
            /\ port_config_phase' = [port_config_phase EXCEPT ![p] = "kConfiguringEndpoints"]
            /\ PushCommand(cr_, ConfigureEndpointTRB(s))
  <2>1. p \in Port
    BY <1>4, <1>6, <1>12 DEF DeviceOK, DeviceType
  <2> HIDE DEF p
  <2>2. /\ \A q \in Port : port_config_phase'[q] =
             IF q = p THEN "kConfiguringEndpoints" ELSE port_config_phase[q]
        /\ port_config_phase' \in [Port -> ConfigPhase]
    BY <1>3, <1>12 DEF TypeInv, ConfigPhase
  <2>3. PortsInv' /\ addressing_port # p
    BY <1>3, <1>5, <1>12, <2>1, <2>2 DEF PortsInv, PortsAre, hub
  <2>4. p \in Port \ Busy /\ BusyIn(port_config_phase') = Busy \cup {p}
    BY <1>12, <2>1, <2>2 DEF Busy, BusyIn
  <2>5. Awaited(cr_, Unhandled)
    <3>1. addressing_port # NoPort =>
            /\ addressing_port' = addressing_port
            /\ port_config_phase'[addressing_port] = port_config_phase[addressing_port]
            /\ bus'[addressing_port] = "default" => bus[addressing_port] = "default"
      BY <1>3, <1>5, <2>2, <2>3 DEF TypeInv, hub
    <3> QED BY <1>8, <3>1, StillAwaited
  <2>0. \E t \in Command : t = ConfigureEndpointTRB(s) /\ s \in DOMAIN devices_'
    <3>1. s \in Slot /\ s \in DOMAIN devices_'
      BY <1>3, <1>4, <1>8 DEF DevicesInv
    <3>2. ConfigureEndpointTRB(s) \in Command
      BY <3>1 DEF ConfigureEndpointTRB, Command, TRBs
    <3> QED BY <3>1, <3>2
  <2> PICK command \in Command : command = ConfigureEndpointTRB(s) /\ s \in DOMAIN devices_'
    BY <2>0
  <2>6. Expected(command)' /\ ~Addresses(command)
    <3>1. command.type = "ConfigureEndpoint" /\ command.slot_id = s
      BY DEF ConfigureEndpointTRB
    <3> QED BY <3>1 DEF Expected, Addresses
  <2>7. cr_' = Push(cr_, kCommandRing, command)
    BY <1>12 DEF PushCommand
  <2>8. RingsInv' /\ CommandsInv' /\ cr_' \in RingOf(kCommandRing, TRBs) /\ QueueGrows
    <3>1. Unhandled[1].type # "CommandCompletion"
      OBVIOUS
    <3> QED BY <1>0, <2>4, <2>5, <2>6, <2>7, <3>1, OtherHandledAndSent
  <2>9. IInv'
    BY <1>8, <1>9, <1>10, <2>2, <2>3, <2>8, HandledWell
  <2> QED BY <2>8, <2>9
<1> QED BY <1>5, <1>11, <1>12 DEF ConfigureEndpoints

(***************************************************************************)
(* A command has completed.                                                *)
(***************************************************************************)
\* What the handlers of the three commands are given.
Completed(q) ==
  /\ EventTaken /\ Unhandled \in Seq(Events) /\ Unhandled[1] \in Events
  /\ Unhandled[1].type = "CommandCompletion" /\ Unhandled[1].slot_id \in Slot
  /\ q = Forget(cr_, Unhandled[1].trb)
  /\ Queued(q) \subseteq Queued(cr_) /\ Executed(q, Unhandled') \subseteq Executed(cr_, Unhandled)
  /\ Issuer(cr_, Unhandled, 1) \in Executed(cr_, Unhandled)
  /\ Issuer(cr_, Unhandled, 1) \in Command /\ Expected(Issuer(cr_, Unhandled, 1))
  /\ Issuer(cr_, Unhandled, 1).type # "EnableSlot" =>
       Unhandled[1].slot_id = Issuer(cr_, Unhandled, 1).slot_id
  /\ Addresses(Issuer(cr_, Unhandled, 1)) => \A t \in OnTheWay(q, Unhandled') : ~Addresses(t)
  /\ OnCommandCompletion(Unhandled[1].trb, Unhandled[1].slot_id)

LEMMA Completing ==
  ASSUME IInv, ProcessEvent, Unhandled[1].type = "CommandCompletion"
  PROVE  Completed(Forget(cr_, Unhandled[1].trb))
<1> DEFINE q == Forget(cr_, Unhandled[1].trb)
<1>0. /\ EventTaken /\ Unhandled \in Seq(Events) /\ Front(er_) = Unhandled[1]
      /\ Unhandled[1] \in Events
  BY Handling
<1>1. OnCommandCompletion(Unhandled[1].trb, Unhandled[1].slot_id)
  BY <1>0 DEF ProcessEvent
<1>2. Unhandled[1].slot_id \in Slot
  BY <1>0 DEF Events
<1>3. q = Forget(cr_, Unhandled[1].trb)
  OBVIOUS
<1> HIDE DEF q
<1>4. Completed(q)
  BY <1>0, <1>1, <1>2, <1>3, CompletionHandled DEF Completed
<1> QED BY <1>4 DEF q

LEMMA StepSlotEnabled ==
  ASSUME IInv, ProcessEvent, NEW q, Completed(q), Issuer(cr_, Unhandled, 1).type = "EnableSlot"
  PROVE  IInv' /\ QueueGrows
<1> DEFINE p == addressing_port
<1> DEFINE s == Unhandled[1].slot_id
<1>0. TypeInv /\ DevicesInv /\ PortsInv /\ TransfersInv
  BY DEF IInv
<1>1. p \in Port /\ p # NoPort /\ port_config_phase[p] = "kEnablingSlot" /\ s \in Slot
  BY <1>0 DEF Completed, Expected, TypeInv
<1>2. AddressDevice(p, s, q)
  BY <1>1 DEF Completed, OnCommandCompletion, Issuer
<1> HIDE DEF p, s
<1> DEFINE d == AllocTransferRing(IF s \in DOMAIN devices_ THEN devices_[s] ELSE NewDevice)
<1>3. /\ devices_' = [AllocDevice(s) EXCEPT ![s] = AllocTransferRing(@)]
      /\ port_config_phase' = [port_config_phase EXCEPT ![p] = "kAddressingDevice"]
      /\ cr_' = Push(q, kCommandRing, AddressDeviceTRB(s, InitializeContexts(p)))
      /\ UNCHANGED <<addressing_port, hub>>
  BY <1>2 DEF AddressDevice, PushCommand
<1>4. /\ DOMAIN devices_' = DOMAIN devices_ \cup {s}
      /\ \A t \in DOMAIN devices_ \cup {s} : devices_'[t] = IF t = s THEN d ELSE devices_[t]
      /\ devices_' = [t \in DOMAIN devices_' |-> devices_'[t]]
  <2> DEFINE D == AllocDevice(s)
  <2>1. /\ DOMAIN D = DOMAIN devices_ \cup {s}
        /\ \A t \in DOMAIN D : D[t] = IF t \in DOMAIN devices_ THEN devices_[t] ELSE NewDevice
        /\ D = [t \in DOMAIN D |-> D[t]]
    BY DEF AllocDevice
  <2>2. devices_' = [D EXCEPT ![s] = AllocTransferRing(D[s])]
    BY <1>3
  <2> HIDE DEF D
  <2> QED BY <2>1, <2>2
<1>5. DeviceOK(d) /\ (s \in DOMAIN devices_ => Same(devices_[s], d))
  BY <1>0, Fresh DEF DevicesInv, Same
<1> HIDE DEF d
<1>6. DevicesInv' /\ DevicesStay
  BY <1>0, <1>1, <1>4, <1>5, DeviceChanged
<1>7. TransfersInv'
  BY <1>0, <1>6, TransfersStay DEF Completed, EventTaken
<1>8. /\ \A r \in Port : port_config_phase'[r] =
           IF r = p THEN "kAddressingDevice" ELSE port_config_phase[r]
      /\ port_config_phase' \in [Port -> ConfigPhase]
  BY <1>0, <1>3 DEF TypeInv, ConfigPhase
<1>9. PortsInv'
  BY <1>0, <1>1, <1>3, <1>8 DEF PortsInv, PortsAre, hub
<1>10. BusyIn(port_config_phase') = Busy
  BY <1>1, <1>8 DEF Busy, BusyIn
<1>11. /\ addressing_port' \in Port \cup {NoPort} /\ bus' \in BusStates
       /\ portsc' \in [Port -> PORTSC_Bitmap] /\ owed' \subseteq Port
  BY <1>0, <1>3 DEF TypeInv, BusStates, hub
<1>12. \A t \in OnTheWay(q, Unhandled') : ~Addresses(t)
  BY DEF Completed, Addresses
<1>13. Awaited(q, Unhandled')
  <2>1. OnTheWay(q, Unhandled') \subseteq OnTheWay(cr_, Unhandled)
    BY DEF Completed, OnTheWay
  <2> QED BY <1>4, <1>12, <2>1, OthersAwaited
<1>14. AddressDeviceTRB(s, InitializeContexts(p)) \in Command
  <2>1. InitializeContexts(p) \in InputContext
    BY <1>1 DEF InitializeContexts, InputContext, SlotContext
  <2> QED BY <1>1, <2>1 DEF AddressDeviceTRB, Command, TRBs
<1> PICK command \in Command : command = AddressDeviceTRB(s, InitializeContexts(p))
  BY <1>14
<1>18. Expected(command)'
  <2>1. /\ command.type = "AddressDevice" /\ command.slot_id = s
        /\ command.input_context.slot_context.root_hub_port_num = p
    BY DEF InitializeContexts, AddressDeviceTRB
  <2>2. addressing_port' = p
    BY <1>3 DEF p
  <2>3. s \in DOMAIN devices_' /\ port_config_phase'[p] = "kAddressingDevice"
    BY <1>1, <1>4, <1>8
  <2> QED BY <1>1, <2>1, <2>2, <2>3 DEF Expected
<1>15. cr_' = Push(q, kCommandRing, command)
  BY <1>3
<1>16. RingsInv' /\ CommandsInv' /\ cr_' \in RingOf(kCommandRing, TRBs) /\ QueueGrows
  <2>1. EventTaken /\ Unhandled[1].type = "CommandCompletion" /\ q = Forget(cr_, Unhandled[1].trb)
    BY DEF Completed
  <2> QED BY <1>10, <1>12, <1>13, <1>15, <1>18, <2>1, CompletionDoneAndSent
<1>17. IInv'
  BY <1>6, <1>7, <1>8, <1>9, <1>11, <1>16, HandledWell
<1> QED BY <1>16, <1>17

\* The command read from the ring, and the port, of the other two completions.
LEMMA StepAddressed ==
  ASSUME IInv, ProcessEvent, NEW q, Completed(q), Issuer(cr_, Unhandled, 1).type = "AddressDevice"
  PROVE  IInv' /\ QueueStays
<1> DEFINE s == Unhandled[1].slot_id
<1> DEFINE p == devices_[s].port
<1>0. TypeInv /\ DevicesInv /\ PortsInv /\ TransfersInv
  BY DEF IInv
<1>1. /\ addressing_port \in Port /\ addressing_port # NoPort
      /\ port_config_phase[addressing_port] = "kAddressingDevice"
      /\ bus[addressing_port] # "default" /\ s \in DOMAIN devices_
  <2>1. addressing_port # NoPort /\ s \in DOMAIN devices_
        /\ port_config_phase[addressing_port] = "kAddressingDevice"
    BY DEF Completed, Expected
  <2>2. bus[addressing_port] # "default"
    BY DEF Completed, IInv, CommandsInv
  <2> QED BY <1>0, <2>1, <2>2 DEF TypeInv
<1>2. /\ IF p = addressing_port THEN DeviceAddressed(p, s) ELSE InvalidPhase
      /\ cr_' = q
  BY <1>1 DEF Completed, OnCommandCompletion, Issuer
<1>3. \A t \in OnTheWay(q, Unhandled') : ~Addresses(t)
  BY DEF Completed, Addresses
<1>4. OnTheWay(q, Unhandled') \subseteq OnTheWay(cr_, Unhandled)
  BY DEF Completed, OnTheWay
<1>5. EventTaken /\ Unhandled[1].type = "CommandCompletion" /\ cr_' = Forget(cr_, Unhandled[1].trb)
      /\ Unhandled \in Seq(Events)
  BY <1>2 DEF Completed
<1> HIDE DEF s
<1>6. CASE p # addressing_port
  <2>1. UNCHANGED <<port_config_phase, addressing_port, devices_, hub>>
    BY <1>2, <1>6 DEF InvalidPhase
  <2>2. DevicesInv' /\ DevicesStay /\ PortsInv'
    BY <1>0, <2>1 DEF DevicesInv, DevicesStay, PortsInv, PortsAre, hub
  <2>3. TransfersInv'
    BY <1>0, <1>5, <2>2, TransfersStay DEF EventTaken
  <2>4. Awaited(cr_', Unhandled')
    <3>1. Awaited(q, Unhandled')
      BY <1>3, <1>4, <2>1, OthersAwaited
    <3> QED BY <1>2, <3>1
  <2>5. BusyIn(port_config_phase') = Busy
    BY <2>1 DEF Busy
  <2>6. RingsInv' /\ CommandsInv' /\ cr_' \in RingOf(kCommandRing, TRBs) /\ QueueStays
    BY <1>5, <2>4, <2>5, CompletionDone
  <2>7. /\ port_config_phase' \in [Port -> ConfigPhase]
        /\ addressing_port' \in Port \cup {NoPort} /\ bus' \in BusStates
        /\ portsc' \in [Port -> PORTSC_Bitmap] /\ owed' \subseteq Port
    BY <1>0, <2>1 DEF TypeInv, BusStates, hub
  <2>8. IInv'
    BY <2>2, <2>3, <2>6, <2>7, HandledWell
  <2> QED BY <2>6, <2>8
<1>7. CASE p = addressing_port
  <2> DEFINE phases == [port_config_phase EXCEPT ![p] = "kInitializingDevice"]
  <2> DEFINE d == StartInitialize(devices_[s])
  <2>0. /\ \/ /\ Waiting = {}
              /\ port_config_phase' = phases /\ addressing_port' = NoPort
              /\ UNCHANGED hub
           \/ /\ Waiting # {}
              /\ ResetPort(NextWaiting, phases, NoPort)
        /\ devices_' = [devices_ EXCEPT ![s] = d]
    BY <1>2, <1>7 DEF DeviceAddressed
  <2>1. Same(devices_[s], d)
    BY <1>0, <1>1, Started DEF DevicesInv
  <2> HIDE DEF d, p
  <2>2. DevicesInv' /\ DevicesStay /\ DOMAIN devices_' = DOMAIN devices_
    BY <1>0, <1>1, <2>0, <2>1, DeviceSame
  <2>3. TransfersInv'
    BY <1>0, <1>5, <2>2, TransfersStay DEF EventTaken
  <2>4. /\ \A r \in Port : phases[r] = IF r = p THEN "kInitializingDevice" ELSE port_config_phase[r]
        /\ phases \in [Port -> ConfigPhase]
    BY <1>0 DEF TypeInv, ConfigPhase
  <2> HIDE DEF phases
  <2>5. PortsAre(phases, NoPort, bus)
    <3>1. ASSUME NEW r \in Port
          PROVE  phases[r] \notin {"kResettingPort", "kEnablingSlot", "kAddressingDevice"}
                 /\ bus[r] # "default" /\ r # NoPort
      BY <1>0, <1>1, <1>7, <2>4, NoPortIsNone DEF PortsInv, PortsAre
    <3> QED BY <3>1 DEF PortsAre
  <2>6. p \in Busy /\ BusyIn(phases) = Busy \ {p}
    BY <1>1, <1>7, <2>4 DEF Busy, BusyIn
  <2>7. PortsAfter(phases, NoPort)
    <3>1. CASE port_config_phase' = phases /\ addressing_port' = NoPort /\ UNCHANGED hub
      BY <1>0, <2>4, <2>5, <3>1 DEF PortsAfter, TypeInv, BusStates, hub
    <3>2. CASE Waiting # {} /\ ResetPort(NextWaiting, phases, NoPort)
      <4>1. Waiting \subseteq Nat
        BY DEF Waiting, Port
      <4>2. \E r \in Waiting : \A t \in Waiting : r <= t
        BY <3>2, <4>1, Minimum
      <4>3. NextWaiting \in Waiting
        BY <4>2 DEF NextWaiting
      <4>4. NextWaiting \in Port /\ phases[NextWaiting] = "kWaitingAddressed"
        BY <1>1, <1>7, <2>4, <4>3 DEF Waiting
      <4> QED BY <1>0, <2>4, <2>5, <3>2, <4>4, PortReset
    <3> QED BY <2>0, <3>1, <3>2
  <2>8. Awaited(cr_', Unhandled')
    <3>1. Awaited(q, Unhandled')
      BY <1>3, <1>4, <2>2, OthersAwaited
    <3> QED BY <1>2, <3>1
  <2>9. \E r \in Busy : BusyIn(port_config_phase') = Busy \ {r}
    BY <2>6, <2>7 DEF PortsAfter
  <2>10. RingsInv' /\ CommandsInv' /\ cr_' \in RingOf(kCommandRing, TRBs) /\ QueueStays
    BY <1>5, <2>8, <2>9, CompletionDone
  <2>11. IInv'
    BY <2>2, <2>3, <2>7, <2>10, HandledWell DEF PortsAfter, PortsInv
  <2> QED BY <2>10, <2>11
<1> QED BY <1>6, <1>7

LEMMA StepConfigured ==
  ASSUME IInv, ProcessEvent, NEW q, Completed(q),
         Issuer(cr_, Unhandled, 1).type = "ConfigureEndpoint"
  PROVE  IInv' /\ QueueStays
<1> DEFINE s == Unhandled[1].slot_id
<1> DEFINE p == devices_[s].port
<1>0. TypeInv /\ DevicesInv /\ PortsInv /\ TransfersInv
  BY DEF IInv
<1>1. s \in DOMAIN devices_
  BY DEF Completed, Expected
<1>2. /\ IF p # NoPort /\ port_config_phase[p] = "kConfiguringEndpoints"
         THEN CompleteConfiguration(p, s) ELSE InvalidPhase
      /\ cr_' = q
  BY DEF Completed, OnCommandCompletion, Issuer
<1>3. Queued(q) \subseteq Queued(cr_) /\ Executed(q, Unhandled') \subseteq Executed(cr_, Unhandled)
  BY DEF Completed
<1>4. EventTaken /\ Unhandled[1].type = "CommandCompletion" /\ cr_' = Forget(cr_, Unhandled[1].trb)
      /\ Unhandled \in Seq(Events)
  BY <1>2 DEF Completed
<1> HIDE DEF s
<1>5. ASSUME UNCHANGED <<addressing_port, hub>>, DevicesInv', DevicesStay,
             port_config_phase' \in [Port -> ConfigPhase], PortsInv',
             addressing_port # NoPort =>
               port_config_phase'[addressing_port] = port_config_phase[addressing_port],
             \/ BusyIn(port_config_phase') = Busy
             \/ \E r \in Busy : BusyIn(port_config_phase') = Busy \ {r}
      PROVE  IInv' /\ QueueStays
  <2>1. TransfersInv'
    BY <1>0, <1>4, <1>5, TransfersStay DEF EventTaken
  <2>2. Awaited(cr_', Unhandled')
    <3>1. DOMAIN devices_ \subseteq DOMAIN devices_' /\ bus' = bus /\ addressing_port' = addressing_port
      BY <1>5 DEF DevicesStay, hub
    <3>2. Awaited(q, Unhandled')
      BY <1>3, <1>5, <3>1, StillAwaited
    <3> QED BY <1>2, <3>2
  <2>3. RingsInv' /\ CommandsInv' /\ cr_' \in RingOf(kCommandRing, TRBs) /\ QueueStays
    BY <1>4, <1>5, <2>2, CompletionDone
  <2>4. /\ addressing_port' \in Port \cup {NoPort} /\ bus' \in BusStates
        /\ portsc' \in [Port -> PORTSC_Bitmap] /\ owed' \subseteq Port
    BY <1>0, <1>5 DEF TypeInv, BusStates, hub
  <2>5. IInv'
    BY <1>5, <2>1, <2>3, <2>4, HandledWell
  <2> QED BY <2>3, <2>5
<1>6. CASE InvalidPhase
  <2>1. UNCHANGED <<port_config_phase, addressing_port, devices_, hub>>
    BY <1>6 DEF InvalidPhase
  <2>2. DevicesInv' /\ DevicesStay /\ PortsInv' /\ port_config_phase' \in [Port -> ConfigPhase]
    BY <1>0, <2>1 DEF DevicesInv, DevicesStay, PortsInv, PortsAre, TypeInv, hub
  <2>3. BusyIn(port_config_phase') = Busy
    BY <2>1 DEF Busy
  <2> QED BY <1>5, <2>1, <2>2, <2>3
<1>7. CASE /\ p # NoPort /\ port_config_phase[p] = "kConfiguringEndpoints"
           /\ CompleteConfiguration(p, s)
  <2> DEFINE d == OnEndpointsConfigured(devices_[s], Endpoints[p])
  <2>1. /\ devices_' = [devices_ EXCEPT ![s] = d]
        /\ port_config_phase' = [port_config_phase EXCEPT ![p] = "kConfigured"]
        /\ UNCHANGED <<addressing_port, hub>>
    BY <1>7 DEF CompleteConfiguration
  <2>2. DeviceOK(devices_[s])
    BY <1>0, <1>1 DEF DevicesInv
  <2>3. Same(devices_[s], d)
    BY <2>2, Configured
  <2>4. p \in Port
    BY <1>7, <2>2 DEF DeviceOK, DeviceType
  <2> HIDE DEF d, p
  <2>5. DevicesInv' /\ DevicesStay
    BY <1>0, <1>1, <2>1, <2>3, DeviceSame
  <2>6. /\ \A r \in Port : port_config_phase'[r] =
             IF r = p THEN "kConfigured" ELSE port_config_phase[r]
        /\ port_config_phase' \in [Port -> ConfigPhase]
    BY <1>0, <2>1 DEF TypeInv, ConfigPhase
  <2>7. PortsInv' /\ addressing_port # p
    BY <1>0, <1>7, <2>1, <2>4, <2>6 DEF PortsInv, PortsAre, hub
  <2>8. p \in Busy /\ BusyIn(port_config_phase') = Busy \ {p}
    BY <1>7, <2>4, <2>6 DEF Busy, BusyIn
  <2>9. addressing_port # NoPort =>
          port_config_phase'[addressing_port] = port_config_phase[addressing_port]
    BY <1>0, <2>6, <2>7 DEF TypeInv
  <2> QED BY <1>5, <2>1, <2>5, <2>6, <2>7, <2>8, <2>9
<1> QED BY <1>2, <1>6, <1>7

LEMMA StepProcessEvent ==
  ASSUME IInv, ProcessEvent
  PROVE  IInv' /\ (QueueStays \/ QueueGrows)
<1>1. Unhandled[1].type \in {"PortStatusChange", "CommandCompletion", "Transfer"}
  BY Handling DEF ProcessEvent
<1>2. CASE Unhandled[1].type = "CommandCompletion"
  <2>1. Completed(Forget(cr_, Unhandled[1].trb))
    BY <1>2, Completing
  <2>2. PICK q : Completed(q)
    BY <2>1
  <2>3. Issuer(cr_, Unhandled, 1).type \in {"EnableSlot", "AddressDevice", "ConfigureEndpoint"}
    BY <2>2, Kinds DEF Completed
  <2> QED BY <2>2, <2>3, StepSlotEnabled, StepAddressed, StepConfigured
<1> QED BY <1>1, <1>2, StepPortStatusChange, StepTransfer

-----------------------------------------------------------------------------
(***************************************************************************)
(* The invariant holds, and what follows.                                  *)
(***************************************************************************)
LEMMA EmptyRings ==
  ASSUME Init
  PROVE  /\ cr_ \in RingOf(kCommandRing, TRBs) /\ Holds(cr_, Entries, 0) /\ Pending = << >>
         /\ er_ \in RingOf(kEventRing, Events) /\ Holds(er_, kEventRing, 0) /\ Unhandled = << >>
<1>1. /\ cr_ \in RingOf(kCommandRing, TRBs) /\ Holds(cr_, Entries, 0) /\ Pending = << >>
  <2> DEFINE B == kCommandRing
  <2> DEFINE E == Entries
  <2>1. B \in Nat /\ None \in TRBs /\ E \in Nat \ {0} /\ E <= B
    BY Sizes, RingAssumption DEF None, TRBs
  <2> HIDE DEF B, E
  <2>2. NewRing(B) \in RingOf(B, TRBs) /\ Holds(NewRing(B), E, 0) /\ Contents(NewRing(B), E) = << >>
    BY <2>1, NewRingHolds
  <2> QED BY <2>2 DEF Init, Pending, B, E
<1>2. /\ er_ \in RingOf(kEventRing, Events) /\ Holds(er_, kEventRing, 0) /\ Unhandled = << >>
  <2> DEFINE B == kEventRing
  <2>1. B \in Nat /\ None \in Events /\ B \in Nat \ {0} /\ B <= B
    BY Sizes DEF None, Events
  <2> HIDE DEF B
  <2>2. NewRing(B) \in RingOf(B, Events) /\ Holds(NewRing(B), B, 0) /\ Contents(NewRing(B), B) = << >>
    BY <2>1, NewRingHolds
  <2> QED BY <2>2 DEF Init, Unhandled, B
<1> QED BY <1>1, <1>2

LEMMA Begin == Init => IInv
<1> SUFFICES ASSUME Init PROVE IInv
  OBVIOUS
<1>1. /\ cr_ \in RingOf(kCommandRing, TRBs) /\ Holds(cr_, Entries, 0) /\ Pending = << >>
  BY EmptyRings
<1>2. /\ er_ \in RingOf(kEventRing, Events) /\ Holds(er_, kEventRing, 0) /\ Unhandled = << >>
  BY EmptyRings
<1>3. TypeInv
  <2>1. next_port \in 1 .. kPorts + 1 /\ next_port \in Port
    BY PortAssumption DEF Init, Port
  <2>2. faults \in 0 .. MaxFaults /\ slots \in 0 .. kDeviceSize
    BY TableAssumption, PortAssumption DEF Init
  <2>3. portsc \in [Port -> PORTSC_Bitmap]
    BY DEF Init, PORTSC_Bitmap
  <2>4. port_config_phase \in [Port -> ConfigPhase] /\ addressing_port \in Port \cup {NoPort}
    BY DEF Init, ConfigPhase
  <2>5. bus \in [Port -> {"absent", "attached", "default", "addressed"}]
    BY DEF Init
  <2> QED BY <1>1, <1>2, <2>1, <2>2, <2>3, <2>4, <2>5 DEF TypeInv, Init
<1>4. DevicesInv
  <2>1. devices_ = << >>
    BY DEF Init
  <2>2. DOMAIN << >> = {}
    OBVIOUS
  <2>3. devices_ = [s \in DOMAIN devices_ |-> devices_[s]]
    BY <2>1
  <2> QED BY <2>1, <2>2, <2>3 DEF DevicesInv
<1>5. RingsInv
  <2>1. Len(Pending) = 0 /\ Len(Unhandled) = 0
    BY <1>1, <1>2
  <2> QED BY <1>1, <1>2, <2>1, Sizes DEF RingsInv
<1>6. PortsInv
  BY NoPortIsNone DEF Init, PortsInv, PortsAre
<1>7. CommandsInv
  <2>1. QueueOf(cr_) = << >> /\ Len(QueueOf(cr_)) = 0 /\ Len(Unhandled) = 0
    BY <1>1, <1>2 DEF QueueOf, Pending
  <2>2. Queued(cr_) = {}
    BY <2>1 DEF Queued
  <2>3. Completions(Unhandled) = {}
    BY <2>1 DEF Completions
  <2>4. Executed(cr_, Unhandled) = {}
    BY <2>3 DEF Executed
  <2>5. Behind(cr_, Unhandled, 0)
    BY <2>3, Sizes DEF Behind
  <2>6. OneAddresses(cr_, Unhandled)
    BY <2>1, <2>2, <2>3 DEF OneAddresses
  <2>7. InOrder(cr_, Unhandled, 0)
    <3>1. Holds(cr_, Entries, Len(QueueOf(cr_))) /\ Unhandled \in Seq(Events)
      BY <1>1, <1>2, <2>1
    <3> QED BY <1>1, <2>2, <2>3, <2>4, <2>5, <2>6, <3>1 DEF InOrder
  <2>8. Len(Pending) + 0 <= Cardinality(Busy)
    BY <1>1, BusyIsSmall
  <2> QED BY <2>2, <2>4, <2>7, <2>8 DEF CommandsInv
<1>8. TransfersInv /\ InterruptsInv
  BY <1>2 DEF TransfersInv, InterruptsInv, Init
<1> QED BY <1>3, <1>4, <1>5, <1>6, <1>7, <1>8 DEF IInv

LEMMA Step == IInv /\ [Next]_vars => IInv'
<1> SUFFICES ASSUME IInv, [Next]_vars PROVE IInv'
  OBVIOUS
<1>1. CASE Main
  BY <1>1, StepConfigurePort, StepLoop, StepProcessEvent DEF Main
<1>2. CASE Controller
  <2>1. ASSUME NEW p \in Port, SendPortEvent(p) PROVE IInv'
    BY <2>1, StepSendPortEvent
  <2>2. ASSUME NEW s \in Slot, NEW ok \in BOOLEAN, ControlTransferEnds(s, ok) PROVE IInv'
    BY <2>2, StepControlTransferEnds
  <2>3. ASSUME NEW s \in Slot, NEW ok \in BOOLEAN, InterruptTransferEnds(s, ok) PROVE IInv'
    BY <2>3, StepInterruptTransferEnds
  <2> QED BY <1>2, <2>1, <2>2, <2>3, StepInterrupt, StepExecuteCommand DEF Controller
<1>3. CASE User
  <2>1. PICK p \in Port : Plug(p) \/ Unplug(p)
    BY <1>3 DEF User
  <2> QED BY <2>1, StepUser
<1>4. CASE UNCHANGED vars
  <2>1. UNCHANGED <<er_, cr_, devices_>> /\ UNCHANGED <<driver, hub, interrupter, slots, faults>>
    BY <1>4 DEF vars, driver
  <2>2. Undisturbed
    BY <2>1 DEF Undisturbed, Busy, driver, hub
  <2>3. DevicesInv' /\ RingsInv' /\ CommandsInv' /\ TransfersInv' /\ Unhandled' = Unhandled
    BY <2>1, <2>2, Quiet
  <2>4. TypeInv' /\ PortsInv' /\ InterruptsInv'
    BY <2>1, <2>3 DEF IInv, TypeInv, PortsInv, PortsAre, InterruptsInv, driver, hub, interrupter
  <2> QED BY <2>3, <2>4 DEF IInv
<1> QED BY <1>1, <1>2, <1>3, <1>4 DEF Next

LEMMA Invariance == Spec => []IInv
BY Begin, Step, PTL DEF Spec

\* Every variable keeps its type: a handler finds the slot its event names, and the
\* tables of a device (ArrayMap of usb/arraymap.hpp) never take more than they have room for.
THEOREM TypesHold == Spec => []TypeOK
<1>1. IInv => TypeOK
  BY DEF IInv, TypeInv, DevicesInv, DeviceOK, TypeOK
<1> QED BY <1>1, Invariance, PTL

\* From its reset until it has its address a port is alone and is addressing_port
\* (ResetPort, OnEvent of xhci.cpp), whatever is plugged, unplugged or waits meanwhile, so
\* that never two devices answer to address 0.
THEOREM OneDeviceIsAddressed == Spec => []OneAtATime
<1>1. IInv => OneAtATime
  <2> SUFFICES ASSUME IInv PROVE OneAtATime
    OBVIOUS
  <2> QED BY DEF IInv, PortsInv, PortsAre, OneAtATime
<1> QED BY <1>1, Invariance, PTL

\* The main task never waits while an event is in the ring and no interrupt is to come:
\* ProcessEvents goes on until the ring is empty, and an event that comes after the last
\* look finds the busy flag cleared by the last Pop (ring.cpp, main.cpp).
THEOREM NoInterruptIsLost == Spec => []NoLostInterrupt
<1>1. IInv => NoLostInterrupt
  <2> SUFFICES ASSUME IInv, main = "wait", ~message, HasFront(er_)
               PROVE  ipe /\ ~event_handler_busy
    BY DEF NoLostInterrupt
  <2>1. Unhandled # << >>
    BY Queues DEF IInv
  <2> QED BY <2>1 DEF IInv, InterruptsInv
<1> QED BY <1>1, Invariance, PTL

-----------------------------------------------------------------------------
(***************************************************************************)
(* The rings implement queues.                                             *)
(***************************************************************************)
\* A step of each queue, in the words of this module.
CommandsMove == UNCHANGED cr_ \/ CommandTaken \/ QueueStays \/ QueueGrows
EventsMove == UNCHANGED er_ \/ EventTaken \/ \E e \in Events : EventSent(e)

LEMMA Appended ==
  ASSUME NEW T, NEW s \in Seq(T), NEW e \in T, NEW t, t = Append(s, e)
  PROVE  Len(t) = Len(s) + 1 /\ s = SubSeq(t, 1, Len(s))
<1>1. /\ t \in Seq(T) /\ Len(t) = Len(s) + 1 /\ Len(s) \in Nat
      /\ \A i \in 1 .. Len(s) : t[i] = s[i]
  OBVIOUS
<1>2. Len(SubSeq(t, 1, Len(s))) = Len(s) /\ SubSeq(t, 1, Len(s)) \in Seq(T)
  BY <1>1
<1>3. \A i \in 1 .. Len(s) : SubSeq(t, 1, Len(s))[i] = s[i]
  BY <1>1
<1> QED BY <1>1, <1>2, <1>3

LEMMA RingsMove ==
  ASSUME IInv, [Next]_vars
  PROVE  CommandsMove /\ EventsMove
<1>1. CASE ProcessEvent
  BY <1>1, StepProcessEvent, Handling DEF CommandsMove, EventsMove
<1>2. CASE ExecuteCommand
  BY <1>2, StepExecuteCommand DEF CommandsMove, EventsMove
<1>3. CASE UNCHANGED <<cr_, er_>>
  BY <1>3 DEF CommandsMove, EventsMove
<1>4. CASE Main
  BY <1>1, <1>3, <1>4 DEF Main, ConfigurePort, ProcessEvents, NoMoreEvents
<1>5. CASE Controller
  <2>1. CASE Interrupt
    BY <1>3, <2>1 DEF Interrupt
  <2>2. ASSUME NEW p \in Port, SendPortEvent(p) PROVE CommandsMove /\ EventsMove
    BY <2>2, StepSendPortEvent DEF SendPortEvent, CommandsMove, EventsMove
  <2>3. ASSUME NEW s \in Slot, NEW ok \in BOOLEAN, ControlTransferEnds(s, ok)
        PROVE  CommandsMove /\ EventsMove
    BY <2>3, StepControlTransferEnds DEF ControlTransferEnds, TransferEnds, CommandsMove, EventsMove
  <2>4. ASSUME NEW s \in Slot, NEW ok \in BOOLEAN, InterruptTransferEnds(s, ok)
        PROVE  CommandsMove /\ EventsMove
    BY <2>4, StepInterruptTransferEnds
       DEF InterruptTransferEnds, TransferEnds, CommandsMove, EventsMove
  <2> QED BY <1>2, <1>5, <2>1, <2>2, <2>3, <2>4 DEF Controller
<1>6. CASE User \/ UNCHANGED vars
  BY <1>3, <1>6 DEF User, Plug, Unplug, vars
<1> QED BY <1>4, <1>5, <1>6 DEF Next

LEMMA CommandsQueue ==
  ASSUME IInv, CommandsMove
  PROVE  [CommandQueue!Next]_<<Contents(cr_, kCommandRing - 1), cr_.write_index_, cr_.dequeue>>
<1>0. Pending = Contents(cr_, kCommandRing - 1) /\ Pending' = Contents(cr_, kCommandRing - 1)'
      /\ Pending = QueueOf(cr_) /\ Pending' = QueueOf(cr_') /\ Pending \in Seq(TRBs)
  BY Queues DEF IInv, Pending, Entries, QueueOf
<1>1. CASE CommandTaken
  BY <1>0, <1>1 DEF CommandTaken, CommandQueue!Next, CommandQueue!Take
<1>2. CASE QueueGrows
  <2>1. PICK trb \in TRBs : Pending' = Append(Pending, trb)
    BY <1>0, <1>2 DEF QueueGrows
  <2>2. Len(Pending') = Len(Pending) + 1 /\ Pending = SubSeq(Pending', 1, Len(Pending))
    BY <1>0, <2>1, Appended
  <2> QED BY <1>0, <1>2, <2>2 DEF QueueGrows, CommandQueue!Next, CommandQueue!Put
<1>3. CASE QueueStays \/ UNCHANGED cr_
  BY <1>0, <1>3 DEF QueueStays
<1> QED BY <1>1, <1>2, <1>3 DEF CommandsMove

LEMMA EventsQueue ==
  ASSUME IInv, EventsMove
  PROVE  [EventQueue!Next]_<<Contents(er_, kEventRing), er_.write_index_, er_.dequeue>>
<1>0. Unhandled = Contents(er_, kEventRing) /\ Unhandled \in Seq(Events)
  BY Queues DEF IInv, Unhandled
<1>1. CASE EventTaken
  BY <1>1 DEF EventTaken, Unhandled, EventQueue!Next, EventQueue!Take
<1>2. CASE \E e \in Events : EventSent(e)
  <2>1. PICK e \in Events : EventSent(e)
    BY <1>2
  <2>2. Len(Unhandled') = Len(Unhandled) + 1 /\ Unhandled = SubSeq(Unhandled', 1, Len(Unhandled))
    BY <1>0, <2>1, Appended DEF EventSent
  <2> QED BY <2>1, <2>2 DEF EventSent, Unhandled, EventQueue!Next, EventQueue!Put
<1>3. CASE UNCHANGED er_
  BY <1>3
<1> QED BY <1>1, <1>2, <1>3 DEF EventsMove

\* Each ring implements a queue of any length of run: what Push and the controller write is
\* taken once and in order, over any number of turns of the cycle bit (ring.cpp), though
\* the driver never learns where the controller is in the command ring.
THEOREM RingsImplementQueues == Spec => RingsAreQueues
<1>1. Init => CommandQueue!Init /\ EventQueue!Init
  <2> SUFFICES ASSUME Init PROVE CommandQueue!Init /\ EventQueue!Init
    OBVIOUS
  <2>1. Pending = << >> /\ Unhandled = << >>
    BY EmptyRings
  <2>2. cr_.write_index_ = 0 /\ cr_.dequeue = 0 /\ er_.write_index_ = 0 /\ er_.dequeue = 0
    BY DEF Init, NewRing
  <2> QED BY <2>1, <2>2 DEF CommandQueue!Init, EventQueue!Init, Pending, Unhandled, Entries
<1>2. IInv /\ [Next]_vars =>
        [CommandQueue!Next]_<<Contents(cr_, kCommandRing - 1), cr_.write_index_, cr_.dequeue>>
  BY RingsMove, CommandsQueue
<1>3. IInv /\ [Next]_vars =>
        [EventQueue!Next]_<<Contents(er_, kEventRing), er_.write_index_, er_.dequeue>>
  BY RingsMove, EventsQueue
<1> QED
  BY <1>1, <1>2, <1>3, Invariance, PTL DEF Spec, RingsAreQueues, CommandQueue!Spec, EventQueue!Spec

=============================================================================
