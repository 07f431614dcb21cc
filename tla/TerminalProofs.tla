--------------------------- MODULE TerminalProofs ---------------------------
(***************************************************************************)
(* Proofs about the terminal.  First Pipeline: lines of any length,        *)
(* commands that write anything, messages and pages of any size.  Then     *)
(* TerminalText: windows, histories and texts of any size.                 *)
(***************************************************************************)
EXTENDS Pipeline, TerminalText, SequenceTheorems, WellFoundedInduction, TLAPS

-----------------------------------------------------------------------------
(***************************************************************************)
(* Sequences: parts of a text, and texts that come in pieces.              *)
(***************************************************************************)
\* What holds at 0 and goes on from each i to i + 1 holds up to n.
LEMMA UpTo ==
  ASSUME NEW n \in Nat, NEW S, 0 \in S, \A i \in 0 .. n : i < n /\ i \in S => i + 1 \in S
  PROVE  \A i \in 0 .. n : i \in S
<1> SUFFICES ASSUME NEW k \in 0 .. n, k \notin S PROVE FALSE
  OBVIOUS
<1> DEFINE T == {i \in 0 .. n : i \notin S}
<1>1. T \subseteq Nat /\ T # {}
  OBVIOUS
<1>2. PICK x \in T : \A y \in T : <<y, x>> \notin OpToRel(<, Nat)
  BY <1>1, WFMin, NatLessThanWellFounded
<1>3. \A y \in T : ~(y < x)
  BY <1>1, <1>2 DEF OpToRel
<1>4. x # 0 /\ x - 1 \in 0 .. n /\ x - 1 < x
  OBVIOUS
<1>5. x - 1 \in S
  BY <1>3, <1>4
<1> QED BY <1>4, <1>5

\* The bytes of t behind the first a, up to the b-th.
Part(t, a, b) == SubSeq(t, a + 1, b)

LEMMA PartType ==
  ASSUME NEW S, NEW t \in Seq(S), NEW a \in 0 .. Len(t), NEW b \in a .. Len(t)
  PROVE  /\ Part(t, a, b) \in Seq(S)
         /\ Len(Part(t, a, b)) = b - a
         /\ \A i \in 1 .. b - a : Part(t, a, b)[i] = t[a + i]
<1>1. \A i \in a + 1 .. b : t[i] \in S
  BY ElementOfSeq
<1>2. /\ SubSeq(t, a + 1, b) \in Seq(S)
      /\ Len(SubSeq(t, a + 1, b)) = IF a + 1 <= b THEN b - (a + 1) + 1 ELSE 0
      /\ \A i \in 1 .. b - (a + 1) + 1 : SubSeq(t, a + 1, b)[i] = t[a + 1 + i - 1]
  BY <1>1, SubSeqProperties, a + 1 \in Int, b \in Int
<1>3. \A i \in 1 .. b - a : a + 1 + i - 1 = a + i
  OBVIOUS
<1> QED BY <1>2, <1>3 DEF Part

LEMMA PartWhole ==
  ASSUME NEW S, NEW t \in Seq(S)
  PROVE  Part(t, 0, Len(t)) = t
BY SubSeqFull DEF Part

LEMMA PartEmpty ==
  ASSUME NEW S, NEW t \in Seq(S), NEW a \in 0 .. Len(t), NEW b \in a .. Len(t)
  PROVE  Part(t, a, b) = <<>> <=> a = b
<1>1. Part(t, a, b) \in Seq(S) /\ Len(Part(t, a, b)) = b - a
  BY PartType
<1> QED BY <1>1, EmptySeq

LEMMA PartJoin ==
  ASSUME NEW S, NEW t \in Seq(S), NEW a \in 0 .. Len(t), NEW b \in a .. Len(t),
         NEW c \in b .. Len(t)
  PROVE  Part(t, a, b) \o Part(t, b, c) = Part(t, a, c)
<1>1. a + 1 \in 1 .. Len(t) + 1 /\ b \in (a + 1) - 1 .. Len(t) /\ c \in b .. Len(t)
  BY LenProperties
<1> QED BY <1>1, ConcatAdjacentSubSeq DEF Part

\* The first n bytes of a part, and what is behind them.
LEMMA PartSplit ==
  ASSUME NEW S, NEW t \in Seq(S), NEW a \in 0 .. Len(t), NEW b \in a .. Len(t), NEW n \in Nat
  PROVE  /\ a + Least(n, b - a) \in a .. b
         /\ First(Part(t, a, b), n) = Part(t, a, a + Least(n, b - a))
         /\ Behind(Part(t, a, b), Least(n, Len(Part(t, a, b)))) = Part(t, a + Least(n, b - a), b)
<1> DEFINE p == Part(t, a, b)
           m == Least(n, b - a)
<1>1. p \in Seq(S) /\ Len(p) = b - a /\ \A i \in 1 .. b - a : p[i] = t[a + i]
  BY PartType
<1>2. /\ m \in 0 .. b - a /\ a + m \in a .. b /\ a + m \in 0 .. Len(t)
      /\ a + m \in a .. Len(t) /\ b \in a + m .. Len(t)
  BY LenProperties DEF Least
<1>3. First(p, n) = SubSeq(p, 1, m)
  BY <1>1 DEF First
<1> HIDE DEF p, m
<1>4. \A i \in 1 .. m : p[i] \in S
  BY <1>1, <1>2, ElementOfSeq
<1>5. /\ SubSeq(p, 1, m) \in Seq(S) /\ Len(SubSeq(p, 1, m)) = m
      /\ \A i \in 1 .. m : SubSeq(p, 1, m)[i] = p[i]
  BY <1>2, <1>4, SubSeqProperties, 1 \in Int, m \in Int
<1> DEFINE c == a + m
<1>c. /\ c \in 0 .. Len(t) /\ c \in a .. Len(t) /\ b \in c .. Len(t)
      /\ c - a = m /\ b - c = b - a - m /\ c \in a .. b
  BY <1>2
<1> HIDE DEF c
<1>6. /\ Part(t, a, c) \in Seq(S) /\ Len(Part(t, a, c)) = c - a
      /\ \A i \in 1 .. c - a : Part(t, a, c)[i] = t[a + i]
  BY <1>c, PartType
<1>7. SubSeq(p, 1, m) = Part(t, a, c)
  BY <1>1, <1>2, <1>c, <1>5, <1>6, SeqEqual
<1>9. /\ Part(p, m, Len(p)) \in Seq(S)
      /\ Len(Part(p, m, Len(p))) = Len(p) - m
      /\ \A i \in 1 .. Len(p) - m : Part(p, m, Len(p))[i] = p[m + i]
  <2>1. m \in 0 .. Len(p) /\ Len(p) \in m .. Len(p)
    BY <1>1, <1>2
  <2> QED BY <1>1, <2>1, PartType
<1>10. /\ Part(t, c, b) \in Seq(S) /\ Len(Part(t, c, b)) = b - c
       /\ \A i \in 1 .. b - c : Part(t, c, b)[i] = t[c + i]
  BY <1>c, PartType
<1>11. Part(p, m, Len(p)) = Part(t, c, b)
  <2>1. ASSUME NEW i \in 1 .. b - c PROVE p[m + i] = t[c + i]
    <3> DEFINE j == m + i
    <3>1. j \in 1 .. b - a /\ a + j = c + i
      BY <1>2, <1>c DEF c
    <3> HIDE DEF j
    <3>2. p[j] = t[a + j]
      BY <1>1, <3>1
    <3> QED BY <3>1, <3>2 DEF j
  <2> QED BY <1>1, <1>2, <1>c, <1>9, <1>10, <2>1, SeqEqual
<1>12. Least(n, Len(p)) = m
  BY <1>1 DEF m
<1> QED BY <1>c, <1>3, <1>7, <1>11, <1>12 DEF Behind, Part, p, m, c

\* s is the bytes of t behind the first a, up to the b-th, in pieces; p[i] is where
\* the i-th one ends.
Cuts(t, s) == [0 .. Len(s) -> 0 .. Len(t)]
IsCutAt(t, s, p, a, b) ==
  /\ p[0] = a /\ p[Len(s)] = b
  /\ \A i, j \in 0 .. Len(s) : i <= j => p[i] <= p[j]
  /\ \A i \in 1 .. Len(s) : s[i] = Part(t, p[i - 1], p[i])
Pieces(t, s, a, b) == \E p \in Cuts(t, s) : IsCutAt(t, s, p, a, b)

LEMMA PiecesBounds ==
  ASSUME NEW S, NEW t \in Seq(S), NEW s \in Seq(Seq(S)), NEW a, NEW b, Pieces(t, s, a, b)
  PROVE  a \in 0 .. Len(t) /\ b \in a .. Len(t)
<1>1. PICK p \in Cuts(t, s) : IsCutAt(t, s, p, a, b)
  BY DEF Pieces
<1>2. Len(s) \in Nat /\ 0 \in 0 .. Len(s) /\ Len(s) \in 0 .. Len(s) /\ Len(t) \in Nat
  BY LenProperties
<1>3. p[0] \in 0 .. Len(t) /\ p[Len(s)] \in 0 .. Len(t) /\ p[0] <= p[Len(s)]
  BY <1>1, <1>2 DEF Cuts, IsCutAt
<1> QED BY <1>1, <1>2, <1>3 DEF IsCutAt

LEMMA PiecesNone ==
  ASSUME NEW S, NEW t \in Seq(S), NEW a \in 0 .. Len(t)
  PROVE  Pieces(t, <<>>, a, a)
<1> DEFINE p == [i \in 0 .. 0 |-> a]
<1>1. Len(<<>>) = 0
  BY EmptySeq
<1>2. p \in Cuts(t, <<>>)
  BY <1>1 DEF Cuts
<1>3. IsCutAt(t, <<>>, p, a, a)
  BY <1>1 DEF IsCutAt
<1> QED BY <1>2, <1>3 DEF Pieces

\* Pieces without a byte.
LEMMA PiecesEmpty ==
  ASSUME NEW S, NEW t \in Seq(S), NEW s \in Seq(Seq(S)), NEW a, NEW b, Pieces(t, s, a, b),
         \A i \in 1 .. Len(s) : s[i] = <<>>
  PROVE  a = b
<1>1. PICK p \in Cuts(t, s) : IsCutAt(t, s, p, a, b)
  BY DEF Pieces
<1> DEFINE T == {i \in 0 .. Len(s) : p[i] = a}
<1>2. Len(s) \in Nat
  BY LenProperties
<1>3. 0 \in T
  BY <1>1, <1>2 DEF IsCutAt
<1>4. ASSUME NEW i \in 0 .. Len(s), i < Len(s) /\ i \in T PROVE i + 1 \in T
  <2> DEFINE j == i + 1
  <2>1. j \in 1 .. Len(s) /\ j \in 0 .. Len(s) /\ j - 1 = i
    BY <1>2, <1>4
  <2> HIDE DEF j
  <2>2. s[j] = Part(t, p[j - 1], p[j]) /\ p[i] <= p[j]
    <3>1. i <= j
      BY <2>1
    <3> QED BY <1>1, <2>1, <3>1 DEF IsCutAt
  <2>3. p[i] \in 0 .. Len(t) /\ p[j] \in p[i] .. Len(t)
    BY <1>1, <2>1, <2>2 DEF Cuts
  <2>4. Part(t, p[i], p[j]) = <<>>
    BY <2>1, <2>2
  <2>5. p[j] = p[i]
    BY <2>3, <2>4, PartEmpty
  <2> QED BY <1>4, <2>1, <2>5 DEF j
<1>5. \A i \in 0 .. Len(s) : i \in T
  <2> HIDE DEF T
  <2> QED BY <1>2, <1>3, <1>4, UpTo
<1> QED BY <1>1, <1>2, <1>5 DEF IsCutAt

\* One more piece at the end,
LEMMA PiecesAppend ==
  ASSUME NEW S, NEW t \in Seq(S), NEW s \in Seq(Seq(S)), NEW a, NEW b, Pieces(t, s, a, b),
         NEW c \in b .. Len(t)
  PROVE  Pieces(t, Append(s, Part(t, b, c)), a, c)
<1>1. PICK p \in Cuts(t, s) : IsCutAt(t, s, p, a, b)
  BY DEF Pieces
<1> DEFINE e == Part(t, b, c)
           r == Append(s, e)
           n == Len(s)
           q == [i \in 0 .. n + 1 |-> IF i = n + 1 THEN c ELSE p[i]]
<1>2. a \in 0 .. Len(t) /\ b \in a .. Len(t) /\ n \in Nat /\ Len(t) \in Nat
  BY PiecesBounds, LenProperties
<1>3. e \in Seq(S)
  BY <1>2, PartType
<1>4. /\ Len(r) = n + 1 /\ \A i \in 1 .. n : r[i] = s[i]
      /\ r[n + 1] = e
  <2> HIDE DEF e
  <2> QED BY <1>3, AppendProperties
<1> HIDE DEF r, e
<1>5. q \in Cuts(t, r)
  BY <1>1, <1>2, <1>4 DEF Cuts
<1>6. q[0] = a /\ q[Len(r)] = c
  BY <1>1, <1>2, <1>4 DEF IsCutAt
<1>7. \A i, j \in 0 .. n : i <= j => p[i] <= p[j]
  BY <1>1 DEF IsCutAt
<1>8. \A i \in 0 .. n : p[i] <= b /\ p[i] \in Nat
  BY <1>1, <1>2, <1>7 DEF IsCutAt, Cuts
<1>9. \A i, j \in 0 .. Len(r) : i <= j => q[i] <= q[j]
  BY <1>2, <1>4, <1>7, <1>8
<1>10. ASSUME NEW i \in 1 .. Len(r) PROVE r[i] = Part(t, q[i - 1], q[i])
  <2>1. CASE i = n + 1
    <3>1. i - 1 = n /\ n \in 0 .. n + 1 /\ i \in 0 .. n + 1 /\ n # n + 1
      BY <1>2, <2>1
    <3>2. q[i - 1] = p[n] /\ q[i] = c
      BY <2>1, <3>1
    <3> QED BY <1>1, <1>4, <2>1, <3>2 DEF e, IsCutAt
  <2>2. CASE i # n + 1
    <3>1. i \in 1 .. n /\ i \in 0 .. n + 1 /\ i - 1 \in 0 .. n + 1 /\ i - 1 # n + 1
      BY <1>2, <1>4, <2>2
    <3>2. q[i - 1] = p[i - 1] /\ q[i] = p[i]
      BY <2>2, <3>1
    <3>3. s[i] = Part(t, p[i - 1], p[i])
      BY <1>1, <3>1 DEF IsCutAt
    <3> QED BY <1>4, <3>1, <3>2, <3>3
  <2> QED BY <2>1, <2>2
<1>11. IsCutAt(t, r, q, a, c)
  <2> HIDE DEF q
  <2> QED BY <1>6, <1>9, <1>10 DEF IsCutAt
<1>12. Pieces(t, r, a, c)
  <2> HIDE DEF q
  <2> QED BY <1>5, <1>11 DEF Pieces
<1> QED BY <1>12 DEF r, e

\* ... and the first one taken off.
LEMMA PiecesHead ==
  ASSUME NEW S, NEW t \in Seq(S), NEW s \in Seq(Seq(S)), NEW a, NEW b, Pieces(t, s, a, b),
         s # <<>>
  PROVE  \E c \in a .. b : Head(s) = Part(t, a, c) /\ Pieces(t, Tail(s), c, b)
<1>1. PICK p \in Cuts(t, s) : IsCutAt(t, s, p, a, b)
  BY DEF Pieces
<1> DEFINE n == Len(s)
           r == Tail(s)
           q == [i \in 0 .. n - 1 |-> p[i + 1]]
           c == p[1]
<1>2. a \in 0 .. Len(t) /\ b \in a .. Len(t) /\ n \in Nat \ {0} /\ Len(t) \in Nat
  BY PiecesBounds, LenProperties, EmptySeq
<1>3. /\ Head(s) = s[1]
      /\ Len(r) = n - 1 /\ \A i \in 1 .. n - 1 : r[i] = s[i + 1]
  BY <1>2, HeadTailProperties
<1> HIDE DEF r
<1>4. \A i, j \in 0 .. n : i <= j => p[i] <= p[j]
  BY <1>1 DEF IsCutAt
<1>5. p[0] = a /\ p[n] = b /\ \A i \in 0 .. n : p[i] \in 0 .. Len(t)
  BY <1>1 DEF IsCutAt, Cuts
<1>6. c \in a .. b
  <2>1. 0 \in 0 .. n /\ 1 \in 0 .. n /\ n \in 0 .. n /\ 0 <= 1 /\ 1 <= n
    BY <1>2
  <2>2. p[0] <= p[1] /\ p[1] <= p[n] /\ p[1] \in 0 .. Len(t)
    BY <1>4, <1>5, <2>1
  <2> QED BY <1>2, <1>5, <2>2
<1>7. Head(s) = Part(t, a, c)
  <2>1. 1 \in 1 .. n /\ 1 - 1 = 0
    BY <1>2
  <2>2. s[1] = Part(t, p[1 - 1], p[1])
    BY <1>1, <2>1 DEF IsCutAt
  <2> QED BY <1>3, <1>5, <2>1, <2>2
<1>8. q \in Cuts(t, r)
  <2>1. \A i \in 0 .. n - 1 : i + 1 \in 0 .. n
    BY <1>2
  <2> QED BY <1>3, <1>5, <2>1 DEF Cuts
<1>9. q[0] = c /\ q[Len(r)] = b
  <2>1. 0 \in 0 .. n - 1 /\ n - 1 \in 0 .. n - 1 /\ 0 + 1 = 1 /\ n - 1 + 1 = n
    BY <1>2
  <2> QED BY <1>3, <1>5, <2>1
<1>10. ASSUME NEW i \in 0 .. Len(r), NEW j \in 0 .. Len(r), i <= j PROVE q[i] <= q[j]
  <2>1. i \in 0 .. n - 1 /\ j \in 0 .. n - 1 /\ i + 1 \in 0 .. n /\ j + 1 \in 0 .. n /\ i + 1 <= j + 1
    BY <1>2, <1>3, <1>10
  <2>2. q[i] = p[i + 1] /\ q[j] = p[j + 1]
    BY <2>1
  <2> HIDE DEF q
  <2> QED BY <1>4, <2>1, <2>2
<1>11. ASSUME NEW i \in 1 .. Len(r) PROVE r[i] = Part(t, q[i - 1], q[i])
  <2> DEFINE k == i + 1
  <2>1. /\ i \in 1 .. n - 1 /\ k \in 1 .. n /\ i - 1 \in 0 .. n - 1 /\ i \in 0 .. n - 1
        /\ i - 1 + 1 = k - 1
    BY <1>2, <1>3
  <2>2. q[i - 1] = p[k - 1] /\ q[i] = p[k]
    BY <2>1
  <2>3. r[i] = s[k]
    BY <1>3, <2>1
  <2> HIDE DEF k, q
  <2>4. s[k] = Part(t, p[k - 1], p[k])
    BY <1>1, <2>1 DEF IsCutAt
  <2> QED BY <2>2, <2>3, <2>4
<1> HIDE DEF q
<1>12. IsCutAt(t, r, q, c, b)
  BY <1>9, <1>10, <1>11 DEF IsCutAt
<1>13. Pieces(t, r, c, b)
  BY <1>8, <1>12 DEF Pieces
<1> QED BY <1>6, <1>7, <1>13 DEF r

\* A single piece.
LEMMA PiecesOne ==
  ASSUME NEW S, NEW t \in Seq(S), NEW a \in 0 .. Len(t), NEW b \in a .. Len(t)
  PROVE  Pieces(t, <<Part(t, a, b)>>, a, b)
<1> DEFINE e == Part(t, a, b)
           r == <<e>>
           q == [i \in 0 .. 1 |-> IF i = 0 THEN a ELSE b]
<1>1. Len(r) = 1 /\ r[1] = e /\ Len(t) \in Nat
  BY LenProperties
<1> HIDE DEF r
<1>2. q \in Cuts(t, r)
  BY <1>1 DEF Cuts
<1>3. q[0] = a /\ q[1] = b
  OBVIOUS
<1>4. IsCutAt(t, r, q, a, b)
  <2>1. \A i \in 1 .. 1 : i = 1 /\ i - 1 = 0
    OBVIOUS
  <2>2. \A i, j \in 0 .. 1 : i <= j => q[i] <= q[j]
    BY <1>3
  <2> HIDE DEF q
  <2> QED BY <1>1, <1>3, <2>1, <2>2 DEF IsCutAt, e
<1>5. Pieces(t, r, a, b)
  <2> HIDE DEF q
  <2> QED BY <1>2, <1>4 DEF Pieces
<1> QED BY <1>5 DEF r, e

\* One more piece in front.
LEMMA PiecesCons ==
  ASSUME NEW S, NEW t \in Seq(S), NEW s \in Seq(Seq(S)), NEW c, NEW b, Pieces(t, s, c, b),
         NEW a \in 0 .. c
  PROVE  Pieces(t, <<Part(t, a, c)>> \o s, a, b)
<1>1. PICK p \in Cuts(t, s) : IsCutAt(t, s, p, c, b)
  BY DEF Pieces
<1> DEFINE e == Part(t, a, c)
           r == <<e>> \o s
           n == Len(s)
           q == [i \in 0 .. n + 1 |-> IF i = 0 THEN a ELSE p[i - 1]]
<1>2. c \in 0 .. Len(t) /\ b \in c .. Len(t) /\ n \in Nat /\ Len(t) \in Nat
  BY PiecesBounds, LenProperties
<1>3. e \in Seq(S)
  <2>1. a \in 0 .. Len(t) /\ c \in a .. Len(t)
    BY <1>2
  <2> QED BY <2>1, PartType
<1>4. Len(r) = n + 1 /\ r[1] = e /\ \A i \in 2 .. n + 1 : r[i] = s[i - 1]
  <2> HIDE DEF e
  <2>1. <<e>> \in Seq(Seq(S)) /\ Len(<<e>>) = 1 /\ <<e>>[1] = e
    BY <1>3
  <2>2. /\ Len(<<e>> \o s) = Len(<<e>>) + Len(s)
        /\ \A i \in 1 .. Len(<<e>>) + Len(s) :
             (<<e>> \o s)[i] = IF i <= Len(<<e>>) THEN <<e>>[i] ELSE s[i - Len(<<e>>)]
    BY <2>1, ConcatProperties
  <2> QED BY <1>2, <2>1, <2>2
<1> HIDE DEF r, e
<1>5. \A i, j \in 0 .. n : i <= j => p[i] <= p[j]
  BY <1>1 DEF IsCutAt
<1>6. p[0] = c /\ p[n] = b /\ \A i \in 0 .. n : p[i] \in 0 .. Len(t)
  BY <1>1 DEF IsCutAt, Cuts
<1>7. q \in Cuts(t, r)
  <2>1. \A i \in 0 .. n + 1 : i # 0 => i - 1 \in 0 .. n
    BY <1>2
  <2>2. a \in 0 .. Len(t)
    BY <1>2
  <2> QED BY <1>4, <1>6, <2>1, <2>2 DEF Cuts
<1>8. q[0] = a /\ q[Len(r)] = b
  <2>1. 0 \in 0 .. n + 1 /\ n + 1 \in 0 .. n + 1 /\ n + 1 # 0 /\ n + 1 - 1 = n
    BY <1>2
  <2> QED BY <1>4, <1>6, <2>1
<1>9. \A i \in 0 .. n : a <= p[i]
  <2>1. ASSUME NEW i \in 0 .. n PROVE a <= p[i]
    <3>1. 0 \in 0 .. n /\ 0 <= i
      BY <1>2
    <3>2. p[0] <= p[i] /\ p[i] \in 0 .. Len(t)
      BY <1>5, <1>6, <3>1
    <3> QED BY <1>2, <1>6, <3>2
  <2> QED BY <2>1
<1>10. ASSUME NEW i \in 0 .. Len(r), NEW j \in 0 .. Len(r), i <= j PROVE q[i] <= q[j]
  <2>1. CASE i = 0 /\ j = 0
    BY <1>2, <1>4, <2>1
  <2>2. CASE i = 0 /\ j # 0
    <3>1. j - 1 \in 0 .. n /\ j \in 0 .. n + 1 /\ i \in 0 .. n + 1
      BY <1>2, <1>4, <2>2
    <3> QED BY <1>9, <2>2, <3>1
  <2>3. CASE i # 0 /\ j # 0
    <3>1. /\ i - 1 \in 0 .. n /\ i \in 0 .. n + 1 /\ j - 1 \in 0 .. n /\ j \in 0 .. n + 1
          /\ i - 1 <= j - 1
      BY <1>2, <1>4, <1>10, <2>3
    <3>2. q[i] = p[i - 1] /\ q[j] = p[j - 1]
      BY <2>3, <3>1
    <3> HIDE DEF q
    <3> QED BY <1>5, <3>1, <3>2
  <2> QED BY <1>2, <1>4, <1>10, <2>1, <2>2, <2>3
<1>11. ASSUME NEW i \in 1 .. Len(r) PROVE r[i] = Part(t, q[i - 1], q[i])
  <2>1. CASE i = 1
    <3>1. i - 1 = 0 /\ 0 \in 0 .. n + 1 /\ 1 \in 0 .. n + 1
      BY <1>2, <2>1
    <3>2. q[i - 1] = a /\ q[i] = c
      BY <1>6, <2>1, <3>1
    <3> QED BY <1>4, <2>1, <3>2 DEF e
  <2>2. CASE i # 1
    <3> DEFINE k == i - 1
    <3>1. /\ i \in 2 .. n + 1 /\ k \in 1 .. n /\ k \in 0 .. n + 1 /\ i \in 0 .. n + 1
          /\ k # 0 /\ i # 0
      BY <1>2, <1>4, <2>2
    <3>2. q[i - 1] = p[k - 1] /\ q[i] = p[k]
      BY <3>1
    <3>3. r[i] = s[k]
      BY <1>4, <3>1
    <3> HIDE DEF k, q
    <3>4. s[k] = Part(t, p[k - 1], p[k])
      BY <1>1, <3>1 DEF IsCutAt
    <3> QED BY <3>2, <3>3, <3>4
  <2> QED BY <2>1, <2>2
<1> HIDE DEF q
<1>12. IsCutAt(t, r, q, a, b)
  BY <1>8, <1>10, <1>11 DEF IsCutAt
<1>13. Pieces(t, r, a, b)
  BY <1>7, <1>12 DEF Pieces
<1> QED BY <1>13 DEF r, e

\* A text is its pieces, one behind the other: there are the texts of the first i
\* pieces,
Flattens(s, f) ==
  f = [i \in 1 .. Len(s) |-> IF i = 1 THEN s[i] ELSE f[i - 1] \o s[i]]

LEMMA FlattenExists ==
  ASSUME NEW S, NEW s \in Seq(Seq(S)), s # <<>>
  PROVE  \E f \in [1 .. Len(s) -> Seq(S)] : Flattens(s, f)
<1> DEFINE n == Len(s)
           Upto(m, f) == \A i \in 1 .. m : f[i] = IF i = 1 THEN s[i] ELSE f[i - 1] \o s[i]
           T == {m \in 0 .. n : \E f \in [1 .. n -> Seq(S)] : Upto(m, f)}
<1>1. n \in Nat \ {0} /\ \A i \in 1 .. n : s[i] \in Seq(S)
  BY EmptySeq, ElementOfSeq
<1>2. 0 \in T
  <2>1. [i \in 1 .. n |-> s[i]] \in [1 .. n -> Seq(S)]
    BY <1>1
  <2>2. Upto(0, [i \in 1 .. n |-> s[i]])
    OBVIOUS
  <2> HIDE DEF Upto
  <2> QED BY <1>1, <2>1, <2>2
<1>3. ASSUME NEW m \in 0 .. n, m < n /\ m \in T PROVE m + 1 \in T
  <2>1. PICK f \in [1 .. n -> Seq(S)] : Upto(m, f)
    BY <1>3
  <2> DEFINE k == m + 1
             v == IF k = 1 THEN s[k] ELSE f[k - 1] \o s[k]
             g == [i \in 1 .. n |-> IF i = k THEN v ELSE f[i]]
  <2>2. k \in 1 .. n /\ k \in 0 .. n /\ (k # 1 => k - 1 \in 1 .. n)
    BY <1>1, <1>3
  <2>3. v \in Seq(S)
    <3>1. CASE k = 1
      BY <1>1, <2>2, <3>1
    <3>2. CASE k # 1
      BY <1>1, <2>2, <3>2, ConcatProperties
    <3> QED BY <3>1, <3>2
  <2>4. g \in [1 .. n -> Seq(S)]
    <3> HIDE DEF v
    <3> QED BY <2>3
  <2>5. ASSUME NEW i \in 1 .. k PROVE g[i] = IF i = 1 THEN s[i] ELSE g[i - 1] \o s[i]
    <3>1. CASE i = k
      <4>1. k # 1 => k - 1 # k
        BY <2>2
      <4>2. g[k] = v /\ (k # 1 => g[k - 1] = f[k - 1])
        <5> HIDE DEF v
        <5> QED BY <2>2, <4>1
      <4> HIDE DEF g
      <4> QED BY <3>1, <4>2
    <3>2. CASE i # k
      <4>1. i \in 1 .. m /\ i \in 1 .. n /\ (i # 1 => i - 1 \in 1 .. n /\ i - 1 # k)
        BY <1>3, <2>2, <3>2
      <4>2. g[i] = f[i] /\ (i # 1 => g[i - 1] = f[i - 1])
        <5> HIDE DEF v
        <5> QED BY <3>2, <4>1
      <4> HIDE DEF g
      <4> QED BY <2>1, <4>1, <4>2
    <3> QED BY <3>1, <3>2
  <2> HIDE DEF g
  <2>6. Upto(k, g)
    BY <2>5
  <2> HIDE DEF Upto
  <2> QED BY <2>2, <2>4, <2>6
<1>4. n \in T
  <2> HIDE DEF T
  <2>1. \A m \in 0 .. n : m \in T
    BY <1>1, <1>2, <1>3, UpTo
  <2> QED BY <1>1, <2>1
<1>5. PICK f \in [1 .. n -> Seq(S)] : Upto(n, f)
  BY <1>4
<1>6. f = [i \in 1 .. n |-> IF i = 1 THEN s[i] ELSE f[i - 1] \o s[i]]
  BY <1>5
<1> QED BY <1>5, <1>6 DEF Flattens

\* ... the last of which is FlattenSeq's.
LEMMA FlattenLast ==
  ASSUME NEW S, NEW s \in Seq(Seq(S)), s # <<>>
  PROVE  \E f \in [1 .. Len(s) -> Seq(S)] : Flattens(s, f) /\ SE!FlattenSeq(s) = f[Len(s)]
<1> DEFINE n == Len(s)
           h == CHOOSE f : Flattens(s, f)
<1>1. n \in Nat \ {0} /\ \A i \in 1 .. n : s[i] \in Seq(S)
  BY EmptySeq, ElementOfSeq
<1>2. SE!FlattenSeq(s) = h[n]
  BY <1>1 DEF SE!FlattenSeq, Flattens
<1>3. Flattens(s, h)
  <2>1. \E f : Flattens(s, f)
    BY FlattenExists
  <2> QED BY <2>1, Zenon
<1>4. PICK f \in [1 .. n -> Seq(S)] : Flattens(s, f)
  BY FlattenExists
<1> HIDE DEF h
<1> DEFINE T == {i \in 0 .. n : i # 0 => h[i] = f[i]}
<1>5. ASSUME NEW i \in 0 .. n, i < n /\ i \in T PROVE i + 1 \in T
  <2> DEFINE k == i + 1
  <2>1. k \in 1 .. n /\ k \in 0 .. n /\ k - 1 = i /\ (k # 1 => i # 0)
    BY <1>1, <1>5
  <2> HIDE DEF k
  <2>2. /\ h[k] = IF k = 1 THEN s[k] ELSE h[k - 1] \o s[k]
        /\ f[k] = IF k = 1 THEN s[k] ELSE f[k - 1] \o s[k]
    BY <1>3, <1>4, <2>1 DEF Flattens
  <2>3. h[k] = f[k]
    BY <1>5, <2>1, <2>2
  <2> QED BY <2>1, <2>3 DEF k
<1>6. 0 \in T
  BY <1>1
<1>7. n \in T /\ n # 0
  <2> HIDE DEF T
  <2>1. \A i \in 0 .. n : i \in T
    BY <1>1, <1>5, <1>6, UpTo
  <2> QED BY <1>1, <2>1
<1> QED BY <1>2, <1>4, <1>7

LEMMA PiecesTextSome ==
  ASSUME NEW S, NEW s \in Seq(Seq(S)), s # <<>>
  PROVE  /\ SE!FlattenSeq(s) \in Seq(S)
         /\ Pieces(SE!FlattenSeq(s), s, 0, Len(SE!FlattenSeq(s)))
<1> DEFINE n == Len(s)
           t == SE!FlattenSeq(s)
<1>1. n \in Nat \ {0} /\ \A i \in 1 .. n : s[i] \in Seq(S)
  BY EmptySeq, ElementOfSeq
<1>2. PICK f \in [1 .. n -> Seq(S)] : Flattens(s, f) /\ t = f[n]
  BY FlattenLast
<1> HIDE DEF t
<1>3. t \in Seq(S) /\ Len(t) \in Nat
  BY <1>1, <1>2, LenProperties
<1> DEFINE p == [i \in 0 .. n |-> IF i = 0 THEN 0 ELSE Len(f[i])]
<1>4. \A i \in 0 .. n : p[i] \in Nat
  BY <1>1, LenProperties
<1>5. ASSUME NEW i \in 1 .. n
      PROVE  /\ i - 1 \in 0 .. n /\ i \in 0 .. n /\ p[i] = Len(f[i])
             /\ p[i] = p[i - 1] + Len(s[i])
             /\ \A b \in 1 .. p[i - 1] : i # 1 /\ f[i][b] = f[i - 1][b]
             /\ \A b \in 1 .. Len(s[i]) : f[i][p[i - 1] + b] = s[i][b]
  <2>1. i - 1 \in 0 .. n /\ i \in 0 .. n /\ i # 0
    BY <1>1
  <2>2. p[i] = Len(f[i])
    BY <2>1
  <2>3. f[i] = IF i = 1 THEN s[i] ELSE f[i - 1] \o s[i]
    BY <1>2 DEF Flattens
  <2>4. CASE i = 1
    <3>1. i - 1 = 0 /\ 0 \in 0 .. n
      BY <2>4, <1>1
    <3>2. p[i - 1] = 0
      BY <3>1
    <3>3. f[i] = s[i] /\ Len(s[i]) \in Nat
      BY <1>1, <2>3, <2>4, LenProperties
    <3> HIDE DEF p
    <3>4. \A b \in 1 .. Len(s[i]) : p[i - 1] + b = b
      BY <3>2, <3>3
    <3> QED BY <2>1, <2>2, <3>2, <3>3, <3>4
  <2>5. CASE i # 1
    <3>1. i - 1 \in 1 .. n /\ i - 1 # 0
      BY <1>1, <2>5
    <3>2. p[i - 1] = Len(f[i - 1])
      BY <2>1, <3>1
    <3>3. f[i - 1] \in Seq(S) /\ s[i] \in Seq(S)
      BY <1>1, <3>1
    <3> DEFINE u == f[i - 1]
               w == s[i]
    <3>4. /\ u \in Seq(S) /\ w \in Seq(S) /\ Len(u) \in Nat /\ Len(w) \in Nat
          /\ f[i] = u \o w /\ p[i - 1] = Len(u)
      BY <2>3, <2>5, <3>2, <3>3, LenProperties
    <3> HIDE DEF u, w
    <3>5. /\ Len(u \o w) = Len(u) + Len(w)
          /\ \A b \in 1 .. Len(u) + Len(w) : (u \o w)[b] = IF b <= Len(u) THEN u[b] ELSE w[b - Len(u)]
      BY <3>4, ConcatProperties
    <3>6. \A b \in 1 .. Len(u) : (u \o w)[b] = u[b]
      BY <3>4, <3>5
    <3>7. ASSUME NEW b \in 1 .. Len(w) PROVE (u \o w)[Len(u) + b] = w[b]
      <4> DEFINE c == Len(u) + b
      <4>1. c \in 1 .. Len(u) + Len(w) /\ ~(c <= Len(u)) /\ c - Len(u) = b
        BY <3>4
      <4> HIDE DEF c
      <4>2. (u \o w)[c] = w[b]
        BY <3>5, <4>1
      <4> QED BY <4>2 DEF c
    <3>8. p[i] = Len(u) + Len(w)
      BY <2>2, <3>4, <3>5
    <3> HIDE DEF p
    <3> QED BY <2>1, <2>2, <2>5, <3>4, <3>5, <3>6, <3>7, <3>8 DEF u, w
  <2> QED BY <2>4, <2>5
<1>0. p[0] = 0 /\ p[n] = Len(t)
  BY <1>1, <1>2
<1> HIDE DEF p
\* What the first i pieces give stays as it is.
<1> DEFINE Begun(i, j) == p[i] <= p[j] /\ \A b \in 1 .. p[i] : f[i][b] = f[j][b]
<1>6. ASSUME NEW i \in 1 .. n PROVE \A j \in 0 .. n : i <= j => Begun(i, j)
  <2> DEFINE T == {j \in 0 .. n : i <= j => Begun(i, j)}
  <2>1. 0 \in T
    BY <1>1
  <2>2. ASSUME NEW j \in 0 .. n, j < n /\ j \in T PROVE j + 1 \in T
    <3> DEFINE k == j + 1
    <3>1. k \in 0 .. n /\ k \in 1 .. n /\ k - 1 = j
      BY <1>1, <2>2
    <3>2. CASE ~(i <= k)
      BY <3>1, <3>2
    <3>3. CASE i = k
      BY <1>4, <3>1, <3>3
    <3>4. CASE i <= j
      <4>1. Begun(i, j)
        BY <2>2, <3>4
      <4> HIDE DEF k
      <4>2. /\ p[k] = p[j] + Len(s[k]) /\ Len(s[k]) \in Nat /\ p[j] \in Nat /\ p[i] \in Nat
            /\ \A b \in 1 .. p[j] : f[k][b] = f[j][b]
        BY <1>1, <1>4, <1>5, <3>1, LenProperties
      <4>3. p[i] <= p[k]
        BY <4>1, <4>2
      <4>4. \A b \in 1 .. p[i] : b \in 1 .. p[j]
        BY <4>1, <4>2
      <4> QED BY <3>1, <4>1, <4>2, <4>3, <4>4 DEF k
    <3> QED BY <2>2, <3>1, <3>2, <3>3, <3>4
  <2> HIDE DEF T
  <2>3. \A j \in 0 .. n : j \in T
    BY <1>1, <2>1, <2>2, UpTo
  <2> QED BY <2>3 DEF T
<1>7. ASSUME NEW i \in 0 .. n, NEW j \in 0 .. n, i <= j PROVE p[i] <= p[j]
  <2>1. CASE i = 0
    BY <1>0, <1>4, <2>1
  <2>2. CASE i # 0
    <3>1. i \in 1 .. n
      BY <1>1, <2>2
    <3> QED BY <1>6, <1>7, <3>1
  <2> QED BY <2>1, <2>2
<1>8. ASSUME NEW i \in 1 .. n PROVE s[i] = Part(t, p[i - 1], p[i])
  <2> DEFINE a == p[i - 1]
             c == p[i]
             e == Part(t, a, c)
  <2>1. /\ a \in Nat /\ c = a + Len(s[i]) /\ s[i] \in Seq(S) /\ Len(s[i]) \in Nat
        /\ \A b \in 1 .. Len(s[i]) : f[i][a + b] = s[i][b]
    BY <1>1, <1>4, <1>5, LenProperties
  <2>2. c <= Len(t) /\ \A b \in 1 .. c : f[i][b] = t[b]
    BY <1>0, <1>1, <1>2, <1>6
  <2> HIDE DEF a, c
  <2>3. a \in 0 .. Len(t) /\ c \in a .. Len(t)
    BY <1>3, <2>1, <2>2
  <2>4. e \in Seq(S) /\ Len(e) = c - a /\ \A b \in 1 .. c - a : e[b] = t[a + b]
    BY <1>3, <2>3, PartType
  <2> HIDE DEF e
  <2>5. ASSUME NEW b \in 1 .. Len(s[i]) PROVE s[i][b] = e[b]
    <3> DEFINE d == a + b
    <3>1. d \in 1 .. c /\ b \in 1 .. c - a
      BY <2>1
    <3>2. f[i][d] = s[i][b] /\ e[b] = t[d]
      BY <2>1, <2>4, <3>1
    <3> HIDE DEF d
    <3> QED BY <2>2, <3>1, <3>2
  <2>6. Len(s[i]) = Len(e)
    BY <2>1, <2>4
  <2>7. s[i] = e
    BY <2>1, <2>4, <2>5, <2>6, SeqEqual
  <2> QED BY <2>7 DEF e, a, c
<1>9. p \in Cuts(t, s)
  <2>1. ASSUME NEW i \in 0 .. n PROVE p[i] \in 0 .. Len(t)
    <3>1. p[i] <= p[n] /\ p[i] \in Nat
      BY <1>1, <1>4, <1>7
    <3> QED BY <1>0, <1>3, <3>1
  <2>2. p = [i \in 0 .. n |-> p[i]]
    BY DEF p
  <2> QED BY <2>1, <2>2 DEF Cuts
<1>10. IsCutAt(t, s, p, 0, Len(t))
  BY <1>0, <1>7, <1>8 DEF IsCutAt
<1> QED BY <1>3, <1>9, <1>10 DEF Pieces, t

\* The text of nothing is nothing.
LEMMA PiecesText ==
  ASSUME NEW S, NEW s \in Seq(Seq(S))
  PROVE  /\ SE!FlattenSeq(s) \in Seq(S)
         /\ Pieces(SE!FlattenSeq(s), s, 0, Len(SE!FlattenSeq(s)))
<1>1. CASE s # <<>>
  BY <1>1, PiecesTextSome
<1>2. CASE s = <<>>
  <2>1. Len(<<>>) = 0 /\ <<>> \in Seq(S) /\ 0 \in 0 .. Len(<<>>)
    BY EmptySeq
  <2>2. SE!FlattenSeq(s) = <<>>
    BY <1>2, <2>1 DEF SE!FlattenSeq
  <2>3. Pieces(<<>>, <<>>, 0, 0)
    BY <2>1, PiecesNone
  <2> QED BY <1>2, <2>1, <2>2, <2>3
<1> QED BY <1>1, <1>2

-----------------------------------------------------------------------------
(***************************************************************************)
(* Types.                                                                  *)
(***************************************************************************)
\* What a message holds, and what Read keeps of one.
Chunks == {d \in Seq(Byte) : Len(d) <= kPipeData}
Rests == {d \in Seq(Byte) : Len(d) < kPipeData}
\* What is written in one call.
Calls == Seq(Byte) \ {<<>>}
Message == {m \in [type : {"pipe", "key", "close"}, data : Chunks] : m.type # "pipe" => m.data = <<>>}
States == {"none", "loop", "parse", "map", "read", "write", "page", "key",
           "finish", "wait", "exit", "finished", "closed"}

TypeInv ==
  /\ pc \in [Stage -> States]
  /\ commands \in [Stage -> Seq(Command)]
  /\ out \in [Stage -> Seq(Calls)]
  /\ \A k \in Stage : pc[k] = "write" => out[k] # <<>>
  /\ input \in [Stage -> Seq(Byte)]
  /\ shown \in [Stage -> Nat]
  /\ layer_id_ \in [Stage -> {Window, Elsewhere}]
  /\ msgs_ \in [Stage -> Seq(Message)]
  /\ data_ \in [Stage -> Rests]
  /\ closed_ \in [Stage -> BOOLEAN]
  /\ layer_task_map \in {NoTask} \cup Stage
  /\ screen \in Seq(Byte)
  /\ quit \in BOOLEAN

LEMMA OneIsStage == 1 \in Stage /\ \A k \in Stage : k \in Nat /\ k >= 1
BY SizeAssumption DEF Stage

LEMMA SourceOutput ==
  ASSUME NEW c \in Source
  PROVE  /\ Output[c] \in Seq(Seq(Byte)) /\ Output[c] \in Seq(Calls)
         /\ c \notin {"cat", "more"}
<1>1. Output[c] \in Seq(Seq(Byte)) /\ c \notin {"cat", "more"}
  BY OutputAssumption
<1> DEFINE s == Output[c]
<1>2. s \in [1 .. Len(s) -> Seq(Byte)] /\ Len(s) \in Nat /\ DOMAIN s = 1 .. Len(s)
  BY <1>1, LenProperties
<1>3. \A i \in 1 .. Len(s) : s[i] \in Calls
  BY <1>2, OutputAssumption DEF Calls
<1> HIDE DEF s
<1>4. s \in [1 .. Len(s) -> Calls]
  BY <1>2, <1>3
<1>5. s \in Seq(Calls)
  BY <1>2, <1>4, SeqDef
<1> QED BY <1>1, <1>5 DEF s

\* What is still to be written is bytes.
LEMMA CallsType ==
  /\ \A w \in Seq(Calls) : w \in Seq(Seq(Byte))
  /\ \A d \in Calls : d \in Seq(Byte) /\ d # <<>> /\ Len(d) \in Nat \ {0}
  /\ \A d \in Seq(Byte) : d # <<>> => d \in Calls /\ <<d>> \in Seq(Calls) /\ <<d>> # <<>>
<1>1. Calls \subseteq Seq(Byte)
  BY DEF Calls
<1>2. \A w \in Seq(Calls) : w \in Seq(Seq(Byte))
  BY <1>1, SeqMonotonic
<1>3. \A d \in Calls : d \in Seq(Byte) /\ d # <<>> /\ Len(d) \in Nat \ {0}
  BY EmptySeq DEF Calls
<1>4. \A d \in Calls : <<d>> \in Seq(Calls) /\ <<d>> # <<>>
  OBVIOUS
<1> QED BY <1>2, <1>3, <1>4 DEF Calls

LEMMA CutType ==
  ASSUME NEW S, NEW s \in Seq(S), NEW n \in Nat
  PROVE  /\ Least(n, Len(s)) \in 0 .. Len(s)
         /\ First(s, n) \in Seq(S) /\ Len(First(s, n)) = Least(n, Len(s))
         /\ Behind(s, Least(n, Len(s))) \in Seq(S)
         /\ Len(Behind(s, Least(n, Len(s)))) = Len(s) - Least(n, Len(s))
<1> DEFINE m == Least(n, Len(s))
<1>1. Len(s) \in Nat /\ m \in 0 .. Len(s) /\ Len(s) \in m .. Len(s) /\ 0 \in 0 .. Len(s) /\ m - 0 = m
  BY LenProperties DEF Least
<1> HIDE DEF m
<1>2. Part(s, 0, m) \in Seq(S) /\ Len(Part(s, 0, m)) = m - 0
  BY <1>1, PartType
<1>3. Part(s, m, Len(s)) \in Seq(S) /\ Len(Part(s, m, Len(s))) = Len(s) - m
  BY <1>1, PartType
<1>4. First(s, n) = Part(s, 0, m) /\ Behind(s, m) = Part(s, m, Len(s))
  BY DEF First, Behind, Part, m
<1> QED BY <1>1, <1>2, <1>3, <1>4 DEF m

LEMMA MessageType ==
  /\ \A m \in Message : /\ m.type \in {"pipe", "key", "close"} /\ m.data \in Seq(Byte)
                        /\ Len(m.data) <= kPipeData
                        /\ m.type # "pipe" => m.data = <<>>
  /\ \A d \in Chunks : Data(d) \in Message /\ Data(d).data = d /\ Data(d).type = "pipe"
  /\ EndOfData \in Message /\ EndOfData.data = <<>> /\ EndOfData.type = "pipe"
  /\ \A m \in {Key, Close} : m \in Message /\ m.data = <<>> /\ m.type # "pipe"
<1>1. <<>> \in Chunks
  BY EmptySeq, SizeAssumption DEF Chunks
<1>2. \A m \in Message : /\ m.type \in {"pipe", "key", "close"} /\ m.data \in Chunks
                         /\ m.type # "pipe" => m.data = <<>>
  BY DEF Message
<1>3. \A d \in Chunks : Data(d) \in Message /\ Data(d).data = d /\ Data(d).type = "pipe"
  BY DEF Message, Data
<1>4. \A m \in {Key, Close} : m \in Message /\ m.data = <<>> /\ m.type # "pipe"
  BY <1>1 DEF Message, Key, Close
<1> QED BY <1>1, <1>2, <1>3, <1>4 DEF EndOfData, Chunks

\* What Length, Chunk and PageEnd return.
LEMMA LengthType == \A k : Length(k) \in Nat \ {0} /\ Length(k) <= kPipeData
BY SizeAssumption DEF Length

LEMMA PageEndType ==
  ASSUME NEW t \in Seq(Byte), NEW from
  PROVE  PageEnd(t, from) \in 0 .. Len(t)
<1> DEFINE pages == {i \in LineEnds(t) :
                     Cardinality({j \in LineEnds(t) : from < j /\ j <= i}) = kPageSize}
<1>1. pages \subseteq 1 .. Len(t) /\ Len(t) \in Nat
  BY LenProperties DEF LineEnds
<1> DEFINE x == CHOOSE i \in pages : TRUE
<1>2. PageEnd(t, from) = IF pages = {} THEN Len(t) ELSE x
  BY DEF PageEnd
<1> HIDE DEF pages
<1>3. pages # {} => x \in pages
  OBVIOUS
<1> HIDE DEF x
<1>4. CASE pages = {}
  <2>1. PageEnd(t, from) = Len(t)
    BY <1>2, <1>4
  <2> QED BY <1>1, <2>1
<1>5. CASE pages # {}
  <2>1. PageEnd(t, from) = x /\ x \in pages
    BY <1>2, <1>3, <1>5
  <2> QED BY <1>1, <2>1
<1> QED BY <1>4, <1>5

LEMMA TypeInit == Init => TypeInv
<1>1. /\ <<>> \in Seq(Command) /\ <<>> \in Seq(Calls) /\ <<>> \in Seq(Byte) /\ <<>> \in Seq(Message)
      /\ <<>> \in Rests
  BY EmptySeq, SizeAssumption DEF Rests
<1> SUFFICES ASSUME Init PROVE TypeInv
  OBVIOUS
<1>2. pc \in [Stage -> States] /\ layer_task_map \in {NoTask} \cup Stage /\ quit \in BOOLEAN
  BY OneIsStage DEF Init, States
<1>3. /\ commands \in [Stage -> Seq(Command)] /\ out \in [Stage -> Seq(Calls)]
      /\ \A k \in Stage : pc[k] # "write"
  BY <1>1 DEF Init
<1>4. input \in [Stage -> Seq(Byte)] /\ shown \in [Stage -> Nat] /\ screen \in Seq(Byte)
  BY <1>1 DEF Init
<1>5. msgs_ \in [Stage -> Seq(Message)] /\ data_ \in [Stage -> Rests]
  BY <1>1 DEF Init
<1>6. layer_id_ \in [Stage -> {Window, Elsewhere}] /\ closed_ \in [Stage -> BOOLEAN]
  BY DEF Init
<1> QED BY <1>2, <1>3, <1>4, <1>5, <1>6 DEF TypeInv

\* Messages are appended, or taken off, in order.
LEMMA SendType ==
  ASSUME TypeInv, NEW k, NEW m \in Message, Send(k, m)
  PROVE  msgs_' \in [Stage -> Seq(Message)]
<1>1. \A q \in Seq(Message) : Append(q, m) \in Seq(Message)
  BY AppendProperties
<1> QED BY <1>1 DEF TypeInv, Send

LEMMA TailType ==
  ASSUME TypeInv, NEW k, msgs_[k] # <<>>, msgs_' = [msgs_ EXCEPT ![k] = Tail(@)]
  PROVE  msgs_' \in [Stage -> Seq(Message)]
<1>1. \A q \in Seq(Message) : q # <<>> => Tail(q) \in Seq(Message)
  BY HeadTailProperties
<1> QED BY <1>1 DEF TypeInv

LEMMA AfterType ==
  \A k : /\ AfterWrite(k) \in {"read", "finish", "exit", "loop"} /\ AfterWrite(k) \in States
         /\ Returns(k) \in {"finish", "exit"} /\ Returns(k) \in States
BY DEF AfterWrite, Returns, States

\* What a step may do to where the tasks are and to what they write.
WritesType ==
  /\ pc \in [Stage -> States] /\ out \in [Stage -> Seq(Calls)]
  /\ \A k \in Stage : pc[k] = "write" => out[k] # <<>>

\* After what was taken off the calls,
LEMMA RemainingType ==
  ASSUME TypeInv, NEW k \in Stage, NEW w \in Seq(Calls), Remaining(k, w)
  PROVE  WritesType'
<1> DEFINE st == IF w = <<>> THEN AfterWrite(k) ELSE "write"
<1>1. st \in States /\ (st = "write" => w # <<>>)
  <2>1. AfterWrite(k) \in States /\ AfterWrite(k) # "write"
    BY AfterType
  <2> QED BY <2>1 DEF States
<1>2. pc' = [pc EXCEPT ![k] = st] /\ out' = [out EXCEPT ![k] = w]
  BY DEF Remaining
<1> HIDE DEF st
<1> QED BY <1>1, <1>2 DEF TypeInv, WritesType

\* ... and after something was read.
LEMMA GotType ==
  ASSUME TypeInv, NEW k \in Stage, NEW b \in Seq(Byte), Got(k, b), pc[k] = "read"
  PROVE  WritesType' /\ input' \in [Stage -> Seq(Byte)]
<1> DEFINE line == input[k] \o b
<1>1. line \in Seq(Byte) /\ <<>> \in Seq(Byte) /\ (line = <<>> => b = <<>>)
  BY ConcatProperties, ConcatEqualIffEmpty, EmptySeq DEF TypeInv
<1>2. CASE CatGot(k, b)
  <2>1. CatGot(k, b) <=>
          IF b = <<>> /\ line = <<>>
          THEN pc' = [pc EXCEPT ![k] = Returns(k)] /\ UNCHANGED <<out, input>>
          ELSE IF b = <<>> \/ line[Len(line)] = Newline
          THEN /\ pc' = [pc EXCEPT ![k] = "write"]
               /\ out' = [out EXCEPT ![k] = <<line>>]
               /\ input' = [input EXCEPT ![k] = <<>>]
          ELSE input' = [input EXCEPT ![k] = line] /\ UNCHANGED <<pc, out>>
    BY DEF CatGot
  <2> HIDE DEF line
  <2>2. CASE pc' = [pc EXCEPT ![k] = Returns(k)] /\ UNCHANGED <<out, input>>
    BY <2>2, AfterType DEF TypeInv, WritesType, Returns
  <2>3. CASE /\ line # <<>>
             /\ pc' = [pc EXCEPT ![k] = "write"]
             /\ out' = [out EXCEPT ![k] = <<line>>]
             /\ input' = [input EXCEPT ![k] = <<>>]
    <3>1. <<line>> \in Seq(Calls) /\ <<line>> # <<>>
      BY <1>1, <2>3, CallsType
    <3> QED BY <1>1, <2>3, <3>1 DEF TypeInv, WritesType, States
  <2>4. CASE input' = [input EXCEPT ![k] = line] /\ UNCHANGED <<pc, out>>
    BY <1>1, <2>4 DEF TypeInv, WritesType
  <2> QED BY <1>1, <1>2, <2>1, <2>2, <2>3, <2>4
<1>3. CASE MoreGot(k, b)
  BY <1>1, <1>3 DEF MoreGot, TypeInv, WritesType, States
<1> QED BY <1>2, <1>3 DEF Got

LEMMA ExitsType ==
  ASSUME TypeInv, NEW k \in Stage, NEW b \in Seq(Byte), MoreExits(k, b)
  PROVE  WritesType'
<1>1. CASE b = <<>>
  <2>1. <<>> \in Seq(Calls)
    BY EmptySeq
  <2> QED BY <1>1, <2>1, AfterType DEF MoreExits, TypeInv, WritesType, Returns
<1>2. CASE b # <<>>
  <2>1. <<b>> \in Seq(Calls) /\ <<b>> # <<>>
    BY <1>2, CallsType
  <2> QED BY <1>2, <2>1 DEF MoreExits, TypeInv, WritesType, States
<1> QED BY <1>1, <1>2

(***************************************************************************)
(* The tasks of a line.                                                    *)
(***************************************************************************)
\* Where a task is that has started the next one and not seen its end.
Working == {"map", "read", "write", "page", "key", "finish", "wait"}
Busy == pc[1] \notin {"loop", "closed"}
Line == commands[1]

\* The tasks are those of the first stages: each has the commands of the line from
\* its own on, and is there as long as the one before it works.
LineInv ==
  /\ pc[1] \in {"loop", "parse", "map", "write", "finish", "wait", "closed"}
  /\ Line = <<>> \/ Line \in Lines
  /\ Busy => Line \in Lines
  /\ \A k \in Stage :
       /\ k # 1 => pc[k] \notin {"loop", "closed"}
       /\ k # 1 /\ pc[k] # "none" =>
            /\ Busy /\ k <= Len(Line)
            /\ commands[k] = SubSeq(Line, k, Len(Line))
            /\ \A j \in 1 .. k - 1 : pc[j] \in Working
       /\ pc[k] \in {"map", "finish", "wait"} => k < Len(Line)
       /\ pc[k] \in Working /\ k < Len(Line) => pc[k + 1] # "none"

LEMMA LineType ==
  ASSUME NEW l \in Lines
  PROVE  /\ l \in Seq(Command) /\ Len(l) \in Nat /\ Len(l) >= 1 /\ Len(l) <= MaxStages /\ l # <<>>
         /\ \A k \in 1 .. Len(l) : l[k] \in Source <=> k = 1
         /\ \A k \in 1 .. Len(l) : k # 1 => l[k] \in {"cat", "more"}
<1>1. l \in Seq(Command) /\ Len(l) \in 1 .. MaxStages /\ \A k \in DOMAIN l : l[k] \in Source <=> k = 1
  BY LineAssumption
<1>2. DOMAIN l = 1 .. Len(l) /\ \A k \in 1 .. Len(l) : l[k] \in Command
  BY <1>1, LenProperties, ElementOfSeq
<1>3. l # <<>>
  BY <1>1, EmptySeq
<1> QED BY <1>1, <1>2, <1>3, SizeAssumption DEF Command

\* Whoever is on the line knows its own command and whether others follow.
LEMMA OnLine ==
  ASSUME LineInv, NEW k \in Stage, pc[k] \notin {"none", "loop", "closed"}
  PROVE  /\ Busy /\ Line \in Lines /\ k \in 1 .. Len(Line)
         /\ commands[k] = SubSeq(Line, k, Len(Line)) /\ commands[k] # <<>>
         /\ Head(commands[k]) = Line[k]
         /\ Line[k] \in Source <=> k = 1
         /\ Line[k] \in Source \cup {"cat", "more"}
         /\ HasPipe(k) <=> k < Len(Line)
         /\ HasPipe(k) => k + 1 \in Stage /\ Tail(commands[k]) = SubSeq(Line, k + 1, Len(Line))
<1>1. Busy /\ Line \in Lines /\ k \in Nat /\ k >= 1
  BY OneIsStage DEF LineInv, Busy
<1>2. /\ Line \in Seq(Command) /\ Len(Line) \in Nat /\ Len(Line) >= 1 /\ Len(Line) <= MaxStages
      /\ \A j \in 1 .. Len(Line) : Line[j] \in Source <=> j = 1
      /\ \A j \in 1 .. Len(Line) : j # 1 => Line[j] \in {"cat", "more"}
  BY <1>1, LineType
<1>3. k <= Len(Line)
  BY <1>1, <1>2 DEF LineInv
<1>4. commands[k] = SubSeq(Line, k, Len(Line))
  <2>1. CASE k = 1
    BY <1>2, <2>1, SubSeqFull DEF Line
  <2>2. CASE k # 1
    BY <2>2 DEF LineInv
  <2> QED BY <2>1, <2>2
<1>5. k \in 1 .. Len(Line) /\ Len(Line) \in k .. Len(Line)
  BY <1>1, <1>2, <1>3
<1>6. /\ Head(commands[k]) = Line[k]
      /\ Tail(commands[k]) = SubSeq(Line, k + 1, Len(Line))
  BY <1>2, <1>4, <1>5, HeadTailOfSubSeq
<1>7. Len(commands[k]) = Len(Line) - k + 1 /\ commands[k] \in Seq(Command)
  <2>1. \A i \in k .. Len(Line) : Line[i] \in Command
    BY <1>1, <1>2, ElementOfSeq
  <2>2. k \in Int /\ Len(Line) \in Int
    BY <1>1, <1>2
  <2>3. /\ SubSeq(Line, k, Len(Line)) \in Seq(Command)
        /\ Len(SubSeq(Line, k, Len(Line))) = IF k <= Len(Line) THEN Len(Line) - k + 1 ELSE 0
    BY <2>1, <2>2, SubSeqProperties
  <2> QED BY <1>3, <1>4, <2>3
<1>8. commands[k] # <<>>
  BY <1>2, <1>5, <1>7, EmptySeq
<1>9. HasPipe(k) <=> k < Len(Line)
  BY <1>2, <1>5, <1>7 DEF HasPipe
<1>10. HasPipe(k) => k + 1 \in Stage
  BY <1>1, <1>2, <1>9, SizeAssumption DEF Stage
<1> QED BY <1>1, <1>2, <1>4, <1>5, <1>6, <1>8, <1>9, <1>10

LEMMA TypeStep ==
  ASSUME TypeInv, LineInv, NEW k \in Stage, Task(k)
  PROVE  TypeInv'
<1>1. CASE k = 1 /\ ReceiveKey
  <2>1. \A l \in Lines : l \in Seq(Command)
    BY LineAssumption
  <2>2. msgs_' \in [Stage -> Seq(Message)] /\ <<>> \in Seq(Byte)
    BY <1>1, TailType, EmptySeq DEF ReceiveKey
  <2>3. UNCHANGED <<out, input, shown, layer_id_, data_, closed_, layer_task_map>>
    BY <1>1 DEF ReceiveKey, pipes
  <2>4. CASE UNCHANGED <<pc, commands, screen, quit>>
    BY <2>2, <2>3, <2>4 DEF TypeInv
  <2>5. ASSUME NEW line \in Lines, commands' = [commands EXCEPT ![1] = line],
               pc' = [pc EXCEPT ![1] = "parse"], screen' = <<>> /\ quit' = FALSE
        PROVE  TypeInv'
    <3>1. commands' \in [Stage -> Seq(Command)] /\ pc' \in [Stage -> States]
      BY <2>1, <2>5 DEF TypeInv, States
    <3>2. \A j \in Stage : pc'[j] = "write" => pc[j] = "write"
      BY <2>5 DEF TypeInv
    <3>3. screen' \in Seq(Byte) /\ quit' \in BOOLEAN
      BY <2>2, <2>5
    <3> QED BY <2>2, <2>3, <3>1, <3>2, <3>3 DEF TypeInv
  <2> QED BY <1>1, <2>4, <2>5 DEF ReceiveKey
<1>2. CASE k = 1 /\ ReceiveClose
  BY <1>2, EmptySeq DEF ReceiveClose, pipes, program, TypeInv, States
<1> DEFINE Types3 == /\ WritesType'
                     /\ input' \in [Stage -> Seq(Byte)] /\ shown' \in [Stage -> Nat]
<1>3. ASSUME Begin(k) PROVE Types3
  <2>1. <<>> \in Seq(Calls) /\ <<>> \in Seq(Byte)
    BY EmptySeq
  <2> DEFINE c == Head(commands[k])
  <2>2. c \in Source => Output[c] \in Seq(Calls)
    BY SourceOutput
  <2> HIDE DEF c
  <2>3. /\ pc' = [pc EXCEPT ![k] = IF c \notin Source THEN "read"
                                   ELSE IF Output[c] = <<>> THEN AfterWrite(k) ELSE "write"]
        /\ out' = [out EXCEPT ![k] = IF c \in Source THEN Output[c] ELSE <<>>]
        /\ input' = [input EXCEPT ![k] = <<>>] /\ shown' = [shown EXCEPT ![k] = 0]
    BY <1>3 DEF Begin, c
  <2>4. AfterWrite(k) \in States /\ AfterWrite(k) # "write"
    BY AfterType
  <2> QED BY <2>1, <2>2, <2>3, <2>4 DEF TypeInv, WritesType, States
<1> HIDE DEF Types3
<1>4. CASE ExecuteLine(k)
  BY <1>3, <1>4 DEF Types3, WritesType, ExecuteLine, pipes, TypeInv
<1>5. CASE StartSubtask(k)
  <2>1. commands[k] # <<>> /\ Tail(commands[k]) \in Seq(Command)
    <3>1. commands[k] \in Seq(Command) /\ Len(commands[k]) > 1
      BY <1>5 DEF StartSubtask, HasPipe, TypeInv
    <3>2. commands[k] # <<>>
      BY <3>1, EmptySeq
    <3> QED BY <3>1, <3>2, HeadTailProperties
  <2>2. <<>> \in Seq(Message) /\ <<>> \in Rests
    BY EmptySeq, SizeAssumption DEF Rests
  <2>3. \E id \in {Window, Elsewhere} : layer_id_' = [layer_id_ EXCEPT ![k + 1] = id]
    BY <1>5 DEF StartSubtask
  <2> QED BY <1>5, <2>1, <2>2, <2>3 DEF StartSubtask, TypeInv, States
<1>6. CASE MapSubtask(k)
  <2>1. layer_task_map' \in {NoTask} \cup Stage
    <3>1. k + 1 \in Stage
      BY <1>6, OnLine DEF MapSubtask, LineInv
    <3> QED BY <1>6, <3>1 DEF MapSubtask, MapTo, TypeInv
  <2> QED BY <1>3, <1>6, <2>1 DEF Types3, WritesType, MapSubtask, pipes, TypeInv
<1>7. ASSUME pc[k] = "write"
      PROVE  /\ Head(out[k]) \in Calls /\ Tail(out[k]) \in Seq(Calls) /\ Head(out[k]) \in Seq(Byte)
             /\ k + 1 \in Stage \/ ~HasPipe(k)
  <2>1. out[k] \in Seq(Calls) /\ out[k] # <<>>
    BY <1>7 DEF TypeInv
  <2> QED BY <1>7, <2>1, OnLine, HeadTailProperties, CallsType
<1>8. CASE WritePipe(k)
  <2> DEFINE bytes == Head(out[k])
             chunk == Chunk(bytes)
             rest == Behind(bytes, Len(chunk))
             writes == IF rest = <<>> THEN Tail(out[k]) ELSE <<rest>> \o Tail(out[k])
  <2>1. bytes \in Seq(Byte) /\ Tail(out[k]) \in Seq(Calls)
    BY <1>7, <1>8 DEF WritePipe
  <2> HIDE DEF bytes
  <2>2. chunk \in Seq(Byte) /\ Len(chunk) = Least(kPipeData, Len(bytes)) /\ rest \in Seq(Byte)
    BY <2>1, CutType, SizeAssumption DEF Chunk
  <2>3. chunk \in Chunks
    BY <2>1, <2>2, SizeAssumption, LenProperties DEF Chunks, Least
  <2> HIDE DEF rest, chunk
  <2>4. writes \in Seq(Calls)
    BY <2>1, <2>2, CallsType, ConcatProperties
  <2>5. Send(k + 1, Data(chunk)) /\ Remaining(k, writes)
    BY <1>8 DEF WritePipe, bytes, rest, chunk
  <2> HIDE DEF writes
  <2>6. WritesType' /\ msgs_' \in [Stage -> Seq(Message)]
    BY <2>3, <2>4, <2>5, RemainingType, SendType, MessageType
  <2>7. UNCHANGED <<commands, input, shown, layer_id_, data_, closed_, layer_task_map, screen, quit>>
    BY <1>8 DEF WritePipe, pipes
  <2> QED BY <2>6, <2>7 DEF TypeInv, WritesType
<1>9. CASE WriteScreen(k)
  <2>1. WritesType'
    BY <1>7, <1>9, RemainingType DEF WriteScreen
  <2>2. screen' \in Seq(Byte)
    BY <1>7, <1>9, ConcatProperties DEF WriteScreen, TypeInv
  <2> QED BY <1>9, <2>1, <2>2 DEF WriteScreen, pipes, TypeInv, WritesType
\* What Read returns and what it keeps.
<1>10. ASSUME NEW d \in Seq(Byte), Len(d) <= kPipeData
       PROVE  First(d, Length(k)) \in Seq(Byte) /\ Rest(d, k) \in Rests
  <2>1. /\ First(d, Length(k)) \in Seq(Byte) /\ Rest(d, k) \in Seq(Byte)
        /\ Len(Rest(d, k)) = Len(d) - Least(Length(k), Len(d))
    BY CutType, LengthType DEF Rest
  <2>2. Len(d) - Least(Length(k), Len(d)) < kPipeData
    BY <1>10, LengthType, SizeAssumption, LenProperties DEF Least
  <2> QED BY <2>1, <2>2 DEF Rests
<1>11. CASE ReadRest(k)
  <2>1. data_[k] \in Seq(Byte) /\ Len(data_[k]) <= kPipeData
    BY SizeAssumption, LenProperties DEF TypeInv, Rests
  <2>2. data_' = [data_ EXCEPT ![k] = Rest(data_[k], k)] /\ Got(k, First(data_[k], Length(k)))
    BY <1>11 DEF ReadRest, Rest, TypeInv
  <2>3. WritesType' /\ input' \in [Stage -> Seq(Byte)] /\ data_' \in [Stage -> Rests]
    BY <1>10, <1>11, <2>1, <2>2, GotType DEF ReadRest, TypeInv
  <2> QED BY <1>11, <2>3 DEF ReadRest, TypeInv, WritesType
<1>12. CASE ReadEnd(k)
  <2>1. WritesType' /\ input' \in [Stage -> Seq(Byte)]
    BY <1>12, GotType, EmptySeq DEF ReadEnd
  <2> QED BY <1>12, <2>1 DEF ReadEnd, pipes, TypeInv, WritesType
<1>13. CASE ReadMessage(k)
  <2> DEFINE m == Head(msgs_[k])
  <2>1. m \in Message /\ msgs_' \in [Stage -> Seq(Message)]
    <3>1. msgs_[k] \in Seq(Message) /\ msgs_[k] # <<>> /\ msgs_' = [msgs_ EXCEPT ![k] = Tail(@)]
      BY <1>13 DEF ReadMessage, TypeInv
    <3> QED BY <3>1, HeadTailProperties, TailType
  <2> HIDE DEF m
  <2>2. m.data \in Seq(Byte) /\ Len(m.data) <= kPipeData
    BY <2>1, MessageType
  <2>3. UNCHANGED <<commands, shown, layer_id_, layer_task_map, screen, quit>> /\ pc[k] = "read"
    BY <1>13 DEF ReadMessage
  <2>4. CASE UNCHANGED <<pc, out, input, data_, closed_>>
    BY <2>1, <2>3, <2>4 DEF TypeInv
  <2>5. CASE /\ closed_' = [closed_ EXCEPT ![k] = Closed(m.data)]
             /\ data_' = [data_ EXCEPT ![k] = Rest(m.data, k)]
             /\ Got(k, First(m.data, Length(k)))
    <3>1. First(m.data, Length(k)) \in Seq(Byte) /\ Rest(m.data, k) \in Rests
      BY <1>10, <2>2
    <3>2. WritesType' /\ input' \in [Stage -> Seq(Byte)]
      BY <2>3, <2>5, <3>1, GotType
    <3>3. Closed(m.data) \in BOOLEAN
      BY DEF Closed
    <3>4. data_' \in [Stage -> Rests] /\ closed_' \in [Stage -> BOOLEAN]
      BY <2>5, <3>1, <3>3 DEF TypeInv
    <3> QED BY <2>1, <2>3, <3>2, <3>4 DEF TypeInv, WritesType
  <2> QED BY <1>13, <2>4, <2>5 DEF ReadMessage, pipes, m
<1>14. CASE ShowPage(k)
  <2> DEFINE end == PageEnd(input[k], shown[k])
  <2>1. input[k] \in Seq(Byte) /\ end \in Nat
    <3>1. input[k] \in Seq(Byte)
      BY DEF TypeInv
    <3> QED BY <3>1, PageEndType
  <2>2. /\ shown' = [shown EXCEPT ![k] = end]
        /\ IF end = Len(input[k]) THEN MoreExits(k, input[k])
           ELSE pc' = [pc EXCEPT ![k] = "key"] /\ UNCHANGED out
        /\ UNCHANGED <<commands, input, layer_id_, msgs_, data_, closed_, layer_task_map, screen, quit>>
    BY <1>14 DEF ShowPage, pipes
  <2> HIDE DEF end
  <2>3. CASE MoreExits(k, input[k])
    BY <2>1, <2>2, <2>3, ExitsType DEF TypeInv, WritesType
  <2>4. CASE pc' = [pc EXCEPT ![k] = "key"] /\ UNCHANGED out
    BY <2>1, <2>2, <2>4 DEF TypeInv, States
  <2> QED BY <2>2, <2>3, <2>4
<1>15. CASE WaitKey(k)
  <2>1. msgs_' \in [Stage -> Seq(Message)]
    BY <1>15, TailType DEF WaitKey
  <2>2. UNCHANGED <<commands, input, shown, layer_id_, data_, closed_, layer_task_map, screen>>
    BY <1>15 DEF WaitKey, pipes
  <2>3. WritesType' /\ quit' \in BOOLEAN
    <3>1. CASE pc' = [pc EXCEPT ![k] = "page"] /\ UNCHANGED <<out, quit>>
      BY <3>1 DEF TypeInv, WritesType, States
    <3>2. CASE MoreExits(k, First(input[k], shown[k])) /\ quit' = TRUE
      <4>1. First(input[k], shown[k]) \in Seq(Byte)
        BY CutType DEF TypeInv
      <4> QED BY <3>2, <4>1, ExitsType
    <3>3. CASE UNCHANGED <<pc, out, quit>>
      BY <3>3 DEF TypeInv, WritesType
    <3> QED BY <1>15, <3>1, <3>2, <3>3 DEF WaitKey
  <2> QED BY <2>1, <2>2, <2>3 DEF TypeInv, WritesType
<1>16. CASE FinishWrite(k)
  <2>1. msgs_' \in [Stage -> Seq(Message)]
    BY <1>16, SendType, MessageType DEF FinishWrite
  <2> QED BY <1>16, <2>1 DEF FinishWrite, pipes, program, TypeInv, States
<1>17. CASE WaitFinish(k)
  <2>1. layer_task_map' \in {NoTask} \cup Stage
    BY <1>17 DEF WaitFinish, MapTo, TypeInv
  <2>2. pc' \in [Stage -> States] /\ \A j \in Stage : pc'[j] = "write" => pc[j] = "write"
    BY <1>17 DEF WaitFinish, TypeInv, States
  <2> QED BY <1>17, <2>1, <2>2 DEF WaitFinish, pipes, program, TypeInv
<1>18. CASE Finish(k)
  BY <1>18, EmptySeq DEF Finish, pipes, program, TypeInv, States
<1> QED BY <1>1, <1>2, <1>4, <1>5, <1>6, <1>8, <1>9, <1>11, <1>12, <1>13, <1>14, <1>15, <1>16, <1>17, <1>18
        DEF Task

\* Behind a task that does not work there is none.
LEMMA Above ==
  ASSUME LineInv, NEW k \in Stage, pc[k] \notin Working \/ k >= Len(Line)
  PROVE  \A j \in Stage : j > k => pc[j] = "none"
<1> SUFFICES ASSUME NEW j \in Stage, j > k, pc[j] # "none" PROVE FALSE
  OBVIOUS
<1>1. j # 1 /\ k \in 1 .. j - 1 /\ j \in Nat /\ k \in Nat
  BY OneIsStage
<1>2. /\ Busy /\ j <= Len(Line) /\ pc[k] \in Working
  BY <1>1 DEF LineInv
<1>3. Line \in Lines
  BY <1>2 DEF LineInv
<1>4. Len(Line) \in Nat
  BY <1>3, LineType
<1> QED BY <1>1, <1>2, <1>4

\* The task of stage k goes on to s.
Moves(k, s) ==
  /\ pc' = [pc EXCEPT ![k] = s] /\ UNCHANGED commands
  /\ pc[k] \notin {"none", "loop", "closed"}
  /\ s \in {"loop", "map", "read", "write", "page", "key", "finish", "wait", "exit", "finished"}
  /\ k = 1 => s \in {"loop", "map", "write", "finish", "wait"}
  /\ k # 1 => s # "loop"
  /\ s \in {"map", "finish", "wait"} => k < Len(Line)
  /\ \/ pc[k] \in Working /\ s \in Working
     \/ /\ \A j \in Stage : j > k => pc[j] = "none"
        /\ s \in Working => k >= Len(Line)

LEMMA MovesLine ==
  ASSUME TypeInv, LineInv, NEW k \in Stage, NEW s, Moves(k, s)
  PROVE  LineInv'
<1>1. /\ \A j \in Stage : pc'[j] = IF j = k THEN s ELSE pc[j]
      /\ Line' = Line /\ \A j \in Stage : commands'[j] = commands[j]
  BY DEF Moves, TypeInv, Line
<1>2. Busy /\ Line \in Lines /\ k \in 1 .. Len(Line) /\ Len(Line) \in Nat
  BY OnLine, LineType DEF Moves
<1>3. pc'[1] \in {"loop", "parse", "map", "write", "finish", "wait", "closed"}
  BY <1>1, OneIsStage DEF Moves, LineInv
<1>4. Busy' <=> ~(k = 1 /\ s = "loop")
  BY <1>1, <1>2, OneIsStage DEF Busy, Moves
<1>5. ASSUME NEW j \in Stage, j # 1 PROVE pc'[j] \notin {"loop", "closed"}
  BY <1>1, <1>5 DEF Moves, LineInv
<1>6. ASSUME NEW j \in Stage, j # 1, pc'[j] # "none"
      PROVE  /\ Busy' /\ j <= Len(Line') /\ commands'[j] = SubSeq(Line', j, Len(Line'))
             /\ \A i \in 1 .. j - 1 : pc'[i] \in Working
  <2>1. pc[j] # "none"
    BY <1>1, <1>6 DEF Moves
  <2>2. /\ j <= Len(Line) /\ commands[j] = SubSeq(Line, j, Len(Line))
        /\ \A i \in 1 .. j - 1 : pc[i] \in Working
    BY <1>6, <2>1 DEF LineInv
  <2>3. j \in Nat /\ j > 1 /\ k \in Nat /\ j - 1 \in Nat
    BY <1>6, OneIsStage
  <2>4. \A i \in 1 .. j - 1 : i \in Stage /\ i < j
    BY <2>3, SizeAssumption DEF Stage
  <2>5. k < j => s \in Working
    BY <2>1, <2>3 DEF Moves
  <2>6. \A i \in 1 .. j - 1 : pc'[i] \in Working
    BY <1>1, <2>2, <2>4, <2>5
  <2>7. Busy'
    BY <1>4, <2>3, <2>5 DEF Working
  <2> QED BY <1>1, <2>2, <2>6, <2>7
<1>7. ASSUME NEW j \in Stage, pc'[j] \in {"map", "finish", "wait"} PROVE j < Len(Line')
  BY <1>1, <1>7 DEF Moves, LineInv
<1>8. ASSUME NEW j \in Stage, pc'[j] \in Working, j < Len(Line') PROVE pc'[j + 1] # "none"
  <2>1. j + 1 \in Stage
    <3>1. Len(Line) <= MaxStages /\ j \in Nat
      BY <1>2, LineType, OneIsStage
    <3> QED BY <1>1, <1>2, <1>8, <3>1, SizeAssumption DEF Stage
  <2>2. pc[j + 1] # "none"
    <3>1. CASE j # k
      BY <1>1, <1>8, <3>1 DEF LineInv
    <3>2. CASE j = k
      BY <1>1, <1>2, <1>8, <3>2 DEF LineInv, Moves
    <3> QED BY <3>1, <3>2
  <2> QED BY <1>1, <2>1, <2>2 DEF Moves
<1> QED BY <1>1, <1>2, <1>3, <1>5, <1>6, <1>7, <1>8 DEF LineInv

\* What each action but five does to the place of its task.
Special(k) == (k = 1 /\ (ReceiveKey \/ ReceiveClose)) \/ StartSubtask(k) \/ WaitFinish(k)

LEMMA GotMoves ==
  ASSUME TypeInv, LineInv, NEW k \in Stage, NEW b, Got(k, b), pc[k] = "read", UNCHANGED commands
  PROVE  UNCHANGED <<pc, commands>> \/ \E s : Moves(k, s)
<1>1. /\ k # 1 /\ k \in 1 .. Len(Line) /\ (HasPipe(k) <=> k < Len(Line))
      /\ Len(Line) \in Nat
  BY OnLine, LineType DEF LineInv
<1>2. ~HasPipe(k) => \A j \in Stage : j > k => pc[j] = "none"
  BY <1>1, Above
<1>3. ASSUME NEW s \in {"read", "write", "page"} \cup {Returns(k)}, pc' = [pc EXCEPT ![k] = s]
      PROVE  Moves(k, s)
  BY <1>1, <1>2, <1>3, Zenon DEF Moves, Working, Returns
<1>4. CASE CatGot(k, b)
  BY <1>3, <1>4 DEF CatGot
<1>5. CASE MoreGot(k, b)
  BY <1>3, <1>5 DEF MoreGot
<1> QED BY <1>4, <1>5 DEF Got

LEMMA TaskMoves ==
  ASSUME TypeInv, LineInv, NEW k \in Stage, Task(k), ~Special(k)
  PROVE  UNCHANGED <<pc, commands>> \/ \E s : Moves(k, s)
<1>1. ASSUME pc[k] \notin {"none", "loop", "closed"}
      PROVE  /\ k \in 1 .. Len(Line) /\ (HasPipe(k) <=> k < Len(Line)) /\ Len(Line) \in Nat
             /\ Head(commands[k]) \in Source <=> k = 1
             /\ k # 1 => Head(commands[k]) \in {"cat", "more"}
             /\ k = 1 => Head(commands[k]) # "cat"
             /\ ~HasPipe(k) => \A j \in Stage : j > k => pc[j] = "none"
  <2>1. /\ k \in 1 .. Len(Line) /\ (HasPipe(k) <=> k < Len(Line)) /\ Len(Line) \in Nat
        /\ Head(commands[k]) \in Source <=> k = 1
        /\ Head(commands[k]) \in Source \cup {"cat", "more"}
    BY <1>1, OnLine, LineType
  <2>2. ~HasPipe(k) => \A j \in Stage : j > k => pc[j] = "none"
    BY <2>1, Above
  <2> QED BY <2>1, <2>2, SourceOutput
<1>2. CASE ExecuteLine(k)
  <2>1. pc[k] = "parse" /\ ~HasPipe(k) /\ Begin(k) /\ UNCHANGED commands
    BY <1>2 DEF ExecuteLine
  <2> DEFINE c == Head(commands[k])
             s == IF c \notin Source THEN "read"
                  ELSE IF Output[c] = <<>> THEN AfterWrite(k) ELSE "write"
  <2>2. pc' = [pc EXCEPT ![k] = s]
    BY <2>1 DEF Begin
  <2>3. AfterWrite(k) =
          IF Head(commands[k]) = "cat" THEN "read" ELSE
          IF HasPipe(k) THEN "finish" ELSE IF k > 1 THEN "exit" ELSE "loop"
    BY DEF AfterWrite
  <2>4. Moves(k, s)
    BY <1>1, <2>1, <2>2, <2>3 DEF Moves, Working
  <2> QED BY <2>4
<1>3. CASE MapSubtask(k)
  <2>1. pc[k] = "map" /\ Begin(k) /\ UNCHANGED commands
    BY <1>3 DEF MapSubtask
  <2> DEFINE c == Head(commands[k])
             s == IF c \notin Source THEN "read"
                  ELSE IF Output[c] = <<>> THEN AfterWrite(k) ELSE "write"
  <2>2. pc' = [pc EXCEPT ![k] = s]
    BY <2>1 DEF Begin
  <2>3. AfterWrite(k) =
          IF Head(commands[k]) = "cat" THEN "read" ELSE
          IF HasPipe(k) THEN "finish" ELSE IF k > 1 THEN "exit" ELSE "loop"
    BY DEF AfterWrite
  <2>4. Moves(k, s)
    BY <1>1, <2>1, <2>2, <2>3 DEF Moves, Working
  <2> QED BY <2>4
<1>4. ASSUME NEW w, Remaining(k, w), pc[k] = "write", UNCHANGED commands
      PROVE  \E s : Moves(k, s)
  <2>1. AfterWrite(k) =
          IF Head(commands[k]) = "cat" THEN "read" ELSE
          IF HasPipe(k) THEN "finish" ELSE IF k > 1 THEN "exit" ELSE "loop"
    BY DEF AfterWrite
  <2> DEFINE s == IF w = <<>> THEN AfterWrite(k) ELSE "write"
  <2>2. pc' = [pc EXCEPT ![k] = s]
    BY <1>4 DEF Remaining
  <2>3. Moves(k, s)
    BY <1>1, <1>4, <2>1, <2>2 DEF Moves, Working
  <2> QED BY <2>3
<1>5. CASE WritePipe(k)
  BY <1>4, <1>5 DEF WritePipe
<1>6. CASE WriteScreen(k)
  BY <1>4, <1>6 DEF WriteScreen
<1>7. CASE ReadRest(k)
  BY <1>7, GotMoves DEF ReadRest
<1>8. CASE ReadEnd(k)
  BY <1>8, GotMoves DEF ReadEnd
<1>9. CASE ReadMessage(k)
  BY <1>9, GotMoves DEF ReadMessage
<1>10. ASSUME NEW b, MoreExits(k, b), pc[k] \in {"page", "key"}, UNCHANGED commands
       PROVE  \E s : Moves(k, s)
  <2>1. k # 1
    BY <1>10 DEF LineInv
  <2> DEFINE s == IF b = <<>> THEN Returns(k) ELSE "write"
  <2>2. pc' = [pc EXCEPT ![k] = s]
    BY <1>10 DEF MoreExits
  <2>3. Moves(k, s)
    BY <1>1, <1>10, <2>1, <2>2 DEF Moves, Working, Returns
  <2> QED BY <2>3
<1>11. CASE ShowPage(k)
  <2>1. CASE pc' = [pc EXCEPT ![k] = "key"]
    <3>1. k # 1
      BY <1>11 DEF ShowPage, LineInv
    <3>2. Moves(k, "key")
      BY <1>1, <1>11, <2>1, <3>1 DEF Moves, Working, ShowPage
    <3> QED BY <3>2
  <2>2. CASE MoreExits(k, input[k])
    BY <1>10, <1>11, <2>2 DEF ShowPage
  <2> QED BY <1>11, <2>1, <2>2 DEF ShowPage
<1>12. CASE WaitKey(k)
  <2>1. CASE pc' = [pc EXCEPT ![k] = "page"]
    <3>1. k # 1
      BY <1>12 DEF WaitKey, LineInv
    <3>2. Moves(k, "page")
      BY <1>1, <1>12, <2>1, <3>1 DEF Moves, Working, WaitKey
    <3> QED BY <3>2
  <2>2. CASE MoreExits(k, First(input[k], shown[k]))
    BY <1>10, <1>12, <2>2 DEF WaitKey
  <2>3. CASE UNCHANGED pc
    BY <1>12, <2>3 DEF WaitKey
  <2> QED BY <1>12, <2>1, <2>2, <2>3 DEF WaitKey
<1>13. CASE FinishWrite(k)
  <2>1. Moves(k, "wait")
    BY <1>1, <1>13 DEF FinishWrite, program, Moves, Working, LineInv
  <2> QED BY <2>1
<1>14. CASE Finish(k)
  <2>1. k # 1 /\ \A j \in Stage : j > k => pc[j] = "none"
    BY <1>14, Above DEF Finish, LineInv, Working
  <2>2. Moves(k, "finished")
    BY <1>14, <2>1 DEF Finish, program, Moves, Working
  <2> QED BY <2>2
<1> QED BY <1>2, <1>3, <1>5, <1>6, <1>7, <1>8, <1>9, <1>11, <1>12, <1>13, <1>14 DEF Task, Special

LEMMA LineReceive ==
  ASSUME TypeInv, LineInv, ReceiveKey \/ ReceiveClose
  PROVE  LineInv'
<1>1. 1 \in Stage /\ pc[1] = "loop" /\ \A j \in Stage : j # 1 => pc[j] = "none"
  BY OneIsStage, Above DEF ReceiveKey, ReceiveClose, Working
<1>2. CASE ReceiveKey
  <2>1. CASE UNCHANGED <<pc, commands>>
    BY <2>1 DEF LineInv, Busy, Line
  <2>2. ASSUME NEW line \in Lines, commands' = [commands EXCEPT ![1] = line],
               pc' = [pc EXCEPT ![1] = "parse"]
        PROVE  LineInv'
    <3>1. Line' = line /\ pc'[1] = "parse" /\ \A j \in Stage : j # 1 => pc'[j] = "none"
      BY <1>1, <2>2 DEF TypeInv, Line
    <3>2. \A j \in Stage : pc'[j] \in {"parse", "none"}
      BY <3>1
    <3> QED BY <3>1, <3>2 DEF LineInv, Working
  <2> QED BY <1>2, <2>1, <2>2 DEF ReceiveKey
<1>3. CASE ReceiveClose
  <2>1. Line' = Line /\ pc'[1] = "closed" /\ \A j \in Stage : j # 1 => pc'[j] = "none"
    BY <1>1, <1>3 DEF ReceiveClose, program, TypeInv, Line
  <2>2. \A j \in Stage : pc'[j] \in {"closed", "none"}
    BY <2>1
  <2> QED BY <2>1, <2>2 DEF LineInv, Busy, Working
<1> QED BY <1>2, <1>3

LEMMA LineStart ==
  ASSUME TypeInv, LineInv, NEW k \in Stage, StartSubtask(k)
  PROVE  LineInv'
<1>1. pc[k] = "parse" /\ HasPipe(k) /\ Busy /\ Line \in Lines /\ k < Len(Line) /\ k + 1 \in Stage
      /\ Tail(commands[k]) = SubSeq(Line, k + 1, Len(Line)) /\ Len(Line) \in Nat /\ k \in Nat /\ k >= 1
  BY OnLine, LineType, OneIsStage DEF StartSubtask
<1>2. \A j \in Stage : pc'[j] = IF j = k THEN "map" ELSE IF j = k + 1 THEN "parse" ELSE pc[j]
  <2>1. pc' = [pc EXCEPT ![k] = "map", ![k + 1] = "parse"] /\ k # k + 1
    BY <1>1 DEF StartSubtask
  <2> QED BY <1>1, <2>1 DEF TypeInv
<1>3. \A j \in Stage : commands'[j] = IF j = k + 1 THEN SubSeq(Line, k + 1, Len(Line)) ELSE commands[j]
  BY <1>1 DEF StartSubtask, TypeInv
<1>4. 1 \in Stage /\ k + 1 # 1 /\ Line' = Line
  BY <1>1, <1>3, OneIsStage DEF Line
<1>5. \A j \in Stage : j > k => pc[j] = "none"
  BY <1>1, Above DEF Working
<1>6. Busy' /\ pc'[1] \in {"map", "loop", "parse", "write", "finish", "wait", "closed"}
  BY <1>1, <1>2, <1>4 DEF Busy, LineInv
<1>7. ASSUME NEW j \in Stage, j # 1
      PROVE  /\ pc'[j] \notin {"loop", "closed"}
             /\ pc'[j] # "none" =>
                  /\ j <= Len(Line) /\ commands'[j] = SubSeq(Line, j, Len(Line))
                  /\ \A i \in 1 .. j - 1 : pc'[i] \in Working
  <2>1. pc'[j] \notin {"loop", "closed"}
    BY <1>2, <1>7 DEF LineInv
  <2>2. CASE j <= k
    <3>1. j \in Nat /\ \A i \in 1 .. j - 1 : i \in Stage /\ i # k /\ i # k + 1
      BY <1>1, <2>2, OneIsStage, SizeAssumption DEF Stage
    <3>2. j # k + 1
      BY <1>1, <2>2, OneIsStage
    <3> QED BY <1>1, <1>2, <1>3, <1>7, <2>1, <2>2, <3>1, <3>2 DEF LineInv
  <2>3. CASE j = k + 1
    <3>1. \A i \in 1 .. j - 1 : i \in Stage /\ i \in Nat /\ i >= 1 /\ (i = k \/ i \in 1 .. k - 1) /\ i # k + 1
      BY <1>1, <2>3, SizeAssumption DEF Stage
    <3>2. k # 1 => \A i \in 1 .. k - 1 : pc[i] \in Working
      BY <1>1 DEF LineInv
    <3>3. k = 1 => 1 .. k - 1 = {}
      OBVIOUS
    <3>4. \A i \in 1 .. j - 1 : pc'[i] \in Working
      BY <1>2, <3>1, <3>2, <3>3 DEF Working
    <3>5. commands'[j] = SubSeq(Line, j, Len(Line))
      BY <1>3, <2>3
    <3>6. j <= Len(Line)
      BY <1>1, <2>3
    <3> QED BY <2>1, <3>4, <3>5, <3>6
  <2>4. CASE j > k + 1
    BY <1>1, <1>2, <1>5, <2>4, OneIsStage
  <2> QED BY <1>1, <2>2, <2>3, <2>4, OneIsStage
<1>8. ASSUME NEW j \in Stage
      PROVE  /\ pc'[j] \in {"map", "finish", "wait"} => j < Len(Line)
             /\ pc'[j] \in Working /\ j < Len(Line) => pc'[j + 1] # "none"
  <2>1. CASE j = k
    <3>1. pc'[k + 1] = "parse"
      BY <1>1, <1>2
    <3> QED BY <1>1, <2>1, <3>1
  <2>2. CASE j = k + 1
    BY <1>1, <1>2, <2>2 DEF Working
  <2>3. CASE j # k /\ j # k + 1
    <3>1. j + 1 \in Stage \/ j >= Len(Line)
      <4>1. Len(Line) <= MaxStages
        BY <1>1, LineType
      <4> QED BY <1>1, <4>1, SizeAssumption, OneIsStage DEF Stage
    <3>2. j + 1 \in Stage => pc'[j + 1] # "none" \/ pc[j + 1] = "none"
      BY <1>2
    <3> QED BY <1>1, <1>2, <2>3, <3>1, <3>2, OneIsStage DEF LineInv
  <2> QED BY <2>1, <2>2, <2>3
<1> QED BY <1>1, <1>4, <1>6, <1>7, <1>8 DEF LineInv

LEMMA LineWait ==
  ASSUME TypeInv, LineInv, NEW k \in Stage, WaitFinish(k)
  PROVE  LineInv'
<1>1. pc[k] = "wait" /\ HasPipe(k) /\ Busy /\ Line \in Lines /\ k < Len(Line) /\ k + 1 \in Stage
      /\ pc[k + 1] = "finished" /\ Len(Line) \in Nat /\ k \in Nat /\ k >= 1
  BY OnLine, LineType, OneIsStage DEF WaitFinish, LineInv
<1> DEFINE s == IF k = 1 THEN "loop" ELSE "exit"
<1>2. \A j \in Stage : pc'[j] = IF j = k THEN s ELSE IF j = k + 1 THEN "none" ELSE pc[j]
  BY <1>1 DEF WaitFinish, TypeInv
<1>3. UNCHANGED commands /\ Line' = Line
  BY DEF WaitFinish, program, Line
<1>4. \A j \in Stage : j > k => pc'[j] = "none"
  <2>1. \A j \in Stage : j > k + 1 => pc[j] = "none"
    BY <1>1, Above DEF Working
  <2>2. \A j \in Stage : j > k /\ j # k + 1 => j > k + 1
    BY <1>1, OneIsStage
  <2>3. \A j \in Stage : j > k => j # k
    BY <1>1
  <2> QED BY <1>2, <2>1, <2>2, <2>3
<1>5. \A j \in Stage : j < k => pc'[j] = pc[j] /\ j + 1 # k + 1
  BY <1>1, <1>2, OneIsStage
<1>6. pc'[k] = s
  BY <1>2
<1> HIDE DEF s
<1>7. s \in {"loop", "exit"} /\ (s = "loop" <=> k = 1)
  BY DEF s
<1>8. 1 \in Stage /\ (k # 1 => 1 < k)
  BY <1>1, OneIsStage
<1>9. Busy' <=> k # 1
  BY <1>1, <1>5, <1>6, <1>7, <1>8 DEF Busy
<1>10. pc'[1] \in {"loop", "parse", "map", "write", "finish", "wait", "closed"}
  BY <1>5, <1>6, <1>7, <1>8 DEF LineInv
<1>11. \A j \in Stage : j = k \/ j < k \/ j > k
  BY <1>1, OneIsStage
<1>12. ASSUME NEW j \in Stage, j # 1
       PROVE  /\ pc'[j] \notin {"loop", "closed"}
              /\ pc'[j] # "none" =>
                   /\ Busy' /\ j <= Len(Line) /\ commands[j] = SubSeq(Line, j, Len(Line))
                   /\ \A i \in 1 .. j - 1 : pc'[i] \in Working
  <2>1. CASE j > k
    BY <1>4, <2>1
  <2>2. CASE j <= k
    <3>1. k # 1 /\ j \in Nat
      BY <1>1, <1>12, <2>2, OneIsStage
    <3>2. \A i \in 1 .. j - 1 : i \in Stage /\ i < k
      BY <1>1, <2>2, <3>1, SizeAssumption DEF Stage
    <3>3. pc[j] # "none" => /\ j <= Len(Line) /\ commands[j] = SubSeq(Line, j, Len(Line))
                             /\ \A i \in 1 .. j - 1 : pc[i] \in Working
      BY <1>12 DEF LineInv
    <3>4. pc'[j] # "none" => pc[j] # "none"
      BY <1>1, <1>5, <1>11, <2>2
    <3>5. pc'[j] \notin {"loop", "closed"}
      BY <1>5, <1>6, <1>7, <1>11, <1>12, <2>1, <3>1 DEF LineInv
    <3> QED BY <1>5, <1>9, <3>1, <3>2, <3>3, <3>4, <3>5
  <2> QED BY <1>1, <2>1, <2>2, OneIsStage
<1>13. ASSUME NEW j \in Stage
       PROVE  /\ pc'[j] \in {"map", "finish", "wait"} => j < Len(Line)
              /\ pc'[j] \in Working /\ j < Len(Line) => pc'[j + 1] # "none"
  <2>1. CASE j >= k
    BY <1>1, <1>4, <1>6, <1>7, <1>11, <2>1 DEF Working
  <2>2. CASE j < k
    <3>1. j + 1 \in Stage /\ (j + 1 < k \/ j + 1 = k)
      BY <1>1, <2>2, OneIsStage, SizeAssumption DEF Stage
    <3>2. pc'[j + 1] = "none" => pc[j + 1] = "none"
      BY <1>5, <1>6, <1>7, <3>1
    <3> QED BY <1>5, <2>2, <3>2 DEF LineInv
  <2> QED BY <1>1, <2>1, <2>2, OneIsStage
<1> QED BY <1>1, <1>3, <1>9, <1>10, <1>12, <1>13 DEF LineInv

LEMMA LineStep ==
  ASSUME TypeInv, LineInv, NEW k \in Stage, Task(k)
  PROVE  LineInv'
<1>1. CASE Special(k)
  BY <1>1, LineReceive, LineStart, LineWait DEF Special
<1>2. CASE ~Special(k)
  <2>1. CASE UNCHANGED <<pc, commands>>
    BY <2>1 DEF LineInv, Busy, Line
  <2> QED BY <1>2, <2>1, TaskMoves, MovesLine
<1> QED BY <1>1, <1>2

LEMMA LineInit == Init => LineInv
<1> SUFFICES ASSUME Init PROVE LineInv
  OBVIOUS
<1>1. Line = <<>> /\ pc[1] = "loop" /\ \A k \in Stage : k # 1 => pc[k] = "none"
  BY OneIsStage DEF Init, Line
<1>2. \A k \in Stage : pc[k] \in {"loop", "none"}
  BY <1>1
<1> QED BY <1>1, <1>2 DEF LineInv, Busy, Working

\* Keys and clicks: a message more for a task that lives.
LEMMA WindowSends ==
  ASSUME TypeInv, PressKey \/ ClickClose
  PROVE  /\ \E m \in {Key, Close}, k \in Stage : Live(k) /\ msgs_' = [msgs_ EXCEPT ![k] = Append(@, m)]
         /\ UNCHANGED <<pc, commands, out, input, shown, layer_id_, data_, closed_, layer_task_map,
                        screen, quit>>
<1>1. PICK m \in {Key, Close} : SendToWindow(m)
  BY DEF PressKey, ClickClose
<1>2. layer_task_map \in Stage /\ Live(layer_task_map) /\ Send(layer_task_map, m)
  BY <1>1 DEF SendToWindow, TypeInv
<1>3. msgs_' = [msgs_ EXCEPT ![layer_task_map] = Append(@, m)]
  BY <1>2 DEF Send
<1> QED BY <1>1, <1>2, <1>3 DEF SendToWindow, program, pipes

LEMMA WindowStep ==
  ASSUME TypeInv, LineInv, PressKey \/ ClickClose
  PROVE  TypeInv' /\ LineInv'
<1>1. PICK m \in {Key, Close}, k \in Stage : msgs_' = [msgs_ EXCEPT ![k] = Append(@, m)]
  BY WindowSends
<1>2. UNCHANGED <<pc, commands, out, input, shown, layer_id_, data_, closed_, layer_task_map,
                  screen, quit>>
  BY WindowSends
<1>3. m \in Message /\ \A q \in Seq(Message) : Append(q, m) \in Seq(Message)
  BY MessageType, AppendProperties
<1>4. msgs_' \in [Stage -> Seq(Message)]
  BY <1>1, <1>3 DEF TypeInv
<1>5. TypeInv'
  BY <1>2, <1>4 DEF TypeInv
<1>6. LineInv'
  BY <1>2 DEF LineInv, Busy, Line
<1> QED BY <1>5, <1>6

LEMMA TypeGivesOK == TypeInv => TypeOK
<1> SUFFICES ASSUME TypeInv PROVE TypeOK
  OBVIOUS
<1>1. out \in [Stage -> Seq(Seq(Byte))]
  BY CallsType DEF TypeInv
<1>2. ASSUME NEW k \in Stage, NEW i \in 1 .. Len(msgs_[k])
      PROVE  /\ msgs_[k][i].type \in {"pipe", "key", "close"}
             /\ msgs_[k][i].data \in Seq(Byte) /\ Len(msgs_[k][i].data) <= kPipeData
  <2>1. msgs_[k][i] \in Message
    BY ElementOfSeq DEF TypeInv
  <2> QED BY <2>1, MessageType
<1>3. \A k \in Stage : data_[k] \in Seq(Byte) /\ Len(data_[k]) < kPipeData
  BY DEF TypeInv, Rests
<1> QED BY <1>1, <1>2, <1>3 DEF TypeInv, TypeOK, States

LEMMA TypeLineInvariant == Spec => [](TypeInv /\ LineInv)
<1>1. Init => TypeInv /\ LineInv
  BY TypeInit, LineInit
<1>2. TypeInv /\ LineInv /\ [Next]_vars => TypeInv' /\ LineInv'
  <2> SUFFICES ASSUME TypeInv, LineInv, [Next]_vars PROVE TypeInv' /\ LineInv'
    OBVIOUS
  <2>1. CASE UNCHANGED vars
    BY <2>1 DEF vars, program, pipes, TypeInv, LineInv, Busy, Line
  <2> QED BY <2>1, TypeStep, LineStep, WindowStep DEF Next
<1> QED BY <1>1, <1>2, PTL DEF Spec

\* Every variable keeps its type, and every message fits its array, for lines of
\* any length.
THEOREM TypeInvariance == Spec => []TypeOK
BY TypeLineInvariant, TypeGivesOK, PTL

(***************************************************************************)
(* The end of a pipe.                                                      *)
(***************************************************************************)
\* The reader of a pipe with messages q, of which it has kept d, has seen the end only
\* if the writer is at `before` "wait" and there is nothing more to read; so it is with
\* an end that is still among the messages.
EndAt(before, q, d, seen) ==
  /\ seen => before = "wait" /\ d = <<>> /\ \A i \in 1 .. Len(q) : q[i].data = <<>>
  /\ \A i \in 1 .. Len(q) : q[i].type = "pipe" /\ q[i].data = <<>> =>
       before = "wait" /\ \A j \in i .. Len(q) : q[j].data = <<>>

\* Where a command is that reads, after Read has given it nothing.
Returned(k) == \/ pc[k] \in {"page", "key", "finish", "wait", "exit", "finished"}
               \/ pc[k] = "write" /\ Head(commands[k]) = "more"

End(k) == /\ EndAt(pc[k - 1], msgs_[k], data_[k], closed_[k])
          /\ Returned(k) => closed_[k]
EndInv == \A k \in Stage : k # 1 /\ pc[k] # "none" => End(k)

LEMMA QueueTail ==
  ASSUME NEW q \in Seq(Message), q # <<>>
  PROVE  /\ Head(q) \in Message /\ Head(q) = q[1] /\ Tail(q) \in Seq(Message)
         /\ Len(Tail(q)) = Len(q) - 1 /\ Len(q) \in Nat /\ Len(q) >= 1
         /\ \A i \in 1 .. Len(q) - 1 : i + 1 \in 1 .. Len(q) /\ Tail(q)[i] = q[i + 1]
<1>1. Head(q) \in Message /\ Tail(q) \in Seq(Message) /\ Len(Tail(q)) = Len(q) - 1
      /\ \A i \in 1 .. Len(Tail(q)) : Tail(q)[i] = q[i + 1]
  BY HeadTailProperties
<1>2. Len(q) \in Nat /\ Len(q) # 0
  BY EmptySeq
<1>3. Head(q) = q[1]
  OBVIOUS
<1> QED BY <1>1, <1>2, <1>3

LEMMA EndTail ==
  ASSUME NEW q \in Seq(Message), q # <<>>, NEW p, NEW d, NEW c, EndAt(p, q, d, c)
  PROVE  EndAt(p, Tail(q), d, c)
<1>1. /\ Len(Tail(q)) = Len(q) - 1 /\ Len(q) \in Nat
      /\ \A i \in 1 .. Len(q) - 1 : i + 1 \in 1 .. Len(q) /\ Tail(q)[i] = q[i + 1]
  BY QueueTail
<1>2. c => p = "wait" /\ d = <<>> /\ \A i \in 1 .. Len(q) - 1 : Tail(q)[i].data = <<>>
  BY <1>1 DEF EndAt
<1>3. ASSUME NEW i \in 1 .. Len(q) - 1, Tail(q)[i].type = "pipe" /\ Tail(q)[i].data = <<>>
      PROVE  p = "wait" /\ \A j \in i .. Len(q) - 1 : Tail(q)[j].data = <<>>
  <2>1. i + 1 \in 1 .. Len(q) /\ q[i + 1].type = "pipe" /\ q[i + 1].data = <<>>
    BY <1>1, <1>3
  <2>2. p = "wait" /\ \A j \in i + 1 .. Len(q) : q[j].data = <<>>
    BY <2>1 DEF EndAt
  <2>3. \A j \in i .. Len(q) - 1 : j \in 1 .. Len(q) - 1 /\ j + 1 \in i + 1 .. Len(q)
    BY <1>1
  <2> QED BY <1>1, <2>2, <2>3
<1> QED BY <1>1, <1>2, <1>3 DEF EndAt

LEMMA EndAppend ==
  ASSUME NEW q \in Seq(Message), NEW m \in Message, NEW p, NEW p2, NEW d, NEW c, EndAt(p, q, d, c),
         \/ p # "wait" /\ (m.type = "pipe" => m.data # <<>> \/ p2 = "wait")
         \/ p = p2 /\ m.type # "pipe" /\ m.data = <<>>
  PROVE  EndAt(p2, Append(q, m), d, c)
<1> DEFINE r == Append(q, m)
<1>1. Len(q) \in Nat /\ Len(r) = Len(q) + 1 /\ (\A i \in 1 .. Len(q) : r[i] = q[i]) /\ r[Len(q) + 1] = m
  BY AppendProperties
<1> HIDE DEF r
<1>2. \A i \in 1 .. Len(q) + 1 : i \in 1 .. Len(q) \/ i = Len(q) + 1
  BY <1>1
<1>3. CASE p # "wait" /\ (m.type = "pipe" => m.data # <<>> \/ p2 = "wait")
  <2>1. ~c /\ \A i \in 1 .. Len(q) : ~(q[i].type = "pipe" /\ q[i].data = <<>>)
    BY <1>3 DEF EndAt
  <2>2. ASSUME NEW i \in 1 .. Len(r), r[i].type = "pipe" /\ r[i].data = <<>>
        PROVE  p2 = "wait" /\ \A j \in i .. Len(r) : r[j].data = <<>>
    <3>1. i = Len(q) + 1
      BY <1>1, <1>2, <2>1, <2>2
    <3>2. \A j \in i .. Len(r) : j = i
      BY <1>1, <3>1
    <3> QED BY <1>1, <1>3, <2>2, <3>1, <3>2
  <2> QED BY <2>1, <2>2 DEF EndAt, r
<1>4. CASE p = p2 /\ m.type # "pipe" /\ m.data = <<>>
  <2>1. c => p2 = "wait" /\ d = <<>> /\ \A i \in 1 .. Len(r) : r[i].data = <<>>
    BY <1>1, <1>2, <1>4 DEF EndAt
  <2>2. ASSUME NEW i \in 1 .. Len(r), r[i].type = "pipe" /\ r[i].data = <<>>
        PROVE  p2 = "wait" /\ \A j \in i .. Len(r) : r[j].data = <<>>
    <3>1. i \in 1 .. Len(q) /\ q[i].type = "pipe" /\ q[i].data = <<>>
      BY <1>1, <1>2, <1>4, <2>2
    <3>2. p = "wait" /\ \A j \in i .. Len(q) : q[j].data = <<>>
      BY <3>1 DEF EndAt
    <3>3. \A j \in i .. Len(r) : j \in i .. Len(q) \/ j = Len(q) + 1
      BY <1>1, <3>1
    <3>4. \A j \in i .. Len(q) : j \in 1 .. Len(q)
      BY <3>1
    <3> QED BY <1>1, <1>4, <3>2, <3>3, <3>4
  <2> QED BY <2>1, <2>2 DEF EndAt, r
<1> QED BY <1>3, <1>4

\* The end, or more, is read.
LEMMA EndRead ==
  ASSUME NEW q \in Seq(Message), q # <<>>, NEW p, NEW d, EndAt(p, q, <<>>, FALSE),
         Head(q).type = "pipe", Head(q).data = <<>> => d = <<>>
  PROVE  EndAt(p, Tail(q), d, Head(q).data = <<>>)
<1>1. EndAt(p, Tail(q), <<>>, FALSE)
  BY EndTail
<1>2. CASE Head(q).data = <<>>
  <2>1. /\ Len(Tail(q)) = Len(q) - 1 /\ Len(q) \in Nat /\ Len(q) >= 1 /\ Head(q) = q[1]
        /\ \A i \in 1 .. Len(q) - 1 : i + 1 \in 1 .. Len(q) /\ Tail(q)[i] = q[i + 1]
    BY QueueTail
  <2>2. 1 \in 1 .. Len(q) /\ q[1].type = "pipe" /\ q[1].data = <<>>
    BY <1>2, <2>1
  <2>3. p = "wait" /\ \A j \in 1 .. Len(q) : q[j].data = <<>>
    BY <2>2 DEF EndAt
  <2>4. \A i \in 1 .. Len(Tail(q)) : Tail(q)[i].data = <<>>
    BY <2>1, <2>3
  <2> QED BY <1>1, <1>2, <2>3, <2>4 DEF EndAt
<1>3. CASE Head(q).data # <<>>
  BY <1>1, <1>3 DEF EndAt
<1> QED BY <1>2, <1>3

\* What a step of the task of stage k leaves of another stage.
Same(j) == UNCHANGED <<pc[j], commands[j], msgs_[j], data_[j], closed_[j]>>

LEMMA EndOthers ==
  ASSUME EndInv, LineInv', NEW k \in Stage,
         \A j \in Stage : j # k /\ j # k + 1 => Same(j),
         k + 1 \in Stage => UNCHANGED pc[k + 1] \/ pc'[k + 1] \notin Working,
         k # 1 /\ pc'[k] # "none" => End(k)',
         k + 1 \in Stage /\ pc'[k + 1] # "none" => End(k + 1)'
  PROVE  EndInv'
<1> SUFFICES ASSUME NEW j \in Stage, j # 1, pc'[j] # "none" PROVE End(j)'
  BY DEF EndInv
<1>1. k \in Nat /\ j \in Nat /\ j > 1 /\ j - 1 \in Stage /\ j - 1 \in 1 .. j - 1
  BY OneIsStage, SizeAssumption DEF Stage
<1>2. CASE j = k
  BY <1>2
<1>3. CASE j = k + 1
  BY <1>3
<1>4. CASE j # k /\ j # k + 1
  <2>1. Same(j) /\ j - 1 # k
    BY <1>1, <1>4
  <2>2. UNCHANGED pc[j - 1]
    <3>1. CASE j - 1 = k + 1
      <4>1. pc'[j - 1] \in Working
        BY <1>1 DEF LineInv
      <4> QED BY <1>1, <3>1, <4>1
    <3>2. CASE j - 1 # k + 1
      BY <1>1, <2>1, <3>2 DEF Same
    <3> QED BY <3>1, <3>2
  <2>3. End(j)
    BY <2>1 DEF EndInv, Same
  <2> QED BY <2>1, <2>2, <2>3 DEF End, Returned, Same
<1> QED BY <1>2, <1>3, <1>4

\* The reader of a writer that does not wait has not seen the end, whatever the writer
\* does and sends.
LEMMA EndNext ==
  ASSUME TypeInv, EndInv, NEW k \in Stage, k + 1 \in Stage, pc[k] # "wait",
         UNCHANGED <<pc[k + 1], commands[k + 1], data_[k + 1], closed_[k + 1]>>,
         \/ UNCHANGED msgs_[k + 1]
         \/ \E m \in Message : /\ msgs_'[k + 1] = Append(msgs_[k + 1], m)
                               /\ m.type = "pipe" => m.data # <<>> \/ pc'[k] = "wait",
         pc'[k + 1] # "none"
  PROVE  End(k + 1)'
<1>1. k + 1 # 1 /\ (k + 1) - 1 = k
  BY OneIsStage
<1>2. EndAt(pc[k], msgs_[k + 1], data_[k + 1], closed_[k + 1]) /\ (Returned(k + 1) => closed_[k + 1])
  BY <1>1 DEF EndInv, End
<1>3. EndAt(pc'[k], msgs_'[k + 1], data_'[k + 1], closed_'[k + 1])
  <2>1. CASE UNCHANGED msgs_[k + 1]
    BY <1>2, <2>1 DEF EndAt
  <2>2. ASSUME NEW m \in Message, msgs_'[k + 1] = Append(msgs_[k + 1], m),
               m.type = "pipe" => m.data # <<>> \/ pc'[k] = "wait"
        PROVE  EndAt(pc'[k], msgs_'[k + 1], data_'[k + 1], closed_'[k + 1])
    <3>1. msgs_[k + 1] \in Seq(Message)
      BY DEF TypeInv
    <3> QED BY <1>2, <2>2, <3>1, EndAppend
  <2> QED BY <2>1, <2>2
<1>4. Returned(k + 1)' => closed_'[k + 1]
  BY <1>2 DEF Returned
<1> QED BY <1>1, <1>3, <1>4 DEF End

\* A task keeps to itself but for what it sends to the next.
Sends(k) ==
  /\ \A j \in Stage : j # k => UNCHANGED <<pc[j], commands[j], data_[j], closed_[j]>>
  /\ \A j \in Stage : j # k /\ j # k + 1 => UNCHANGED msgs_[j]
  /\ k + 1 \in Stage =>
       \/ UNCHANGED msgs_[k + 1]
       \/ \E m \in Message : /\ msgs_'[k + 1] = Append(msgs_[k + 1], m)
                             /\ m.type = "pipe" => m.data # <<>> \/ pc'[k] = "wait"

LEMMA TaskActs ==
  ASSUME TypeInv, LineInv, NEW k \in Stage, Task(k), ~Special(k)
  PROVE  /\ pc[k] \notin {"none", "loop", "closed", "wait", "finished"}
         /\ \A j \in Stage : UNCHANGED commands[j]
         /\ \A j \in Stage : j # k => UNCHANGED pc[j]
<1>1. pc[k] \notin {"none", "loop", "closed", "wait", "finished"}
  BY DEF Task, Special, ExecuteLine, MapSubtask, WritePipe, WriteScreen, ReadRest, ReadEnd,
         ReadMessage, ShowPage, WaitKey, FinishWrite, Finish
<1>2. CASE UNCHANGED <<pc, commands>>
  BY <1>1, <1>2
<1>3. ASSUME NEW s, Moves(k, s)
      PROVE  /\ \A j \in Stage : UNCHANGED commands[j]
             /\ \A j \in Stage : j # k => UNCHANGED pc[j]
  BY <1>3 DEF Moves, TypeInv
<1> QED BY <1>1, <1>2, <1>3, TaskMoves

\* The bytes that a call puts into a message.
LEMMA ChunkBytes ==
  ASSUME NEW b \in Calls
  PROVE  /\ Chunk(b) \in Chunks /\ Chunk(b) # <<>>
         /\ Len(Chunk(b)) = Least(kPipeData, Len(b))
<1>1. b \in Seq(Byte) /\ Len(b) \in Nat \ {0}
  BY CallsType
<1>2. Chunk(b) \in Seq(Byte) /\ Len(Chunk(b)) = Least(kPipeData, Len(b))
  BY <1>1, CutType, SizeAssumption DEF Chunk
<1>3. Len(Chunk(b)) \in Nat \ {0} /\ Len(Chunk(b)) <= kPipeData
  BY <1>1, <1>2, SizeAssumption DEF Least
<1>4. Chunk(b) # <<>>
  BY <1>2, <1>3, EmptySeq
<1> QED BY <1>2, <1>3, <1>4 DEF Chunks

LEMMA TaskSends ==
  ASSUME TypeInv, LineInv, NEW k \in Stage, Task(k), ~Special(k)
  PROVE  Sends(k)
<1>1. \A j \in Stage : j # k => UNCHANGED <<pc[j], commands[j]>>
  BY TaskActs
<1>2. k # k + 1 /\ k \in Nat
  BY OneIsStage
<1>3. CASE \/ ExecuteLine(k) \/ MapSubtask(k) \/ WriteScreen(k) \/ ShowPage(k)
  <2>1. UNCHANGED <<msgs_, data_, closed_>>
    BY <1>3 DEF ExecuteLine, MapSubtask, WriteScreen, ShowPage, pipes
  <2> QED BY <1>1, <2>1 DEF Sends
<1>4. ASSUME NEW m \in Message, Send(k + 1, m), m.type = "pipe" => m.data # <<>> \/ pc'[k] = "wait",
             UNCHANGED <<data_, closed_>>
      PROVE  Sends(k)
  <2>1. \A j \in Stage : j # k + 1 => UNCHANGED msgs_[j]
    BY <1>4 DEF Send, TypeInv
  <2>2. k + 1 \in Stage => msgs_'[k + 1] = Append(msgs_[k + 1], m) \/ UNCHANGED msgs_[k + 1]
    BY <1>4 DEF Send, TypeInv
  <2> QED BY <1>1, <1>4, <2>1, <2>2 DEF Sends
<1>5. CASE WritePipe(k)
  <2>1. Head(out[k]) \in Calls
    <3>1. out[k] \in Seq(Calls) /\ out[k] # <<>>
      BY <1>5 DEF WritePipe, TypeInv
    <3> QED BY <3>1, HeadTailProperties
  <2> DEFINE m == Data(Chunk(Head(out[k])))
  <2>2. m \in Message /\ m.data # <<>>
    BY <2>1, ChunkBytes, MessageType
  <2>3. Send(k + 1, m) /\ UNCHANGED <<data_, closed_>>
    BY <1>5 DEF WritePipe, pipes
  <2> QED BY <1>4, <2>2, <2>3
<1>6. CASE FinishWrite(k)
  <2>1. pc'[k] = "wait" /\ Send(k + 1, EndOfData) /\ UNCHANGED <<data_, closed_>>
    BY <1>6 DEF FinishWrite, pipes, TypeInv
  <2> QED BY <1>4, <2>1, MessageType
<1>7. CASE ReadRest(k) \/ ReadEnd(k) \/ ReadMessage(k) \/ WaitKey(k) \/ Finish(k)
  <2>1. \A j \in Stage : j # k => UNCHANGED msgs_[j]
    BY <1>7 DEF ReadRest, ReadEnd, ReadMessage, WaitKey, Finish, TypeInv
  <2>2. \A j \in Stage : j # k => UNCHANGED <<data_[j], closed_[j]>>
    BY <1>7 DEF ReadRest, ReadEnd, ReadMessage, WaitKey, Finish, pipes, TypeInv
  <2> QED BY <1>1, <1>2, <2>1, <2>2 DEF Sends
<1> QED BY <1>3, <1>5, <1>6, <1>7 DEF Task, Special

\* What the places of a command that reads say.
LEMMA GotReturned ==
  ASSUME TypeInv, LineInv, NEW k \in Stage, pc[k] = "read", NEW b, Got(k, b), b # <<>>,
         UNCHANGED commands
  PROVE  ~Returned(k)'
<1>1. Head(commands[k]) \in {"cat", "more"}
  BY OnLine DEF LineInv
<1>2. CASE CatGot(k, b) /\ Head(commands[k]) = "cat"
  <2>1. pc'[k] \in {"read", "write"}
    <3>1. \/ pc' = [pc EXCEPT ![k] = "write"]
          \/ UNCHANGED pc
      BY <1>2 DEF CatGot
    <3> QED BY <3>1 DEF TypeInv
  <2>2. Head(commands'[k]) # "more"
    BY <1>2
  <2> QED BY <2>1, <2>2 DEF Returned
<1>3. CASE MoreGot(k, b)
  <2>1. pc'[k] = "read"
    BY <1>3 DEF MoreGot, TypeInv
  <2> QED BY <2>1 DEF Returned
<1> QED BY <1>1, <1>2, <1>3 DEF Got

LEMMA FirstBytes ==
  ASSUME NEW d \in Seq(Byte), NEW k
  PROVE  /\ First(d, Length(k)) = <<>> <=> d = <<>>
         /\ d = <<>> => Rest(d, k) = <<>>
<1>1. /\ First(d, Length(k)) \in Seq(Byte) /\ Len(First(d, Length(k))) = Least(Length(k), Len(d))
      /\ Rest(d, k) \in Seq(Byte) /\ Len(Rest(d, k)) = Len(d) - Least(Length(k), Len(d))
  BY CutType, LengthType DEF Rest
<1>2. Len(d) \in Nat /\ Length(k) \in Nat \ {0}
  BY LengthType
<1>3. Least(Length(k), Len(d)) = 0 <=> Len(d) = 0
  BY <1>2 DEF Least
<1>4. Len(d) = 0 => Len(Rest(d, k)) = 0
  BY <1>1, <1>2 DEF Least
<1> QED BY <1>1, <1>2, <1>3, <1>4, EmptySeq

LEMMA EndOwn ==
  ASSUME TypeInv, LineInv, EndInv, NEW k \in Stage, k # 1, Task(k), ~Special(k)
  PROVE  End(k)'
<1>1. /\ pc[k] # "none" /\ UNCHANGED pc[k - 1] /\ UNCHANGED commands[k]
      /\ k - 1 \in Stage
  <2>1. k - 1 \in Stage /\ k - 1 # k
    BY SizeAssumption DEF Stage
  <2> QED BY <2>1, TaskActs
<1>2. EndAt(pc[k - 1], msgs_[k], data_[k], closed_[k]) /\ (Returned(k) => closed_[k])
  BY <1>1 DEF EndInv, End
<1>3. /\ Head(commands[k]) \in {"cat", "more"}
      /\ pc[k] # "loop" => Head(commands[k]) \notin Source
  BY <1>1, OnLine DEF LineInv
<1>4. msgs_[k] \in Seq(Message) /\ data_[k] \in Seq(Byte)
  BY DEF TypeInv, Rests
<1> SUFFICES /\ EndAt(pc[k - 1], msgs_'[k], data_'[k], closed_'[k])
             /\ Returned(k)' => closed_'[k]
  BY <1>1 DEF End
<1>5. CASE \/ ExecuteLine(k) \/ MapSubtask(k)
  <2>1. Begin(k) /\ UNCHANGED <<msgs_, data_, closed_>> /\ pc[k] # "loop"
    BY <1>5 DEF ExecuteLine, MapSubtask, pipes
  <2>2. pc'[k] = "read"
    BY <1>3, <2>1 DEF Begin, TypeInv
  <2>3. ~Returned(k)'
    BY <2>2 DEF Returned
  <2> QED BY <1>2, <2>1, <2>3
\* Who has read everything remains so.
<1>6. CASE Returned(k) /\ UNCHANGED closed_[k] /\ EndAt(pc[k - 1], msgs_'[k], data_'[k], closed_[k])
  BY <1>2, <1>6
<1>7. CASE WritePipe(k) \/ WriteScreen(k)
  <2>1. pc[k] = "write" /\ UNCHANGED <<data_[k], closed_[k]>>
    BY <1>7 DEF WritePipe, WriteScreen, pipes
  <2>2. UNCHANGED msgs_[k]
    <3>1. k # k + 1
      BY OneIsStage
    <3> QED BY <1>7, <3>1 DEF WritePipe, WriteScreen, Send, TypeInv
  <2>3. CASE Head(commands[k]) = "cat"
    <3>1. PICK w : Remaining(k, w)
      BY <1>7 DEF WritePipe, WriteScreen
    <3>2. pc'[k] \in {"read", "write"}
      BY <2>3, <3>1 DEF Remaining, AfterWrite, TypeInv
    <3>3. ~Returned(k)'
      BY <1>1, <2>3, <3>2 DEF Returned
    <3> QED BY <1>2, <2>1, <2>2, <3>3
  <2>4. CASE Head(commands[k]) = "more"
    <3>1. Returned(k)
      BY <2>1, <2>4 DEF Returned
    <3> QED BY <1>2, <2>1, <2>2, <3>1
  <2> QED BY <1>3, <2>3, <2>4
<1>8. CASE ReadRest(k)
  <2> DEFINE b == First(data_[k], Length(k))
  <2>1. data_[k] # <<>> /\ UNCHANGED <<msgs_, closed_, commands>> /\ Got(k, b) /\ pc[k] = "read"
    BY <1>8 DEF ReadRest
  <2>2. b # <<>>
    BY <1>4, <2>1, FirstBytes
  <2>3. ~closed_[k]
    BY <1>2, <2>1 DEF EndAt
  <2> HIDE DEF b
  <2>4. ~Returned(k)'
    BY <2>1, <2>2, GotReturned
  <2> QED BY <1>2, <2>1, <2>3, <2>4 DEF EndAt
<1>9. CASE ReadEnd(k)
  BY <1>2, <1>9 DEF ReadEnd, pipes
<1>10. CASE ReadMessage(k)
  <2> DEFINE m == Head(msgs_[k])
  <2>1. /\ pc[k] = "read" /\ data_[k] = <<>> /\ ~closed_[k] /\ msgs_[k] # <<>> /\ UNCHANGED commands
        /\ msgs_'[k] = Tail(msgs_[k])
    BY <1>10 DEF ReadMessage, TypeInv
  <2>2. m \in Message /\ EndAt(pc[k - 1], msgs_[k], <<>>, FALSE)
    <3>1. m \in Message /\ closed_[k] = FALSE
      BY <1>4, <2>1, QueueTail DEF TypeInv
    <3> QED BY <1>2, <2>1, <3>1
  <2>3. CASE UNCHANGED <<pc, data_, closed_>>
    <3>1. ~Returned(k)'
      BY <2>1, <2>3 DEF Returned
    <3>2. EndAt(pc[k - 1], Tail(msgs_[k]), data_[k], closed_[k])
      BY <1>2, <1>4, <2>1, EndTail
    <3> QED BY <2>1, <2>3, <3>1, <3>2
  <2>4. CASE /\ IsData(m)
             /\ closed_' = [closed_ EXCEPT ![k] = Closed(m.data)]
             /\ data_' = [data_ EXCEPT ![k] = Rest(m.data, k)]
             /\ Got(k, First(m.data, Length(k)))
    <3>1. m.data \in Seq(Byte) /\ m.type = "pipe"
      BY <2>2, <2>4, MessageType DEF IsData
    <3>2. closed_'[k] = (m.data = <<>>) /\ data_'[k] = Rest(m.data, k)
      BY <2>4 DEF TypeInv, Closed
    <3>3. m.data = <<>> => Rest(m.data, k) = <<>>
      BY <3>1, FirstBytes
    <3>4. EndAt(pc[k - 1], Tail(msgs_[k]), Rest(m.data, k), m.data = <<>>)
      BY <1>4, <2>1, <2>2, <3>1, <3>3, EndRead
    <3>5. m.data # <<>> => ~Returned(k)'
      <4>1. m.data # <<>> => First(m.data, Length(k)) # <<>>
        BY <3>1, FirstBytes
      <4> QED BY <2>1, <2>4, <4>1, GotReturned
    <3> QED BY <2>1, <3>2, <3>4, <3>5
  <2> QED BY <1>10, <2>3, <2>4 DEF ReadMessage, pipes
<1>11. CASE ShowPage(k)
  <2>1. UNCHANGED <<msgs_, data_, closed_>> /\ Returned(k)
    BY <1>11 DEF ShowPage, pipes, Returned
  <2> QED BY <1>2, <2>1
<1>12. CASE WaitKey(k)
  <2>1. UNCHANGED <<data_, closed_>> /\ Returned(k) /\ msgs_'[k] = Tail(msgs_[k]) /\ msgs_[k] # <<>>
    BY <1>12 DEF WaitKey, pipes, Returned, TypeInv
  <2> QED BY <1>2, <1>4, <2>1, EndTail
<1>13. CASE FinishWrite(k)
  <2>1. UNCHANGED <<data_, closed_, msgs_[k]>> /\ Returned(k)
    <3>1. k # k + 1
      BY OneIsStage
    <3> QED BY <1>13, <3>1 DEF FinishWrite, Send, pipes, Returned, TypeInv
  <2> QED BY <1>2, <2>1
<1>14. CASE Finish(k)
  <2>1. UNCHANGED <<data_, closed_>> /\ Returned(k) /\ msgs_'[k] = <<>>
    BY <1>14 DEF Finish, pipes, Returned, TypeInv
  <2> QED BY <1>2, <2>1 DEF EndAt
<1> QED BY <1>5, <1>7, <1>8, <1>9, <1>10, <1>11, <1>12, <1>13, <1>14 DEF Task, Special

LEMMA EndTask ==
  ASSUME TypeInv, LineInv, LineInv', EndInv, NEW k \in Stage, Task(k), ~Special(k)
  PROVE  EndInv'
<1>1. Sends(k) /\ pc[k] # "wait" /\ k # k + 1
  BY TaskSends, TaskActs, OneIsStage
<1>2. \A j \in Stage : j # k /\ j # k + 1 => Same(j)
  BY <1>1 DEF Sends, Same
<1>3. k + 1 \in Stage => UNCHANGED <<pc[k + 1], commands[k + 1], data_[k + 1], closed_[k + 1]>>
  BY <1>1 DEF Sends
<1>4. k + 1 \in Stage /\ pc'[k + 1] # "none" => End(k + 1)'
  BY <1>1, <1>3, EndNext DEF Sends
<1>5. k # 1 => End(k)'
  BY EndOwn
<1> QED BY <1>2, <1>3, <1>4, <1>5, EndOthers

LEMMA EndSpecial ==
  ASSUME TypeInv, LineInv, LineInv', EndInv, NEW k \in Stage, Special(k)
  PROVE  EndInv'
<1>1. CASE k = 1 /\ (ReceiveKey \/ ReceiveClose)
  <2>1. 1 \in Stage /\ \A j \in Stage : j # 1 => pc[j] = "none"
    BY <1>1, OneIsStage, Above DEF ReceiveKey, ReceiveClose, Working
  <2>2. \A j \in Stage : j # 1 => UNCHANGED pc[j]
    BY <1>1, <2>1 DEF ReceiveKey, ReceiveClose, TypeInv
  <2> QED BY <2>1, <2>2 DEF EndInv
<1>2. CASE StartSubtask(k)
  <2>1. /\ k + 1 \in Stage /\ k # k + 1 /\ pc[k] = "parse"
        /\ \A q : <<>> \in Seq(q)
    BY <1>2, OnLine, OneIsStage DEF StartSubtask
  <2>2. /\ pc'[k] = "map" /\ pc'[k + 1] = "parse"
        /\ msgs_'[k + 1] = <<>> /\ data_'[k + 1] = <<>> /\ closed_'[k + 1] = FALSE
    BY <1>2, <2>1 DEF StartSubtask, TypeInv
  <2>3. \A j \in Stage : j # k /\ j # k + 1 => Same(j)
    BY <1>2, <2>1 DEF StartSubtask, TypeInv, Same
  <2>4. End(k + 1)'
    BY <2>2 DEF End, EndAt, Returned
  <2>5. k # 1 => End(k)'
    <3> SUFFICES ASSUME k # 1 PROVE End(k)'
      OBVIOUS
    <3>1. k - 1 \in Stage /\ k - 1 # k /\ k - 1 # k + 1
      BY SizeAssumption DEF Stage
    <3>2. EndAt(pc[k - 1], msgs_[k], data_[k], closed_[k])
      BY <2>1 DEF EndInv, End
    <3>3. UNCHANGED <<pc[k - 1], msgs_[k], data_[k], closed_[k]>>
      BY <1>2, <2>1, <2>3, <3>1 DEF Same, StartSubtask, TypeInv
    <3> QED BY <2>2, <3>2, <3>3 DEF End, Returned
  <2>6. pc'[k + 1] \notin Working
    BY <2>2 DEF Working
  <2> QED BY <2>3, <2>4, <2>5, <2>6, EndOthers
<1>3. CASE WaitFinish(k)
  <2>1. k + 1 \in Stage /\ k # k + 1 /\ pc[k] = "wait"
    BY <1>3, OnLine, OneIsStage DEF WaitFinish, LineInv
  <2>2. pc'[k + 1] = "none" /\ UNCHANGED <<msgs_, data_, closed_>>
    BY <1>3, <2>1 DEF WaitFinish, pipes, TypeInv
  <2>3. \A j \in Stage : j # k /\ j # k + 1 => Same(j)
    BY <1>3, <2>1 DEF WaitFinish, program, pipes, TypeInv, Same
  <2>4. k # 1 => End(k)'
    <3> SUFFICES ASSUME k # 1 PROVE End(k)'
      OBVIOUS
    <3>1. k - 1 \in Stage /\ k - 1 # k /\ k - 1 # k + 1
      BY SizeAssumption DEF Stage
    <3>2. EndAt(pc[k - 1], msgs_[k], data_[k], closed_[k]) /\ closed_[k]
      BY <2>1 DEF EndInv, End, Returned
    <3>3. UNCHANGED pc[k - 1]
      BY <2>3, <3>1 DEF Same
    <3> QED BY <2>2, <3>2, <3>3 DEF End
  <2>5. pc'[k + 1] \notin Working
    BY <2>2 DEF Working
  <2> QED BY <2>2, <2>3, <2>4, <2>5, EndOthers
<1> QED BY <1>1, <1>2, <1>3 DEF Special

LEMMA EndWindow ==
  ASSUME TypeInv, EndInv, PressKey \/ ClickClose
  PROVE  EndInv'
<1>1. PICK m \in {Key, Close}, k \in Stage : msgs_' = [msgs_ EXCEPT ![k] = Append(@, m)]
  BY WindowSends
<1>2. UNCHANGED <<pc, commands, data_, closed_>>
  BY WindowSends
<1>3. m \in Message /\ m.type # "pipe" /\ m.data = <<>>
  BY MessageType
<1> SUFFICES ASSUME NEW j \in Stage, j # 1, pc'[j] # "none" PROVE End(j)'
  BY DEF EndInv
<1>4. EndAt(pc[j - 1], msgs_[j], data_[j], closed_[j]) /\ (Returned(j) => closed_[j])
  BY <1>2 DEF EndInv, End
<1>5. EndAt(pc[j - 1], msgs_'[j], data_[j], closed_[j])
  <2>1. CASE j = k
    <3>1. msgs_'[j] = Append(msgs_[j], m) /\ msgs_[j] \in Seq(Message)
      BY <1>1, <2>1 DEF TypeInv
    <3> QED BY <1>3, <1>4, <3>1, EndAppend
  <2>2. CASE j # k
    BY <1>1, <1>4, <2>2 DEF TypeInv
  <2> QED BY <2>1, <2>2
<1> QED BY <1>2, <1>4, <1>5 DEF End, Returned

LEMMA EndInit == Init => EndInv
<1>1. Init => \A k \in Stage : k # 1 => pc[k] = "none"
  BY DEF Init
<1> QED BY <1>1 DEF EndInv

LEMMA EndInvariant == Spec => [](TypeInv /\ LineInv /\ EndInv)
<1>1. Init => TypeInv /\ LineInv /\ EndInv
  BY TypeInit, LineInit, EndInit
<1>2. TypeInv /\ LineInv /\ EndInv /\ [Next]_vars => TypeInv' /\ LineInv' /\ EndInv'
  <2> SUFFICES ASSUME TypeInv, LineInv, EndInv, [Next]_vars PROVE TypeInv' /\ LineInv' /\ EndInv'
    OBVIOUS
  <2>1. CASE UNCHANGED vars
    <3>1. UNCHANGED <<pc, commands, msgs_, data_, closed_>> /\ TypeInv' /\ LineInv'
      BY <2>1 DEF vars, program, pipes, TypeInv, LineInv, Busy, Line
    <3> QED BY <3>1 DEF EndInv, End, Returned
  <2>2. ASSUME NEW k \in Stage, Task(k) PROVE TypeInv' /\ LineInv' /\ EndInv'
    BY <2>2, TypeStep, LineStep, EndTask, EndSpecial
  <2>3. CASE PressKey \/ ClickClose
    BY <2>3, WindowStep, EndWindow
  <2> QED BY <2>1, <2>2, <2>3 DEF Next
<1> QED BY <1>1, <1>2, PTL DEF Spec

LEMMA EndGivesAlive == TypeInv /\ LineInv /\ EndInv => PipeReaderAlive
<1> SUFFICES ASSUME TypeInv, LineInv, EndInv, NEW k \in Stage,
                    pc[k] \in {"map", "read", "write", "page", "key", "finish"}, HasPipe(k)
             PROVE  pc[k + 1] \notin {"none", "finished"}
  BY DEF PipeReaderAlive
<1>1. k + 1 \in Stage /\ k < Len(Line) /\ k + 1 # 1 /\ (k + 1) - 1 = k
  BY OnLine, OneIsStage
<1>2. pc[k + 1] # "none"
  BY <1>1 DEF LineInv, Working
<1>3. pc[k + 1] # "finished"
  BY <1>1, <1>2 DEF EndInv, End, EndAt, Returned
<1> QED BY <1>2, <1>3

\* PipeDescriptor keeps a reference to the task that reads: however long the line
\* and whatever the commands write, that task does not finish before the writer has
\* sent the end of the data, its last message.
THEOREM PipeReaderStaysAlive == Spec => []PipeReaderAlive
BY EndInvariant, EndGivesAlive, PTL

(***************************************************************************)
(* The text on its way.                                                    *)
(***************************************************************************)
Payload(q) == [i \in 1 .. Len(q) |-> q[i].data]

LEMMA PayloadType ==
  ASSUME NEW q \in Seq(Message)
  PROVE  /\ Payload(q) \in Seq(Seq(Byte)) /\ Len(Payload(q)) = Len(q)
         /\ \A i \in 1 .. Len(q) : Payload(q)[i] = q[i].data
<1>1. Len(q) \in Nat /\ \A i \in 1 .. Len(q) : q[i].data \in Seq(Byte)
  BY ElementOfSeq, MessageType
<1>2. Payload(q) \in [1 .. Len(q) -> Seq(Byte)]
  BY <1>1 DEF Payload
<1>3. Payload(q) \in Seq(Seq(Byte))
  BY <1>1, <1>2, SeqDef
<1>4. Len(Payload(q)) = Len(q)
  BY <1>1, <1>2, <1>3, LenProperties
<1> QED BY <1>3, <1>4 DEF Payload

LEMMA PayloadTail ==
  ASSUME NEW q \in Seq(Message), q # <<>>
  PROVE  /\ Payload(q) # <<>> /\ Head(Payload(q)) = Head(q).data
         /\ Tail(Payload(q)) = Payload(Tail(q))
<1>1. /\ Head(q) = q[1] /\ Tail(q) \in Seq(Message)
      /\ Len(Tail(q)) = Len(q) - 1 /\ Len(q) \in Nat /\ Len(q) >= 1
      /\ \A i \in 1 .. Len(q) - 1 : i + 1 \in 1 .. Len(q) /\ Tail(q)[i] = q[i + 1]
  BY QueueTail
<1> DEFINE s == Payload(q)
           u == Payload(Tail(q))
<1>2. s \in Seq(Seq(Byte)) /\ Len(s) = Len(q) /\ \A i \in 1 .. Len(q) : s[i] = q[i].data
  BY PayloadType
<1>3. /\ u \in Seq(Seq(Byte)) /\ Len(u) = Len(q) - 1
      /\ \A i \in 1 .. Len(q) - 1 : u[i] = Tail(q)[i].data
  BY <1>1, PayloadType
<1> HIDE DEF s, u
<1>4. s # <<>>
  BY <1>1, <1>2, EmptySeq
<1>5. Head(s) = s[1] /\ Tail(s) \in Seq(Seq(Byte)) /\ Len(Tail(s)) = Len(s) - 1
      /\ \A i \in 1 .. Len(Tail(s)) : Tail(s)[i] = s[i + 1]
  BY <1>2, <1>4, HeadTailProperties
<1>6. Head(s) = Head(q).data
  BY <1>1, <1>2, <1>5
<1>7. \A i \in 1 .. Len(q) - 1 : Tail(s)[i] = u[i]
  BY <1>1, <1>2, <1>3, <1>5
<1>8. Tail(s) = u
  BY <1>2, <1>3, <1>5, <1>7, SeqEqual
<1> QED BY <1>4, <1>6, <1>8 DEF s, u

LEMMA PayloadAppend ==
  ASSUME NEW q \in Seq(Message), NEW m \in Message
  PROVE  Payload(Append(q, m)) = Append(Payload(q), m.data)
<1> DEFINE r == Append(q, m)
           s == Payload(q)
           u == Payload(r)
           v == Append(s, m.data)
<1>1. /\ r \in Seq(Message) /\ Len(q) \in Nat /\ Len(r) = Len(q) + 1
      /\ (\A i \in 1 .. Len(q) : r[i] = q[i]) /\ r[Len(q) + 1] = m
  BY AppendProperties
<1> HIDE DEF r
<1>2. s \in Seq(Seq(Byte)) /\ Len(s) = Len(q) /\ \A i \in 1 .. Len(q) : s[i] = q[i].data
  BY PayloadType
<1>3. u \in Seq(Seq(Byte)) /\ Len(u) = Len(r) /\ \A i \in 1 .. Len(r) : u[i] = r[i].data
  BY <1>1, PayloadType
<1> HIDE DEF s, u
<1>4. m.data \in Seq(Byte)
  BY MessageType
<1>5. /\ v \in Seq(Seq(Byte)) /\ Len(v) = Len(s) + 1
      /\ (\A i \in 1 .. Len(s) : v[i] = s[i]) /\ v[Len(s) + 1] = m.data
  BY <1>2, <1>4, AppendProperties
<1> HIDE DEF v
<1>6. ASSUME NEW i \in 1 .. Len(r) PROVE u[i] = v[i]
  <2>1. CASE i \in 1 .. Len(q)
    BY <1>1, <1>2, <1>3, <1>5, <2>1
  <2>2. CASE i = Len(q) + 1
    BY <1>1, <1>2, <1>3, <1>5, <2>2
  <2> QED BY <1>1, <2>1, <2>2
<1>7. u = v
  <2>1. Len(u) = Len(v)
    BY <1>1, <1>2, <1>3, <1>5
  <2>2. \A i \in 1 .. Len(u) : u[i] = v[i]
    BY <1>3, <1>6
  <2> QED BY <1>3, <1>5, <2>1, <2>2, SeqEqual
<1> QED BY <1>7 DEF r, s, u, v

\* What is kept, d, and what waits in q are the bytes between those that were read and
\* those that were written.
PipeAt(t, d, q, r, w) ==
  /\ r \in 0 .. Len(t)
  /\ \E a \in r .. Len(t) : d = Part(t, r, a) /\ Pieces(t, Payload(q), a, w)

LEMMA PipeBounds ==
  ASSUME NEW t \in Seq(Byte), NEW q \in Seq(Message), NEW d, NEW r, NEW w, PipeAt(t, d, q, r, w)
  PROVE  r \in 0 .. Len(t) /\ w \in r .. Len(t)
<1>1. PICK a \in r .. Len(t) : Pieces(t, Payload(q), a, w)
  BY DEF PipeAt
<1>2. a \in 0 .. Len(t) /\ w \in a .. Len(t)
  BY <1>1, PayloadType, PiecesBounds
<1> QED BY <1>1, <1>2, LenProperties DEF PipeAt

LEMMA PipeEmpty ==
  ASSUME NEW t \in Seq(Byte)
  PROVE  PipeAt(t, <<>>, <<>>, 0, 0)
<1>1. 0 \in 0 .. Len(t)
  BY LenProperties
<1>2. Payload(<<>>) = <<>>
  <2>1. <<>> \in Seq(Message) /\ Len(<<>>) = 0
    BY EmptySeq
  <2>2. Payload(<<>>) \in Seq(Seq(Byte)) /\ Len(Payload(<<>>)) = 0
    BY <2>1, PayloadType
  <2> QED BY <2>2, EmptySeq
<1>3. Part(t, 0, 0) = <<>>
  BY <1>1, PartEmpty
<1>4. Pieces(t, <<>>, 0, 0)
  BY <1>1, PiecesNone
<1> QED BY <1>1, <1>2, <1>3, <1>4 DEF PipeAt

LEMMA PipeSend ==
  ASSUME NEW t \in Seq(Byte), NEW q \in Seq(Message), NEW d, NEW r, NEW w, PipeAt(t, d, q, r, w),
         NEW w2 \in w .. Len(t), NEW m \in Message, m.data = Part(t, w, w2)
  PROVE  PipeAt(t, d, Append(q, m), r, w2)
<1>1. PICK a \in r .. Len(t) : d = Part(t, r, a) /\ Pieces(t, Payload(q), a, w)
  BY DEF PipeAt
<1>2. Pieces(t, Append(Payload(q), Part(t, w, w2)), a, w2)
  BY <1>1, PayloadType, PiecesAppend
<1>3. Payload(Append(q, m)) = Append(Payload(q), Part(t, w, w2))
  BY PayloadAppend
<1> QED BY <1>1, <1>2, <1>3 DEF PipeAt

LEMMA PipeSendNothing ==
  ASSUME NEW t \in Seq(Byte), NEW q \in Seq(Message), NEW d, NEW r, NEW w, PipeAt(t, d, q, r, w),
         NEW m \in Message, m.data = <<>>
  PROVE  PipeAt(t, d, Append(q, m), r, w)
<1>1. w \in 0 .. Len(t) /\ w \in w .. Len(t)
  BY PipeBounds, LenProperties
<1>2. Part(t, w, w) = <<>>
  BY <1>1, PartEmpty
<1> QED BY <1>1, <1>2, PipeSend

LEMMA PipeSkip ==
  ASSUME NEW t \in Seq(Byte), NEW q \in Seq(Message), NEW d, NEW r, NEW w, PipeAt(t, d, q, r, w),
         q # <<>>, Head(q).data = <<>>
  PROVE  PipeAt(t, d, Tail(q), r, w)
<1>1. PICK a \in r .. Len(t) : d = Part(t, r, a) /\ Pieces(t, Payload(q), a, w)
  BY DEF PipeAt
<1>2. PICK c \in a .. w : /\ Head(Payload(q)) = Part(t, a, c)
                          /\ Pieces(t, Tail(Payload(q)), c, w)
  BY <1>1, PayloadType, PayloadTail, PiecesHead
<1>3. a \in 0 .. Len(t) /\ w \in a .. Len(t)
  BY <1>1, PayloadType, PiecesBounds
<1>4. a = c
  BY <1>2, <1>3, PayloadTail, PartEmpty
<1> QED BY <1>1, <1>2, <1>4, PayloadTail DEF PipeAt

\* Read takes bytes that were kept,
LEMMA PipeRest ==
  ASSUME NEW t \in Seq(Byte), NEW q \in Seq(Message), NEW d, NEW r, NEW w, PipeAt(t, d, q, r, w),
         NEW k
  PROVE  \E r2 \in r .. Len(t) : /\ First(d, Length(k)) = Part(t, r, r2)
                                 /\ PipeAt(t, Rest(d, k), q, r2, w)
<1>1. PICK a \in r .. Len(t) : d = Part(t, r, a) /\ Pieces(t, Payload(q), a, w)
  BY DEF PipeAt
<1> DEFINE r2 == r + Least(Length(k), a - r)
<1>2. Length(k) \in Nat /\ r \in 0 .. Len(t)
  BY LengthType DEF PipeAt
<1>3. /\ r2 \in r .. a
      /\ First(d, Length(k)) = Part(t, r, r2)
      /\ Behind(d, Least(Length(k), Len(d))) = Part(t, r2, a)
  BY <1>1, <1>2, PartSplit
<1> HIDE DEF r2
<1>4. r2 \in 0 .. Len(t) /\ r2 \in r .. Len(t) /\ a \in r2 .. Len(t)
  BY <1>1, <1>2, <1>3, LenProperties
<1>5. PipeAt(t, Rest(d, k), q, r2, w)
  BY <1>1, <1>3, <1>4 DEF PipeAt, Rest
<1> QED BY <1>3, <1>4, <1>5

\* ... or those of the next message.
LEMMA PipeMessage ==
  ASSUME NEW t \in Seq(Byte), NEW q \in Seq(Message), NEW r, NEW w, PipeAt(t, <<>>, q, r, w),
         q # <<>>, NEW k
  PROVE  \E r2 \in r .. Len(t) : /\ First(Head(q).data, Length(k)) = Part(t, r, r2)
                                 /\ PipeAt(t, Rest(Head(q).data, k), Tail(q), r2, w)
<1>1. PICK a \in r .. Len(t) : <<>> = Part(t, r, a) /\ Pieces(t, Payload(q), a, w)
  BY DEF PipeAt
<1>2. r = a /\ r \in 0 .. Len(t)
  BY <1>1, PartEmpty DEF PipeAt
<1>3. PICK c \in a .. w : /\ Head(Payload(q)) = Part(t, a, c)
                          /\ Pieces(t, Tail(Payload(q)), c, w)
  BY <1>1, PayloadType, PayloadTail, PiecesHead
<1>4. a \in 0 .. Len(t) /\ w \in a .. Len(t)
  BY <1>1, PayloadType, PiecesBounds
<1>5. c \in r .. Len(t)
  BY <1>2, <1>3, <1>4, LenProperties
<1>6. PipeAt(t, Head(q).data, Tail(q), r, w)
  BY <1>2, <1>3, <1>5, PayloadTail DEF PipeAt
<1>7. Tail(q) \in Seq(Message)
  BY QueueTail
<1> QED BY <1>6, <1>7, PipeRest

\* Who has read all has read what was written.
LEMMA PipeSeen ==
  ASSUME NEW t \in Seq(Byte), NEW q \in Seq(Message), NEW r, NEW w, PipeAt(t, <<>>, q, r, w),
         \A i \in 1 .. Len(q) : q[i].data = <<>>
  PROVE  r = w
<1>1. PICK a \in r .. Len(t) : <<>> = Part(t, r, a) /\ Pieces(t, Payload(q), a, w)
  BY DEF PipeAt
<1>2. r = a /\ r \in 0 .. Len(t)
  BY <1>1, PartEmpty DEF PipeAt
<1>3. a = w
  BY <1>1, PayloadType, PiecesEmpty
<1> QED BY <1>2, <1>3

-----------------------------------------------------------------------------
\* All of the text, unless the user has stopped a command.
Enough(t, n, stopped) == n = Len(t) \/ stopped

\* What is still to be written by a command c that has written w bytes and read r:
\* up to what it has read if it is cat.
WriteAt(t, c, in, ou, stopped, w, r) ==
  \E e \in 0 .. Len(t) :
    /\ Pieces(t, ou, w, e)
    /\ c = "cat" => e = r /\ in = <<>>
    /\ c # "cat" => Enough(t, e, stopped)

CmdAt(t, p, c, in, ou, stopped, w, r) ==
  /\ w \in 0 .. Len(t) /\ r \in 0 .. Len(t)
  /\ p \in {"parse", "map"} => w = 0 /\ r = 0
  /\ p = "read" => r >= w /\ in = Part(t, w, r) /\ (c = "more" => w = 0)
  /\ p = "write" => WriteAt(t, c, in, ou, stopped, w, r)
  /\ p \in {"page", "key"} => c = "more" /\ w = 0 /\ in = Part(t, 0, r) /\ Enough(t, r, stopped)
  /\ p \in {"finish", "wait", "exit", "finished"} => Enough(t, w, stopped)

LEMMA SourceText ==
  ASSUME NEW c \in Source
  PROVE  TextOf(c) \in Seq(Byte) /\ Pieces(TextOf(c), Output[c], 0, Len(TextOf(c)))
BY SourceOutput, PiecesText DEF TextOf

LEMMA CmdQuit ==
  ASSUME NEW t, NEW p, NEW c, NEW in, NEW ou, NEW q1, NEW q2, NEW w, NEW r,
         CmdAt(t, p, c, in, ou, q1, w, r), q1 => q2
  PROVE  CmdAt(t, p, c, in, ou, q2, w, r)
<1>1. \A n : Enough(t, n, q1) => Enough(t, n, q2)
  BY DEF Enough
<1>2. WriteAt(t, c, in, ou, q1, w, r) => WriteAt(t, c, in, ou, q2, w, r)
  BY <1>1 DEF WriteAt
<1> QED BY <1>1, <1>2 DEF CmdAt

LEMMA CmdBeginSource ==
  ASSUME NEW c \in Source, NEW stopped
  PROVE  /\ CmdAt(TextOf(c), "write", c, <<>>, Output[c], stopped, 0, 0)
         /\ Output[c] = <<>> => \A p \in {"finish", "exit", "loop"} :
              CmdAt(TextOf(c), p, c, <<>>, Output[c], stopped, 0, 0) /\ Enough(TextOf(c), 0, stopped)
<1> DEFINE t == TextOf(c)
<1>1. t \in Seq(Byte) /\ Pieces(t, Output[c], 0, Len(t)) /\ c # "cat"
  BY SourceText, SourceOutput
<1> HIDE DEF t
<1>2. 0 \in 0 .. Len(t) /\ Len(t) \in 0 .. Len(t)
  BY <1>1, LenProperties
<1>3. WriteAt(t, c, <<>>, Output[c], stopped, 0, 0)
  BY <1>1, <1>2 DEF WriteAt, Enough
<1>4. CmdAt(t, "write", c, <<>>, Output[c], stopped, 0, 0)
  BY <1>2, <1>3 DEF CmdAt
<1>5. ASSUME Output[c] = <<>>, NEW p \in {"finish", "exit", "loop"}
      PROVE  CmdAt(t, p, c, <<>>, Output[c], stopped, 0, 0) /\ Enough(t, 0, stopped)
  <2>1. Pieces(t, <<>>, 0, Len(t)) /\ <<>> \in Seq(Seq(Byte)) /\ Len(<<>>) = 0
    BY <1>1, <1>5, EmptySeq
  <2>2. \A i \in 1 .. Len(<<>>) : <<>>[i] = <<>>
    BY <2>1
  <2>3. 0 = Len(t)
    BY <1>1, <2>1, <2>2, PiecesEmpty
  <2> QED BY <1>2, <1>5, <2>3 DEF CmdAt, Enough
<1> QED BY <1>4, <1>5 DEF t

LEMMA CmdBeginReader ==
  ASSUME NEW t \in Seq(Byte), NEW c, NEW ou, NEW stopped
  PROVE  CmdAt(t, "read", c, <<>>, ou, stopped, 0, 0)
<1>1. 0 \in 0 .. Len(t)
  BY LenProperties
<1>2. Part(t, 0, 0) = <<>>
  BY <1>1, PartEmpty
<1> QED BY <1>1, <1>2 DEF CmdAt

\* A piece is written; p is where the command goes on when it was the last.
LEMMA CmdWrote ==
  ASSUME NEW t \in Seq(Byte), NEW c, NEW in, NEW ou \in Seq(Seq(Byte)), NEW stopped, NEW w, NEW r,
         NEW e \in 0 .. Len(t), NEW p, r \in 0 .. Len(t),
         Pieces(t, ou, w, e), c = "cat" => e = r /\ in = <<>>, c # "cat" => Enough(t, e, stopped),
         \/ ou # <<>> /\ p = "write"
         \/ ou = <<>> /\ c = "cat" /\ p = "read"
         \/ ou = <<>> /\ c # "cat" /\ p \in {"finish", "exit", "loop"}
  PROVE  CmdAt(t, p, c, in, ou, stopped, w, r) /\ (p \in {"finish", "exit", "loop"} => Enough(t, w, stopped))
<1>1. w \in 0 .. Len(t)
  BY PiecesBounds
<1>2. CASE ou # <<>> /\ p = "write"
  BY <1>1, <1>2 DEF CmdAt, WriteAt
<1>3. CASE ou = <<>>
  <2>1. \A i \in 1 .. Len(ou) : ou[i] = <<>>
    BY <1>3
  <2>2. w = e
    BY <2>1, PiecesEmpty
  <2>3. w \in w .. Len(t) /\ Part(t, w, w) = <<>>
    <3>1. w \in w .. Len(t)
      BY <1>1, LenProperties
    <3> QED BY <1>1, <3>1, PartEmpty
  <2>4. CASE c = "cat" /\ p = "read"
    BY <1>1, <2>2, <2>3, <2>4 DEF CmdAt
  <2>5. CASE c # "cat" /\ p \in {"finish", "exit", "loop"}
    BY <1>1, <2>2, <2>5 DEF CmdAt
  <2> QED BY <1>3, <2>4, <2>5
<1> QED BY <1>2, <1>3

\* Bytes are read, or none because the writer has written enough.
Gets(k, t, stopped, w, r, r2) ==
  /\ pc[k] = "read" /\ Head(commands[k]) \in {"cat", "more"}
  /\ CmdAt(t, "read", Head(commands[k]), input[k], out[k], stopped, w, r)
  /\ r2 \in r .. Len(t)
  /\ Part(t, r, r2) = <<>> => Enough(t, r2, stopped)
  /\ Got(k, Part(t, r, r2))

LEMMA CmdGot ==
  ASSUME TypeInv, NEW k \in Stage, NEW t \in Seq(Byte), NEW stopped, NEW w, NEW r, NEW r2,
         Gets(k, t, stopped, w, r, r2)
  PROVE  CmdAt(t, pc'[k], Head(commands[k]), input'[k], out'[k], stopped, w, r2)
<1> DEFINE c == Head(commands[k])
           b == Part(t, r, r2)
<1>0. /\ pc[k] = "read" /\ Head(commands[k]) \in {"cat", "more"}
      /\ CmdAt(t, "read", Head(commands[k]), input[k], out[k], stopped, w, r)
      /\ r2 \in r .. Len(t)
      /\ b = <<>> => Enough(t, r2, stopped)
      /\ Got(k, b)
  BY DEF Gets
<1>1. /\ w \in 0 .. Len(t) /\ r \in w .. Len(t) /\ input[k] = Part(t, w, r)
      /\ r \in 0 .. Len(t) /\ r2 \in 0 .. Len(t) /\ r2 \in w .. Len(t)
      /\ c = "more" => w = 0
  BY <1>0, LenProperties DEF CmdAt
<1>2. input[k] \o b = Part(t, w, r2)
  BY <1>0, <1>1, PartJoin
<1>3. Part(t, w, r2) = <<>> <=> w = r2
  BY <1>0, <1>1, PartEmpty
<1>4. CASE c = "cat" /\ CatGot(k, b)
  <2> DEFINE line == input[k] \o b
  <2>1. CatGot(k, b) <=>
          IF b = <<>> /\ line = <<>>
          THEN pc' = [pc EXCEPT ![k] = Returns(k)] /\ UNCHANGED <<out, input>>
          ELSE IF b = <<>> \/ line[Len(line)] = Newline
          THEN /\ pc' = [pc EXCEPT ![k] = "write"]
               /\ out' = [out EXCEPT ![k] = <<line>>]
               /\ input' = [input EXCEPT ![k] = <<>>]
          ELSE input' = [input EXCEPT ![k] = line] /\ UNCHANGED <<pc, out>>
    BY DEF CatGot
  <2>2. line = Part(t, w, r2)
    BY <1>2
  <2> HIDE DEF line
  <2>3. CASE b = <<>> /\ line = <<>> /\ pc' = [pc EXCEPT ![k] = Returns(k)] /\ UNCHANGED <<out, input>>
    <3>1. pc'[k] \in {"finish", "exit"}
      BY <2>3, AfterType DEF TypeInv
    <3>2. Enough(t, w, stopped)
      BY <1>0, <1>3, <2>2, <2>3
    <3> QED BY <1>1, <3>1, <3>2 DEF CmdAt
  <2>4. CASE /\ pc' = [pc EXCEPT ![k] = "write"]
             /\ out' = [out EXCEPT ![k] = <<line>>]
             /\ input' = [input EXCEPT ![k] = <<>>]
    <3>1. pc'[k] = "write" /\ out'[k] = <<line>> /\ input'[k] = <<>>
      BY <2>4 DEF TypeInv
    <3>2. Pieces(t, <<Part(t, w, r2)>>, w, r2)
      BY <1>1, PiecesOne
    <3>3. WriteAt(t, c, input'[k], out'[k], stopped, w, r2)
      BY <1>1, <1>4, <2>2, <3>1, <3>2 DEF WriteAt
    <3> QED BY <1>1, <3>1, <3>3 DEF CmdAt
  <2>5. CASE input' = [input EXCEPT ![k] = line] /\ UNCHANGED <<pc, out>>
    <3>1. pc'[k] = "read" /\ input'[k] = Part(t, w, r2)
      BY <1>0, <2>2, <2>5 DEF TypeInv
    <3> QED BY <1>1, <1>4, <3>1 DEF CmdAt
  <2> QED BY <1>4, <2>1, <2>3, <2>4, <2>5
<1>5. CASE c = "more" /\ MoreGot(k, b)
  <2>1. /\ pc'[k] = IF b = <<>> THEN "page" ELSE "read"
        /\ input'[k] = Part(t, w, r2)
    BY <1>2, <1>5 DEF MoreGot, TypeInv
  <2> QED BY <1>0, <1>1, <1>5, <2>1 DEF CmdAt
<1> QED BY <1>0, <1>4, <1>5 DEF Got

\* more writes what it has put out when it exits.
LEMMA CmdExits ==
  ASSUME TypeInv, NEW k \in Stage, NEW t \in Seq(Byte), NEW stopped, NEW r \in 0 .. Len(t),
         Head(commands[k]) = "more", NEW e \in 0 .. Len(t), Enough(t, e, stopped),
         MoreExits(k, Part(t, 0, e))
  PROVE  CmdAt(t, pc'[k], Head(commands[k]), input'[k], out'[k], stopped, 0, r)
<1> DEFINE b == Part(t, 0, e)
<1>1. 0 \in 0 .. Len(t) /\ e \in 0 .. Len(t)
  BY LenProperties
<1>2. b = <<>> <=> e = 0
  BY <1>1, PartEmpty
<1>3. Pieces(t, <<b>>, 0, e)
  BY <1>1, PiecesOne
<1>4. /\ out' = [out EXCEPT ![k] = IF b = <<>> THEN <<>> ELSE <<b>>]
      /\ pc' = [pc EXCEPT ![k] = IF b = <<>> THEN Returns(k) ELSE "write"]
  BY DEF MoreExits
<1> HIDE DEF b
<1>5. CASE b = <<>>
  <2>1. pc'[k] \in {"finish", "exit"}
    BY <1>4, <1>5, AfterType DEF TypeInv
  <2> QED BY <1>1, <1>2, <1>5, <2>1 DEF CmdAt
<1>6. CASE b # <<>>
  <2>1. pc'[k] = "write" /\ out'[k] = <<b>>
    BY <1>4, <1>6 DEF TypeInv
  <2>2. WriteAt(t, "more", input'[k], out'[k], stopped, 0, r)
    BY <1>3, <2>1 DEF WriteAt
  <2> QED BY <1>1, <2>1, <2>2 DEF CmdAt
<1> QED BY <1>5, <1>6

-----------------------------------------------------------------------------
\* The text of the line; the task of stage k has written w[k] bytes of it and taken
\* r[k] out of its pipe.
LineText == TextOf(Head(Line))
Cmd(k, w, r) ==
  CmdAt(LineText, pc[k], Head(commands[k]), input[k], out[k], quit, w[k], r[k])
Pipe(k, w, r) == PipeAt(LineText, data_[k], msgs_[k], r[k], w[k - 1])

FlowAt(w, r) ==
  \A k \in Stage : pc[k] # "none" => Cmd(k, w, r) /\ (k # 1 /\ pc[k] # "finished" => Pipe(k, w, r))

\* What the line has shown: what its last task has written, as long as there is one.
ScreenAt(w) ==
  /\ \E m \in 0 .. Len(LineText) : screen = Part(LineText, 0, m)
  /\ \A k \in Stage :
       /\ pc[k] = "parse" => screen = <<>>
       /\ k = Len(Line) /\ pc[k] \notin {"none", "exit", "finished"} => screen = Part(LineText, 0, w[k])
       /\ pc[k] \in {"exit", "finished"} => screen = LineText \/ quit

Counts == [Stage -> Nat]
DataInv == Busy => \E w, r \in Counts : FlowAt(w, r) /\ ScreenAt(w)
Inv == TypeInv /\ LineInv /\ EndInv /\ DataInv

LEMMA LineTextType ==
  ASSUME LineInv, Busy
  PROVE  LineText \in Seq(Byte) /\ Head(Line) \in Source /\ Line # <<>> /\ LineText = TextOf(Head(Line))
<1>1. Line \in Lines
  BY DEF LineInv
<1>2. Len(Line) \in Nat /\ Len(Line) >= 1 /\ Line # <<>> /\ Line \in Seq(Command)
      /\ \A k \in 1 .. Len(Line) : Line[k] \in Source <=> k = 1
  BY <1>1, LineType
<1>3. Head(Line) = Line[1] /\ Line[1] \in Source
  BY <1>2
<1> QED BY <1>2, <1>3, SourceText DEF LineText

\* A step of the task of stage k that has now written w2 and read r2, but for what it
\* changes on the screen.
Went(k, w, r, w2, r2) ==
  /\ w2 \in Nat /\ r2 \in Nat
  /\ CmdAt(LineText, pc'[k], Head(commands[k]), input'[k], out'[k], quit', w2, r2)
  /\ pc'[k] = "loop" => Enough(LineText, w2, quit')
  /\ k # 1 /\ pc'[k] # "finished" => PipeAt(LineText, data_'[k], msgs_'[k], r2, w[k - 1])
  /\ k + 1 \in Stage /\ pc[k + 1] \notin {"none", "finished"} =>
       PipeAt(LineText, data_[k + 1], msgs_'[k + 1], r[k + 1], w2)

\* ... and that.
Showed(k, w, w2) ==
  /\ quit => quit'
  /\ \/ UNCHANGED screen /\ (k = Len(Line) => w2 = w[k])
     \/ /\ k = Len(Line) /\ pc[k] = "write"
        /\ w2 \in w[k] .. Len(LineText) /\ screen' = Part(LineText, 0, w2)

\* Where a task may go.
LEMMA TaskPlaces ==
  ASSUME TypeInv, LineInv, NEW k \in Stage, Task(k), ~Special(k)
  PROVE  /\ pc'[k] \notin {"parse", "none", "closed"}
         /\ ~Finish(k) => pc[k] # "exit" /\ pc'[k] # "finished"
         /\ Finish(k) => pc[k] = "exit" /\ pc'[k] = "finished"
         /\ pc'[k] \in {"exit", "loop"} => k = Len(Line)
<1>1. pc[k] \notin {"none", "loop", "closed", "wait", "finished"}
  BY TaskActs
<1>2. k \in 1 .. Len(Line) /\ Len(Line) \in Nat
  BY <1>1, OnLine, LineType
<1>3. Finish(k) => pc[k] = "exit" /\ pc'[k] = "finished"
  BY DEF Finish, TypeInv
<1>4. ASSUME ~Finish(k) PROVE pc[k] # "exit" /\ pc'[k] \notin {"finished", "parse", "none", "closed"}
  <2>1. CASE ExecuteLine(k) \/ MapSubtask(k)
    <3>1. pc[k] # "exit" /\ Begin(k)
      BY <2>1 DEF ExecuteLine, MapSubtask
    <3>2. AfterWrite(k) \notin {"finished", "parse", "none", "closed"}
      BY AfterType
    <3>3. pc'[k] \in {"read", "write", AfterWrite(k)}
      BY <3>1 DEF Begin, TypeInv
    <3> QED BY <3>1, <3>2, <3>3
  <2>2. CASE WritePipe(k) \/ WriteScreen(k)
    BY <2>2, AfterType DEF WritePipe, WriteScreen, Remaining, TypeInv
  <2>3. ASSUME NEW b, Got(k, b), pc[k] = "read" PROVE pc'[k] \notin {"finished", "parse", "none", "closed"}
    BY <2>3, AfterType DEF Got, CatGot, MoreGot, TypeInv
  <2>4. CASE ReadRest(k) \/ ReadEnd(k) \/ ReadMessage(k)
    BY <2>3, <2>4 DEF ReadRest, ReadEnd, ReadMessage
  <2>5. ASSUME NEW b, MoreExits(k, b) PROVE pc'[k] \notin {"finished", "parse", "none", "closed"}
    BY <2>5, AfterType DEF MoreExits, TypeInv
  <2>6. CASE ShowPage(k)
    BY <2>5, <2>6 DEF ShowPage, TypeInv
  <2>7. CASE WaitKey(k)
    BY <2>5, <2>7 DEF WaitKey, TypeInv
  <2>8. CASE FinishWrite(k)
    BY <2>8 DEF FinishWrite, TypeInv
  <2> QED BY <1>4, <2>1, <2>2, <2>4, <2>6, <2>7, <2>8 DEF Task, Special
<1>5. ASSUME pc'[k] \in {"exit", "loop"} PROVE k = Len(Line)
  <2>1. CASE UNCHANGED <<pc, commands>>
    BY <1>1, <1>3, <1>4, <1>5, <2>1
  <2>2. ASSUME NEW s, Moves(k, s) PROVE k = Len(Line)
    <3>1. s = pc'[k] /\ s \notin Working
      BY <1>5, <2>2 DEF Moves, TypeInv, Working
    <3>2. \A j \in Stage : j > k => pc[j] = "none"
      BY <2>2, <3>1 DEF Moves
    <3>3. CASE pc[k] \in Working
      <4>1. SUFFICES ASSUME k < Len(Line) PROVE FALSE
        BY <1>2
      <4>2. pc[k + 1] # "none"
        BY <3>3, <4>1 DEF LineInv
      <4>3. k + 1 \in Stage /\ k + 1 > k
        <5>1. Line \in Lines /\ k \in Nat /\ k >= 1
          BY <1>1, OnLine, OneIsStage
        <5>2. Len(Line) <= MaxStages
          BY <5>1, LineType
        <5> QED BY <1>2, <4>1, <5>1, <5>2, SizeAssumption DEF Stage
      <4> QED BY <3>2, <4>2, <4>3
    <3>4. CASE pc[k] = "parse"
      <4>1. ExecuteLine(k)
        BY <3>4 DEF Task, Special, ExecuteLine, MapSubtask, WritePipe, WriteScreen, ReadRest, ReadEnd,
           ReadMessage, ShowPage, WaitKey, FinishWrite, Finish
      <4> QED BY <1>2, <4>1, OnLine, LineType DEF ExecuteLine
    <3>5. pc[k] # "exit"
      BY <1>3, <1>4, <1>5
    <3>6. pc[k] \in Working \cup {"parse"}
      BY <1>1, <3>5 DEF TypeInv, States, Working
    <3> QED BY <3>3, <3>4, <3>6
  <2> QED BY <2>1, <2>2, TaskMoves
<1> QED BY <1>3, <1>4, <1>5

LEMMA WentFlow ==
  ASSUME Inv, NEW k \in Stage, Task(k), ~Special(k), NEW w \in Counts, NEW r \in Counts,
         FlowAt(w, r), NEW w2, NEW r2, Went(k, w, r, w2, r2), quit => quit',
         \A j \in Stage : j # k => UNCHANGED <<input[j], out[j]>>
  PROVE  FlowAt([w EXCEPT ![k] = w2], [r EXCEPT ![k] = r2])'
<1> DEFINE x == [w EXCEPT ![k] = w2]
           y == [r EXCEPT ![k] = r2]
<1>1. /\ x[k] = w2 /\ y[k] = r2 /\ (\A j \in Stage : j # k => x[j] = w[j] /\ y[j] = r[j])
  BY DEF Counts
<1> HIDE DEF x, y
<1>2. Sends(k) /\ (\A j \in Stage : UNCHANGED commands[j]) /\ 1 \in Stage
  BY TaskSends, TaskActs, OneIsStage DEF Inv
<1>3. UNCHANGED LineText
  BY <1>2 DEF LineText, Line
<1> SUFFICES ASSUME NEW j \in Stage, pc'[j] # "none"
             PROVE  Cmd(j, x, y)' /\ (j # 1 /\ pc'[j] # "finished" => Pipe(j, x, y)')
  BY DEF FlowAt, x, y
<1>4. j \in Nat /\ k \in Nat /\ (j # 1 => j - 1 \in Stage)
  BY SizeAssumption DEF Stage
<1>5. CASE j = k
  <2>1. Cmd(k, x, y)'
    BY <1>1, <1>2, <1>3 DEF Went, Cmd
  <2>2. k # 1 => x[k - 1] = w[k - 1]
    BY <1>1, <1>4, <1>5
  <2>3. k # 1 /\ pc'[k] # "finished" => Pipe(k, x, y)'
    BY <1>1, <1>3, <2>2 DEF Went, Pipe
  <2> QED BY <1>5, <2>1, <2>3
<1>6. CASE j # k
  <2>1. UNCHANGED <<pc[j], data_[j]>> /\ x[j] = w[j] /\ y[j] = r[j] /\ UNCHANGED <<input[j], out[j], commands[j]>>
    BY <1>1, <1>2, <1>6 DEF Sends
  <2>2. Cmd(j, w, r) /\ (j # 1 /\ pc[j] # "finished" => Pipe(j, w, r))
    BY <2>1 DEF FlowAt
  <2>3. Cmd(j, x, y)'
    BY <1>3, <2>1, <2>2, CmdQuit DEF Cmd
  <2>4. ASSUME j # 1, pc'[j] # "finished" PROVE Pipe(j, x, y)'
    <3>1. CASE j = k + 1
      <4>1. PipeAt(LineText, data_[k + 1], msgs_'[k + 1], r[k + 1], w2)
        BY <2>1, <2>4, <3>1 DEF Went
      <4>2. j - 1 = k
        BY <1>4, <3>1
      <4> QED BY <1>1, <1>3, <2>1, <3>1, <4>1, <4>2 DEF Pipe
    <3>2. CASE j # k + 1
      <4>1. UNCHANGED msgs_[j] /\ j - 1 # k
        BY <1>2, <1>4, <1>6, <3>2 DEF Sends
      <4>2. x[j - 1] = w[j - 1]
        BY <1>1, <1>4, <2>4, <4>1
      <4> QED BY <1>3, <2>1, <2>2, <2>4, <4>1, <4>2 DEF Pipe
    <3> QED BY <3>1, <3>2
  <2> QED BY <2>3, <2>4
<1> QED BY <1>5, <1>6

\* Where the line's last task is, what it has written is on the screen.
LEMMA WentShown ==
  ASSUME Inv, NEW k \in Stage, Task(k), ~Special(k), NEW w \in Counts, NEW r,
         ScreenAt(w), NEW w2, NEW r2, Went(k, w, r, w2, r2), Showed(k, w, w2)
  PROVE  /\ ScreenAt([w EXCEPT ![k] = w2])'
         /\ k = Len(Line) /\ pc[k] # "exit" => screen' = Part(LineText, 0, w2)
         /\ pc'[k] \in {"exit", "loop"} => screen' = LineText \/ quit'
<1> DEFINE x == [w EXCEPT ![k] = w2]
<1>1. x[k] = w2 /\ (\A j \in Stage : j # k => x[j] = w[j])
  BY DEF Counts
<1> HIDE DEF x
<1>2. Sends(k) /\ (\A j \in Stage : UNCHANGED commands[j]) /\ 1 \in Stage
  BY TaskSends, TaskActs, OneIsStage DEF Inv
<1>3. UNCHANGED LineText /\ UNCHANGED Line
  BY <1>2 DEF LineText, Line
<1>4. /\ pc[k] \notin {"none", "loop", "closed", "wait", "finished"}
      /\ pc'[k] \notin {"parse", "none", "closed"}
      /\ pc[k] # "exit" \/ pc'[k] = "finished"
      /\ pc[k] = "exit" \/ pc'[k] # "finished"
      /\ pc'[k] \in {"exit", "loop"} => k = Len(Line)
  BY TaskActs, TaskPlaces DEF Inv
<1>5. /\ LineText \in Seq(Byte) /\ k \in Nat /\ k >= 1 /\ k <= Len(Line) /\ Len(Line) \in Nat
      /\ w[k] \in Nat
  BY <1>4, OnLine, LineTextType, OneIsStage, LineType DEF Inv, Counts
\* Nobody before a task that writes to the screen has a place of its own to look at.
<1>6. ASSUME NEW j \in Stage, j # k, pc'[j] \in {"parse", "exit", "finished"}
      PROVE  UNCHANGED screen /\ pc'[j] = pc[j]
  <2>1. pc'[j] = pc[j]
    BY <1>2, <1>6 DEF Sends
  <2>2. SUFFICES ASSUME k = Len(Line) PROVE FALSE
    BY <2>1 DEF Showed
  <2>3. j <= Len(Line) /\ j \in Nat /\ j >= 1
    BY <1>6, <2>1, OnLine, OneIsStage DEF Inv
  <2>4. k # 1 /\ j \in 1 .. k - 1
    BY <1>5, <1>6, <2>2, <2>3
  <2>5. pc[j] \in Working
    BY <1>4, <2>4 DEF Inv, LineInv
  <2> QED BY <1>6, <2>1, <2>5 DEF Working
<1>7. k = Len(Line) /\ pc[k] # "exit" => screen' = Part(LineText, 0, w2)
  BY <1>4 DEF ScreenAt, Showed
<1>8. pc'[k] \in {"exit", "loop"} => screen' = LineText \/ quit'
  <2> SUFFICES ASSUME pc'[k] \in {"exit", "loop"} PROVE screen' = LineText \/ quit'
    OBVIOUS
  <2>1. screen' = Part(LineText, 0, w2)
    BY <1>4, <1>7
  <2>2. Enough(LineText, w2, quit')
    BY DEF Went, CmdAt
  <2> QED BY <1>5, <2>1, <2>2, PartWhole DEF Enough
<1>9. \E m \in 0 .. Len(LineText) : screen' = Part(LineText, 0, m)
  <2>1. CASE UNCHANGED screen
    BY <2>1 DEF ScreenAt
  <2>2. CASE w2 \in w[k] .. Len(LineText) /\ screen' = Part(LineText, 0, w2)
    <3>1. w2 \in 0 .. Len(LineText)
      BY <1>5, <2>2, LenProperties
    <3> QED BY <2>2, <3>1
  <2> QED BY <2>1, <2>2 DEF Showed
<1>10. ASSUME NEW j \in Stage
       PROVE  /\ pc'[j] = "parse" => screen' = <<>>
              /\ j = Len(Line) /\ pc'[j] \notin {"none", "exit", "finished"} =>
                   screen' = Part(LineText, 0, x[j])
              /\ pc'[j] \in {"exit", "finished"} => screen' = LineText \/ quit'
  <2>1. CASE j = k
    <3>1. pc'[k] = "finished" => screen' = LineText \/ quit'
      BY <1>4 DEF ScreenAt, Showed
    <3> QED BY <1>1, <1>4, <1>7, <1>8, <2>1, <3>1
  <2>2. CASE j # k
    <3>1. pc'[j] = pc[j] /\ x[j] = w[j]
      BY <1>1, <1>2, <2>2 DEF Sends
    <3>2. j = Len(Line) => UNCHANGED screen
      BY <2>2 DEF Showed
    <3>3. quit => quit'
      BY DEF Showed
    <3> QED BY <1>6, <2>2, <3>1, <3>2, <3>3 DEF ScreenAt
  <2> QED BY <2>1, <2>2
<1>11. ScreenAt(x)'
  BY <1>3, <1>9, <1>10 DEF ScreenAt
<1> QED BY <1>7, <1>8, <1>11 DEF x

LEMMA OthersKept ==
  ASSUME TypeInv, NEW k \in Stage, Task(k), ~Special(k)
  PROVE  \A j \in Stage : j # k => UNCHANGED <<input[j], out[j]>>
<1>1. CASE ExecuteLine(k) \/ MapSubtask(k)
  BY <1>1 DEF ExecuteLine, MapSubtask, Begin, TypeInv
<1>2. CASE WritePipe(k) \/ WriteScreen(k)
  BY <1>2 DEF WritePipe, WriteScreen, Remaining, TypeInv
<1>3. ASSUME NEW b, Got(k, b) PROVE \A j \in Stage : j # k => UNCHANGED <<input[j], out[j]>>
  BY <1>3 DEF Got, CatGot, MoreGot, TypeInv
<1>4. CASE ReadRest(k) \/ ReadEnd(k) \/ ReadMessage(k)
  BY <1>3, <1>4 DEF ReadRest, ReadEnd, ReadMessage
<1>5. ASSUME NEW b, MoreExits(k, b) PROVE \A j \in Stage : j # k => UNCHANGED out[j]
  BY <1>5 DEF MoreExits, TypeInv
<1>6. CASE ShowPage(k)
  BY <1>5, <1>6 DEF ShowPage
<1>7. CASE WaitKey(k)
  BY <1>5, <1>7 DEF WaitKey
<1>8. CASE FinishWrite(k) \/ Finish(k)
  BY <1>8 DEF FinishWrite, Finish, program
<1> QED BY <1>1, <1>2, <1>4, <1>6, <1>7, <1>8 DEF Task, Special

\* Who has seen the end, or is about to, has read all that was written.
LEMMA SeenEnough ==
  ASSUME Inv, NEW w, NEW r, FlowAt(w, r), NEW k \in Stage, k # 1, pc[k] \notin {"none", "finished"},
         data_[k] = <<>>,
         closed_[k] \/ (msgs_[k] # <<>> /\ Head(msgs_[k]).type = "pipe" /\ Head(msgs_[k]).data = <<>>)
  PROVE  Enough(LineText, r[k], quit)
<1>1. /\ Pipe(k, w, r) /\ EndAt(pc[k - 1], msgs_[k], data_[k], closed_[k])
      /\ msgs_[k] \in Seq(Message) /\ k - 1 \in Stage
  <2>1. k - 1 \in Stage
    BY SizeAssumption DEF Stage
  <2> QED BY <2>1 DEF FlowAt, Inv, EndInv, End, TypeInv
<1>2. pc[k - 1] = "wait" /\ \A i \in 1 .. Len(msgs_[k]) : msgs_[k][i].data = <<>>
  <2>1. CASE closed_[k]
    BY <1>1, <2>1 DEF EndAt
  <2>2. CASE msgs_[k] # <<>> /\ Head(msgs_[k]).type = "pipe" /\ Head(msgs_[k]).data = <<>>
    <3>1. Head(msgs_[k]) = msgs_[k][1] /\ 1 \in 1 .. Len(msgs_[k])
      BY <1>1, <2>2, QueueTail
    <3> QED BY <1>1, <2>2, <3>1 DEF EndAt
  <2> QED BY <2>1, <2>2
<1>3. LineText \in Seq(Byte)
  <2>1. Busy
    BY OnLine DEF Inv, LineInv
  <2> QED BY <2>1, LineTextType DEF Inv
<1>4. r[k] = w[k - 1]
  BY <1>1, <1>2, <1>3, PipeSeen DEF Pipe
<1>5. Cmd(k - 1, w, r)
  BY <1>1, <1>2 DEF FlowAt
<1> QED BY <1>2, <1>4, <1>5 DEF Cmd, CmdAt

\* What is known of the task that takes a step.
LEMMA Going ==
  ASSUME Inv, NEW w \in Counts, NEW r \in Counts, FlowAt(w, r), NEW k \in Stage, Task(k), ~Special(k)
  PROVE  /\ LineText \in Seq(Byte) /\ Cmd(k, w, r) /\ w[k] \in Nat /\ r[k] \in Nat
         /\ w[k] \in 0 .. Len(LineText) /\ r[k] \in 0 .. Len(LineText)
         /\ k # 1 => Pipe(k, w, r) /\ Head(commands[k]) \in {"cat", "more"}
                     /\ Head(commands[k]) \notin Source
         /\ k = 1 => Head(commands[k]) \in Source /\ LineText = TextOf(Head(commands[k]))
         /\ k + 1 \in Stage /\ pc[k + 1] \notin {"none", "finished"} =>
              HasPipe(k) /\ PipeAt(LineText, data_[k + 1], msgs_[k + 1], r[k + 1], w[k])
         /\ HasPipe(k) <=> k # Len(Line)
<1>1. pc[k] \notin {"none", "loop", "closed", "wait", "finished"} /\ TypeInv /\ LineInv
  BY TaskActs DEF Inv
<1>2. /\ Busy /\ (HasPipe(k) <=> k < Len(Line)) /\ k \in 1 .. Len(Line) /\ Len(Line) \in Nat
      /\ Head(commands[k]) = Line[k] /\ (Line[k] \in Source <=> k = 1)
      /\ Line[k] \in Source \cup {"cat", "more"}
  BY <1>1, OnLine, LineType
<1>3. LineText \in Seq(Byte) /\ LineText = TextOf(Head(Line))
  BY <1>1, <1>2, LineTextType
<1>4. Cmd(k, w, r) /\ (k # 1 => Pipe(k, w, r))
  BY <1>1 DEF FlowAt
<1>5. w[k] \in 0 .. Len(LineText) /\ r[k] \in 0 .. Len(LineText)
  BY <1>4 DEF Cmd, CmdAt
<1>6. k = 1 => LineText = TextOf(Head(commands[k]))
  BY <1>3 DEF Line
<1>7. ASSUME k + 1 \in Stage, pc[k + 1] \notin {"none", "finished"}
      PROVE  HasPipe(k) /\ PipeAt(LineText, data_[k + 1], msgs_[k + 1], r[k + 1], w[k])
  <2>1. k + 1 # 1 /\ (k + 1) - 1 = k
    BY OneIsStage
  <2>2. Pipe(k + 1, w, r)
    BY <1>7, <2>1 DEF FlowAt
  <2>3. k + 1 <= Len(Line)
    BY <1>1, <1>7, <2>1 DEF LineInv
  <2> QED BY <1>2, <2>1, <2>2, <2>3 DEF Pipe
<1> QED BY <1>2, <1>3, <1>4, <1>5, <1>6, <1>7 DEF Counts

\* Pieces that are written go to the pipe or to the screen.
LEMMA Writes ==
  ASSUME Inv, NEW w \in Counts, NEW r \in Counts, FlowAt(w, r), NEW k \in Stage, Task(k), ~Special(k),
         pc[k] = "write"
  PROVE  \E e \in 0 .. Len(LineText), c \in w[k] .. Len(LineText) :
           /\ c <= e /\ Head(out[k]) = Part(LineText, w[k], c)
           /\ Pieces(LineText, Tail(out[k]), c, e)
           /\ Head(commands[k]) = "cat" => e = r[k] /\ input[k] = <<>>
           /\ Head(commands[k]) # "cat" => Enough(LineText, e, quit)
           /\ out[k] \in Seq(Calls) /\ out[k] # <<>> /\ Head(out[k]) \in Calls
           /\ Tail(out[k]) \in Seq(Calls) /\ Tail(out[k]) \in Seq(Seq(Byte))
<1>1. LineText \in Seq(Byte) /\ Cmd(k, w, r)
  BY Going
<1>2. PICK e \in 0 .. Len(LineText) :
        /\ Pieces(LineText, out[k], w[k], e)
        /\ Head(commands[k]) = "cat" => e = r[k] /\ input[k] = <<>>
        /\ Head(commands[k]) # "cat" => Enough(LineText, e, quit)
  BY <1>1 DEF Cmd, CmdAt, WriteAt
<1>3. out[k] \in Seq(Calls) /\ out[k] # <<>> /\ out[k] \in Seq(Seq(Byte))
  BY CallsType DEF Inv, TypeInv
<1>4. Head(out[k]) \in Calls /\ Tail(out[k]) \in Seq(Calls) /\ Tail(out[k]) \in Seq(Seq(Byte))
  BY <1>3, HeadTailProperties, CallsType
<1>5. PICK c \in w[k] .. e : Head(out[k]) = Part(LineText, w[k], c) /\ Pieces(LineText, Tail(out[k]), c, e)
  BY <1>1, <1>2, <1>3, PiecesHead
<1>6. c \in w[k] .. Len(LineText) /\ c <= e
  BY <1>1, <1>2, <1>5, LenProperties
<1> QED BY <1>2, <1>3, <1>4, <1>5, <1>6

LEMMA WentWrite ==
  ASSUME Inv, NEW w \in Counts, NEW r \in Counts, FlowAt(w, r), ScreenAt(w), NEW k \in Stage, Task(k), ~Special(k),
         WritePipe(k) \/ WriteScreen(k)
  PROVE  \E w2, r2 \in Nat : Went(k, w, r, w2, r2) /\ Showed(k, w, w2)
<1> DEFINE t == LineText
<1>1. pc[k] = "write"
  BY DEF WritePipe, WriteScreen
<1>2. PICK e \in 0 .. Len(t), c \in w[k] .. Len(t) :
        /\ c <= e /\ Head(out[k]) = Part(t, w[k], c)
        /\ Pieces(t, Tail(out[k]), c, e)
        /\ Head(commands[k]) = "cat" => e = r[k] /\ input[k] = <<>>
        /\ Head(commands[k]) # "cat" => Enough(t, e, quit)
        /\ out[k] \in Seq(Calls) /\ out[k] # <<>> /\ Head(out[k]) \in Calls
        /\ Tail(out[k]) \in Seq(Calls) /\ Tail(out[k]) \in Seq(Seq(Byte))
  BY <1>1, Writes
<1>3. /\ t \in Seq(Byte) /\ w[k] \in 0 .. Len(t) /\ r[k] \in 0 .. Len(t) /\ w[k] \in Nat /\ r[k] \in Nat
      /\ k # 1 => Pipe(k, w, r) /\ Head(commands[k]) \in {"cat", "more"}
      /\ k + 1 \in Stage /\ pc[k + 1] \notin {"none", "finished"} =>
           HasPipe(k) /\ PipeAt(t, data_[k + 1], msgs_[k + 1], r[k + 1], w[k])
      /\ HasPipe(k) <=> k # Len(Line)
  BY Going
<1>4. AfterWrite(k) \in {"read", "finish", "exit", "loop"} /\ (AfterWrite(k) = "read" <=> Head(commands[k]) = "cat")
  BY DEF AfterWrite
<1> HIDE DEF t
\* What is left for w2 bytes written, and how the command goes on.
<1>5. ASSUME NEW writes \in Seq(Seq(Byte)), NEW w2 \in Nat, Pieces(t, writes, w2, e), Remaining(k, writes),
             UNCHANGED <<quit, input>>
      PROVE  /\ CmdAt(t, pc'[k], Head(commands[k]), input'[k], out'[k], quit', w2, r[k])
             /\ pc'[k] = "loop" => Enough(t, w2, quit')
  <2> DEFINE p == IF writes = <<>> THEN AfterWrite(k) ELSE "write"
  <2>1. pc'[k] = p /\ out'[k] = writes
    BY <1>5 DEF Remaining, Inv, TypeInv
  <2>2. \/ writes # <<>> /\ p = "write"
        \/ writes = <<>> /\ Head(commands[k]) = "cat" /\ p = "read"
        \/ writes = <<>> /\ Head(commands[k]) # "cat" /\ p \in {"finish", "exit", "loop"}
    BY <1>4
  <2> HIDE DEF p
  <2>3. /\ CmdAt(t, p, Head(commands[k]), input[k], writes, quit, w2, r[k])
        /\ p \in {"finish", "exit", "loop"} => Enough(t, w2, quit)
    BY <1>2, <1>3, <1>5, <2>2, CmdWrote
  <2> QED BY <1>5, <2>1, <2>3
<1>6. CASE WritePipe(k)
  <2> DEFINE bytes == Head(out[k])
             m == Data(Chunk(bytes))
             rest == Behind(bytes, Len(Chunk(bytes)))
             writes == IF rest = <<>> THEN Tail(out[k]) ELSE <<rest>> \o Tail(out[k])
             w2 == w[k] + Least(kPipeData, c - w[k])
  <2>1. /\ Chunk(bytes) \in Chunks /\ Len(Chunk(bytes)) = Least(kPipeData, Len(bytes))
        /\ m \in Message /\ m.data = Chunk(bytes)
    BY <1>2, ChunkBytes, MessageType
  <2>2. /\ w2 \in w[k] .. c /\ Chunk(bytes) = Part(t, w[k], w2) /\ rest = Part(t, w2, c)
    <3>1. /\ w2 \in w[k] .. c
          /\ First(Part(t, w[k], c), kPipeData) = Part(t, w[k], w2)
          /\ Behind(Part(t, w[k], c), Least(kPipeData, Len(Part(t, w[k], c)))) = Part(t, w2, c)
      <4>1. c \in w[k] .. Len(t) /\ w[k] \in 0 .. Len(t) /\ kPipeData \in Nat
        BY <1>2, <1>3, SizeAssumption
      <4> QED BY <1>3, <4>1, PartSplit
    <3>2. bytes = Part(t, w[k], c)
      BY <1>2
    <3> QED BY <2>1, <3>1, <3>2 DEF Chunk
  <2>3. /\ HasPipe(k) /\ Send(k + 1, m) /\ Remaining(k, writes)
        /\ UNCHANGED <<input, data_, screen, quit>>
    BY <1>6 DEF WritePipe, pipes
  <2> HIDE DEF bytes, m, rest, w2
  <2>4. w2 \in Nat /\ w2 \in 0 .. Len(t) /\ c \in w2 .. Len(t) /\ w2 \in 0 .. c /\ w2 \in w[k] .. Len(t)
    BY <1>2, <1>3, <2>2, LenProperties
  <2>5. writes \in Seq(Seq(Byte)) /\ Pieces(t, writes, w2, e)
    <3>1. CASE rest = <<>>
      <4>1. Part(t, w2, c) = <<>> <=> w2 = c
        BY <1>3, <2>4, PartEmpty
      <4>2. w2 = c
        BY <2>2, <3>1, <4>1
      <4> QED BY <1>2, <3>1, <4>2
    <3>2. CASE rest # <<>>
      <4>1. writes = <<Part(t, w2, c)>> \o Tail(out[k])
        BY <2>2, <3>2
      <4>2. Pieces(t, <<Part(t, w2, c)>> \o Tail(out[k]), w2, e)
        BY <1>2, <1>3, <2>4, PiecesCons
      <4>3. Part(t, w2, c) \in Seq(Byte)
        BY <1>3, <2>4, PartType
      <4>4. <<Part(t, w2, c)>> \in Seq(Seq(Byte)) /\ Tail(out[k]) \in Seq(Seq(Byte))
        BY <1>2, <4>3
      <4>5. writes = <<Part(t, w2, c)>> \o Tail(out[k])
        BY <4>1
      <4> HIDE DEF writes
      <4>6. writes \in Seq(Seq(Byte))
        BY <4>4, <4>5, ConcatProperties
      <4> QED BY <4>2, <4>5, <4>6
    <3> QED BY <3>1, <3>2
  <2> HIDE DEF writes
  <2>6. /\ CmdAt(t, pc'[k], Head(commands[k]), input'[k], out'[k], quit', w2, r[k])
        /\ pc'[k] = "loop" => Enough(t, w2, quit')
    BY <1>5, <2>3, <2>4, <2>5
  <2>7. k # 1 => PipeAt(t, data_'[k], msgs_'[k], r[k], w[k - 1])
    <3>1. UNCHANGED msgs_[k]
      <4>1. k # k + 1
        BY OneIsStage
      <4> QED BY <2>3, <4>1 DEF Send, Inv, TypeInv
    <3> QED BY <1>3, <2>3, <3>1 DEF Pipe, t
  <2>8. k + 1 \in Stage /\ pc[k + 1] \notin {"none", "finished"} =>
          PipeAt(t, data_[k + 1], msgs_'[k + 1], r[k + 1], w2)
    <3> SUFFICES ASSUME k + 1 \in Stage, pc[k + 1] \notin {"none", "finished"}
                 PROVE  PipeAt(t, data_[k + 1], msgs_'[k + 1], r[k + 1], w2)
      OBVIOUS
    <3>1. Live(k + 1)
      <4>1. k + 1 # 1
        BY OneIsStage
      <4> QED BY <4>1 DEF Live, Inv, LineInv
    <3>2. msgs_'[k + 1] = Append(msgs_[k + 1], m) /\ msgs_[k + 1] \in Seq(Message)
      BY <2>3, <3>1 DEF Send, Inv, TypeInv
    <3>3. PipeAt(t, data_[k + 1], msgs_[k + 1], r[k + 1], w[k])
      BY <1>3
    <3>4. PipeAt(t, data_[k + 1], Append(msgs_[k + 1], m), r[k + 1], w2)
      BY <1>3, <2>1, <2>2, <2>4, <3>2, <3>3, PipeSend
    <3> QED BY <3>2, <3>4
  <2>9. Went(k, w, r, w2, r[k])
    BY <1>3, <2>4, <2>6, <2>7, <2>8 DEF Went, t
  <2>10. Showed(k, w, w2)
    BY <1>3, <2>3 DEF Showed
  <2> QED BY <1>3, <2>4, <2>9, <2>10
<1>7. CASE WriteScreen(k)
  <2>1. /\ ~HasPipe(k) /\ screen' = screen \o Head(out[k]) /\ Remaining(k, Tail(out[k]))
        /\ UNCHANGED <<input, data_, msgs_, quit>>
    BY <1>7 DEF WriteScreen, pipes
  <2>2. c \in Nat /\ c \in 0 .. Len(t) /\ 0 \in 0 .. Len(t) /\ w[k] \in 0 .. Len(t)
    BY <1>2, <1>3, LenProperties
  <2>3. /\ CmdAt(t, pc'[k], Head(commands[k]), input'[k], out'[k], quit', c, r[k])
        /\ pc'[k] = "loop" => Enough(t, c, quit')
    BY <1>2, <1>5, <2>1, <2>2
  <2>4. screen = Part(t, 0, w[k])
    BY <1>1, <1>3, <2>1 DEF ScreenAt, t
  <2>5. screen' = Part(t, 0, c)
    BY <1>2, <1>3, <2>1, <2>2, <2>4, PartJoin
  <2>6. Went(k, w, r, c, r[k])
    BY <1>3, <2>1, <2>2, <2>3 DEF Went, Pipe, t
  <2>7. Showed(k, w, c)
    BY <1>1, <1>2, <1>3, <2>1, <2>5 DEF Showed, t
  <2> QED BY <1>3, <2>2, <2>6, <2>7
<1> QED BY <1>6, <1>7

\* A step that writes nothing.
LEMMA WentQuietly ==
  ASSUME Inv, NEW w \in Counts, NEW r \in Counts, FlowAt(w, r), NEW k \in Stage, Task(k), ~Special(k),
         UNCHANGED screen, quit => quit', k + 1 \in Stage => UNCHANGED msgs_[k + 1],
         NEW r2 \in Nat, pc'[k] = "loop" => Enough(LineText, w[k], quit'),
         CmdAt(LineText, pc'[k], Head(commands[k]), input'[k], out'[k], quit', w[k], r2),
         k # 1 /\ pc'[k] # "finished" => PipeAt(LineText, data_'[k], msgs_'[k], r2, w[k - 1])
  PROVE  \E x, y \in Nat : Went(k, w, r, x, y) /\ Showed(k, w, x)
<1>1. /\ w[k] \in Nat
      /\ k + 1 \in Stage /\ pc[k + 1] \notin {"none", "finished"} =>
           PipeAt(LineText, data_[k + 1], msgs_[k + 1], r[k + 1], w[k])
  BY Going
<1>2. Went(k, w, r, w[k], r2)
  BY <1>1 DEF Went
<1>3. Showed(k, w, w[k])
  BY DEF Showed
<1> QED BY <1>1, <1>2, <1>3

LEMMA WentRead ==
  ASSUME Inv, NEW w \in Counts, NEW r \in Counts, FlowAt(w, r), NEW k \in Stage, Task(k), ~Special(k),
         ReadRest(k) \/ ReadEnd(k) \/ ReadMessage(k)
  PROVE  \E w2, r2 \in Nat : Went(k, w, r, w2, r2) /\ Showed(k, w, w2)
<1> DEFINE t == LineText
<1>1. pc[k] = "read" /\ k # 1 /\ UNCHANGED <<screen, quit, commands>>
  BY DEF ReadRest, ReadEnd, ReadMessage, Inv, LineInv
<1>2. /\ t \in Seq(Byte) /\ Cmd(k, w, r) /\ Pipe(k, w, r) /\ Head(commands[k]) \in {"cat", "more"}
      /\ r[k] \in 0 .. Len(t) /\ r[k] \in Nat
  BY <1>1, Going
<1>3. /\ CmdAt(t, "read", Head(commands[k]), input[k], out[k], quit, w[k], r[k])
      /\ PipeAt(t, data_[k], msgs_[k], r[k], w[k - 1])
  BY <1>1, <1>2 DEF Cmd, Pipe
<1>4. msgs_[k] \in Seq(Message) /\ data_[k] \in Seq(Byte) /\ TypeInv
  BY DEF Inv, TypeInv, Rests
<1>5. k + 1 \in Stage => UNCHANGED msgs_[k + 1]
  <2>1. k # k + 1
    BY OneIsStage
  <2> QED BY <2>1, <1>4 DEF ReadRest, ReadEnd, ReadMessage, TypeInv
<1>6. k # 1 /\ pc'[k] # "loop"
  <2>1. pc'[k] = "loop" => FALSE
    <3>1. UNCHANGED <<pc, commands>> \/ \E s : Moves(k, s)
      BY TaskMoves DEF Inv
    <3> QED BY <1>1, <3>1 DEF Moves, Inv, TypeInv
  <2> QED BY <1>1, <2>1
\* Read returns the bytes up to r2.
<1> HIDE DEF t
<1>7. ASSUME NEW r2 \in r[k] .. Len(t), NEW b, b = Part(t, r[k], r2), Got(k, b),
             b = <<>> => Enough(t, r2, quit), PipeAt(t, data_'[k], msgs_'[k], r2, w[k - 1])
      PROVE  \E x, y \in Nat : Went(k, w, r, x, y) /\ Showed(k, w, x)
  <2>1. CmdAt(t, pc'[k], Head(commands[k]), input'[k], out'[k], quit, w[k], r2)
    <3>1. Gets(k, t, quit, w[k], r[k], r2)
      BY <1>1, <1>2, <1>3, <1>7 DEF Gets
    <3> QED BY <1>2, <1>4, <3>1, CmdGot
  <2>2. r2 \in Nat
    BY <1>2, <1>7, LenProperties
  <2> QED BY <1>1, <1>5, <1>6, <1>7, <2>1, <2>2, WentQuietly DEF t
<1>8. CASE ReadRest(k)
  <2> DEFINE b == First(data_[k], Length(k))
  <2>1. /\ data_[k] # <<>> /\ data_'[k] = Rest(data_[k], k) /\ UNCHANGED msgs_ /\ Got(k, b)
    BY <1>4, <1>8 DEF ReadRest, Rest, TypeInv
  <2>2. PICK r2 \in r[k] .. Len(t) : b = Part(t, r[k], r2) /\ PipeAt(t, Rest(data_[k], k), msgs_[k], r2, w[k - 1])
    BY <1>2, <1>3, <1>4, PipeRest
  <2>3. b # <<>>
    BY <1>4, <2>1, FirstBytes
  <2> QED BY <1>7, <2>1, <2>2, <2>3
<1>9. CASE ReadEnd(k)
  <2>1. data_[k] = <<>> /\ closed_[k] /\ Got(k, <<>>) /\ UNCHANGED <<data_, msgs_>>
    BY <1>9 DEF ReadEnd, pipes
  <2>2. r[k] \in r[k] .. Len(t)
    BY <1>2, LenProperties
  <2>3. Part(t, r[k], r[k]) = <<>>
    BY <1>2, <2>2, PartEmpty
  <2>4. Enough(t, r[k], quit)
    BY <1>1, <2>1, SeenEnough DEF t
  <2> QED BY <1>3, <1>7, <2>1, <2>2, <2>3, <2>4
<1>10. CASE ReadMessage(k)
  <2> DEFINE m == Head(msgs_[k])
  <2>1. /\ data_[k] = <<>> /\ msgs_[k] # <<>> /\ msgs_'[k] = Tail(msgs_[k])
    BY <1>4, <1>10 DEF ReadMessage, TypeInv
  <2>2. m \in Message
    BY <1>4, <2>1, QueueTail
  <2>3. CASE /\ ~IsData(m) /\ UNCHANGED <<pc, out, input, data_, closed_>>
    <3>1. m.data = <<>>
      BY <2>2, <2>3, MessageType DEF IsData
    <3>2. PipeAt(t, data_'[k], msgs_'[k], r[k], w[k - 1])
      BY <1>2, <1>3, <1>4, <2>1, <2>3, <3>1, PipeSkip
    <3>3. CmdAt(t, pc'[k], Head(commands[k]), input'[k], out'[k], quit', w[k], r[k])
      BY <1>1, <1>3, <2>3
    <3> QED BY <1>1, <1>2, <1>5, <1>6, <3>2, <3>3, WentQuietly DEF t
  <2>4. CASE /\ IsData(m)
             /\ data_' = [data_ EXCEPT ![k] = Rest(m.data, k)]
             /\ Got(k, First(m.data, Length(k)))
    <3> DEFINE b == First(m.data, Length(k))
    <3>1. PICK r2 \in r[k] .. Len(t) : b = Part(t, r[k], r2) /\ PipeAt(t, Rest(m.data, k), Tail(msgs_[k]), r2, w[k - 1])
      BY <1>2, <1>3, <1>4, <2>1, PipeMessage
    <3>2. data_'[k] = Rest(m.data, k)
      BY <1>4, <2>4 DEF TypeInv
    <3>3. b = <<>> => Enough(t, r2, quit)
      <4> SUFFICES ASSUME b = <<>> PROVE Enough(t, r2, quit)
        OBVIOUS
      <4>1. m.data = <<>> /\ m.type = "pipe"
        BY <2>2, <2>4, FirstBytes, MessageType DEF IsData
      <4>2. Enough(t, r[k], quit)
        BY <1>1, <2>1, <4>1, SeenEnough DEF t
      <4>3. r[k] = r2
        BY <1>2, <3>1, PartEmpty
      <4> QED BY <4>2, <4>3
    <3> QED BY <1>7, <2>1, <2>4, <3>1, <3>2, <3>3
  <2> QED BY <1>10, <2>3, <2>4 DEF ReadMessage, pipes
<1> QED BY <1>8, <1>9, <1>10

LEMMA WentMore ==
  ASSUME Inv, NEW w \in Counts, NEW r \in Counts, FlowAt(w, r), NEW k \in Stage, Task(k), ~Special(k),
         ShowPage(k) \/ WaitKey(k)
  PROVE  \E w2, r2 \in Nat : Went(k, w, r, w2, r2) /\ Showed(k, w, w2)
<1> DEFINE t == LineText
<1>1. pc[k] \in {"page", "key"} /\ k # 1 /\ UNCHANGED <<screen, commands, input, data_, closed_>>
  BY DEF ShowPage, WaitKey, pipes, Inv, LineInv
<1>2. /\ t \in Seq(Byte) /\ Cmd(k, w, r) /\ Pipe(k, w, r) /\ Head(commands[k]) \in {"cat", "more"}
      /\ r[k] \in 0 .. Len(t) /\ r[k] \in Nat
  BY <1>1, Going
<1>3. /\ w[k] = 0 /\ input[k] = Part(t, 0, r[k]) /\ Enough(t, r[k], quit)
      /\ CmdAt(t, pc[k], Head(commands[k]), input[k], out[k], quit, w[k], r[k])
      /\ PipeAt(t, data_[k], msgs_[k], r[k], w[k - 1])
  BY <1>1, <1>2 DEF Cmd, CmdAt, Pipe
<1>4. msgs_[k] \in Seq(Message) /\ TypeInv
  BY DEF Inv, TypeInv
<1>5. k + 1 \in Stage => UNCHANGED msgs_[k + 1]
  <2>1. k # k + 1
    BY OneIsStage
  <2> QED BY <2>1, <1>4 DEF ShowPage, WaitKey, TypeInv
<1>6. k # 1 /\ pc'[k] # "loop"
  <2>1. pc'[k] = "loop" => FALSE
    <3>1. UNCHANGED <<pc, commands>> \/ \E s : Moves(k, s)
      BY TaskMoves DEF Inv
    <3> QED BY <1>1, <3>1 DEF Moves, Inv, TypeInv
  <2> QED BY <1>1, <2>1
<1>7. Head(commands[k]) = "more"
  BY <1>1, <1>2 DEF Cmd, CmdAt
<1>8. closed_[k] /\ EndAt(pc[k - 1], msgs_[k], data_[k], closed_[k])
  BY <1>1 DEF Inv, EndInv, End, Returned
<1>9. PipeAt(t, data_'[k], msgs_'[k], r[k], w[k - 1])
  <2>1. CASE ShowPage(k)
    BY <1>1, <1>3, <2>1 DEF ShowPage
  <2>2. CASE WaitKey(k)
    <3>1. msgs_[k] # <<>> /\ msgs_'[k] = Tail(msgs_[k])
      BY <1>4, <2>2 DEF WaitKey, TypeInv
    <3>2. Head(msgs_[k]).data = <<>>
      <4>1. Head(msgs_[k]) = msgs_[k][1] /\ 1 \in 1 .. Len(msgs_[k])
        BY <1>4, <3>1, QueueTail
      <4> QED BY <1>8, <4>1 DEF EndAt
    <3> QED BY <1>1, <1>2, <1>3, <1>4, <3>1, <3>2, PipeSkip
  <2> QED BY <2>1, <2>2
<1>10. ASSUME quit => quit', CmdAt(t, pc'[k], Head(commands[k]), input'[k], out'[k], quit', w[k], r[k])
       PROVE  \E x, y \in Nat : Went(k, w, r, x, y) /\ Showed(k, w, x)
  BY <1>1, <1>2, <1>5, <1>6, <1>9, <1>10, WentQuietly DEF t
<1> HIDE DEF t
<1>11. ASSUME pc'[k] \in {"page", "key"}, UNCHANGED quit
       PROVE  CmdAt(t, pc'[k], Head(commands[k]), input'[k], out'[k], quit', w[k], r[k])
  BY <1>1, <1>3, <1>11 DEF CmdAt
<1>12. CASE ShowPage(k)
  <2>1. UNCHANGED quit
    BY <1>12 DEF ShowPage
  <2>2. CASE pc' = [pc EXCEPT ![k] = "key"]
    <3>1. pc'[k] = "key"
      BY <1>4, <2>2 DEF TypeInv
    <3> QED BY <1>10, <1>11, <2>1, <3>1
  <2>3. CASE MoreExits(k, input[k])
    <3>1. CmdAt(t, pc'[k], Head(commands[k]), input'[k], out'[k], quit, 0, r[k])
      BY <1>2, <1>3, <1>4, <1>7, <2>3, CmdExits
    <3> QED BY <1>3, <1>10, <2>1, <3>1
  <2> QED BY <1>12, <2>2, <2>3 DEF ShowPage
<1>13. CASE WaitKey(k)
  <2>1. CASE pc' = [pc EXCEPT ![k] = "page"] /\ UNCHANGED <<out, quit>>
    <3>1. pc'[k] = "page"
      BY <1>4, <2>1 DEF TypeInv
    <3> QED BY <1>10, <1>11, <2>1, <3>1
  <2>2. CASE UNCHANGED <<pc, out, quit>>
    BY <1>1, <1>10, <1>11, <2>2
  <2>3. CASE MoreExits(k, First(input[k], shown[k])) /\ quit' = TRUE
    <3> DEFINE e == 0 + Least(shown[k], r[k] - 0)
    <3>1. 0 \in 0 .. Len(t) /\ r[k] \in 0 .. Len(t) /\ shown[k] \in Nat
      BY <1>2, <1>4, LenProperties DEF TypeInv
    <3>2. e \in 0 .. r[k] /\ First(Part(t, 0, r[k]), shown[k]) = Part(t, 0, e)
      BY <1>2, <3>1, PartSplit
    <3> HIDE DEF e
    <3>3. e \in 0 .. Len(t) /\ Enough(t, e, TRUE)
      BY <1>2, <3>2, LenProperties DEF Enough
    <3>4. MoreExits(k, Part(t, 0, e))
      BY <1>3, <2>3, <3>2
    <3>5. CmdAt(t, pc'[k], Head(commands[k]), input'[k], out'[k], TRUE, 0, r[k])
      BY <1>2, <1>4, <1>7, <3>3, <3>4, CmdExits
    <3> QED BY <1>3, <1>10, <2>3, <3>5
  <2> QED BY <1>13, <2>1, <2>2, <2>3 DEF WaitKey
<1> QED BY <1>12, <1>13

LEMMA WentOther ==
  ASSUME Inv, NEW w \in Counts, NEW r \in Counts, FlowAt(w, r), NEW k \in Stage, Task(k), ~Special(k),
         ExecuteLine(k) \/ MapSubtask(k) \/ FinishWrite(k) \/ Finish(k)
  PROVE  \E w2, r2 \in Nat : Went(k, w, r, w2, r2) /\ Showed(k, w, w2)
<1> DEFINE t == LineText
           c == Head(commands[k])
<1>1. /\ t \in Seq(Byte) /\ Cmd(k, w, r) /\ w[k] \in Nat /\ r[k] \in Nat
      /\ k # 1 => Pipe(k, w, r) /\ c \notin Source
      /\ k = 1 => c \in Source /\ t = TextOf(c)
      /\ k + 1 \in Stage /\ pc[k + 1] \notin {"none", "finished"} =>
           PipeAt(LineText, data_[k + 1], msgs_[k + 1], r[k + 1], w[k])
      /\ HasPipe(k) <=> k # Len(Line)
  BY Going
<1>2. TypeInv /\ LineInv /\ UNCHANGED <<screen, quit>>
  BY DEF Inv, ExecuteLine, MapSubtask, FinishWrite, Finish
<1> HIDE DEF t
<1>3. CASE ExecuteLine(k) \/ MapSubtask(k)
  <2>1. pc[k] \in {"parse", "map"} /\ Begin(k) /\ UNCHANGED <<msgs_, data_, quit>>
    BY <1>3 DEF ExecuteLine, MapSubtask, pipes
  <2>2. w[k] = 0 /\ r[k] = 0
    BY <1>1, <2>1 DEF Cmd, CmdAt
  <2>3. /\ pc'[k] = IF c \notin Source THEN "read"
                    ELSE IF Output[c] = <<>> THEN AfterWrite(k) ELSE "write"
        /\ out'[k] = IF c \in Source THEN Output[c] ELSE <<>>
        /\ input'[k] = <<>>
    BY <1>2, <2>1 DEF Begin, TypeInv
  <2>7. k = 1 => AfterWrite(k) \in {"finish", "exit", "loop"}
    BY <1>1, SourceOutput DEF AfterWrite
  <2> HIDE DEF c
  <2>4. CmdAt(t, pc'[k], c, input'[k], out'[k], quit', 0, 0)
    <3>1. CASE k = 1
      <4>1. /\ CmdAt(TextOf(c), "write", c, <<>>, Output[c], quit, 0, 0)
            /\ Output[c] = <<>> => CmdAt(TextOf(c), AfterWrite(k), c, <<>>, Output[c], quit, 0, 0)
        BY <1>1, <2>7, <3>1, CmdBeginSource
      <4> QED BY <1>1, <2>1, <2>3, <3>1, <4>1
    <3>2. CASE k # 1
      <4>1. CmdAt(t, "read", c, <<>>, <<>>, quit, 0, 0)
        BY <1>1, CmdBeginReader
      <4> QED BY <1>1, <2>1, <2>3, <3>2, <4>1
    <3> QED BY <3>1, <3>2
  <2>5. k # 1 => PipeAt(t, data_'[k], msgs_'[k], 0, w[k - 1])
    BY <1>1, <2>1, <2>2 DEF Pipe, t
  <2>6. pc'[k] = "loop" => Enough(t, 0, quit')
    <3>1. SUFFICES ASSUME pc'[k] = "loop" PROVE Enough(t, 0, quit')
      OBVIOUS
    <3>2. c \in Source /\ Output[c] = <<>>
      BY <2>3, <3>1
    <3>3. k = 1 /\ t = TextOf(c)
      BY <1>1, <3>2
    <3> QED BY <3>2, <3>3, CmdBeginSource
  <2> QED BY <1>2, <2>1, <2>2, <2>4, <2>5, <2>6, WentQuietly DEF t, c
<1>4. CASE FinishWrite(k)
  <2>1. /\ pc[k] = "finish" /\ pc'[k] = "wait" /\ Send(k + 1, EndOfData)
        /\ UNCHANGED <<input, out, data_, quit>>
    BY <1>2, <1>4 DEF FinishWrite, program, pipes, TypeInv
  <2>2. CmdAt(t, pc'[k], c, input'[k], out'[k], quit', w[k], r[k])
    BY <1>1, <2>1 DEF Cmd, CmdAt, t
  <2>3. k # 1 => PipeAt(t, data_'[k], msgs_'[k], r[k], w[k - 1])
    <3>1. k # k + 1
      BY OneIsStage
    <3>2. UNCHANGED msgs_[k]
      BY <1>2, <2>1, <3>1 DEF Send, TypeInv
    <3> QED BY <1>1, <2>1, <3>2 DEF Pipe, t
  <2>4. k + 1 \in Stage /\ pc[k + 1] \notin {"none", "finished"} =>
          PipeAt(t, data_[k + 1], msgs_'[k + 1], r[k + 1], w[k])
    <3> SUFFICES ASSUME k + 1 \in Stage, pc[k + 1] \notin {"none", "finished"}
                 PROVE  PipeAt(t, data_[k + 1], msgs_'[k + 1], r[k + 1], w[k])
      OBVIOUS
    <3>1. msgs_'[k + 1] = Append(msgs_[k + 1], EndOfData) \/ UNCHANGED msgs_[k + 1]
      BY <1>2, <2>1 DEF Send, TypeInv
    <3>2. PipeAt(t, data_[k + 1], msgs_[k + 1], r[k + 1], w[k]) /\ msgs_[k + 1] \in Seq(Message)
      BY <1>1, <1>2 DEF t, TypeInv
    <3>3. PipeAt(t, data_[k + 1], Append(msgs_[k + 1], EndOfData), r[k + 1], w[k])
      BY <1>1, <3>2, MessageType, PipeSendNothing
    <3> QED BY <3>1, <3>2, <3>3
  <2>5. Went(k, w, r, w[k], r[k])
    BY <1>1, <2>1, <2>2, <2>3, <2>4 DEF Went, t
  <2>6. Showed(k, w, w[k])
    BY <1>2 DEF Showed
  <2> QED BY <1>1, <2>5, <2>6
<1>5. CASE Finish(k)
  <2>1. /\ pc[k] = "exit" /\ pc'[k] = "finished" /\ UNCHANGED <<input, out, quit>>
        /\ \A j \in Stage : j # k => UNCHANGED msgs_[j]
    BY <1>2, <1>5 DEF Finish, program, TypeInv
  <2>2. CmdAt(t, pc'[k], c, input'[k], out'[k], quit', w[k], r[k])
    BY <1>1, <2>1 DEF Cmd, CmdAt, t
  <2>3. k + 1 \in Stage => UNCHANGED msgs_[k + 1]
    BY <2>1, OneIsStage
  <2> QED BY <1>1, <1>2, <2>1, <2>2, <2>3, WentQuietly DEF t
<1> QED BY <1>3, <1>4, <1>5

LEMMA TaskWent ==
  ASSUME Inv, NEW w \in Counts, NEW r \in Counts, FlowAt(w, r), ScreenAt(w),
         NEW k \in Stage, Task(k), ~Special(k)
  PROVE  \E w2, r2 \in Nat : Went(k, w, r, w2, r2) /\ Showed(k, w, w2)
<1>1. CASE WritePipe(k) \/ WriteScreen(k)
  BY <1>1, WentWrite
<1>2. CASE ReadRest(k) \/ ReadEnd(k) \/ ReadMessage(k)
  BY <1>2, WentRead
<1>3. CASE ShowPage(k) \/ WaitKey(k)
  BY <1>3, WentMore
<1>4. CASE ExecuteLine(k) \/ MapSubtask(k) \/ FinishWrite(k) \/ Finish(k)
  BY <1>4, WentOther
<1> QED BY <1>1, <1>2, <1>3, <1>4 DEF Task, Special

LEMMA DataTask ==
  ASSUME Inv, NEW k \in Stage, Task(k), ~Special(k)
  PROVE  DataInv'
<1>1. Busy
  <2>1. pc[k] \notin {"none", "loop", "closed"}
    BY TaskActs DEF Inv
  <2> QED BY <2>1, OnLine DEF Inv
<1>2. PICK w \in Counts, r \in Counts : FlowAt(w, r) /\ ScreenAt(w)
  BY <1>1 DEF Inv, DataInv
<1>3. PICK w2 \in Nat, r2 \in Nat : Went(k, w, r, w2, r2) /\ Showed(k, w, w2)
  BY <1>2, TaskWent
<1>4. [w EXCEPT ![k] = w2] \in Counts /\ [r EXCEPT ![k] = r2] \in Counts
  BY DEF Counts
<1>5. FlowAt([w EXCEPT ![k] = w2], [r EXCEPT ![k] = r2])'
  <2>1. \A j \in Stage : j # k => UNCHANGED <<input[j], out[j]>>
    BY OthersKept DEF Inv
  <2>2. quit => quit'
    BY <1>3 DEF Showed
  <2> QED BY <1>2, <1>3, <2>1, <2>2, WentFlow
<1>6. ScreenAt([w EXCEPT ![k] = w2])'
  BY <1>2, <1>3, WentShown
<1> QED BY <1>4, <1>5, <1>6 DEF DataInv

\* Nothing has been read or written yet.
LEMMA CmdParse ==
  ASSUME NEW t \in Seq(Byte), NEW p \in {"parse", "map"}, NEW c, NEW in, NEW ou, NEW q
  PROVE  CmdAt(t, p, c, in, ou, q, 0, 0)
<1>1. 0 \in 0 .. Len(t)
  BY LenProperties
<1> QED BY <1>1 DEF CmdAt

LEMMA DataReceive ==
  ASSUME Inv, LineInv', ReceiveKey \/ ReceiveClose
  PROVE  DataInv'
<1> SUFFICES ASSUME Busy' PROVE \E w, r \in Counts : FlowAt(w, r)' /\ ScreenAt(w)'
  BY DEF DataInv
<1>1. 1 \in Stage /\ pc[1] = "loop" /\ \A j \in Stage : j # 1 => pc[j] = "none"
  BY OneIsStage, Above DEF ReceiveKey, ReceiveClose, Working, Inv
<1>2. pc'[1] = "parse" /\ (\A j \in Stage : j # 1 => pc'[j] = "none") /\ screen' = <<>>
  <2>1. CASE ReceiveKey
    <3>1. ~UNCHANGED pc
      BY <1>1 DEF Busy
    <3>2. pc' = [pc EXCEPT ![1] = "parse"] /\ screen' = <<>>
      BY <2>1, <3>1 DEF ReceiveKey
    <3> QED BY <1>1, <3>2 DEF Inv, TypeInv
  <2>2. CASE ReceiveClose
    <3>1. pc'[1] = "closed"
      BY <1>1, <2>2 DEF ReceiveClose, Inv, TypeInv
    <3> QED BY <3>1 DEF Busy
  <2> QED BY <2>1, <2>2
<1>3. LineText' \in Seq(Byte)
  <2>1. Line' \in Lines
    BY DEF LineInv
  <2>2. /\ Len(Line') \in Nat /\ Len(Line') >= 1 /\ Line' # <<>> /\ Line' \in Seq(Command)
        /\ \A k \in 1 .. Len(Line') : Line'[k] \in Source <=> k = 1
    BY <2>1, LineType
  <2>3. Head(Line') = Line'[1] /\ Line'[1] \in Source
    BY <2>2
  <2> QED BY <2>3, SourceText DEF LineText
<1> DEFINE z == [k \in Stage |-> 0]
<1>4. z \in Counts /\ \A k \in Stage : z[k] = 0
  BY DEF Counts
<1> HIDE DEF z
<1>5. FlowAt(z, z)'
  <2>1. Cmd(1, z, z)'
    BY <1>1, <1>2, <1>3, <1>4, CmdParse DEF Cmd
  <2> QED BY <1>2, <2>1 DEF FlowAt
<1>6. 0 \in 0 .. Len(LineText') /\ Part(LineText', 0, 0) = <<>>
  <2>1. 0 \in 0 .. Len(LineText')
    BY <1>3, LenProperties
  <2> QED BY <1>3, <2>1, PartEmpty
<1>7. ScreenAt(z)'
  <2>1. ASSUME NEW k \in Stage
        PROVE  pc'[k] \in {"parse", "none"} /\ screen' = Part(LineText', 0, z[k])
    BY <1>2, <1>4, <1>6
  <2> QED BY <1>2, <1>6, <2>1 DEF ScreenAt
<1> QED BY <1>4, <1>5, <1>7

LEMMA DataStart ==
  ASSUME Inv, LineInv', NEW k \in Stage, StartSubtask(k)
  PROVE  DataInv'
<1>1. /\ pc[k] = "parse" /\ Busy /\ k < Len(Line) /\ k + 1 \in Stage /\ k \in Nat /\ k >= 1
      /\ Len(Line) \in Nat /\ TypeInv
  BY OnLine, LineType, OneIsStage DEF StartSubtask, Inv
<1>2. PICK w \in Counts, r \in Counts : FlowAt(w, r) /\ ScreenAt(w)
  BY <1>1 DEF Inv, DataInv
<1>3. LineText \in Seq(Byte)
  BY <1>1, LineTextType DEF Inv
<1>4. \A j \in Stage : pc'[j] = IF j = k THEN "map" ELSE IF j = k + 1 THEN "parse" ELSE pc[j]
  <2>1. pc' = [pc EXCEPT ![k] = "map", ![k + 1] = "parse"] /\ k # k + 1
    BY <1>1 DEF StartSubtask
  <2> QED BY <1>1, <2>1 DEF TypeInv
<1>5. /\ \A j \in Stage : j # k + 1 => UNCHANGED <<commands[j], msgs_[j], data_[j]>>
      /\ msgs_'[k + 1] = <<>> /\ data_'[k + 1] = <<>> /\ UNCHANGED <<input, out, screen, quit>>
  BY <1>1 DEF StartSubtask, TypeInv
<1>6. UNCHANGED LineText /\ UNCHANGED Line
  <2>1. 1 \in Stage /\ k + 1 # 1
    BY <1>1, OneIsStage
  <2> QED BY <1>5, <2>1 DEF LineText, Line
<1>7. \A j \in Stage : j > k => pc[j] = "none"
  BY <1>1, Above DEF Working, Inv
<1> DEFINE x == [w EXCEPT ![k + 1] = 0]
           y == [r EXCEPT ![k + 1] = 0]
<1>8. /\ x \in Counts /\ y \in Counts /\ x[k + 1] = 0 /\ y[k + 1] = 0
      /\ \A j \in Stage : j # k + 1 => x[j] = w[j] /\ y[j] = r[j]
  BY <1>1 DEF Counts
<1> HIDE DEF x, y
<1>9. w[k] = 0 /\ r[k] = 0 /\ screen = <<>>
  BY <1>1, <1>2 DEF FlowAt, Cmd, CmdAt, ScreenAt
<1>10. ASSUME NEW j \in Stage, pc'[j] # "none"
       PROVE  /\ j \in Nat /\ (j = k + 1 \/ j = k \/ j < k) /\ (j # 1 => j - 1 \in Stage)
  <2>1. j \in Nat /\ (j # 1 => j - 1 \in Stage)
    BY SizeAssumption DEF Stage
  <2>2. j <= k + 1
    BY <1>1, <1>4, <1>7, <1>10, <2>1
  <2> QED BY <1>1, <2>1, <2>2
<1>11. ASSUME NEW j \in Stage, pc'[j] # "none"
       PROVE  Cmd(j, x, y)' /\ (j # 1 /\ pc'[j] # "finished" => Pipe(j, x, y)')
  <2>1. CASE j = k + 1
    <3>1. pc'[j] = "parse" /\ x[j] = 0 /\ y[j] = 0 /\ j - 1 = k /\ x[k] = 0
      BY <1>1, <1>4, <1>8, <1>9, <2>1
    <3>2. Cmd(j, x, y)'
      BY <1>3, <1>6, <3>1, CmdParse DEF Cmd
    <3>3. Pipe(j, x, y)'
      BY <1>3, <1>5, <1>6, <2>1, <3>1, PipeEmpty DEF Pipe
    <3> QED BY <3>2, <3>3
  <2>2. CASE j = k \/ j < k
    <3>1. j # k + 1 /\ (j # 1 => j - 1 \in Stage /\ j - 1 # k + 1)
      BY <1>1, <1>10, <1>11, <2>2
    <3>2. x[j] = w[j] /\ y[j] = r[j] /\ (j # 1 => x[j - 1] = w[j - 1])
      BY <1>8, <3>1
    <3>3. pc[j] \notin {"none"} /\ (pc'[j] # "finished" => pc[j] # "finished")
      BY <1>1, <1>4, <1>11, <3>1
    <3>4. Cmd(j, w, r) /\ (j # 1 /\ pc[j] # "finished" => Pipe(j, w, r))
      BY <1>2, <3>3 DEF FlowAt
    <3>5. Cmd(j, x, y)'
      <4>1. CASE j = k
        BY <1>3, <1>4, <1>6, <1>9, <3>2, <4>1, CmdParse DEF Cmd
      <4>2. CASE j # k
        BY <1>4, <1>5, <1>6, <3>1, <3>2, <3>4, <4>2 DEF Cmd
      <4> QED BY <4>1, <4>2
    <3>6. j # 1 /\ pc'[j] # "finished" => Pipe(j, x, y)'
      BY <1>5, <1>6, <3>1, <3>2, <3>3, <3>4 DEF Pipe
    <3> QED BY <3>5, <3>6
  <2> QED BY <1>10, <1>11, <2>1, <2>2
<1>12. 0 \in 0 .. Len(LineText) /\ Part(LineText, 0, 0) = <<>>
  <2>1. 0 \in 0 .. Len(LineText)
    BY <1>3, LenProperties
  <2> QED BY <1>3, <2>1, PartEmpty
<1>13. ASSUME NEW j \in Stage
       PROVE  /\ j = Len(Line) /\ pc'[j] \notin {"none", "exit", "finished"} => screen' = Part(LineText, 0, x[j])
              /\ pc'[j] \in {"exit", "finished"} => screen' = LineText \/ quit'
  <2>1. j = Len(Line) /\ pc'[j] # "none" => j = k + 1
    BY <1>1, <1>10
  <2>2. pc'[j] \in {"exit", "finished"} => pc[j] \in {"exit", "finished"}
    BY <1>4
  <2> QED BY <1>2, <1>5, <1>8, <1>9, <1>12, <2>1, <2>2 DEF ScreenAt
<1>14. ScreenAt(x)'
  BY <1>5, <1>6, <1>9, <1>12, <1>13 DEF ScreenAt
<1>15. FlowAt(x, y)'
  BY <1>11 DEF FlowAt
<1> QED BY <1>8, <1>14, <1>15 DEF DataInv

LEMMA DataWait ==
  ASSUME Inv, LineInv', NEW k \in Stage, WaitFinish(k)
  PROVE  DataInv'
<1>1. /\ pc[k] = "wait" /\ Busy /\ k + 1 \in Stage /\ pc[k + 1] = "finished" /\ k \in Nat /\ k >= 1 /\ TypeInv
      /\ k < Len(Line)
  BY OnLine, LineType, OneIsStage DEF WaitFinish, Inv, LineInv
<1>2. PICK w \in Counts, r \in Counts : FlowAt(w, r) /\ ScreenAt(w)
  BY <1>1 DEF Inv, DataInv
<1>3. /\ UNCHANGED <<commands, input, out, msgs_, data_, screen, quit>>
      /\ UNCHANGED LineText /\ UNCHANGED Line
  BY DEF WaitFinish, program, pipes, LineText, Line
<1>4. \A j \in Stage : pc'[j] = IF j = k THEN IF k = 1 THEN "loop" ELSE "exit"
                                ELSE IF j = k + 1 THEN "none" ELSE pc[j]
  BY <1>1 DEF WaitFinish, TypeInv
<1>5. screen = LineText \/ quit
  BY <1>1, <1>2 DEF ScreenAt
<1>6. Busy' => k # 1
  BY <1>4 DEF Busy
<1>7. k # 1 => FlowAt(w, r)'
  <2> SUFFICES ASSUME k # 1, NEW j \in Stage, pc'[j] # "none"
               PROVE  Cmd(j, w, r)' /\ (j # 1 /\ pc'[j] # "finished" => Pipe(j, w, r)')
    BY DEF FlowAt
  <2>1. j # k + 1 /\ pc[j] # "none"
    BY <1>1, <1>4
  <2>2. Cmd(j, w, r) /\ (j # 1 /\ pc[j] # "finished" => Pipe(j, w, r))
    BY <1>2, <2>1 DEF FlowAt
  <2>3. pc[j] = "finished" => pc'[j] = "finished"
    BY <1>1, <1>4, <2>1
  <2>4. CASE j = k
    <3>1. pc'[k] = "exit"
      BY <1>4, <2>4
    <3>2. Cmd(j, w, r)'
      BY <1>1, <1>3, <2>2, <2>4, <3>1 DEF Cmd, CmdAt
    <3>3. j # 1 /\ pc'[j] # "finished" => Pipe(j, w, r)'
      BY <1>3, <2>2, <2>3 DEF Pipe
    <3> QED BY <3>2, <3>3
  <2>5. CASE j # k
    <3>1. UNCHANGED pc[j]
      BY <1>4, <2>1, <2>5
    <3> QED BY <1>3, <2>2, <3>1 DEF Cmd, Pipe
  <2> QED BY <2>4, <2>5
<1>8. ScreenAt(w)'
  <2>1. ASSUME NEW j \in Stage
        PROVE  /\ pc'[j] = "parse" => screen = <<>>
               /\ j = Len(Line) /\ pc'[j] \notin {"none", "exit", "finished"} => screen = Part(LineText, 0, w[j])
    <3>1. j = k \/ pc'[j] = "none" \/ pc'[j] = pc[j]
      BY <1>4
    <3>2. j = k => pc'[j] # "parse" /\ j # Len(Line)
      BY <1>1, <1>4, LineType DEF Inv, LineInv
    <3> QED BY <1>2, <3>1, <3>2 DEF ScreenAt
  <2> QED BY <1>2, <1>3, <1>5, <2>1 DEF ScreenAt
<1> QED BY <1>2, <1>6, <1>7, <1>8 DEF DataInv

LEMMA DataWindow ==
  ASSUME Inv, PressKey \/ ClickClose
  PROVE  DataInv'
<1>1. PICK m \in {Key, Close}, k \in Stage : msgs_' = [msgs_ EXCEPT ![k] = Append(@, m)]
  BY WindowSends DEF Inv
<1>2. UNCHANGED <<pc, commands, input, out, data_, screen, quit>> /\ UNCHANGED LineText
  BY WindowSends DEF Inv, LineText, Line
<1>3. m \in Message /\ m.data = <<>>
  BY MessageType
<1> SUFFICES ASSUME Busy PROVE \E w, r \in Counts : FlowAt(w, r)' /\ ScreenAt(w)'
  BY <1>2 DEF DataInv, Busy
<1>4. PICK w \in Counts, r \in Counts : FlowAt(w, r) /\ ScreenAt(w)
  BY DEF Inv, DataInv
<1>5. LineText \in Seq(Byte)
  BY LineTextType DEF Inv
<1>6. ScreenAt(w)'
  BY <1>2, <1>4 DEF ScreenAt, Line
<1>7. ASSUME NEW j \in Stage, pc'[j] # "none"
      PROVE  Cmd(j, w, r)' /\ (j # 1 /\ pc'[j] # "finished" => Pipe(j, w, r)')
  <2>1. Cmd(j, w, r) /\ (j # 1 /\ pc[j] # "finished" => Pipe(j, w, r))
    BY <1>2, <1>4, <1>7 DEF FlowAt
  <2>2. msgs_[j] \in Seq(Message) /\ (msgs_'[j] = msgs_[j] \/ msgs_'[j] = Append(msgs_[j], m))
    BY <1>1 DEF Inv, TypeInv
  <2>3. Pipe(j, w, r) => Pipe(j, w, r)'
    <3> SUFFICES ASSUME PipeAt(LineText, data_[j], msgs_[j], r[j], w[j - 1])
                 PROVE  PipeAt(LineText, data_[j], msgs_'[j], r[j], w[j - 1])
      BY <1>2 DEF Pipe
    <3> QED BY <1>3, <1>5, <2>2, PipeSendNothing
  <2> QED BY <1>2, <2>1, <2>3 DEF Cmd
<1>8. FlowAt(w, r)'
  BY <1>7 DEF FlowAt
<1> QED BY <1>6, <1>8

LEMMA Invariance == Spec => []Inv
<1>1. Init => Inv
  <2>1. Init => DataInv
    BY OneIsStage DEF Init, DataInv, Busy
  <2> QED BY <2>1, TypeInit, LineInit, EndInit DEF Inv
<1>2. Inv /\ [Next]_vars => Inv'
  <2> SUFFICES ASSUME Inv, [Next]_vars PROVE Inv'
    OBVIOUS
  <2>0. TypeInv /\ LineInv /\ EndInv
    BY DEF Inv
  <2>1. CASE UNCHANGED vars
    <3>1. /\ UNCHANGED <<pc, commands, msgs_, data_, closed_, input, out, screen, quit>>
          /\ TypeInv' /\ LineInv'
      BY <2>0, <2>1 DEF vars, program, pipes, TypeInv, LineInv, Busy, Line
    <3>2. EndInv'
      BY <2>0, <3>1 DEF EndInv, End, Returned
    <3>3. DataInv'
      BY <3>1 DEF Inv, DataInv, FlowAt, ScreenAt, Cmd, Pipe, LineText, Line, Busy
    <3> QED BY <3>1, <3>2, <3>3 DEF Inv
  <2>2. ASSUME NEW k \in Stage, Task(k) PROVE Inv'
    <3>1. TypeInv' /\ LineInv' /\ EndInv'
      BY <2>0, <2>2, TypeStep, LineStep, EndTask, EndSpecial
    <3>2. DataInv'
      BY <2>2, <3>1, DataTask, DataReceive, DataStart, DataWait DEF Special
    <3> QED BY <3>1, <3>2 DEF Inv
  <2>3. CASE PressKey \/ ClickClose
    BY <2>0, <2>3, WindowStep, EndWindow, DataWindow DEF Inv
  <2> QED BY <2>1, <2>2, <2>3 DEF Next
<1> QED BY <1>1, <1>2, PTL DEF Spec

(***************************************************************************)
(* Tasks, pipes and messages are a shell.                                  *)
(***************************************************************************)
\* What the user sees of the terminal and of its line.
ShellState == CASE pc[1] = "loop" -> "prompt" [] pc[1] = "closed" -> "closed" [] OTHER -> "busy"
ShellText == IF commands[1] = <<>> THEN <<>> ELSE TextOf(Head(commands[1]))

LEMMA ShellStateIs ==
  /\ pc[1] = "loop" => ShellState = "prompt"
  /\ pc[1] = "closed" => ShellState = "closed"
  /\ Busy => ShellState = "busy"
BY DEF ShellState, Busy

LEMMA PartBegins ==
  ASSUME NEW t \in Seq(Byte), NEW a \in 0 .. Len(t), NEW b \in a .. Len(t)
  PROVE  /\ Terminal!Begins(Part(t, 0, a), Part(t, 0, b))
         /\ Terminal!Begins(Part(t, 0, b), t)
<1>1. 0 \in 0 .. Len(t) /\ a \in Nat /\ b \in 0 .. Len(t) /\ a <= b /\ Len(t) \in b .. Len(t) /\ b \in Nat
  BY LenProperties
<1>2. ASSUME NEW u \in Seq(Byte), NEW n \in 0 .. Len(u)
      PROVE  Terminal!Begins(Part(u, 0, n), u)
  <2>1. Len(Part(u, 0, n)) = n - 0 /\ n - 0 = n /\ n <= Len(u)
    <3>1. 0 \in 0 .. Len(u) /\ n \in 0 .. Len(u)
      BY LenProperties
    <3> QED BY <3>1, PartType
  <2> QED BY <2>1 DEF Terminal!Begins, Part
<1>3. Terminal!Begins(Part(t, 0, b), t)
  BY <1>1, <1>2
<1>4. Part(t, 0, b) \in Seq(Byte) /\ Len(Part(t, 0, b)) = b
  <2>1. Part(t, 0, b) \in Seq(Byte) /\ Len(Part(t, 0, b)) = b - 0
    BY <1>1, PartType
  <2> QED BY <1>1, <2>1
<1>5. Part(Part(t, 0, b), 0, a) = Part(t, 0, a)
  <2>1. First(Part(t, 0, b), a) = Part(t, 0, 0 + Least(a, b - 0))
    BY <1>1, PartSplit
  <2>2. Least(a, b - 0) = a /\ Least(a, Len(Part(t, 0, b))) = a /\ 0 + a = a /\ 0 + 1 = 1
    BY <1>1, <1>4 DEF Least
  <2> QED BY <2>1, <2>2 DEF First, Part
<1>6. Terminal!Begins(Part(Part(t, 0, b), 0, a), Part(t, 0, b))
  BY <1>1, <1>2, <1>4
<1> QED BY <1>3, <1>5, <1>6

LEMMA ShellInit == Init => Terminal!Init
<1> SUFFICES ASSUME Init PROVE Terminal!Init
  OBVIOUS
<1>1. pc[1] = "loop" /\ commands[1] = <<>> /\ screen = <<>> /\ quit = FALSE
  BY OneIsStage DEF Init
<1> QED BY <1>1 DEF Terminal!Init

\* A step of a task shows more of the text, or lets the user stop it.
LEMMA ShellTask ==
  ASSUME Inv, Inv', NEW k \in Stage, Task(k), ~Special(k)
  PROVE  Terminal!Next \/ UNCHANGED Terminal!vars
<1>1. pc[k] \notin {"none", "loop", "closed", "wait", "finished"} /\ 1 \in Stage
      /\ (\A j \in Stage : UNCHANGED commands[j])
  BY TaskActs, OneIsStage DEF Inv
<1>2. Busy /\ Line # <<>> /\ LineText \in Seq(Byte) /\ ShellState = "busy"
  BY <1>1, OnLine, LineTextType, ShellStateIs DEF Inv
<1>3. ShellText = LineText /\ UNCHANGED ShellText /\ UNCHANGED LineText
  BY <1>1, <1>2 DEF ShellText, LineText, Line
<1>4. PICK w \in Counts, r \in Counts : FlowAt(w, r) /\ ScreenAt(w)
  BY <1>2 DEF Inv, DataInv
<1>5. PICK w2 \in Nat, r2 \in Nat : Went(k, w, r, w2, r2) /\ Showed(k, w, w2)
  BY <1>4, TaskWent
<1>6. w[k] \in 0 .. Len(LineText)
  BY <1>4, Going
<1>7. Terminal!Begins(screen, screen') /\ Terminal!Begins(screen', LineText)
  <2>1. CASE UNCHANGED screen
    <3>1. PICK m \in 0 .. Len(LineText) : screen = Part(LineText, 0, m)
      BY <1>4 DEF ScreenAt
    <3>2. m \in m .. Len(LineText)
      BY <1>2, LenProperties
    <3> QED BY <1>2, <2>1, <3>1, <3>2, PartBegins
  <2>2. CASE k = Len(Line) /\ w2 \in w[k] .. Len(LineText) /\ screen' = Part(LineText, 0, w2) /\ pc[k] = "write"
    <3>1. screen = Part(LineText, 0, w[k])
      BY <1>4, <2>2 DEF ScreenAt
    <3> QED BY <1>2, <1>6, <2>2, <3>1, PartBegins
  <2> QED BY <1>5, <2>1, <2>2 DEF Showed
<1>8. CASE pc'[1] = "loop"
  <2>1. k = 1
    BY <1>1, <1>2, <1>8, TaskActs DEF Busy, Inv
  <2>2. screen' = LineText \/ quit'
    BY <1>4, <1>5, <1>8, <2>1, WentShown
  <2>3. UNCHANGED quit
    BY <1>1, <2>1 DEF Inv, LineInv, Task, Special, ExecuteLine, MapSubtask, WritePipe, WriteScreen,
       ReadRest, ReadEnd, ReadMessage, ShowPage, WaitKey, FinishWrite, Finish
  <2>4. ShellState' = "prompt"
    BY <1>8 DEF ShellState
  <2>5. Terminal!Prompt
    BY <1>2, <1>3, <1>7, <2>2, <2>3, <2>4 DEF Terminal!Prompt, Terminal!Shows, ShellState, ShellText
  <2> QED BY <2>5 DEF Terminal!Next
<1>9. CASE pc'[1] # "loop"
  <2>1. ShellState' = "busy"
    <3>1. pc'[1] # "closed"
      BY <1>1, <1>2, TaskActs, TaskPlaces DEF Busy, Inv
    <3> QED BY <1>9, <3>1 DEF ShellState
  <2>2. CASE UNCHANGED quit
    <3>1. Terminal!Show
      BY <1>2, <1>3, <1>7, <2>1, <2>2 DEF Terminal!Show, Terminal!Shows, ShellState, ShellText
    <3> QED BY <3>1 DEF Terminal!Next
  <2>3. CASE ~UNCHANGED quit
    <3>1. quit' = TRUE /\ UNCHANGED screen
      BY <2>3 DEF Task, Special, ExecuteLine, MapSubtask, WritePipe, WriteScreen,
         ReadRest, ReadEnd, ReadMessage, ShowPage, WaitKey, FinishWrite, Finish
    <3>2. Terminal!Quit
      BY <1>2, <1>3, <2>1, <3>1 DEF Terminal!Quit, ShellState, ShellText
    <3> QED BY <3>2 DEF Terminal!Next
  <2> QED BY <2>2, <2>3
<1> QED BY <1>8, <1>9

LEMMA ShellSpecial ==
  ASSUME Inv, Inv', NEW k \in Stage, Special(k)
  PROVE  Terminal!Next \/ UNCHANGED Terminal!vars
<1>1. 1 \in Stage /\ k \in Nat /\ k >= 1 /\ TypeInv /\ LineInv
  BY OneIsStage DEF Inv
<1>2. CASE ReceiveKey
  <2>1. CASE UNCHANGED <<pc, commands, screen, quit>>
    BY <2>1 DEF Terminal!vars
  <2>2. ASSUME NEW line \in Lines, commands' = [commands EXCEPT ![1] = line],
               pc' = [pc EXCEPT ![1] = "parse"], screen' = <<>> /\ quit' = FALSE
        PROVE  Terminal!Enter
    <3>1. commands'[1] = line /\ pc'[1] = "parse" /\ pc[1] = "loop"
      BY <1>1, <1>2, <2>2 DEF ReceiveKey, TypeInv
    <3>2. line # <<>> /\ Head(line) \in Source
      <4>1. Len(line) >= 1 /\ Len(line) \in Nat /\ line \in Seq(Command) /\ line # <<>>
            /\ \A j \in 1 .. Len(line) : line[j] \in Source <=> j = 1
        BY LineType
      <4> QED BY <4>1
    <3>3. ShellState = "prompt" /\ ShellState' = "busy"
      BY <3>1 DEF ShellState
    <3>4. ShellText' = TextOf(Head(line))
      BY <3>1, <3>2 DEF ShellText
    <3> QED BY <2>2, <3>2, <3>3, <3>4 DEF Terminal!Enter, ShellState, ShellText
  <2> QED BY <1>2, <2>1, <2>2 DEF ReceiveKey, Terminal!Next
<1>3. CASE ReceiveClose
  <2>1. pc[1] = "loop" /\ pc'[1] = "closed" /\ UNCHANGED <<commands, screen, quit>>
    BY <1>1, <1>3 DEF ReceiveClose, program, TypeInv
  <2>2. ShellState = "prompt" /\ ShellState' = "closed" /\ UNCHANGED ShellText
    BY <2>1 DEF ShellState, ShellText
  <2>3. Terminal!Close
    BY <2>1, <2>2 DEF Terminal!Close, ShellState, ShellText
  <2> QED BY <2>3 DEF Terminal!Next
<1>4. CASE StartSubtask(k)
  <2>1. pc[k] = "parse" /\ Busy /\ k + 1 # 1 /\ k + 1 \in Stage
    BY <1>1, <1>4, OnLine DEF StartSubtask
  <2>2. pc'[1] \notin {"loop", "closed"} /\ UNCHANGED <<commands[1], screen, quit>>
    <3>1. pc' = [pc EXCEPT ![k] = "map", ![k + 1] = "parse"]
      BY <1>4 DEF StartSubtask
    <3>2. pc'[1] \in {"map", "parse", pc[1]}
      BY <1>1, <3>1 DEF TypeInv
    <3> QED BY <1>1, <1>4, <2>1, <3>2 DEF StartSubtask, TypeInv, Busy
  <2>3. ShellState = "busy" /\ ShellState' = "busy" /\ UNCHANGED ShellText
    BY <2>1, <2>2 DEF ShellState, ShellText, Busy
  <2> QED BY <2>2, <2>3 DEF Terminal!vars, ShellState, ShellText
<1>5. CASE WaitFinish(k)
  <2>1. pc[k] = "wait" /\ Busy /\ k + 1 \in Stage /\ pc[k + 1] = "finished" /\ k + 1 # 1
        /\ UNCHANGED <<commands, screen, quit>> /\ Line # <<>> /\ LineText \in Seq(Byte)
    BY <1>1, <1>5, OnLine, LineTextType DEF WaitFinish, LineInv, program
  <2>2. PICK w \in Counts, r \in Counts : FlowAt(w, r) /\ ScreenAt(w)
    BY <2>1 DEF Inv, DataInv
  <2>3. screen = LineText \/ quit
    BY <2>1, <2>2 DEF ScreenAt
  <2>4. PICK m \in 0 .. Len(LineText) : screen = Part(LineText, 0, m)
    BY <2>2 DEF ScreenAt
  <2>5. Terminal!Begins(screen, screen) /\ Terminal!Begins(screen, LineText)
    <3>1. m \in m .. Len(LineText)
      BY <2>1, LenProperties
    <3> QED BY <2>1, <2>4, <3>1, PartBegins
  <2>6. ShellText = LineText /\ UNCHANGED ShellText /\ ShellState = "busy"
    BY <2>1, ShellStateIs DEF ShellText, LineText, Line
  <2>7. CASE k = 1
    <3>1. pc'[1] = "loop"
      BY <1>1, <1>5, <2>7 DEF WaitFinish, TypeInv
    <3>2. ShellState' = "prompt"
      BY <3>1 DEF ShellState
    <3>3. Terminal!Prompt
      BY <2>1, <2>3, <2>5, <2>6, <3>2 DEF Terminal!Prompt, Terminal!Shows, ShellState, ShellText
    <3> QED BY <3>3 DEF Terminal!Next
  <2>8. CASE k # 1
    <3>1. pc'[1] = pc[1]
      BY <1>1, <1>5, <2>1, <2>8 DEF WaitFinish, TypeInv
    <3>2. UNCHANGED ShellState
      BY <3>1 DEF ShellState
    <3> QED BY <2>1, <2>6, <3>2 DEF Terminal!vars, ShellState, ShellText
  <2> QED BY <2>7, <2>8
<1> QED BY <1>2, <1>3, <1>4, <1>5 DEF Special

LEMMA ShellStep == Inv /\ Inv' /\ [Next]_vars => [Terminal!Next]_(Terminal!vars)
<1> SUFFICES ASSUME Inv, Inv', [Next]_vars PROVE Terminal!Next \/ UNCHANGED Terminal!vars
  OBVIOUS
<1>1. CASE UNCHANGED <<pc, commands, screen, quit>>
  BY <1>1 DEF Terminal!vars
<1>2. CASE UNCHANGED vars
  BY <1>1, <1>2 DEF vars, program
<1>3. CASE PressKey \/ ClickClose
  BY <1>1, <1>3, WindowSends DEF Inv
<1>4. ASSUME NEW k \in Stage, Task(k) PROVE Terminal!Next \/ UNCHANGED Terminal!vars
  BY <1>4, ShellTask, ShellSpecial
<1> QED BY <1>2, <1>3, <1>4 DEF Next

\* To the user the tasks of a line, its pipes and its messages are a shell: whatever
\* the first command writes comes out of the last one, in order and once, and the
\* prompt comes back when all of it is there or the user has stopped a command.
THEOREM PipelineImplementsShell == Spec => ImplementsShell
BY ShellInit, ShellStep, Invariance, PTL DEF Spec, ImplementsShell, Terminal!Spec

-----------------------------------------------------------------------------
(***************************************************************************)
(* The text of the terminal (TerminalText), for a window of any size and   *)
(* any texts.                                                              *)
(***************************************************************************)
\* The three things that Misuse may allow, left out.
RowsStay == "scroll by key" \notin Misuse
LinesFit == "long history" \notin Misuse
LineCleared == "refused redirect" \notin Misuse

\* What a place of the window may show.
Glyph == Letter \cup {Blank, RightHalf, "^", ">"}

\* The windows whose text is legible: nothing is drawn over, or outside, and what lies
\* ahead of the cursor is empty.
Windows ==
  {w \in [cells : [Place -> Glyph], x : 0 .. kColumns, y : Row, outside : {FALSE}] :
     \A p \in Place : p[1] > w.y \/ (p[1] = w.y /\ p[2] >= w.x) => w.cells[p] = Blank}

\* Sizes, as the steps of the proofs use them.
LEMMA Sizes ==
  /\ kRows \in Nat \ {0} /\ kColumns \in Nat /\ kColumns > 4
  /\ kLineMax \in Nat \ {0} /\ kHistory \in Nat \ {0}
  /\ kLineMax <= (kRows - 1) * (kColumns - 1)
  /\ Smudge \notin Glyph /\ Blank \in Glyph /\ RightHalf \in Glyph
  /\ NewLine \in Letter /\ Letter \subseteq Glyph
  /\ Ascii \subseteq Letter /\ "^" \in Glyph /\ ">" \in Glyph
  /\ \A s \in Texts : s \in Seq(Glyph)
<1>1. Smudge \notin Glyph
  BY TextAssumption DEF Glyph, Smudge, Blank, RightHalf
<1>2. Letter \subseteq Glyph /\ Blank \in Glyph /\ RightHalf \in Glyph
      /\ "^" \in Glyph /\ ">" \in Glyph
  BY DEF Glyph
<1>3. NewLine \in Letter /\ Ascii \subseteq Letter
  BY DEF Letter
<1>4. \A s \in Texts : s \in Seq(Glyph)
  <2>1. Texts \subseteq Seq(Letter)
    BY TextAssumption
  <2> SUFFICES ASSUME NEW s \in Texts PROVE s \in Seq(Glyph)
    OBVIOUS
  <2>2. s \in Seq(Letter)
    BY <2>1
  <2>3. Len(s) \in Nat /\ s \in [1 .. Len(s) -> Letter]
    BY <2>2, LenProperties
  <2>4. s \in [1 .. Len(s) -> Glyph]
    BY <1>2, <2>3
  <2> QED BY <2>3, <2>4, SeqDef
<1> QED BY <1>1, <1>2, <1>3, <1>4, TextSizeAssumption

\* What a window is made of.
LEMMA WindowShape ==
  ASSUME NEW w \in Windows
  PROVE  /\ w = [cells |-> w.cells, x |-> w.x, y |-> w.y, outside |-> w.outside]
         /\ w.cells \in [Place -> Glyph]
         /\ w.x \in 0 .. kColumns /\ w.y \in Row /\ w.outside = FALSE
         /\ \A p \in Place :
              p[1] > w.y \/ (p[1] = w.y /\ p[2] >= w.x) => w.cells[p] = Blank
BY DEF Windows

LEMMA WindowMade ==
  ASSUME NEW cells \in [Place -> Glyph], NEW x \in 0 .. kColumns, NEW y \in Row,
         \A p \in Place : p[1] > y \/ (p[1] = y /\ p[2] >= x) => cells[p] = Blank
  PROVE  [cells |-> cells, x |-> x, y |-> y, outside |-> FALSE] \in Windows
BY DEF Windows

\* A place is a row and a column.
LEMMA PlaceIs ==
  /\ \A p \in Place : /\ p = <<p[1], p[2]>> /\ p[1] \in Row /\ p[2] \in Column
  /\ \A r \in Row, c \in Column : /\ <<r, c>> \in Place
                                        /\ <<r, c>>[1] = r /\ <<r, c>>[2] = c
BY DEF Place

\* The fields of a window, changed one by one.
LEMMA Fields ==
  ASSUME NEW A, NEW X, NEW Y, NEW O, NEW w \in [cells : A, x : X, y : Y, outside : O], NEW b
  PROVE  /\ [w EXCEPT !.cells = b] = [cells |-> b, x |-> w.x, y |-> w.y, outside |-> w.outside]
         /\ [w EXCEPT !.x = b] = [cells |-> w.cells, x |-> b, y |-> w.y, outside |-> w.outside]
         /\ [w EXCEPT !.y = b] = [cells |-> w.cells, x |-> w.x, y |-> b, outside |-> w.outside]
OBVIOUS

\* A character drawn at the cursor, which moves on by one.
LEMMA DrawnAt ==
  ASSUME NEW w \in Windows, w.x \in Column, NEW c \in Glyph
  PROVE  LET v == [Draw(w, w.y, w.x, c) EXCEPT !.x = @ + 1] IN
         /\ v \in Windows
         /\ v.x = w.x + 1 /\ v.y = w.y
         /\ v.cells[<<w.y, w.x>>] = c
         /\ \A p \in Place : p # <<w.y, w.x>> => v.cells[p] = w.cells[p]
<1> DEFINE d == Draw(w, w.y, w.x, c)
           v == [d EXCEPT !.x = @ + 1]
           cells == [p \in Place |-> IF p = <<w.y, w.x>> THEN c ELSE w.cells[p]]
<1>1. /\ w.cells \in [Place -> Glyph] /\ w.y \in Row /\ w.x \in 0 .. kColumns
      /\ <<w.y, w.x>> \in Place /\ w.cells[<<w.y, w.x>>] = Blank
      /\ w.x \in Int
  <2>1. /\ w.cells \in [Place -> Glyph] /\ w.y \in Row /\ w.x \in 0 .. kColumns
        /\ \A p \in Place :
              p[1] > w.y \/ (p[1] = w.y /\ p[2] >= w.x) => w.cells[p] = Blank
    BY WindowShape
  <2>2. <<w.y, w.x>> \in Place /\ <<w.y, w.x>>[1] = w.y /\ <<w.y, w.x>>[2] = w.x
    BY <2>1, PlaceIs
  <2>3. w.x \in Int /\ w.x >= w.x
    BY <2>1, Sizes
  <2> QED BY <2>1, <2>2, <2>3
<1>2. [p \in Place |-> IF p = <<w.y, w.x>> THEN Over(w.cells[p], c) ELSE w.cells[p]] = cells
  BY <1>1 DEF Over
<1>3. d = [w EXCEPT !.cells = cells]
  BY <1>2 DEF Draw
<1>4. w = [cells |-> w.cells, x |-> w.x, y |-> w.y, outside |-> FALSE]
  BY WindowShape
<1>5. d = [cells |-> cells, x |-> w.x, y |-> w.y, outside |-> FALSE]
  <2> HIDE DEF cells, d
  <2>1. w \in [cells : [Place -> Glyph], x : 0 .. kColumns, y : Row, outside : {FALSE}]
    BY DEF Windows
  <2> QED BY <1>3, <1>4, <2>1, Fields
<1>6. v = [cells |-> cells, x |-> w.x + 1, y |-> w.y, outside |-> FALSE]
  <2> HIDE DEF cells, d
  <2>1. d \in [cells : {cells}, x : {w.x}, y : {w.y}, outside : {FALSE}]
    BY <1>5
  <2>2. d.cells = cells /\ d.x = w.x /\ d.y = w.y /\ d.outside = FALSE
    BY <1>5
  <2>3. v = [cells |-> d.cells, x |-> d.x + 1, y |-> d.y, outside |-> d.outside]
    BY <2>1, Fields
  <2> QED BY <2>2, <2>3
<1>7. cells \in [Place -> Glyph]
  BY <1>1
<1>8. \A p \in Place : p[1] > w.y \/ (p[1] = w.y /\ p[2] >= w.x + 1) => cells[p] = Blank
  <2> SUFFICES ASSUME NEW p \in Place, p[1] > w.y \/ (p[1] = w.y /\ p[2] >= w.x + 1)
               PROVE  cells[p] = Blank
    OBVIOUS
  <2>1. p[1] \in Int /\ p[2] \in Int /\ w.y \in Int
    BY <1>1, Sizes, PlaceIs DEF Row, Column
  <2>2. p # <<w.y, w.x>>
    BY <1>1, <2>1, PlaceIs
  <2>3. p[1] > w.y \/ (p[1] = w.y /\ p[2] >= w.x)
    BY <1>1, <2>1
  <2> QED BY <2>2, <2>3, WindowShape
<1>9. w.x + 1 \in 0 .. kColumns
  BY Sizes DEF Column
<1>10. v \in Windows
  <2> HIDE DEF cells, v
  <2> QED BY <1>1, <1>6, <1>7, <1>8, <1>9, WindowMade
<1>11. cells[<<w.y, w.x>>] = c /\ \A p \in Place : p # <<w.y, w.x>> => cells[p] = w.cells[p]
  BY <1>1
<1> HIDE DEF cells, d
<1> QED BY <1>6, <1>10, <1>11 DEF v, d

\* A new line: the cursor is at the beginning of the next row, or the text moves up by one.
LEMMA NewlinedAt ==
  ASSUME NEW w \in Windows
  PROVE  LET v == newline(w) IN
         /\ v \in Windows
         /\ v.x = 0
         /\ w.y < kRows - 1 => v.y = w.y + 1 /\ v.cells = w.cells
         /\ ~(w.y < kRows - 1) =>
              /\ w.y = kRows - 1 /\ v.y = w.y
              /\ \A p \in Place : p[1] # kRows - 1 =>
                   <<p[1] + 1, p[2]>> \in Place /\ v.cells[p] = w.cells[<<p[1] + 1, p[2]>>]
<1> DEFINE v == newline(w)
<1>1. /\ w.cells \in [Place -> Glyph] /\ w.y \in Row /\ w.x \in 0 .. kColumns
      /\ w.outside = FALSE
      /\ \A p \in Place : p[1] > w.y \/ (p[1] = w.y /\ p[2] >= w.x) => w.cells[p] = Blank
  BY WindowShape
<1>2. /\ w.y \in Int /\ w.y >= 0 /\ w.y <= kRows - 1 /\ kRows \in Int /\ 0 \in 0 .. kColumns
      /\ \A p \in Place : p[1] \in Int /\ p[2] \in Int /\ p[1] >= 0 /\ p[1] <= kRows - 1
  BY <1>1, Sizes, PlaceIs DEF Row, Column
<1>3. w \in [cells : [Place -> Glyph], x : 0 .. kColumns, y : Row, outside : {FALSE}]
  BY DEF Windows
<1>4. CASE w.y < kRows - 1
  <2>1. v = [w EXCEPT !.x = 0, !.y = w.y + 1]
    BY <1>4 DEF newline
  <2>2. v = [cells |-> w.cells, x |-> 0, y |-> w.y + 1, outside |-> FALSE]
    BY <1>1, <1>3, <2>1
  <2>3. w.y + 1 \in Row
    BY <1>2, <1>4 DEF Row
  <2>4. \A p \in Place : p[1] > w.y + 1 \/ (p[1] = w.y + 1 /\ p[2] >= 0)
                              => w.cells[p] = Blank
    BY <1>1, <1>2
  <2>5. v \in Windows
    <3> HIDE DEF v
    <3> QED BY <1>1, <1>2, <2>2, <2>3, <2>4, WindowMade
  <2> HIDE DEF v
  <2>6. v.x = 0 /\ v.y = w.y + 1 /\ v.cells = w.cells
    BY <2>2
  <2> QED BY <1>4, <2>5, <2>6 DEF v
<1>5. CASE ~(w.y < kRows - 1)
  <2> DEFINE cells == [p \in Place |-> IF p[1] = kRows - 1 THEN Blank
                                          ELSE w.cells[<<p[1] + 1, p[2]>>]]
             u == Scroll1(w)
  <2>1. w.y = kRows - 1
    BY <1>2, <1>5
  <2>2. \A p \in Place : p[1] # kRows - 1 =>
          /\ <<p[1] + 1, p[2]>> \in Place
          /\ <<p[1] + 1, p[2]>>[1] = p[1] + 1 /\ <<p[1] + 1, p[2]>>[2] = p[2]
    <3> SUFFICES ASSUME NEW p \in Place, p[1] # kRows - 1
                 PROVE  /\ <<p[1] + 1, p[2]>> \in Place
                        /\ <<p[1] + 1, p[2]>>[1] = p[1] + 1 /\ <<p[1] + 1, p[2]>>[2] = p[2]
      OBVIOUS
    <3>1. p[1] + 1 \in Row /\ p[2] \in Column
      BY <1>2, PlaceIs DEF Row
    <3> QED BY <3>1, PlaceIs
  <2>3. cells \in [Place -> Glyph]
    <3>1. \A p \in Place : p[1] # kRows - 1 => w.cells[<<p[1] + 1, p[2]>>] \in Glyph
      BY <1>1, <2>2
    <3> QED BY <3>1, Sizes
  <2>4. u = [w EXCEPT !.cells = cells]
    BY DEF Scroll1
  <2>5. u = [cells |-> cells, x |-> w.x, y |-> w.y, outside |-> FALSE]
    <3> HIDE DEF cells, u
    <3> QED BY <1>1, <1>3, <2>4
  <2>6. v = [u EXCEPT !.x = 0]
    BY <1>5 DEF newline
  <2>7. v = [cells |-> cells, x |-> 0, y |-> w.y, outside |-> FALSE]
    <3> HIDE DEF cells, u, v
    <3>1. u \in [cells : {cells}, x : {w.x}, y : {w.y}, outside : {FALSE}]
      BY <2>5
    <3>2. u.cells = cells /\ u.y = w.y /\ u.outside = FALSE
      BY <2>5
    <3>3. v = [cells |-> u.cells, x |-> 0, y |-> u.y, outside |-> u.outside]
      BY <2>6, <3>1, Fields
    <3> QED BY <3>2, <3>3
  <2>8. \A p \in Place : p[1] > w.y \/ (p[1] = w.y /\ p[2] >= 0) => cells[p] = Blank
    BY <1>2, <2>1
  <2>9. \A p \in Place : p[1] # kRows - 1 => cells[p] = w.cells[<<p[1] + 1, p[2]>>]
    OBVIOUS
  <2> HIDE DEF cells, u, v
  <2>10. v \in Windows
    BY <1>1, <1>2, <2>3, <2>7, <2>8, WindowMade
  <2>11. v.x = 0 /\ v.y = w.y /\ v.cells = cells
    BY <2>7
  <2> QED BY <1>5, <2>1, <2>2, <2>9, <2>10, <2>11 DEF v
<1> QED BY <1>4, <1>5

\* Print keeps a text legible, a character of one place or of two.
LEMMA PrintedChar ==
  ASSUME NEW w \in Windows, NEW c \in Glyph
  PROVE  PrintChar(w, c) \in Windows
<1>1. newline(w) \in Windows /\ newline(w).x = 0
  BY NewlinedAt
<1>2. kColumns \in Int /\ kColumns > 4 /\ w.x \in 0 .. kColumns
  <2>1. w.x \in 0 .. kColumns
    BY WindowShape
  <2>2. kColumns \in Int /\ kColumns > 4
    BY Sizes
  <2> QED BY <2>1, <2>2
<1>3. PrintNarrow(w, c) \in Windows
  <2> DEFINE v == IF w.x = kColumns THEN newline(w) ELSE w
  <2>1. v \in Windows /\ v.x \in Column
    BY <1>1, <1>2 DEF Column
  <2>2. PrintNarrow(w, c) = [Draw(v, v.y, v.x, c) EXCEPT !.x = @ + 1]
    BY DEF PrintNarrow
  <2> HIDE DEF v
  <2> QED BY <2>1, <2>2, DrawnAt
<1>4. PrintWide(w, c) \in Windows
  <2> DEFINE v == IF w.x >= kColumns - 1 THEN newline(w) ELSE w
             d == Draw(v, v.y, v.x, c)
             e == Draw(d, v.y, v.x + 1, RightHalf)
             first == [d EXCEPT !.x = @ + 1]
             second == [Draw(first, first.y, first.x, RightHalf) EXCEPT !.x = @ + 1]
  <2>1. v \in Windows /\ v.x \in Column /\ v.x + 1 \in Column
    BY <1>1, <1>2 DEF Column
  <2>2. PrintWide(w, c) = [e EXCEPT !.x = @ + 2]
    BY DEF PrintWide
  <2>3. first \in Windows /\ first.x = v.x + 1 /\ first.y = v.y
    <3> HIDE DEF v
    <3> QED BY <2>1, DrawnAt
  <2>4. second \in Windows
    <3> HIDE DEF first
    <3> QED BY <2>1, <2>3, DrawnAt, Sizes
  <2>5. [e EXCEPT !.x = @ + 2] = second
    <3> HIDE DEF v
    <3>1. v \in [cells : [Place -> Glyph], x : 0 .. kColumns, y : Row, outside : {FALSE}]
      BY <2>1 DEF Windows
    <3> DEFINE a == [p \in Place |-> IF p = <<v.y, v.x>> THEN Over(v.cells[p], c)
                                        ELSE v.cells[p]]
               b == [p \in Place |-> IF p = <<v.y, v.x + 1>> THEN Over(a[p], RightHalf)
                                        ELSE a[p]]
    <3>2. d = [cells |-> a, x |-> v.x, y |-> v.y, outside |-> v.outside]
      <4>1. d = [v EXCEPT !.cells = a]
        BY <2>1 DEF Draw
      <4> HIDE DEF a, d
      <4> QED BY <3>1, <4>1, Fields
    <3>3. d \in [cells : {a}, x : {v.x}, y : {v.y}, outside : {v.outside}]
          /\ d.cells = a /\ d.x = v.x /\ d.y = v.y /\ d.outside = v.outside
      <4> HIDE DEF a, d
      <4> QED BY <3>2
    <3>4. e = [cells |-> b, x |-> v.x, y |-> v.y, outside |-> v.outside]
      <4> HIDE DEF a, d
      <4>1. e = [d EXCEPT !.cells = b]
        BY <2>1, <3>3 DEF Draw
      <4> HIDE DEF b, e
      <4> QED BY <3>3, <4>1, Fields
    <3>5. first = [cells |-> a, x |-> v.x + 1, y |-> v.y, outside |-> v.outside]
      <4> HIDE DEF a, d
      <4>1. first = [cells |-> d.cells, x |-> d.x + 1, y |-> d.y, outside |-> d.outside]
        BY <3>3, Fields
      <4> HIDE DEF first
      <4> QED BY <3>3, <4>1
    <3>6. first \in [cells : {a}, x : {v.x + 1}, y : {v.y}, outside : {v.outside}]
          /\ first.cells = a /\ first.x = v.x + 1 /\ first.y = v.y /\ first.outside = v.outside
      <4> HIDE DEF a, first
      <4> QED BY <3>5
    <3> DEFINE f == Draw(first, first.y, first.x, RightHalf)
    <3>7. f = [cells |-> b, x |-> v.x + 1, y |-> v.y, outside |-> v.outside]
      <4> HIDE DEF a, first
      <4>1. f = [first EXCEPT !.cells = b]
        BY <2>1, <3>6 DEF Draw
      <4> HIDE DEF b, f
      <4> QED BY <3>6, <4>1, Fields
    <3> HIDE DEF a, b, d, e, first, f
    <3>8. e.x = v.x /\ [e EXCEPT !.x = e.x + 2]
                       = [cells |-> b, x |-> v.x + 2, y |-> v.y, outside |-> v.outside]
      <4>1. e \in [cells : {b}, x : {v.x}, y : {v.y}, outside : {v.outside}]
            /\ e.cells = b /\ e.x = v.x /\ e.y = v.y /\ e.outside = v.outside
        BY <3>4
      <4>2. [e EXCEPT !.x = e.x + 2]
              = [cells |-> e.cells, x |-> e.x + 2, y |-> e.y, outside |-> e.outside]
        BY <4>1, Fields
      <4> QED BY <4>1, <4>2
    <3>9. [f EXCEPT !.x = f.x + 1]
            = [cells |-> b, x |-> v.x + 1 + 1, y |-> v.y, outside |-> v.outside]
      <4>1. f \in [cells : {b}, x : {v.x + 1}, y : {v.y}, outside : {v.outside}]
            /\ f.cells = b /\ f.x = v.x + 1 /\ f.y = v.y /\ f.outside = v.outside
        BY <3>7
      <4>2. [f EXCEPT !.x = f.x + 1]
              = [cells |-> f.cells, x |-> f.x + 1, y |-> f.y, outside |-> f.outside]
        BY <4>1, Fields
      <4> QED BY <4>1, <4>2
    <3>10. v.x + 2 = v.x + 1 + 1
      BY <2>1, Sizes DEF Column
    <3> QED BY <3>8, <3>9, <3>10 DEF f
  <2> HIDE DEF second, e
  <2> QED BY <2>2, <2>4, <2>5
<1> QED BY <1>1, <1>3, <1>4 DEF PrintChar

\* A text printed character by character: the windows on the way.
Prints(w, s, f) ==
  f = [n \in 0 .. Len(s) |-> IF n = 0 THEN w ELSE PrintChar(f[n - 1], s[n])]

LEMMA PrintsExists ==
  ASSUME NEW w \in Windows, NEW s \in Seq(Glyph)
  PROVE  \E f : Prints(w, s, f)
<1> DEFINE n == Len(s)
           Upto(m, f) == \A i \in 0 .. m : f[i] = IF i = 0 THEN w ELSE PrintChar(f[i - 1], s[i])
           S == {m \in 0 .. n : \E f \in [0 .. n -> Windows] : Upto(m, f)}
<1>1. n \in Nat /\ \A i \in 1 .. n : s[i] \in Glyph
  BY ElementOfSeq, LenProperties
<1>2. 0 \in S
  <2>1. [i \in 0 .. n |-> w] \in [0 .. n -> Windows]
    OBVIOUS
  <2>2. Upto(0, [i \in 0 .. n |-> w])
    BY <1>1
  <2> HIDE DEF Upto
  <2> QED BY <1>1, <2>1, <2>2
<1>3. ASSUME NEW m \in 0 .. n, m < n /\ m \in S PROVE m + 1 \in S
  <2>1. PICK f \in [0 .. n -> Windows] : Upto(m, f)
    BY <1>3
  <2> DEFINE k == m + 1
             v == PrintChar(f[m], s[k])
             g == [i \in 0 .. n |-> IF i = k THEN v ELSE f[i]]
  <2>2. k \in 1 .. n /\ k \in 0 .. n /\ k - 1 = m /\ m # k /\ k # 0
    BY <1>1, <1>3
  <2>3. v \in Windows
    <3>1. f[m] \in Windows /\ s[k] \in Glyph
      BY <1>1, <2>2
    <3> QED BY <3>1, PrintedChar
  <2> HIDE DEF v
  <2>4. g \in [0 .. n -> Windows]
    BY <2>3
  <2>5. ASSUME NEW i \in 0 .. k PROVE g[i] = IF i = 0 THEN w ELSE PrintChar(g[i - 1], s[i])
    <3>1. CASE i = k
      <4>1. g[k] = v /\ g[k - 1] = f[m]
        BY <2>2
      <4> HIDE DEF g
      <4> QED BY <2>2, <3>1, <4>1 DEF v
    <3>2. CASE i # k
      <4>1. i \in 0 .. m /\ i \in 0 .. n /\ (i # 0 => i - 1 \in 0 .. n /\ i - 1 # k)
        BY <1>1, <1>3, <2>2, <3>2
      <4>2. g[i] = f[i] /\ (i # 0 => g[i - 1] = f[i - 1])
        BY <3>2, <4>1
      <4> HIDE DEF g
      <4> QED BY <2>1, <4>1, <4>2
    <3> QED BY <3>1, <3>2
  <2> HIDE DEF g
  <2>6. Upto(k, g)
    BY <2>5
  <2> HIDE DEF Upto
  <2> QED BY <2>2, <2>4, <2>6
<1>4. n \in S
  <2> HIDE DEF S
  <2>1. \A m \in 0 .. n : m \in S
    BY <1>1, <1>2, <1>3, UpTo
  <2> QED BY <1>1, <2>1
<1>5. PICK f \in [0 .. n -> Windows] : Upto(n, f)
  BY <1>4
<1>6. f = [i \in 0 .. n |-> IF i = 0 THEN w ELSE PrintChar(f[i - 1], s[i])]
  BY <1>5
<1> QED BY <1>6 DEF Prints

\* Print keeps a text legible, whatever is printed.
LEMMA PrintedText ==
  ASSUME NEW w \in Windows, NEW s \in Seq(Glyph)
  PROVE  PrintText(w, s) \in Windows
<1> DEFINE n == Len(s)
           h == CHOOSE f : Prints(w, s, f)
           S == {i \in 0 .. n : h[i] \in Windows}
<1>1. n \in Nat /\ \A i \in 1 .. n : s[i] \in Glyph
  BY ElementOfSeq, LenProperties
<1>2. PrintText(w, s) = h[n]
  BY DEF PrintText, Prints
<1>3. Prints(w, s, h)
  BY PrintsExists, Zenon
<1> HIDE DEF h
<1>4. 0 \in S
  BY <1>1, <1>3 DEF Prints
<1>5. ASSUME NEW i \in 0 .. n, i < n /\ i \in S PROVE i + 1 \in S
  <2> DEFINE k == i + 1
  <2>1. k \in 1 .. n /\ k \in 0 .. n /\ k - 1 = i /\ k # 0
    BY <1>1, <1>5
  <2> HIDE DEF k
  <2>2. h[k] = PrintChar(h[k - 1], s[k])
    BY <1>3, <2>1 DEF Prints
  <2>3. h[k - 1] \in Windows /\ s[k] \in Glyph
    BY <1>1, <1>5, <2>1
  <2>4. h[k] \in Windows
    BY <2>2, <2>3, PrintedChar
  <2> QED BY <2>1, <2>4 DEF k
<1>6. n \in S
  <2> HIDE DEF S
  <2>1. \A i \in 0 .. n : i \in S
    BY <1>1, <1>4, <1>5, UpTo
  <2> QED BY <1>1, <2>1
<1> QED BY <1>2, <1>6

-----------------------------------------------------------------------------
(***************************************************************************)
(* The line before the cursor.  A row takes kColumns - 1 typed characters: *)
(* the places for them are numbered row by row.                            *)
(***************************************************************************)
Number(r, c) == r * (kColumns - 1) + c

LEMMA Multiples ==
  ASSUME NEW d \in Nat \ {0}, NEW q \in Int, NEW r \in Int
  PROVE  /\ q * d \in Int /\ r * d \in Int
         /\ q < r => q * d + d <= r * d
         /\ q >= 0 => q * d >= 0
<1>1. q * d \in Int /\ r * d \in Int
  OBVIOUS
<1>2. ASSUME q < r PROVE q * d + d <= r * d
  <2>1. r - q - 1 \in Nat
    BY <1>2
  <2>2. (r - q - 1) * d >= 0
    BY <2>1
  <2>3. (r - q - 1) * d = r * d - q * d - d
    OBVIOUS
  <2> QED BY <1>1, <2>2, <2>3
<1>3. q >= 0 => q * d >= 0
  OBVIOUS
<1> QED BY <1>1, <1>2, <1>3

LEMMA Numbers ==
  /\ \A r, c : r \in Int /\ c \in Int =>
       /\ Number(r, c) \in Int
       /\ Number(r + 1, c) = Number(r, c) + kColumns - 1
       /\ Number(r, c) = Number(r, 0) + c
       /\ Number(r, c + 1) = Number(r, c) + 1
       /\ r >= 0 /\ c >= 0 => Number(r, c) >= 0
<1> SUFFICES ASSUME NEW r, NEW c, r \in Int, c \in Int
             PROVE  /\ Number(r, c) \in Int
                    /\ Number(r + 1, c) = Number(r, c) + kColumns - 1
                    /\ Number(r, c) = Number(r, 0) + c
                    /\ Number(r, c + 1) = Number(r, c) + 1
                    /\ r >= 0 /\ c >= 0 => Number(r, c) >= 0
  OBVIOUS
<1>1. kColumns - 1 \in Nat \ {0}
  BY Sizes
<1>2. r * (kColumns - 1) \in Int /\ (r >= 0 => r * (kColumns - 1) >= 0)
  BY <1>1, Multiples
<1>3. (r + 1) * (kColumns - 1) = r * (kColumns - 1) + (kColumns - 1)
  BY <1>1
<1> QED BY <1>1, <1>2, <1>3 DEF Number

\* Different places have different numbers.
LEMMA NumberIsOne ==
  ASSUME NEW r \in Int, NEW c \in 0 .. kColumns - 2,
         NEW q \in Int, NEW m \in 0 .. kColumns - 2, Number(r, c) = Number(q, m)
  PROVE  r = q /\ c = m
<1>1. kColumns - 1 \in Nat \ {0} /\ c \in Int /\ m \in Int
      /\ 0 <= c /\ c < kColumns - 1 /\ 0 <= m /\ m < kColumns - 1
  BY Sizes
<1> DEFINE R == r * (kColumns - 1)
           Q == q * (kColumns - 1)
<1>2. /\ R \in Int /\ Q \in Int
      /\ r < q => R + (kColumns - 1) <= Q
      /\ q < r => Q + (kColumns - 1) <= R
  BY <1>1, Multiples
<1>3. R + c = Q + m
  BY DEF Number
<1> HIDE DEF R, Q
<1>4. ~(r < q) /\ ~(q < r)
  BY <1>1, <1>2, <1>3
<1>5. r = q
  BY <1>4
<1>6. R = Q
  BY <1>5 DEF R, Q
<1> QED BY <1>1, <1>2, <1>3, <1>5, <1>6

\* The lines that may be typed.
Typing == {line \in Seq(Ascii) : Len(line) < kLineMax}

Shown(w, line) ==
  /\ line # <<>> => w.x < kColumns
  /\ Number(w.y, w.x) >= Len(line)
  /\ \A p \in Place, k \in 1 .. Len(line) :
       p[2] < kColumns - 1 /\ Number(p[1], p[2]) + k = Number(w.y, w.x)
         => w.cells[p] = line[Len(line) - k + 1]

\* Rows, columns and lengths are numbers.
LEMMA Types ==
  ASSUME NEW w \in Windows
  PROVE  /\ w.x \in Int /\ w.y \in Int /\ w.x >= 0 /\ w.x <= kColumns
         /\ w.y >= 0 /\ w.y <= kRows - 1
         /\ kColumns \in Int /\ kRows \in Int /\ kColumns > 4
         /\ \A p \in Place : /\ p[1] \in Int /\ p[2] \in Int
                                /\ p[1] >= 0 /\ p[1] <= kRows - 1
                                /\ p[2] >= 0 /\ p[2] <= kColumns - 1
<1>1. w.x \in 0 .. kColumns /\ w.y \in 0 .. kRows - 1
  BY WindowShape DEF Row
<1>2. \A p \in Place : p[1] \in 0 .. kRows - 1 /\ p[2] \in 0 .. kColumns - 1
  BY PlaceIs DEF Row, Column
<1>3. kColumns \in Int /\ kRows \in Int /\ kColumns > 4
  BY Sizes
<1> QED BY <1>1, <1>2, <1>3

LEMMA EmptyLineShown ==
  ASSUME NEW w \in Windows
  PROVE  Shown(w, <<>>)
<1>1. Number(w.y, w.x) >= 0
  BY Types, Numbers
<1> QED BY <1>1 DEF Shown

\* A character typed, and the new line behind the last place of a row.
LEMMA TypedShown ==
  ASSUME NEW w \in Windows, NEW line \in Typing, Shown(w, line),
         w.x < kColumns - 1, NEW c \in Ascii, NEW v \in Windows,
         v.x = w.x + 1, v.y = w.y, v.cells[<<w.y, w.x>>] = c,
         \A p \in Place : p # <<w.y, w.x>> => v.cells[p] = w.cells[p]
  PROVE  Shown(v, Append(line, c))
<1> DEFINE l == Append(line, c)
           n == Len(line)
<1>1. /\ n \in Nat /\ Len(l) = n + 1 /\ l[n + 1] = c
      /\ \A i \in 1 .. n : l[i] = line[i]
  BY AppendProperties, LenProperties DEF Typing
<1>2. /\ w.x \in Int /\ w.y \in Int /\ kColumns \in Int /\ kColumns > 4 /\ w.x >= 0
      /\ \A p \in Place : p[1] \in Int /\ p[2] \in Int /\ p[2] >= 0
  BY Types
<1>3. /\ Number(v.y, v.x) = Number(w.y, w.x) + 1 /\ Number(w.y, w.x) \in Int
      /\ Number(w.y, w.x) >= n
  BY <1>2, Numbers DEF Shown
<1>4. ASSUME NEW p \in Place, NEW k \in 1 .. Len(l), p[2] < kColumns - 1,
             Number(p[1], p[2]) + k = Number(v.y, v.x)
      PROVE  v.cells[p] = l[Len(l) - k + 1]
  <2>1. Number(p[1], p[2]) \in Int
    BY <1>2, Numbers
  <2>2. CASE k = 1
    <3>1. Number(p[1], p[2]) = Number(w.y, w.x)
      BY <1>3, <1>4, <2>1, <2>2
    <3>2. p[2] \in 0 .. kColumns - 2 /\ w.x \in 0 .. kColumns - 2
      BY <1>2, <1>4
    <3>3. p[1] = w.y /\ p[2] = w.x
      BY <1>2, <3>1, <3>2, NumberIsOne
    <3>4. p = <<w.y, w.x>>
      BY <3>3, PlaceIs
    <3>5. Len(l) - k + 1 = n + 1
      BY <1>1, <2>2
    <3> QED BY <1>1, <3>4, <3>5
  <2>3. CASE k # 1
    <3>1. k - 1 \in 1 .. n /\ Number(p[1], p[2]) + (k - 1) = Number(w.y, w.x)
      BY <1>1, <1>3, <1>4, <2>1, <2>3
    <3>2. w.cells[p] = line[n - (k - 1) + 1]
      BY <1>4, <3>1 DEF Shown
    <3>3. p # <<w.y, w.x>>
      <4> SUFFICES ASSUME p = <<w.y, w.x>> PROVE FALSE
        OBVIOUS
      <4>1. p[1] = w.y /\ p[2] = w.x
        OBVIOUS
      <4>2. Number(p[1], p[2]) = Number(w.y, w.x)
        BY <4>1
      <4> HIDE DEF n, l
      <4> QED BY <1>1, <1>3, <3>1, <4>2
    <3>4. Len(l) - k + 1 = n - (k - 1) + 1 /\ n - (k - 1) + 1 \in 1 .. n
      BY <1>1, <3>1
    <3> HIDE DEF l, n
    <3> QED BY <1>1, <3>2, <3>3, <3>4
  <2> QED BY <2>2, <2>3
<1>5. v.x < kColumns /\ Number(v.y, v.x) >= Len(l)
  BY <1>1, <1>2, <1>3
<1> HIDE DEF l
<1> QED BY <1>4, <1>5 DEF Shown, l

LEMMA NewlineShown ==
  ASSUME NEW w \in Windows, NEW line \in Typing, Shown(w, line), w.x = kColumns - 1
  PROVE  Shown(newline(w), line)
<1> DEFINE v == newline(w)
           n == Len(line)
<1>1. n \in Nat /\ n < kLineMax
  BY LenProperties DEF Typing
<1>2. /\ w.x \in Int /\ w.y \in Int /\ kColumns \in Int /\ kColumns > 4 /\ w.x >= 0 /\ w.y >= 0
      /\ kRows \in Int
      /\ \A p \in Place : p[1] \in Int /\ p[2] \in Int /\ p[2] >= 0
                             /\ p[1] <= kRows - 1
  BY Types
<1>3. /\ v \in Windows
      /\ v.x = 0
      /\ w.y < kRows - 1 => v.y = w.y + 1 /\ v.cells = w.cells
      /\ ~(w.y < kRows - 1) =>
           /\ w.y = kRows - 1 /\ v.y = w.y
           /\ \A p \in Place : p[1] # kRows - 1 =>
                <<p[1] + 1, p[2]>> \in Place /\ v.cells[p] = w.cells[<<p[1] + 1, p[2]>>]
  BY NewlinedAt
<1> HIDE DEF v
<1>4. Number(w.y, w.x) = Number(w.y + 1, 0) /\ Number(w.y, w.x) \in Int
  <2>1. Number(w.y, w.x) = Number(w.y, 0) + w.x /\ Number(w.y, w.x) \in Int
        /\ Number(w.y, 0) \in Int
    BY <1>2, Numbers
  <2>2. Number(w.y + 1, 0) = Number(w.y, 0) + kColumns - 1
    BY <1>2, Numbers
  <2> QED BY <1>2, <2>1, <2>2
<1>5. CASE w.y < kRows - 1
  <2>1. v.y = w.y + 1 /\ v.x = 0 /\ v.cells = w.cells
    BY <1>3, <1>5
  <2>2. Number(v.y, v.x) = Number(w.y, w.x)
    BY <1>4, <2>1
  <2>3. v.x < kColumns
    BY <1>2, <2>1
  <2> QED BY <2>1, <2>2, <2>3 DEF Shown, v
<1>6. CASE ~(w.y < kRows - 1)
  <2>1. w.y = kRows - 1 /\ v.y = kRows - 1 /\ v.x = 0
    BY <1>3, <1>6
  <2>2. Number(v.y, v.x) + kColumns - 1 = Number(w.y, w.x) /\ Number(v.y, v.x) \in Int
    BY <1>2, <1>4, <2>1, Numbers
  <2>3. Number(v.y, v.x) >= n
    <3>1. (kRows - 1) * (kColumns - 1) >= kLineMax /\ kLineMax \in Int
      BY Sizes
    <3>2. Number(v.y, v.x) = (kRows - 1) * (kColumns - 1)
      BY <1>2, <2>1, <2>2 DEF Number
    <3>3. Number(v.y, v.x) >= kLineMax
      BY <3>1, <3>2
    <3> QED BY <1>1, <2>2, <3>1, <3>3
  <2>4. ASSUME NEW p \in Place, NEW k \in 1 .. n, p[2] < kColumns - 1,
               Number(p[1], p[2]) + k = Number(v.y, v.x)
        PROVE  v.cells[p] = line[n - k + 1]
    <3>1. p[1] # kRows - 1
      <4> SUFFICES ASSUME p[1] = kRows - 1 PROVE FALSE
        OBVIOUS
      <4>1. Number(p[1], p[2]) = Number(v.y, v.x) + p[2]
        BY <1>2, <2>1, Numbers
      <4> QED BY <1>2, <2>2, <2>4, <4>1
    <3>2. /\ <<p[1] + 1, p[2]>> \in Place /\ v.cells[p] = w.cells[<<p[1] + 1, p[2]>>]
      BY <1>3, <1>6, <3>1
    <3> DEFINE q == <<p[1] + 1, p[2]>>
    <3>3. q[1] = p[1] + 1 /\ q[2] = p[2]
      OBVIOUS
    <3>4. Number(q[1], q[2]) + k = Number(w.y, w.x)
      <4>1. Number(p[1] + 1, p[2]) = Number(p[1], p[2]) + kColumns - 1
            /\ Number(p[1], p[2]) \in Int
        BY <1>2, Numbers
      <4> QED BY <1>2, <2>2, <2>4, <3>3, <4>1
    <3> HIDE DEF q
    <3>5. w.cells[q] = line[n - k + 1]
      BY <2>4, <3>2, <3>3, <3>4 DEF Shown, q
    <3> QED BY <3>2, <3>5 DEF q
  <2>5. v.x < kColumns
    BY <1>2, <2>1
  <2> QED BY <2>3, <2>4, <2>5 DEF Shown, v
<1> QED BY <1>5, <1>6

\* A character taken back: its place is empty again.
LEMMA Erased ==
  ASSUME NEW w \in Windows, w.x > 0, NEW line \in Typing
  PROVE  LET b == [w EXCEPT !.x = @ - 1]
             v == Erase(b, {<<b.y, b.x>>})
             less == IF line = <<>> THEN <<>> ELSE SeqOps!Front(line) IN
         /\ v \in Windows /\ less \in Typing /\ <<b.y, b.x>> \in Place
         /\ b.y = w.y /\ b.x = w.x - 1
         /\ \A p \in Place : p # <<b.y, b.x>> => v.cells[p] = w.cells[p]
         /\ Shown(w, line) => Shown(v, less)
<1> DEFINE b == [w EXCEPT !.x = @ - 1]
           v == Erase(b, {<<b.y, b.x>>})
           less == IF line = <<>> THEN <<>> ELSE SeqOps!Front(line)
           here == <<w.y, w.x - 1>>
           cells == [p \in Place |-> IF p \in {here} THEN Blank ELSE w.cells[p]]
           n == Len(line)
<1>1. /\ w.x \in Int /\ w.y \in Int /\ w.x >= 0 /\ w.x <= kColumns /\ w.y >= 0
      /\ kColumns \in Int /\ kColumns > 4
      /\ \A p \in Place : p[1] \in Int /\ p[2] \in Int /\ p[2] >= 0 /\ p[2] <= kColumns - 1
  BY Types
<1>2. /\ w.cells \in [Place -> Glyph] /\ w.y \in Row /\ w.outside = FALSE
      /\ \A p \in Place : p[1] > w.y \/ (p[1] = w.y /\ p[2] >= w.x) => w.cells[p] = Blank
  BY WindowShape
<1>3. w \in [cells : [Place -> Glyph], x : 0 .. kColumns, y : Row, outside : {FALSE}]
  BY DEF Windows
<1>4. b = [cells |-> w.cells, x |-> w.x - 1, y |-> w.y, outside |-> FALSE]
  <2>1. b = [cells |-> w.cells, x |-> w.x - 1, y |-> w.y, outside |-> w.outside]
    BY <1>3, Fields
  <2> HIDE DEF b
  <2> QED BY <1>2, <2>1
<1> HIDE DEF b
<1>5. b.x = w.x - 1 /\ b.y = w.y /\ b.cells = w.cells /\ b.outside = FALSE
      /\ b \in [cells : [Place -> Glyph], x : {w.x - 1}, y : Row, outside : {FALSE}]
  BY <1>2, <1>4
<1>6. w.x - 1 \in Column /\ w.x - 1 \in 0 .. kColumns /\ here \in Place
      /\ here[1] = w.y /\ here[2] = w.x - 1
  <2>1. w.x - 1 \in Column
    BY <1>1 DEF Column
  <2> QED BY <1>1, <1>2, <2>1, PlaceIs
<1>7. v = [cells |-> cells, x |-> w.x - 1, y |-> w.y, outside |-> FALSE]
  <2>1. v = [b EXCEPT !.cells = cells]
    BY <1>5 DEF Erase
  <2> HIDE DEF cells, v
  <2>2. v = [cells |-> cells, x |-> b.x, y |-> b.y, outside |-> b.outside]
    BY <1>5, <2>1, Fields
  <2> QED BY <1>5, <2>2
<1>8. cells \in [Place -> Glyph]
      /\ \A p \in Place : p # here => cells[p] = w.cells[p]
  BY <1>2, Sizes
<1>9. \A p \in Place : p[1] > w.y \/ (p[1] = w.y /\ p[2] >= w.x - 1) => cells[p] = Blank
  <2> SUFFICES ASSUME NEW p \in Place, p[1] > w.y \/ (p[1] = w.y /\ p[2] >= w.x - 1)
               PROVE  cells[p] = Blank
    OBVIOUS
  <2>1. CASE p = here
    BY <2>1
  <2>2. CASE p # here
    <3>1. ~(p[1] = w.y /\ p[2] = w.x - 1)
      BY <2>2, PlaceIs
    <3>2. p[1] > w.y \/ (p[1] = w.y /\ p[2] >= w.x)
      BY <1>1, <3>1
    <3> QED BY <1>2, <1>8, <2>2, <3>2
  <2> QED BY <2>1, <2>2
<1> HIDE DEF cells, v
<1>10. v \in Windows /\ v.cells = cells /\ v.x = w.x - 1 /\ v.y = w.y
  BY <1>2, <1>6, <1>7, <1>8, <1>9, WindowMade
<1>11. /\ n \in Nat /\ less \in Typing
       /\ line # <<>> => /\ n # 0 /\ Len(less) = n - 1
                         /\ \A i \in 1 .. n - 1 : less[i] = line[i]
       /\ line = <<>> => less = <<>> /\ Len(less) = 0
  <2>1. CASE line = <<>>
    BY <2>1 DEF Typing
  <2>2. CASE line # <<>>
    <3>1. line \in Seq(Ascii) /\ n \in Nat /\ n < kLineMax /\ n # 0 /\ less = SubSeq(line, 1, n - 1)
      BY <2>2, LenProperties, EmptySeq DEF Typing, SeqOps!Front
    <3>2. \A i \in 1 .. n - 1 : line[i] \in Ascii
      BY <3>1, ElementOfSeq
    <3> HIDE DEF less, n
    <3>3. less \in Seq(Ascii) /\ Len(less) = n - 1 /\ \A i \in 1 .. n - 1 : less[i] = line[i]
      BY <3>1, <3>2, SubSeqProperties
    <3>4. kLineMax \in Int
      BY Sizes
    <3> QED BY <2>2, <3>1, <3>3, <3>4 DEF Typing
  <2> QED BY <2>1, <2>2
<1> HIDE DEF less
<1>12. ASSUME Shown(w, line) PROVE Shown(v, less)
  <2>1. CASE line = <<>>
    BY <1>10, <1>11, <2>1, EmptyLineShown
  <2>2. CASE line # <<>>
    <3>1. /\ Number(v.y, v.x) + 1 = Number(w.y, w.x)
          /\ Number(v.y, v.x) \in Int /\ Number(w.y, w.x) \in Int
      <4>1. Number(w.y, (w.x - 1) + 1) = Number(w.y, w.x - 1) + 1 /\ Number(w.y, w.x - 1) \in Int
            /\ Number(w.y, w.x) \in Int
        BY <1>1, Numbers
      <4>2. (w.x - 1) + 1 = w.x
        BY <1>1
      <4> QED BY <1>10, <4>1, <4>2
    <3>2. Number(v.y, v.x) >= Len(less)
      BY <1>11, <1>12, <2>2, <3>1 DEF Shown
    <3>3. v.x < kColumns
      BY <1>1, <1>10
    <3>4. ASSUME NEW p \in Place, NEW k \in 1 .. Len(less), p[2] < kColumns - 1,
                 Number(p[1], p[2]) + k = Number(v.y, v.x)
          PROVE  v.cells[p] = less[Len(less) - k + 1]
      <4>1. Number(p[1], p[2]) \in Int
        BY <1>1, Numbers
      <4>2. k + 1 \in 1 .. n /\ Number(p[1], p[2]) + (k + 1) = Number(w.y, w.x)
        BY <1>11, <2>2, <3>1, <3>4, <4>1
      <4>3. w.cells[p] = line[n - (k + 1) + 1]
        BY <1>12, <3>4, <4>2 DEF Shown
      <4>4. p # here
        <5> SUFFICES ASSUME p = here PROVE FALSE
          OBVIOUS
        <5>1. p[1] = v.y /\ p[2] = v.x
          BY <1>6, <1>10
        <5>2. Number(p[1], p[2]) = Number(v.y, v.x)
          BY <5>1
        <5>3. k \in Int /\ k >= 1
          BY <1>11, <2>2
        <5> QED BY <3>1, <3>4, <5>2, <5>3
      <4>5. Len(less) - k + 1 = n - (k + 1) + 1 /\ n - (k + 1) + 1 \in 1 .. n - 1
        BY <1>11, <2>2, <3>4
      <4> HIDE DEF here, n
      <4> QED BY <1>8, <1>10, <1>11, <2>2, <4>3, <4>4, <4>5
    <3> QED BY <3>2, <3>3, <3>4 DEF Shown
  <2> QED BY <2>1, <2>2
<1>13. \A p \in Place : p # here => v.cells[p] = w.cells[p]
  BY <1>8, <1>10
<1>14. <<b.y, b.x>> = here
  BY <1>5
<1> HIDE DEF here
<1> QED BY <1>5, <1>6, <1>10, <1>11, <1>12, <1>13, <1>14 DEF less, v, b

\* A line of the history that fits into the row stands behind the prompt.
LEMMA Fetched ==
  ASSUME NEW w \in Windows, NEW line \in Typing, Len(line) + 3 < kColumns
  PROVE  LET area == {p \in Place : p[1] = w.y /\ p[2] \in 3 .. kColumns - 1}
             v == [WriteString(Erase(w, area), w.y, 3, line) EXCEPT !.x = Len(line) + 3] IN
         /\ v \in Windows /\ Shown(v, line)
         /\ \A p \in Place : p \notin area => v.cells[p] = w.cells[p]
<1> DEFINE area == {p \in Place : p[1] = w.y /\ p[2] \in 3 .. kColumns - 1}
           e == Erase(w, area)
           f == WriteString(e, w.y, 3, line)
           v == [f EXCEPT !.x = Len(line) + 3]
           n == Len(line)
           blank == [p \in Place |-> IF p \in area THEN Blank ELSE w.cells[p]]
           cells == [p \in Place |-> IF p[1] = w.y /\ p[2] - 3 \in 0 .. n - 1
                                        THEN Over(blank[p], line[p[2] - 3 + 1]) ELSE blank[p]]
<1>1. /\ w.x \in Int /\ w.y \in Int /\ w.x >= 0 /\ w.x <= kColumns /\ w.y >= 0
      /\ kColumns \in Int /\ kColumns > 4
      /\ \A p \in Place : p[1] \in Int /\ p[2] \in Int /\ p[2] >= 0 /\ p[2] <= kColumns - 1
  BY Types
<1>2. /\ w.cells \in [Place -> Glyph] /\ w.y \in Row /\ w.outside = FALSE
      /\ \A p \in Place : p[1] > w.y \/ (p[1] = w.y /\ p[2] >= w.x) => w.cells[p] = Blank
      /\ w \in [cells : [Place -> Glyph], x : 0 .. kColumns, y : Row, outside : {FALSE}]
  <2>1. w \in [cells : [Place -> Glyph], x : 0 .. kColumns, y : Row, outside : {FALSE}]
    BY DEF Windows
  <2> QED BY <2>1, WindowShape
<1>3. n \in Nat /\ n + 3 < kColumns /\ \A i \in 1 .. n : line[i] \in Glyph
  <2>1. line \in Seq(Ascii) /\ n \in Nat
    BY LenProperties DEF Typing
  <2>2. \A i \in 1 .. n : line[i] \in Ascii
    BY <2>1, ElementOfSeq
  <2>3. Ascii \subseteq Glyph
    BY Sizes
  <2> QED BY <2>1, <2>2, <2>3
<1> HIDE DEF n
<1>4. e = [cells |-> blank, x |-> w.x, y |-> w.y, outside |-> FALSE]
  <2>1. e = [w EXCEPT !.cells = blank]
    BY <1>2 DEF Erase
  <2> HIDE DEF blank, e
  <2>2. e = [cells |-> blank, x |-> w.x, y |-> w.y, outside |-> w.outside]
    BY <1>2, <2>1, Fields
  <2> QED BY <1>2, <2>2
<1>5. /\ e.cells = blank /\ e.x = w.x /\ e.y = w.y /\ e.outside = FALSE
      /\ e \in [cells : {blank}, x : {w.x}, y : {w.y}, outside : {FALSE}]
  <2> HIDE DEF blank, e
  <2> QED BY <1>4
<1> HIDE DEF e
<1>6. f = [cells |-> cells, x |-> w.x, y |-> w.y, outside |-> FALSE]
  <2>1. f = [e EXCEPT !.outside = e.outside \/ 3 + n > kColumns, !.cells = cells]
    BY <1>5 DEF WriteString, n
  <2>2. (e.outside \/ 3 + n > kColumns) = FALSE
    BY <1>1, <1>3, <1>5
  <2> DEFINE o == e.outside \/ 3 + n > kColumns
  <2> HIDE DEF cells, f, o, blank
  <2>3. f = [cells |-> cells, x |-> e.x, y |-> e.y, outside |-> o]
    <3>1. f = [e EXCEPT !.outside = o, !.cells = cells]
      BY <2>1 DEF o
    <3> QED BY <1>5, <3>1
  <2>4. o = FALSE
    BY <2>2 DEF o
  <2> QED BY <1>5, <2>3, <2>4
<1>7. v = [cells |-> cells, x |-> n + 3, y |-> w.y, outside |-> FALSE]
  <2> HIDE DEF cells, f
  <2>1. /\ f.cells = cells /\ f.y = w.y /\ f.outside = FALSE
        /\ f \in [cells : {cells}, x : {w.x}, y : {w.y}, outside : {FALSE}]
    BY <1>6
  <2>2. v = [cells |-> f.cells, x |-> n + 3, y |-> f.y, outside |-> f.outside]
    BY <2>1, Fields DEF n
  <2> HIDE DEF v
  <2> QED BY <2>1, <2>2
<1>8. \A p \in Place :
        /\ p \notin area => cells[p] = w.cells[p]
        /\ p \in area => cells[p] = IF p[2] - 3 \in 0 .. n - 1 THEN line[p[2] - 3 + 1] ELSE Blank
  <2> SUFFICES ASSUME NEW p \in Place
               PROVE  /\ p \notin area => cells[p] = w.cells[p]
                      /\ p \in area => cells[p] = IF p[2] - 3 \in 0 .. n - 1
                                                  THEN line[p[2] - 3 + 1] ELSE Blank
    OBVIOUS
  <2>1. p[1] \in Int /\ p[2] \in Int /\ p[2] >= 0 /\ p[2] <= kColumns - 1
    BY <1>1
  <2>2. CASE p \notin area
    <3>1. ~(p[1] = w.y /\ p[2] - 3 \in 0 .. n - 1)
      BY <1>1, <1>3, <2>1, <2>2
    <3>2. blank[p] = w.cells[p]
      BY <2>2
    <3>3. cells[p] = blank[p]
      BY <3>1
    <3> QED BY <2>2, <3>2, <3>3
  <2>3. CASE p \in area
    <3>1. blank[p] = Blank /\ p[1] = w.y
      BY <2>3
    <3>2. \A c : Over(Blank, c) = c
      BY DEF Over
    <3> HIDE DEF blank, area
    <3> QED BY <2>3, <3>1, <3>2
  <2> QED BY <2>2, <2>3
<1> HIDE DEF cells, v, blank
<1>9. cells \in [Place -> Glyph]
  <2>1. cells = [p \in Place |-> cells[p]]
    BY DEF cells
  <2>2. \A p \in Place : cells[p] \in Glyph
    <3> SUFFICES ASSUME NEW p \in Place PROVE cells[p] \in Glyph
      OBVIOUS
    <3>1. w.cells[p] \in Glyph /\ Blank \in Glyph
      BY <1>2, Sizes
    <3>2. CASE p[2] - 3 \in 0 .. n - 1
      <4>1. p[2] - 3 + 1 \in 1 .. n
        BY <1>1, <1>3, <3>2
      <4>2. line[p[2] - 3 + 1] \in Glyph
        BY <1>3, <4>1
      <4> HIDE DEF area
      <4> QED BY <1>8, <3>1, <3>2, <4>2
    <3>3. CASE p[2] - 3 \notin 0 .. n - 1
      <4> HIDE DEF area
      <4> QED BY <1>8, <3>1, <3>3
    <3> QED BY <3>2, <3>3
  <2> QED BY <2>1, <2>2
<1>10. \A p \in Place : p[1] > w.y \/ (p[1] = w.y /\ p[2] >= n + 3) => cells[p] = Blank
  <2> SUFFICES ASSUME NEW p \in Place, p[1] > w.y \/ (p[1] = w.y /\ p[2] >= n + 3)
               PROVE  cells[p] = Blank
    OBVIOUS
  <2>1. p[1] \in Int /\ p[2] \in Int /\ p[2] <= kColumns - 1
    BY <1>1
  <2>2. CASE p \in area
    <3>1. p[1] = w.y
      BY <2>2
    <3>2. p[2] - 3 \notin 0 .. n - 1
      BY <1>1, <1>3, <2>1, <3>1
    <3> HIDE DEF area
    <3> QED BY <1>8, <2>2, <3>2
  <2>3. CASE p \notin area
    <3>1. ~(p[1] = w.y)
      BY <1>3, <2>1, <2>3
    <3>2. p[1] > w.y
      BY <3>1
    <3>3. w.cells[p] = Blank
      BY <1>2, <3>2
    <3> HIDE DEF area
    <3> QED BY <1>8, <2>3, <3>3
  <2> QED BY <2>2, <2>3
<1>11. n + 3 \in 0 .. kColumns
  BY <1>1, <1>3
<1>12. v \in Windows /\ v.cells = cells /\ v.x = n + 3 /\ v.y = w.y
  BY <1>2, <1>7, <1>9, <1>10, <1>11, WindowMade
<1>13. Shown(v, line)
  <2>1. /\ Number(v.y, v.x) \in Int /\ Number(w.y, 0) >= 0 /\ Number(w.y, 0) \in Int
        /\ Number(v.y, v.x) = Number(w.y, 0) + (n + 3)
    <3> DEFINE x == n + 3
    <3>1. x \in Int /\ 0 \in Int
      BY <1>3
    <3>2. v.y = w.y /\ v.x = x
      BY <1>12
    <3> HIDE DEF x
    <3>3. Number(w.y, x) \in Int /\ Number(w.y, x) = Number(w.y, 0) + x
      BY <1>1, <3>1, Numbers
    <3>4. Number(w.y, 0) >= 0 /\ Number(w.y, 0) \in Int
      BY <1>1, <3>1, Numbers
    <3> QED BY <3>2, <3>3, <3>4 DEF x
  <2>2. Number(v.y, v.x) >= n /\ v.x < kColumns
    BY <1>3, <1>12, <2>1
  <2>3. ASSUME NEW p \in Place, NEW k \in 1 .. n, p[2] < kColumns - 1,
               Number(p[1], p[2]) + k = Number(v.y, v.x)
        PROVE  v.cells[p] = line[n - k + 1]
    <3> DEFINE c == n + 3 - k
    <3>1. c \in 0 .. kColumns - 2 /\ c \in Int /\ p[2] \in 0 .. kColumns - 2
          /\ p[1] \in Int /\ c - 3 \in 0 .. n - 1 /\ c - 3 + 1 = n - k + 1 /\ c \in 3 .. kColumns - 1
      BY <1>1, <1>3, <2>3
    <3>2. Number(w.y, c) = Number(w.y, 0) + c
      BY <1>1, <3>1, Numbers
    <3>3. Number(p[1], p[2]) = Number(w.y, c)
      <4>1. Number(p[1], p[2]) \in Int
        BY <1>1, Numbers
      <4> QED BY <1>3, <2>1, <2>3, <3>2, <4>1
    <3> HIDE DEF c
    <3>4. p[1] = w.y /\ p[2] = c
      BY <1>1, <3>1, <3>3, NumberIsOne
    <3>5. p \in area
      BY <3>1, <3>4
    <3> HIDE DEF area
    <3> QED BY <1>8, <1>12, <3>1, <3>4, <3>5
  <2> QED BY <2>2, <2>3 DEF Shown, n
<1>14. \A p \in Place : p \notin area => v.cells[p] = w.cells[p]
  <2> HIDE DEF area
  <2> QED BY <1>8, <1>12
<1> HIDE DEF area
<1> QED BY <1>12, <1>13, <1>14 DEF area, v, e, n

LEMMA Division ==
  ASSUME NEW d \in Nat \ {0}, NEW p \in Nat
  PROVE  p \div d \in Int /\ (p % d) \in 0 .. d - 1 /\ p = (p \div d) * d + (p % d)
OBVIOUS

\* What stands before the cursor is the line.
LEMMA ShownIs ==
  ASSUME window \in Windows, linebuf_ \in Typing, Shown(window, linebuf_),
         NEW k \in 1 .. Len(linebuf_)
  PROVE  window.cells[Before(k)] = linebuf_[Len(linebuf_) - k + 1]
<1> DEFINE d == kColumns - 1
           p == window.y * (kColumns - 1) + window.x - k
           r == p \div (kColumns - 1)
           c == p % (kColumns - 1)
           y == window.y
           x == window.x
<1>1. /\ x \in Int /\ y \in Int /\ x >= 0 /\ y >= 0 /\ y <= kRows - 1
      /\ kColumns \in Int /\ kColumns > 4 /\ kRows \in Int
  BY Types
<1>2. linebuf_ # <<>> /\ Len(linebuf_) \in Nat /\ k \in Nat /\ k >= 1 /\ k <= Len(linebuf_)
  <2>1. Len(linebuf_) \in Nat
    BY LenProperties DEF Typing
  <2>2. linebuf_ = <<>> => Len(linebuf_) = 0
    OBVIOUS
  <2> QED BY <2>1, <2>2
<1>3. x <= d /\ d \in Nat \ {0} /\ y * d + x >= Len(linebuf_) /\ y * d \in Int
  <2>1. x < kColumns /\ y * (kColumns - 1) + x >= Len(linebuf_)
    BY <1>2 DEF Shown, Number
  <2>2. kColumns - 1 \in Nat \ {0}
    BY <1>1
  <2>3. y * d \in Int
    BY <1>1, <2>2, Multiples
  <2> QED BY <1>1, <2>1, <2>2, <2>3
<1>4. p \in Nat /\ p < y * d + d
  <2> DEFINE Y == y * d
  <2> HIDE DEF Y
  <2>1. Y + x - k >= 0 /\ Y + x - k < Y + d /\ Y \in Int
    BY <1>1, <1>2, <1>3 DEF Y
  <2>2. p = Y + x - k
    BY DEF Y
  <2> HIDE DEF p, d
  <2>3. p \in Nat /\ p < Y + d
    BY <1>1, <1>2, <1>3, <2>1, <2>2
  <2> QED BY <2>3 DEF Y
<1> HIDE DEF p
<1>5. r \in Int /\ c \in 0 .. d - 1 /\ p = r * d + c
  <2> HIDE DEF d
  <2>1. r = p \div d /\ c = p % d
    BY DEF d
  <2> HIDE DEF r, c
  <2> QED BY <1>3, <1>4, <2>1, Division
<1> HIDE DEF r, c, d
<1>6. r \in Row
  <2> DEFINE R == r * d
             Y == y * d
  <2>1. /\ R \in Int /\ Y \in Int
        /\ r < 0 => R + d <= 0 * d
        /\ y < r => Y + d <= R
    BY <1>1, <1>3, <1>5, Multiples, 0 \in Int
  <2>2. 0 * d = 0
    BY <1>3
  <2>3. p = R + c /\ p >= 0 /\ p < Y + d /\ c >= 0 /\ c < d /\ c \in Int /\ d \in Int /\ p \in Int
    BY <1>3, <1>4, <1>5
  <2> HIDE DEF R, Y
  <2>4. ~(r < 0) /\ ~(y < r)
    BY <2>1, <2>2, <2>3
  <2> QED BY <1>1, <1>5, <2>4 DEF Row
<1>7. c \in Column /\ c < kColumns - 1
  BY <1>1, <1>5 DEF Column, d
<1> DEFINE q == <<r, c>>
<1>8. q \in Place /\ q[1] = r /\ q[2] = c
  BY <1>6, <1>7, PlaceIs
<1>9. Number(r, c) + k = Number(y, x)
  <2>1. Number(r, c) = p /\ Number(y, x) = p + k
    <3>1. Number(r, c) = p
      BY <1>5 DEF Number, d
    <3>2. y * (kColumns - 1) \in Int
      BY <1>3 DEF d
    <3>3. Number(y, x) = p + k
      BY <1>1, <1>2, <3>2 DEF Number, p
    <3> QED BY <3>1, <3>3
  <2> QED BY <2>1
<1> HIDE DEF q
<1>10. window.cells[q] = linebuf_[Len(linebuf_) - k + 1]
  BY <1>7, <1>8, <1>9 DEF Shown
<1>11. Before(k) = q
  BY DEF Before, q, r, c, p
<1> QED BY <1>10, <1>11

-----------------------------------------------------------------------------
(***************************************************************************)
(* The invariant: types and a legible window, the line at the prompt, and  *)
(* what the screen does not show yet.                                      *)
(***************************************************************************)
TextInv ==
  /\ window \in Windows
  /\ linebuf_ \in Typing
  /\ cmd_history_ \in Seq(Typing) /\ Len(cmd_history_) = kHistory
  /\ cmd_history_index_ \in -1 .. kHistory - 1
  /\ running \in BOOLEAN
  /\ requests \in Seq(SUBSET Place)

PromptInv == ~running => Shown(window, linebuf_)

\* At the prompt, a request waits for each place that is stale.
Asked(places, areas) == \A p \in places : \E i \in 1 .. Len(areas) : p \in areas[i]
DrawnInv == stale \subseteq Place /\ (~running => Asked(stale, requests))

\* Requests behind those that wait.
LEMMA AskedMore ==
  ASSUME requests \in Seq(SUBSET Place), NEW areas \in Seq(SUBSET Place),
         NEW old, NEW new, Asked(old, requests), Asked(new, areas)
  PROVE  Asked(old \cup new, requests \o areas)
<1> DEFINE all == requests \o areas
           m == Len(requests)
           n == Len(areas)
<1>1. /\ m \in Nat /\ n \in Nat /\ Len(all) = m + n
      /\ \A i \in 1 .. m : all[i] = requests[i]
      /\ \A j \in 1 .. n : all[m + j] = areas[j]
  <2>1. /\ Len(all) = m + n
        /\ \A i \in 1 .. m + n : all[i] = IF i <= m THEN requests[i] ELSE areas[i - m]
    BY ConcatProperties
  <2>2. m \in Nat /\ n \in Nat
    BY LenProperties
  <2> HIDE DEF all, m, n
  <2>3. ASSUME NEW j \in 1 .. n PROVE all[m + j] = areas[j]
    <3>1. m + j \in 1 .. m + n /\ ~(m + j <= m) /\ (m + j) - m = j
      BY <2>2
    <3> QED BY <2>1, <3>1
  <2> QED BY <2>1, <2>2, <2>3
<1> HIDE DEF all
<1>2. ASSUME NEW p \in old PROVE \E i \in 1 .. Len(all) : p \in all[i]
  <2>1. PICK i \in 1 .. m : p \in requests[i]
    BY DEF Asked
  <2> HIDE DEF m, n
  <2>2. i \in 1 .. Len(all)
    BY <1>1
  <2> QED BY <1>1, <2>1, <2>2
<1>3. ASSUME NEW p \in new PROVE \E i \in 1 .. Len(all) : p \in all[i]
  <2>1. PICK j \in 1 .. n : p \in areas[j]
    BY DEF Asked
  <2> HIDE DEF m, n
  <2>2. m + j \in 1 .. Len(all) /\ p \in all[m + j]
    BY <1>1, <2>1
  <2> QED BY <2>2
<1> QED BY <1>2, <1>3 DEF Asked, all

\* What a step of the terminal's task changes and asks for.
Changed == {p \in Place : window.cells[p] # window'.cells[p]}

LEMMA AskStep ==
  ASSUME TextInv, DrawnInv, NEW areas \in Seq(SUBSET Place), Shows, Ask(areas),
         ~running' => ~running, Asked(Changed, areas)
  PROVE  DrawnInv'
<1>1. stale' = stale \cup Changed /\ requests' = requests \o areas
  BY DEF Shows, Ask, Changed
<1>2. stale' \subseteq Place
  BY <1>1 DEF DrawnInv, Changed
<1>3. ASSUME ~running' PROVE Asked(stale', requests')
  <2>1. Asked(stale, requests) /\ requests \in Seq(SUBSET Place)
    BY <1>3 DEF DrawnInv, TextInv
  <2> QED BY <1>1, <2>1, AskedMore
<1> QED BY <1>2, <1>3 DEF DrawnInv

LEMMA AskType ==
  ASSUME TextInv, NEW areas \in Seq(SUBSET Place), Ask(areas)
  PROVE  requests' \in Seq(SUBSET Place)
BY ConcatProperties DEF TextInv, Ask

\* One area, or two.
LEMMA Areas ==
  /\ \A a \in SUBSET Place : <<a>> \in Seq(SUBSET Place) /\ Len(<<a>>) = 1 /\ <<a>>[1] = a
  /\ \A a, b \in SUBSET Place :
       <<a, b>> \in Seq(SUBSET Place) /\ Len(<<a, b>>) = 2 /\ <<a, b>>[2] = b
OBVIOUS

LEMMA AskedOne ==
  ASSUME NEW area \in SUBSET Place, NEW places, places \subseteq area
  PROVE  Asked(places, <<area>>)
BY DEF Asked

\* Typing a character: where it goes, and what becomes of the line.
LEMMA TypeCharStep ==
  ASSUME TextInv, NEW c \in Ascii, TypeChar(c)
  PROVE  /\ TextInv'
         /\ PromptInv => PromptInv'
         /\ RowsStay /\ DrawnInv => DrawnInv'
<1> DEFINE w == window
           room == w.x < kColumns - 1 /\ Len(linebuf_) < kLineMax - 1
           v == IF room THEN [Draw(w, w.y, w.x, c) EXCEPT !.x = @ + 1] ELSE w
           line == IF room THEN Append(linebuf_, c) ELSE linebuf_
<1>1. /\ w \in Windows /\ linebuf_ \in Typing /\ c \in Glyph /\ Len(linebuf_) \in Nat
      /\ kLineMax \in Int
  <2>1. Ascii \subseteq Glyph /\ kLineMax \in Int
    BY Sizes
  <2> QED BY <2>1, LenProperties DEF TextInv, Typing
<1>2. /\ w.x \in Int /\ w.y \in Int /\ w.x >= 0 /\ w.x <= kColumns /\ kColumns \in Int
      /\ kColumns > 4
  BY <1>1, Types
<1>3. /\ ~running /\ UNCHANGED <<cmd_history_, cmd_history_index_, running>>
      /\ linebuf_' = line
      /\ window' = IF v.x = kColumns - 1 THEN newline(v) ELSE v
      /\ KeepsUp(window, window')
      /\ Shows /\ Ask(<<AtCursor(window)>>)
  BY DEF TypeChar, Typed
<1>4. room => /\ v \in Windows /\ v.x = w.x + 1 /\ v.y = w.y
              /\ v.cells[<<w.y, w.x>>] = c
              /\ \A p \in Place : p # <<w.y, w.x>> => v.cells[p] = w.cells[p]
  <2> SUFFICES ASSUME room
               PROVE  /\ v \in Windows /\ v.x = w.x + 1 /\ v.y = w.y
                      /\ v.cells[<<w.y, w.x>>] = c
                      /\ \A p \in Place : p # <<w.y, w.x>> => v.cells[p] = w.cells[p]
    OBVIOUS
  <2>1. w.x \in Column
    BY <1>2 DEF Column
  <2> DEFINE u == [Draw(w, w.y, w.x, c) EXCEPT !.x = @ + 1]
  <2>2. v = u
    OBVIOUS
  <2> HIDE DEF v
  <2> QED BY <1>1, <2>1, <2>2, DrawnAt
<1>5. ~room => v = w
  OBVIOUS
<1>6. line \in Typing
  <2>1. CASE room
    <3>1. Append(linebuf_, c) \in Seq(Ascii) /\ Len(Append(linebuf_, c)) = Len(linebuf_) + 1
      BY <1>1, AppendProperties DEF Typing
    <3>2. Len(linebuf_) + 1 < kLineMax
      BY <1>1, <2>1
    <3> QED BY <2>1, <3>1, <3>2 DEF Typing
  <2>2. CASE ~room
    BY <1>1, <2>2
  <2> QED BY <2>1, <2>2
<1>7. PromptInv => Shown(v, line)
  <2> SUFFICES ASSUME PromptInv PROVE Shown(v, line)
    OBVIOUS
  <2>1. Shown(w, linebuf_)
    BY <1>3 DEF PromptInv
  <2>2. CASE room
    <3>1. line = Append(linebuf_, c) /\ w.x < kColumns - 1
      BY <2>2
    <3> HIDE DEF room, v, line
    <3> QED BY <1>1, <1>4, <2>1, <2>2, <3>1, TypedShown
  <2>3. CASE ~room
    <3>1. v = w /\ line = linebuf_
      BY <2>3
    <3> QED BY <2>1, <3>1
  <2> QED BY <2>2, <2>3
<1> HIDE DEF room, v, line
<1>8. v \in Windows
  BY <1>1, <1>4, <1>5
<1>9. window' \in Windows
  BY <1>3, <1>8, NewlinedAt
<1>10. AtCursor(window) \in SUBSET Place
  BY DEF AtCursor
<1>11. TextInv'
  <2>1. requests' \in Seq(SUBSET Place)
    BY <1>3, <1>10, Areas, AskType
  <2> QED BY <1>3, <1>6, <1>9, <2>1 DEF TextInv
<1>12. ASSUME PromptInv PROVE PromptInv'
  <2>1. Shown(window', line)
    <3>1. CASE v.x = kColumns - 1
      BY <1>3, <1>6, <1>7, <1>8, <1>12, <3>1, NewlineShown
    <3>2. CASE v.x # kColumns - 1
      BY <1>3, <1>7, <1>12, <3>2
    <3> QED BY <3>1, <3>2
  <2> QED BY <1>3, <2>1 DEF PromptInv
<1>13. ASSUME RowsStay, DrawnInv PROVE DrawnInv'
  <2>1. ~Scrolls(window, window')
    BY <1>3, <1>13 DEF KeepsUp, RowsStay
  <2>2. window'.cells = v.cells
    <3>1. CASE v.x = kColumns - 1
      <4>1. window' = newline(v)
        BY <1>3, <3>1
      <4>2. v.y = w.y /\ v.x <= w.x + 1
        BY <1>2, <1>4, <1>5
      <4>3. w.x > 0
        BY <1>2, <3>1, <4>2
      <4>4. v.y < kRows - 1
        <5> SUFFICES ASSUME ~(v.y < kRows - 1) PROVE FALSE
          OBVIOUS
        <5>1. window'.y = v.y /\ window'.x = 0
          BY <1>8, <4>1, NewlinedAt
        <5>2. window'.y = window.y /\ window'.x < window.x
          BY <4>2, <4>3, <5>1
        <5> QED BY <2>1, <5>2 DEF Scrolls
      <4> QED BY <1>8, <4>1, <4>4, NewlinedAt
    <3>2. CASE v.x # kColumns - 1
      BY <1>3, <3>2
    <3> QED BY <3>1, <3>2
  <2>3. Changed \subseteq AtCursor(window)
    <3> SUFFICES ASSUME NEW p \in Place, w.cells[p] # v.cells[p] PROVE p \in AtCursor(window)
      BY <2>2 DEF Changed
    <3>1. p = <<w.y, w.x>>
      BY <1>4, <1>5
    <3>2. p[1] = w.y /\ p[2] = w.x
      BY <3>1
    <3> QED BY <3>2 DEF AtCursor
  <2>4. Asked(Changed, <<AtCursor(window)>>)
    BY <1>10, <2>3, Areas DEF Asked
  <2>5. ~running' => ~running
    BY <1>3
  <2> QED BY <1>3, <1>10, <1>13, <2>4, <2>5, Areas, AskStep
<1> QED BY <1>11, <1>12, <1>13

\* Taking a character back.
LEMMA BackspaceStep ==
  ASSUME TextInv, Backspace
  PROVE  /\ TextInv'
         /\ PromptInv => PromptInv'
         /\ DrawnInv => DrawnInv'
<1> DEFINE w == window
           b == [w EXCEPT !.x = @ - 1]
           v == Erase(b, {<<b.y, b.x>>})
           less == IF linebuf_ = <<>> THEN <<>> ELSE SeqOps!Front(linebuf_)
           here == <<b.y, b.x>>
<1>1. /\ ~running /\ w.x > 0 /\ UNCHANGED <<cmd_history_, cmd_history_index_, running>>
      /\ window' = v /\ Ask(<<AtCursor(b)>>) /\ linebuf_' = less /\ Shows
  BY DEF Backspace
<1>2. w \in Windows /\ linebuf_ \in Typing
  BY DEF TextInv
<1>3. /\ v \in Windows /\ less \in Typing /\ here \in Place
      /\ \A p \in Place : p # here => v.cells[p] = w.cells[p]
      /\ Shown(w, linebuf_) => Shown(v, less)
  BY <1>1, <1>2, Erased
<1> HIDE DEF v, less
<1>4. AtCursor(b) \in SUBSET Place /\ here \in AtCursor(b)
  <2>1. here[1] = b.y /\ here[2] = b.x
    OBVIOUS
  <2> HIDE DEF here, b
  <2> QED BY <1>3, <2>1 DEF AtCursor
<1> HIDE DEF here, b
<1>5. TextInv'
  <2>1. requests' \in Seq(SUBSET Place)
    BY <1>1, <1>4, Areas, AskType
  <2> QED BY <1>1, <1>3, <2>1 DEF TextInv
<1>6. PromptInv => PromptInv'
  BY <1>1, <1>3 DEF PromptInv
<1>7. ASSUME DrawnInv PROVE DrawnInv'
  <2>1. Changed \subseteq {here}
    BY <1>1, <1>3 DEF Changed
  <2>2. Asked(Changed, <<AtCursor(b)>>)
    BY <1>4, <2>1, Areas DEF Asked
  <2>3. ~running' => ~running
    BY <1>1
  <2> QED BY <1>1, <1>4, <1>7, <2>2, <2>3, Areas, AskStep
<1> QED BY <1>5, <1>6, <1>7

\* Going through the history.
LEMMA ArrowStep ==
  ASSUME TextInv, LinesFit, NEW d \in {-1, 1}, Arrow(d)
  PROVE  /\ TextInv'
         /\ PromptInv'
         /\ DrawnInv => DrawnInv'
<1> DEFINE w == window
           i == cmd_history_index_
           j == IF d = -1 /\ i >= 0 THEN i - 1
                ELSE IF d = 1 /\ i + 1 < Len(cmd_history_) THEN i + 1 ELSE i
           line == IF j >= 0 THEN cmd_history_[j + 1] ELSE <<>>
           area == {p \in Place : p[1] = w.y /\ p[2] \in 3 .. kColumns - 1}
           v == [WriteString(Erase(w, area), w.y, 3, line) EXCEPT !.x = Len(line) + 3]
<1>1. Len(Prompt) = 3
  BY DEF Prompt
<1>2. /\ ~running /\ UNCHANGED <<cmd_history_, running>>
      /\ cmd_history_index_' = j /\ linebuf_' = line
      /\ Len(line) + 3 < kColumns
      /\ window' = v /\ Ask(<<area>>) /\ Shows
  <2>1. /\ ~running /\ UNCHANGED <<cmd_history_, running>>
        /\ cmd_history_index_' = j
        /\ linebuf_' = IF cmd_history_index_' >= 0 THEN cmd_history_[cmd_history_index_' + 1] ELSE <<>>
        /\ Len(linebuf_') + Len(Prompt) < kColumns
        /\ Shows
    BY DEF Arrow, LinesFit
  <2>2. linebuf_' = line
    <3> HIDE DEF j
    <3> QED BY <2>1
  <2> HIDE DEF j, line
  <2>3. /\ window' = v /\ Ask(<<area>>)
    BY <1>1, <2>2 DEF Arrow
  <2> HIDE DEF v, area
  <2> QED BY <1>1, <2>1, <2>2, <2>3
<1>3. /\ i \in -1 .. kHistory - 1 /\ kHistory \in Nat \ {0} /\ cmd_history_ \in Seq(Typing)
      /\ Len(cmd_history_) = kHistory
  BY Sizes DEF TextInv
<1>4. j \in -1 .. kHistory - 1 /\ (j >= 0 => j + 1 \in 1 .. kHistory)
  <2>1. i \in Int /\ -1 <= i /\ i <= kHistory - 1 /\ kHistory \in Int /\ kHistory > 0
    BY <1>3
  <2>2. (j = i - 1 /\ i >= 0) \/ (j = i + 1 /\ i + 1 < kHistory) \/ j = i
    BY <1>3
  <2> HIDE DEF j, i
  <2>3. j \in Int /\ -1 <= j /\ j <= kHistory - 1
    BY <2>1, <2>2
  <2> QED BY <2>1, <2>3
<1> HIDE DEF j
<1>5. line \in Typing
  <2>1. <<>> \in Typing
    <3>1. kLineMax \in Nat \ {0}
      BY Sizes
    <3>2. <<>> \in Seq(Ascii) /\ Len(<<>>) < kLineMax
      BY <3>1
    <3> QED BY <3>2 DEF Typing
  <2>2. CASE j >= 0
    <3>1. j + 1 \in 1 .. Len(cmd_history_)
      BY <1>3, <1>4, <2>2, Zenon
    <3>2. cmd_history_[j + 1] \in Typing
      BY <1>3, <3>1, ElementOfSeq
    <3> QED BY <2>2, <3>2
  <2> QED BY <2>1, <2>2
<1> HIDE DEF line
<1>6. w \in Windows
  BY DEF TextInv
<1>7. /\ v \in Windows /\ Shown(v, line)
      /\ \A p \in Place : p \notin area => v.cells[p] = w.cells[p]
  BY <1>2, <1>5, <1>6, Fetched
<1>8. area \in SUBSET Place
  OBVIOUS
<1> HIDE DEF v, area
<1>9. TextInv'
  <2>1. requests' \in Seq(SUBSET Place)
    BY <1>2, <1>8, Areas, AskType
  <2> QED BY <1>2, <1>4, <1>5, <1>7, <2>1 DEF TextInv
<1>10. PromptInv'
  BY <1>2, <1>7 DEF PromptInv
<1>11. ASSUME DrawnInv PROVE DrawnInv'
  <2>1. Changed \subseteq area
    BY <1>2, <1>7 DEF Changed
  <2>2. Asked(Changed, <<area>>)
    BY <1>8, <2>1, AskedOne
  <2>3. ~running' => ~running
    BY <1>2
  <2> QED BY <1>2, <1>8, <1>11, <2>2, <2>3, Areas, AskStep
<1> QED BY <1>9, <1>10, <1>11

\* While a command runs nothing is said of the line or the screen, but that what has
\* changed is kept.
LEMMA RunningStep ==
  ASSUME TextInv, running', Shows, DrawnInv
  PROVE  DrawnInv'
BY DEF Shows, DrawnInv

LEMMA EnterStep ==
  ASSUME TextInv, Enter
  PROVE  TextInv' /\ PromptInv' /\ (DrawnInv => DrawnInv')
<1>1. /\ window' = newline(window) /\ running' = TRUE /\ cmd_history_index_' = -1
      /\ cmd_history_' = Remembered(cmd_history_, linebuf_)
      /\ Shows /\ UNCHANGED <<linebuf_, requests>>
  BY DEF Enter
<1>2. window' \in Windows
  BY <1>1, NewlinedAt DEF TextInv
<1> DEFINE h == cmd_history_
           f == SubSeq(h, 1, Len(h) - 1)
<1>3. /\ h \in Seq(Typing) /\ Len(h) = kHistory /\ kHistory \in Nat \ {0}
      /\ linebuf_ \in Typing
  BY Sizes DEF TextInv
<1>4. cmd_history_' \in Seq(Typing) /\ Len(cmd_history_') = kHistory
  <2>1. CASE linebuf_ = <<>>
    BY <1>1, <1>3, <2>1 DEF Remembered
  <2>2. CASE linebuf_ # <<>>
    <3>1. \A k \in 1 .. Len(h) - 1 : h[k] \in Typing
      BY <1>3, ElementOfSeq
    <3>2. f \in Seq(Typing) /\ Len(f) = kHistory - 1
      <4>1. 1 \in Int /\ Len(h) - 1 \in Int /\ (1 <= Len(h) - 1 \/ Len(h) - 1 = 0)
        BY <1>3
      <4> QED BY <1>3, <3>1, <4>1, SubSeqProperties
    <3>3. <<linebuf_>> \in Seq(Typing) /\ Len(<<linebuf_>>) = 1
      BY <1>3
    <3>4. cmd_history_' = <<linebuf_>> \o f
      BY <1>1, <2>2 DEF Remembered, SeqOps!Front
    <3> HIDE DEF f
    <3>5. cmd_history_' \in Seq(Typing) /\ Len(cmd_history_') = 1 + (kHistory - 1)
      BY <3>2, <3>3, <3>4, ConcatProperties
    <3> QED BY <1>3, <3>5
  <2> QED BY <2>1, <2>2
<1>5. -1 \in -1 .. kHistory - 1
  BY <1>3
<1>6. TextInv'
  BY <1>1, <1>2, <1>4, <1>5 DEF TextInv
<1>7. PromptInv'
  BY <1>1 DEF PromptInv
<1>8. DrawnInv => DrawnInv'
  BY <1>1, RunningStep
<1> QED BY <1>6, <1>7, <1>8

\* What a command prints.
LEMMA PrintStep ==
  ASSUME TextInv, Executing, running', window' \in Windows, UNCHANGED linebuf_,
         Shows, NEW areas \in Seq(SUBSET Place), Ask(areas)
  PROVE  TextInv' /\ PromptInv' /\ (DrawnInv => DrawnInv')
<1>1. running' \in BOOLEAN
  BY DEF TextInv, Executing
<1>2. TextInv'
  <2>1. requests' \in Seq(SUBSET Place)
    BY AskType
  <2> QED BY <1>1, <2>1 DEF TextInv, Executing
<1> QED BY <1>2, RunningStep DEF PromptInv

LEMMA WriteTextStep ==
  ASSUME TextInv, NEW s \in Texts, WriteText(s)
  PROVE  TextInv' /\ PromptInv' /\ (DrawnInv => DrawnInv')
<1> DEFINE areas == <<PrintedArea(window, window'), Whole>>
<1>1. /\ Executing /\ window' = PrintText(window, s) /\ Shows /\ Ask(areas)
      /\ UNCHANGED <<linebuf_, running>>
  BY DEF WriteText
<1>2. window' \in Windows /\ running'
  BY <1>1, Sizes, PrintedText DEF TextInv, Executing
<1>3. areas \in Seq(SUBSET Place)
  BY Areas DEF PrintedArea, Rows, Whole
<1> HIDE DEF areas
<1> QED BY <1>1, <1>2, <1>3, PrintStep

LEMMA ReadKeyStep ==
  ASSUME TextInv, NEW c \in Ascii \cup {NewLine}, ReadKey(c)
  PROVE  TextInv' /\ PromptInv' /\ (DrawnInv => DrawnInv')
<1> DEFINE areas == <<PrintedArea(window, window'), Whole>>
<1>1. /\ Executing /\ window' = PrintChar(window, c) /\ Shows /\ Ask(areas)
      /\ UNCHANGED <<linebuf_, running>>
  BY DEF ReadKey
<1>2. c \in Glyph
  BY Sizes
<1>3. window' \in Windows /\ running'
  BY <1>1, <1>2, PrintedChar DEF TextInv, Executing
<1>4. areas \in Seq(SUBSET Place)
  BY Areas DEF PrintedArea, Rows, Whole
<1> HIDE DEF areas
<1> QED BY <1>1, <1>3, <1>4, PrintStep

LEMMA ReadControlStep ==
  ASSUME TextInv, NEW c \in Ascii, ReadControl(c)
  PROVE  TextInv' /\ PromptInv' /\ (DrawnInv => DrawnInv')
<1> DEFINE area == PrintedArea(window, window')
<1>1. /\ Executing /\ window' = PrintText(window, <<"^", c>>) /\ Shows /\ Ask(<<area>>)
      /\ UNCHANGED <<linebuf_, running>>
  BY DEF ReadControl
<1>2. <<"^", c>> \in Seq(Glyph)
  <2>1. "^" \in Glyph /\ c \in Glyph
    BY Sizes
  <2> QED BY <2>1
<1>3. window' \in Windows /\ running'
  BY <1>1, <1>2, PrintedText DEF TextInv, Executing
<1>4. area \in SUBSET Place
  BY DEF PrintedArea, Rows
<1> HIDE DEF area
<1>5. <<area>> \in Seq(SUBSET Place)
  BY <1>4, Areas
<1> QED BY <1>1, <1>3, <1>5, PrintStep

\* A window that is cleared.
LEMMA ClearStep ==
  ASSUME TextInv, Clear
  PROVE  TextInv' /\ PromptInv' /\ (DrawnInv => DrawnInv')
<1> DEFINE w == window
           e == Erase(w, Whole)
           blank == [p \in Place |-> IF p \in Place THEN Blank ELSE w.cells[p]]
<1>1. /\ Executing /\ running /\ running' = running /\ window' = [e EXCEPT !.y = 0] /\ Shows
      /\ UNCHANGED <<linebuf_, requests, cmd_history_, cmd_history_index_>>
  BY DEF Clear, Executing
<1>2. /\ w.x \in 0 .. kColumns /\ w.outside = FALSE
      /\ w \in [cells : [Place -> Glyph], x : 0 .. kColumns, y : Row, outside : {FALSE}]
  BY DEF TextInv, Windows
<1>3. e = [w EXCEPT !.cells = blank]
  BY DEF Erase, Whole
<1>4. blank \in [Place -> Glyph] /\ \A p \in Place : blank[p] = Blank
  BY Sizes
<1> HIDE DEF e, blank
<1>5. e = [cells |-> blank, x |-> w.x, y |-> w.y, outside |-> w.outside]
  BY <1>2, <1>3, Fields
<1>6. window' = [cells |-> blank, x |-> w.x, y |-> 0, outside |-> FALSE]
  <2>1. /\ e.cells = blank /\ e.x = w.x /\ e.outside = FALSE
        /\ e \in [cells : {blank}, x : {w.x}, y : {w.y}, outside : {FALSE}]
    BY <1>2, <1>5
  <2>2. window' = [cells |-> e.cells, x |-> e.x, y |-> 0, outside |-> e.outside]
    BY <1>1, <2>1, Fields
  <2> QED BY <2>1, <2>2
<1>7. 0 \in Row
  BY Sizes DEF Row
<1>8. window' \in Windows
  BY <1>2, <1>4, <1>6, <1>7, WindowMade
<1>9. TextInv'
  BY <1>1, <1>8 DEF TextInv
<1>10. PromptInv'
  BY <1>1 DEF PromptInv
<1> QED BY <1>1, <1>9, <1>10, RunningStep

\* The prompt is three characters.
LEMMA PromptText == Prompt \in Seq(Glyph)
<1>1. ">" \in Glyph /\ Blank \in Glyph
  BY Sizes
<1> QED BY <1>1 DEF Prompt

\* The line is done, and the next prompt asks for all.
LEMMA FinishedStep ==
  ASSUME TextInv, Finished
  PROVE  TextInv' /\ (LineCleared => PromptInv') /\ (DrawnInv => DrawnInv')
<1>1. PICK line \in {<<>>} \cup NotCleared : Return(line)
  BY DEF Finished
<1> DEFINE areas == <<PrintedArea(window, window'), Whole>>
<1>2. /\ Executing /\ running' = FALSE /\ linebuf_' = line /\ running
      /\ window' = PrintText(window, Prompt)
      /\ Shows /\ Ask(areas)
      /\ UNCHANGED <<cmd_history_, cmd_history_index_>>
  BY <1>1 DEF Return, Executing
<1>3. NotCleared \subseteq {linebuf_} /\ (LineCleared => NotCleared = {})
  BY DEF NotCleared, LineCleared
<1>4. line \in Typing /\ (LineCleared => line = <<>>)
  <2>1. <<>> \in Typing
    <3>1. kLineMax \in Nat \ {0}
      BY Sizes
    <3> QED BY <3>1 DEF Typing
  <2> QED BY <1>3, <2>1 DEF TextInv
<1>5. window' \in Windows
  BY <1>2, PromptText, PrintedText DEF TextInv
<1>6. areas \in Seq(SUBSET Place) /\ Len(areas) = 2 /\ areas[2] = Place
  BY Areas DEF PrintedArea, Rows, Whole
<1> HIDE DEF areas
<1>7. TextInv'
  <2>1. requests' \in Seq(SUBSET Place)
    BY <1>2, <1>6, AskType
  <2> QED BY <1>2, <1>4, <1>5, <2>1 DEF TextInv
<1>8. LineCleared => PromptInv'
  BY <1>2, <1>4, <1>5, EmptyLineShown DEF PromptInv
<1>9. ASSUME DrawnInv PROVE DrawnInv'
  <2>1. stale \cup Changed \subseteq Place
    BY <1>9 DEF DrawnInv, Changed
  <2>2. stale' = stale \cup Changed /\ requests' = requests \o areas
    BY <1>2 DEF Shows, Ask, Changed
  <2>3. Asked({}, requests) /\ Asked(stale \cup Changed, areas)
    BY <1>6, <2>1 DEF Asked
  <2>4. Asked({} \cup (stale \cup Changed), requests \o areas)
    BY <1>6, <2>3, AskedMore DEF TextInv
  <2>5. Asked(stale', requests')
    BY <2>2, <2>4
  <2> QED BY <2>1, <2>2, <2>5 DEF DrawnInv
<1> QED BY <1>7, <1>8, <1>9

\* The main task puts on the screen what was asked for first.
LEMMA MainDrawsStep ==
  ASSUME TextInv, MainDraws
  PROVE  TextInv' /\ (PromptInv => PromptInv') /\ (DrawnInv => DrawnInv')
<1>1. /\ requests # <<>> /\ stale' = stale \ Head(requests) /\ requests' = Tail(requests)
      /\ UNCHANGED <<window, linebuf_, cmd_history_, cmd_history_index_, running>>
  BY DEF MainDraws
<1>2. /\ requests \in Seq(SUBSET Place) /\ Len(requests) \in Nat /\ Len(requests) # 0
      /\ Head(requests) = requests[1]
      /\ requests' \in Seq(SUBSET Place) /\ Len(requests') = Len(requests) - 1
      /\ \A i \in 1 .. Len(requests) - 1 : requests'[i] = requests[i + 1]
  BY <1>1, HeadTailProperties, EmptySeq, LenProperties DEF TextInv
<1>3. TextInv'
  BY <1>1, <1>2 DEF TextInv
<1>4. PromptInv => PromptInv'
  BY <1>1 DEF PromptInv
<1>5. ASSUME DrawnInv PROVE DrawnInv'
  <2>1. stale' \subseteq Place
    BY <1>1, <1>5 DEF DrawnInv
  <2>2. ASSUME ~running', NEW p \in stale' PROVE \E i \in 1 .. Len(requests') : p \in requests'[i]
    <3>1. Asked(stale, requests) /\ p \in stale /\ p \notin requests[1]
      BY <1>1, <1>2, <1>5, <2>2 DEF DrawnInv
    <3>2. PICK i \in 1 .. Len(requests) : p \in requests[i]
      BY <3>1 DEF Asked
    <3> DEFINE j == i - 1
    <3>3. i # 1
      BY <3>1, <3>2
    <3>4. j \in 1 .. Len(requests) - 1 /\ j + 1 = i
      BY <1>2, <3>3
    <3> HIDE DEF j
    <3>5. j \in 1 .. Len(requests') /\ p \in requests'[j]
      BY <1>2, <3>2, <3>4
    <3> QED BY <3>5
  <2> QED BY <2>1, <2>2 DEF DrawnInv, Asked
<1> QED BY <1>3, <1>4, <1>5

\* The first prompt.
LEMMA TextStarts == ASSUME TextInit PROVE TextInv /\ PromptInv /\ DrawnInv
<1>1. /\ window = PrintText(Empty, Prompt) /\ linebuf_ = <<>>
      /\ cmd_history_ = [k \in 1 .. kHistory |-> <<>>] /\ cmd_history_index_ = -1
      /\ running = FALSE /\ requests = <<Place>> /\ stale = {}
  BY DEF TextInit, Whole
<1>2. /\ kRows \in Nat \ {0} /\ kColumns \in Nat /\ kHistory \in Nat \ {0} /\ kLineMax \in Nat \ {0}
      /\ Blank \in Glyph
  BY Sizes
<1>3. Empty \in Windows
  <2> DEFINE blank == [p \in Place |-> Blank]
  <2>1. blank \in [Place -> Glyph] /\ 0 \in 0 .. kColumns /\ 0 \in Row
        /\ \A p \in Place : blank[p] = Blank
    BY <1>2 DEF Row
  <2>2. Empty = [cells |-> blank, x |-> 0, y |-> 0, outside |-> FALSE]
    BY DEF Empty
  <2> HIDE DEF blank
  <2> QED BY <2>1, <2>2, WindowMade
<1>4. window \in Windows
  BY <1>1, <1>3, PromptText, PrintedText
<1>5. <<>> \in Typing
  BY <1>2 DEF Typing
<1>6. cmd_history_ \in Seq(Typing) /\ Len(cmd_history_) = kHistory
  <2>1. cmd_history_ \in [1 .. kHistory -> Typing]
    BY <1>1, <1>5
  <2> QED BY <1>2, <2>1, SeqDef, LenProperties
<1>7. cmd_history_index_ \in -1 .. kHistory - 1
  BY <1>1, <1>2
<1>8. requests \in Seq(SUBSET Place)
  BY <1>1, Areas
<1>9. TextInv
  BY <1>1, <1>4, <1>5, <1>6, <1>7, <1>8 DEF TextInv
<1>10. PromptInv
  BY <1>1, <1>4, EmptyLineShown DEF PromptInv
<1>11. DrawnInv
  BY <1>1 DEF DrawnInv, Asked
<1> QED BY <1>9, <1>10, <1>11

\* Every step.
LEMMA TextStep ==
  ASSUME LinesFit, TextInv, [TextNext]_textVars
  PROVE  /\ TextInv'
         /\ LineCleared /\ PromptInv => PromptInv'
         /\ RowsStay /\ DrawnInv => DrawnInv'
<1>1. ASSUME NEW c \in Ascii, TypeChar(c)
      PROVE  TextInv' /\ (PromptInv => PromptInv') /\ (RowsStay /\ DrawnInv => DrawnInv')
  BY <1>1, TypeCharStep
<1>2. ASSUME NEW c \in Ascii, ReadControl(c)
      PROVE  TextInv' /\ PromptInv' /\ (DrawnInv => DrawnInv')
  BY <1>2, ReadControlStep
<1>3. ASSUME NEW c \in Ascii \cup {NewLine}, ReadKey(c)
      PROVE  TextInv' /\ PromptInv' /\ (DrawnInv => DrawnInv')
  BY <1>3, ReadKeyStep
<1>4. ASSUME NEW d \in {-1, 1}, Arrow(d)
      PROVE  TextInv' /\ PromptInv' /\ (DrawnInv => DrawnInv')
  BY <1>4, ArrowStep
<1>5. ASSUME NEW s \in Texts, WriteText(s)
      PROVE  TextInv' /\ PromptInv' /\ (DrawnInv => DrawnInv')
  BY <1>5, WriteTextStep
<1>6. ASSUME UNCHANGED textVars
      PROVE  TextInv' /\ (PromptInv => PromptInv') /\ (DrawnInv => DrawnInv')
  <2>1. UNCHANGED <<window, linebuf_, cmd_history_, cmd_history_index_, running, requests, stale>>
    BY <1>6 DEF textVars
  <2> QED BY <2>1 DEF TextInv, PromptInv, DrawnInv, Asked
<1>7. CASE Backspace
  BY <1>7, BackspaceStep
<1>8. CASE Enter
  BY <1>8, EnterStep
<1>9. CASE Clear
  BY <1>9, ClearStep
<1>10. CASE Finished
  BY <1>10, FinishedStep
<1>11. CASE MainDraws
  BY <1>11, MainDrawsStep
<1> QED BY <1>1, <1>2, <1>3, <1>4, <1>5, <1>6, <1>7, <1>8, <1>9, <1>10, <1>11 DEF TextNext

\* No character is drawn over another, and none outside of the window (Print, InputKey,
\* HistoryUpDown, Scroll1), for any size of the window and any texts, with narrow and
\* wide characters, as long as the lines fetched from the history fit into a row.
THEOREM TextIsLegibleHolds ==
  ASSUME LinesFit
  PROVE  TextSpec => []TextIsLegible
<1>1. TextInit => TextInv
  BY TextStarts
<1>2. TextInv /\ [TextNext]_textVars => TextInv'
  BY TextStep
<1>3. TextInv => TextIsLegible
  <2> SUFFICES ASSUME TextInv PROVE TextIsLegible
    OBVIOUS
  <2>1. window.outside = FALSE /\ \A p \in Place : window.cells[p] \in Glyph
    BY WindowShape DEF TextInv
  <2> QED BY <2>1, Sizes DEF TextIsLegible
<1> QED BY <1>1, <1>2, <1>3, PTL DEF TextSpec

\* What stands before the cursor is the line that Enter would execute, over any number of
\* rows and while they scroll, if a redirection that is refused clears the line.
THEOREM LineIsShownHolds ==
  ASSUME LinesFit, LineCleared
  PROVE  TextSpec => []LineIsShown
<1> DEFINE I == TextInv /\ PromptInv
<1>1. TextInit => I
  BY TextStarts
<1>2. I /\ [TextNext]_textVars => I'
  BY TextStep
<1>3. I => LineIsShown
  BY ShownIs DEF TextInv, PromptInv, LineIsShown
<1> QED BY <1>1, <1>2, <1>3, PTL DEF TextSpec

\* At the prompt, when the main task has served what it was asked for, the screen shows
\* the window: the areas that InputKey, Print and Redraw return cover what has changed, if no
\* key moves the last row up.
THEOREM ScreenIsCurrentHolds ==
  ASSUME LinesFit, RowsStay
  PROVE  TextSpec => []ScreenIsCurrent
<1> DEFINE I == TextInv /\ DrawnInv
<1>1. TextInit => I
  BY TextStarts
<1>2. I /\ [TextNext]_textVars => I'
  BY TextStep
<1>3. I => ScreenIsCurrent
  BY DEF DrawnInv, Asked, ScreenIsCurrent
<1> QED BY <1>1, <1>2, <1>3, PTL DEF TextSpec

=============================================================================
