--------------------------- MODULE Messages_proofs ---------------------------
(***************************************************************************)
(* Proofs about messages on their way: the documents in the stream of a     *)
(* socket, for any number of documents, packets and lost connections        *)
(* (Framing); the ids and object paths that are read below an element, for  *)
(* any number of children of any names and texts (Documents); and the ids   *)
(* of live commands, for every MAX_MESSAGE_ID (MessageIds).                 *)
(***************************************************************************)
EXTENDS Framing, Documents, MessageIds, SequenceTheorems, FiniteSetTheorems, TLAPS

-----------------------------------------------------------------------------
(* The documents in the stream of a socket.                                  *)

Pieces == [doc : Docs, part : 1 .. 7]
Has(b, p) == \E i \in 1 .. Len(b) : b[i] = p
Sorted(b) ==
  /\ b \in Seq(Pieces)
  /\ \A i, j \in 1 .. Len(b) : i < j => Position(b[i]) < Position(b[j])

(* The pieces of a document up to p; those that trim() leaves.               *)
UpTo(p) == {q \in Pieces : q.doc = p.doc /\ q.part <= p.part}
Needed(q, cut) == q.part # Blank \/ q.doc \notin cut
Keeps(b, p, cut) == \A q \in UpTo(p) : Needed(q, cut) => Has(b, q)
Unbroken(b, cut) == \A i \in 1 .. Len(b) : Keeps(b, b[i], cut)

(* With a piece the buffer has those of the same document before it.         *)
BufferInv ==
  /\ Sorted(buffer)
  /\ Unbroken(buffer, trimmed)
  /\ \A i \in 1 .. Len(buffer) : Position(buffer[i]) <= at

(* In the middle of a document the buffer has what has arrived of it; and    *)
(* nothing else, if no packet was mistaken.                                  *)
MiddleInv ==
  at % 7 # 0 =>
    /\ Keeps(buffer, Piece(at), trimmed)
    /\ Piece(at).part = Blank - 1 => Piece(at).doc \in trimmed
    /\ Piece(at).doc \notin mistaken =>
         /\ Piece(at).part \notin {1, 6}
         /\ \A i \in 1 .. Len(buffer) : buffer[i].doc = Piece(at).doc

(* What has been delivered is, but for white space that was cut off, what    *)
(* was sent before.                                                          *)
Delivery(s, d, end, cut) ==
  /\ 7 * d <= end
  /\ SameText(s, d) /\ s[1].doc = d
  /\ d \notin cut => s = Content(d)

DeliveredInv ==
  /\ delivered \in Seq(Seq(Pieces))
  /\ \A i \in 1 .. Len(delivered) : \E d \in Docs : Delivery(delivered[i], d, at, trimmed)
  /\ \A i, j \in 1 .. Len(delivered) : i < j => delivered[i][1].doc < delivered[j][1].doc

FramingInv ==
  /\ at \in 0 .. 7 * MaxDocs /\ side \in {"client", "server"}
  /\ received \subseteq Docs /\ mistaken \subseteq Docs /\ trimmed \subseteq Docs
  /\ BufferInv /\ MiddleInv /\ DeliveredInv
  /\ ReceivedIsDelivered

-----------------------------------------------------------------------------
(* Pieces and their places in the stream.                                    *)

LEMMA PieceAt ==
  ASSUME NEW k \in 1 .. 7 * MaxDocs
  PROVE  /\ Piece(k) \in Pieces /\ Piece(k).doc \in 1 .. MaxDocs /\ Piece(k).part \in 1 .. 7
         /\ Piece(k) = [doc |-> Piece(k).doc, part |-> Piece(k).part]
         /\ k = 7 * (Piece(k).doc - 1) + Piece(k).part
  <1>1. /\ Piece(k) = [doc |-> ((k - 1) \div 7) + 1, part |-> ((k - 1) % 7) + 1]
        /\ Piece(k).doc = ((k - 1) \div 7) + 1 /\ Piece(k).part = ((k - 1) % 7) + 1
    BY DEF Piece
  <1>2. /\ ((k - 1) \div 7) + 1 \in 1 .. MaxDocs /\ ((k - 1) % 7) + 1 \in 1 .. 7
        /\ k = 7 * ((((k - 1) \div 7) + 1) - 1) + (((k - 1) % 7) + 1)
    BY DocsAssumption
  <1> QED
    BY <1>1, <1>2 DEF Pieces, Docs

LEMMA PieceFacts ==
  ASSUME NEW k \in 1 .. 7 * MaxDocs
  PROVE  /\ Piece(k) \in Pieces /\ Position(Piece(k)) = k
         /\ Piece(k).part = 7 <=> k % 7 = 0
         /\ Piece(k).part # 7 => Piece(k).part = k % 7
  <1> DEFINE q == (k - 1) \div 7
             r == (k - 1) % 7
  <1>1. /\ MaxDocs \in Nat /\ k \in Nat /\ k - 1 \in Nat
        /\ q \in Nat /\ r \in 0 .. 6 /\ k = 7 * q + r + 1
    BY DocsAssumption
  <1>2. q + 1 \in Docs
    BY <1>1 DEF Docs
  <1>3. (k % 7 = 0 <=> r = 6) /\ (r # 6 => k % 7 = r + 1)
    BY <1>1
  <1>4. Piece(k) = [doc |-> q + 1, part |-> r + 1]
    BY DEF Piece
  <1> HIDE DEF q, r
  <1> QED
    BY <1>1, <1>2, <1>3, <1>4 DEF Pieces, Position

LEMMA PositionFacts ==
  /\ \A p \in Pieces : /\ Position(p) \in 1 .. 7 * MaxDocs
                       /\ Position(p) \in 7 * (p.doc - 1) + 1 .. 7 * p.doc
                       /\ Position(p) % 7 = 0 <=> p.part = 7
                       /\ Piece(Position(p)) = p
  /\ \A p, q \in Pieces : /\ Position(p) = Position(q) => p = q
                          /\ p.doc = q.doc => (Position(p) < Position(q) <=> p.part < q.part)
                          /\ Position(p) <= Position(q) => p.doc <= q.doc
  <1>1. ASSUME NEW p \in Pieces
        PROVE  /\ p.doc \in Docs /\ p.part \in 1 .. 7 /\ p = [doc |-> p.doc, part |-> p.part]
               /\ Position(p) = 7 * (p.doc - 1) + p.part
    BY DEF Pieces, Position
  <1>3. ASSUME NEW p \in Pieces PROVE Piece(Position(p)) = p
    <2>1. PICK d \in Docs, x \in 1 .. 7 : p = [doc |-> d, part |-> x]
      BY <1>1
    <2>2. Position(p) = 7 * (d - 1) + x
      BY <2>1 DEF Position
    <2>3. PICK k : k = Position(p)
      OBVIOUS
    <2>4. (k - 1) \div 7 + 1 = d /\ ((k - 1) % 7) + 1 = x
      BY <2>2, <2>3 DEF Docs
    <2>5. Piece(k) = [doc |-> (k - 1) \div 7 + 1, part |-> ((k - 1) % 7) + 1]
      BY DEF Piece
    <2>6. Piece(k) = p
      BY <2>1, <2>4, <2>5, Zenon
    <2> QED
      BY <2>3, <2>6
  <1>4. ASSUME NEW p \in Pieces, NEW q \in Pieces
        PROVE  /\ p.doc = q.doc => (Position(p) < Position(q) <=> p.part < q.part)
               /\ Position(p) <= Position(q) => p.doc <= q.doc
    BY <1>1, DocsAssumption DEF Docs
  <1>5. ASSUME NEW p \in Pieces
        PROVE  /\ Position(p) \in 1 .. 7 * MaxDocs
               /\ Position(p) \in 7 * (p.doc - 1) + 1 .. 7 * p.doc
               /\ Position(p) % 7 = 0 <=> p.part = 7
    <2>1. PICK d \in Docs, x \in 1 .. 7 : p = [doc |-> d, part |-> x]
      BY <1>1
    <2>2. Position(p) = 7 * (d - 1) + x /\ p.doc = d /\ p.part = x
      BY <2>1 DEF Position
    <2>3. /\ Position(p) \in 1 .. 7 * MaxDocs
          /\ Position(p) \in 7 * (p.doc - 1) + 1 .. 7 * p.doc
      BY <2>2, DocsAssumption DEF Docs
    <2>4. Position(p) % 7 = 0 <=> p.part = 7
      BY <2>2 DEF Docs
    <2> QED
      BY <2>3, <2>4
  <1>6. ASSUME NEW p \in Pieces, NEW q \in Pieces, Position(p) = Position(q) PROVE p = q
    BY <1>3, <1>6
  <1> QED
    BY <1>3, <1>4, <1>5, <1>6

(* m pieces of the stream, after the first x of it.                          *)
Run(x, m) == [i \in 1 .. m |-> Piece(x + i)]

LEMMA RunIsSeq ==
  ASSUME NEW x \in Nat, NEW m \in Nat, x + m <= 7 * MaxDocs
  PROVE  /\ Run(x, m) \in Seq(Pieces) /\ Len(Run(x, m)) = m
         /\ \A i \in 1 .. m : /\ Run(x, m)[i] = Piece(x + i)
                              /\ Run(x, m)[i] \in Pieces /\ Position(Run(x, m)[i]) = x + i
  <1>1. \A i \in 1 .. m : x + i \in 1 .. 7 * MaxDocs
    BY DocsAssumption
  <1> QED
    BY <1>1, PieceFacts DEF Run

LEMMA RunFacts ==
  ASSUME NEW x \in Nat, NEW m \in Nat, x + m <= 7 * MaxDocs
  PROVE  /\ Run(x, m) \in Seq(Pieces) /\ Len(Run(x, m)) = m
         /\ \A i \in 1 .. m : /\ Run(x, m)[i] = Piece(x + i)
                              /\ Run(x, m)[i] \in Pieces /\ Position(Run(x, m)[i]) = x + i
         /\ Run(x, m) = <<>> <=> m = 0
         /\ m # 0 => /\ Head(Run(x, m)) = Piece(x + 1)
                     /\ Tail(Run(x, m)) = Run(x + 1, m - 1)
                     /\ SubSeq(Run(x, m), 1, m - 1) = Run(x, m - 1)
  <1>2. /\ Run(x, m) \in Seq(Pieces) /\ Len(Run(x, m)) = m
        /\ \A i \in 1 .. m : /\ Run(x, m)[i] = Piece(x + i)
                             /\ Run(x, m)[i] \in Pieces /\ Position(Run(x, m)[i]) = x + i
    BY RunIsSeq
  <1>3. Run(x, m) = <<>> <=> m = 0
    BY <1>2, EmptySeq
  <1>4. ASSUME m # 0
        PROVE  /\ Head(Run(x, m)) = Piece(x + 1)
               /\ Tail(Run(x, m)) = Run(x + 1, m - 1)
               /\ SubSeq(Run(x, m), 1, m - 1) = Run(x, m - 1)
    <2>1. Run(x, m) # <<>> /\ m - 1 \in Nat /\ 1 \in 1 .. m
      BY <1>3, <1>4
    <2>2. Head(Run(x, m)) = Piece(x + 1)
      BY <1>2, <2>1
    <2>3. /\ Tail(Run(x, m)) \in Seq(Pieces) /\ Len(Tail(Run(x, m))) = m - 1
          /\ \A i \in 1 .. m - 1 : Tail(Run(x, m))[i] = Run(x, m)[i + 1]
      BY <1>2, <2>1, HeadTailProperties
    <2>4. \A i \in 1 .. m - 1 : Tail(Run(x, m))[i] = Piece((x + 1) + i)
      <3> SUFFICES ASSUME NEW i \in 1 .. m - 1 PROVE Run(x, m)[i + 1] = Piece((x + 1) + i)
        BY <2>3
      <3>1. i + 1 \in 1 .. m /\ x + (i + 1) = (x + 1) + i
        BY <2>1
      <3> QED
        BY <1>2, <3>1
    <2>6. /\ Run(x + 1, m - 1) \in Seq(Pieces) /\ Len(Run(x + 1, m - 1)) = m - 1
          /\ \A i \in 1 .. m - 1 : Run(x + 1, m - 1)[i] = Piece((x + 1) + i)
      <3>1. x + 1 \in Nat /\ (x + 1) + (m - 1) <= 7 * MaxDocs
        BY <2>1, DocsAssumption
      <3> QED
        BY <2>1, <3>1, RunIsSeq
    <2>7. Tail(Run(x, m)) = Run(x + 1, m - 1)
      BY <2>3, <2>4, <2>6, SeqEqual
    <2>8. /\ SubSeq(Run(x, m), 1, m - 1) \in Seq(Pieces)
          /\ Len(SubSeq(Run(x, m), 1, m - 1)) = m - 1
          /\ \A i \in 1 .. m - 1 : SubSeq(Run(x, m), 1, m - 1)[i] = Run(x, m)[i]
      <3> DEFINE t == SubSeq(Run(x, m), 1, m - 1)
      <3>1. 1 \in 1 .. Len(Run(x, m)) + 1 /\ m - 1 \in 0 .. Len(Run(x, m))
        BY <1>2, <2>1
      <3>2. /\ t \in Seq(Pieces)
            /\ Len(t) = IF 1 <= m - 1 THEN (m - 1) - 1 + 1 ELSE 0
            /\ \A i \in 1 .. (m - 1) - 1 + 1 : t[i] = Run(x, m)[1 + i - 1]
        BY <1>2, <3>1, SubSeqProperties
      <3> HIDE DEF t
      <3>3. Len(t) = m - 1 /\ \A i \in 1 .. m - 1 : t[i] = Run(x, m)[i]
        BY <2>1, <3>2
      <3> QED
        BY <3>2, <3>3 DEF t
    <2>9. /\ Run(x, m - 1) \in Seq(Pieces) /\ Len(Run(x, m - 1)) = m - 1
          /\ \A i \in 1 .. m - 1 : Run(x, m - 1)[i] = Piece(x + i)
      <3>1. x + (m - 1) <= 7 * MaxDocs
        BY <2>1, DocsAssumption
      <3> QED
        BY <2>1, <3>1, RunIsSeq
    <2>12. \A i \in 1 .. m - 1 : i \in 1 .. m
      BY <2>1
    <2>10. \A i \in 1 .. m - 1 : SubSeq(Run(x, m), 1, m - 1)[i] = Run(x, m - 1)[i]
      BY <1>2, <2>8, <2>9, <2>12
    <2>11. SubSeq(Run(x, m), 1, m - 1) = Run(x, m - 1)
      BY <2>8, <2>9, <2>10, SeqEqual
    <2> QED
      BY <2>2, <2>7, <2>11
  <1> QED
    BY <1>2, <1>3, <1>4

(* trim() leaves a part of the stream: at most a blank at each end is gone.  *)
LEMMA TrimIsRun ==
  ASSUME NEW x \in Nat, NEW n \in Nat \ {0}, x + n <= 7 * MaxDocs
  PROVE  \E lo \in {x, x + 1}, m \in Nat :
           /\ Trim(Run(x, n)) = Run(lo, m)
           /\ lo + m \in {x + n - 1, x + n}
           /\ lo = x + 1 => Piece(x + 1).part = Blank
           /\ lo + m = x + n - 1 => Piece(x + n).part = Blank
  <1>1. \E lo \in {x, x + 1}, m \in Nat :
          /\ TrimStart(Run(x, n)) = Run(lo, m) /\ lo + m = x + n
          /\ lo = x + 1 => Piece(x + 1).part = Blank
    <2>1. /\ Run(x, n) # <<>> /\ Head(Run(x, n)) = Piece(x + 1)
          /\ Tail(Run(x, n)) = Run(x + 1, n - 1)
      BY RunFacts
    <2>2. CASE Piece(x + 1).part = Blank
      <3>1. TrimStart(Run(x, n)) = Run(x + 1, n - 1)
        BY <2>1, <2>2 DEF TrimStart, IsBlank
      <3>2. n - 1 \in Nat /\ (x + 1) + (n - 1) = x + n /\ x + 1 \in {x, x + 1}
        OBVIOUS
      <3> QED
        BY <2>2, <3>1, <3>2
    <2>3. CASE Piece(x + 1).part # Blank
      <3>1. TrimStart(Run(x, n)) = Run(x, n)
        BY <2>1, <2>3 DEF TrimStart, IsBlank
      <3>2. x # x + 1 /\ n \in Nat
        OBVIOUS
      <3> QED
        BY <3>1, <3>2
    <2> QED
      BY <2>2, <2>3
  <1>2. PICK lo \in {x, x + 1}, m \in Nat :
          /\ TrimStart(Run(x, n)) = Run(lo, m) /\ lo + m = x + n
          /\ lo = x + 1 => Piece(x + 1).part = Blank
    BY <1>1
  <1>3. lo \in Nat /\ lo + m <= 7 * MaxDocs
    BY <1>2, DocsAssumption
  <1>4. Trim(Run(x, n)) = TrimEnd(Run(lo, m))
    BY <1>2 DEF Trim
  <1>5. CASE m # 0 /\ Piece(x + n).part = Blank
    <2>1. /\ Run(lo, m) # <<>> /\ Len(Run(lo, m)) = m /\ Run(lo, m)[m] = Piece(lo + m)
          /\ SubSeq(Run(lo, m), 1, m - 1) = Run(lo, m - 1)
      <3>1. m \in 1 .. m
        BY <1>5
      <3> QED
        BY <1>3, <1>5, <3>1, RunFacts
    <2>2. TrimEnd(Run(lo, m)) = Run(lo, m - 1)
      BY <1>2, <1>5, <2>1 DEF TrimEnd, IsBlank
    <2>3. m - 1 \in Nat /\ lo + (m - 1) = x + n - 1
      BY <1>2, <1>3, <1>5
    <2> QED
      BY <1>2, <1>4, <1>5, <2>2, <2>3
  <1>6. CASE ~(m # 0 /\ Piece(x + n).part = Blank)
    <2>1. /\ Run(lo, m) = <<>> <=> m = 0
          /\ Len(Run(lo, m)) = m
          /\ m # 0 => Run(lo, m)[m] = Piece(lo + m)
      <3>1. m # 0 => m \in 1 .. m
        OBVIOUS
      <3> QED
        BY <1>3, <3>1, RunFacts
    <2>2. TrimEnd(Run(lo, m)) = Run(lo, m)
      BY <1>2, <1>6, <2>1 DEF TrimEnd, IsBlank
    <2>3. lo + m # x + n - 1
      BY <1>2, <1>3
    <2> QED
      BY <1>2, <1>4, <2>2, <2>3
  <1> QED
    BY <1>5, <1>6

LEMMA RunEnds ==
  ASSUME NEW x \in Nat, NEW m \in Nat, x + m <= 7 * MaxDocs
  PROVE  /\ Begins(Run(x, m)) <=> m >= 2 /\ Piece(x + 1).part = 1
         /\ Ends(Run(x, m)) <=> m >= 2 /\ Piece(x + m).part = 7
  <1>1. Len(Run(x, m)) = m /\ \A i \in 1 .. m : Run(x, m)[i] = Piece(x + i)
    BY RunIsSeq
  <1>2. CASE m < 2
    BY <1>1, <1>2 DEF Begins, Ends
  <1>3. CASE m >= 2
    <2>1. /\ 1 \in 1 .. m /\ 2 \in 1 .. m /\ m - 1 \in 1 .. m /\ m \in 1 .. m
          /\ x + 1 \in 1 .. 7 * MaxDocs /\ x + 2 \in 1 .. 7 * MaxDocs
          /\ x + (m - 1) \in 1 .. 7 * MaxDocs /\ x + m \in 1 .. 7 * MaxDocs
      BY <1>3, DocsAssumption
    <2>2. /\ Begins(Run(x, m)) <=> Piece(x + 1).part = 1 /\ Piece(x + 2).part = 2
          /\ Ends(Run(x, m)) <=> Piece(x + (m - 1)).part = 6 /\ Piece(x + m).part = 7
      BY <1>1, <1>3, <2>1 DEF Begins, Ends
    <2>3. Piece(x + 1).part = 1 => Piece(x + 2).part = 2
      BY <2>1, PieceAt
    <2>4. Piece(x + m).part = 7 => Piece(x + (m - 1)).part = 6
      BY <2>1, PieceAt
    <2> QED
      BY <1>3, <2>2, <2>3, <2>4
  <1> QED
    BY <1>2, <1>3

LEMMA HasRun ==
  ASSUME NEW x \in Nat, NEW m \in Nat, x + m <= 7 * MaxDocs, NEW q \in Pieces
  PROVE  Has(Run(x, m), q) <=> Position(q) \in x + 1 .. x + m
  <1>1. Len(Run(x, m)) = m /\ \A i \in 1 .. m : Run(x, m)[i] = Piece(x + i) /\ Position(Run(x, m)[i]) = x + i
    BY RunIsSeq
  <1>2. ASSUME Has(Run(x, m), q) PROVE Position(q) \in x + 1 .. x + m
    BY <1>1, <1>2 DEF Has
  <1>3. ASSUME Position(q) \in x + 1 .. x + m PROVE Has(Run(x, m), q)
    <2>1. PICK i \in 1 .. m : Position(q) = x + i
      BY <1>3
    <2>2. Piece(x + i) = q
      BY <2>1, PositionFacts
    <2> QED
      BY <1>1, <2>2 DEF Has
  <1> QED
    BY <1>2, <1>3

-----------------------------------------------------------------------------
(* Parts of the stream in their order.                                       *)

LEMMA RunSorted ==
  ASSUME NEW x \in Nat, NEW m \in Nat, x + m <= 7 * MaxDocs
  PROVE  Sorted(Run(x, m))
  BY RunIsSeq DEF Sorted

(* What the buffer and a later part of the stream are together.              *)
LEMMA Joined ==
  ASSUME NEW b, Sorted(b), NEW e \in Nat, \A i \in 1 .. Len(b) : Position(b[i]) <= e,
         NEW x \in Nat, x >= e, NEW m \in Nat, x + m <= 7 * MaxDocs
  PROVE  /\ Sorted(b \o Run(x, m))
         /\ \A q \in Pieces : Has(b \o Run(x, m), q) <=> Has(b, q) \/ Has(Run(x, m), q)
  <1>1. /\ b \in Seq(Pieces) /\ Len(b) \in Nat
        /\ \A i \in 1 .. Len(b) : b[i] \in Pieces /\ Position(b[i]) <= e
        /\ \A i, j \in 1 .. Len(b) : i < j => Position(b[i]) < Position(b[j])
    BY DEF Sorted
  <1>2. PICK r : r = Run(x, m)
    OBVIOUS
  <1>3. /\ r \in Seq(Pieces) /\ Len(r) = m
        /\ \A i \in 1 .. m : r[i] \in Pieces /\ Position(r[i]) = x + i
    BY <1>2, RunIsSeq
  <1>4. /\ b \o r \in Seq(Pieces) /\ Len(b \o r) = Len(b) + m
        /\ \A i \in 1 .. Len(b) : (b \o r)[i] = b[i]
        /\ \A i \in 1 .. m : (b \o r)[Len(b) + i] = r[i]
    <2>1. /\ b \o r \in Seq(Pieces) /\ Len(b \o r) = Len(b) + Len(r)
          /\ \A i \in 1 .. Len(b) + Len(r) :
               (b \o r)[i] = IF i <= Len(b) THEN b[i] ELSE r[i - Len(b)]
      BY <1>1, <1>3, ConcatProperties
    <2>2. \A i \in 1 .. Len(b) : (b \o r)[i] = b[i]
      BY <1>1, <1>3, <2>1
    <2>3. ASSUME NEW i \in 1 .. m PROVE (b \o r)[Len(b) + i] = r[i]
      <3>1. Len(b) + i \in 1 .. Len(b) + Len(r) /\ ~(Len(b) + i <= Len(b)) /\ (Len(b) + i) - Len(b) = i
        BY <1>1, <1>3
      <3>2. (b \o r)[Len(b) + i] = r[(Len(b) + i) - Len(b)]
        BY <2>1, <3>1
      <3> QED
        BY <3>1, <3>2
    <2> QED
      BY <1>3, <2>1, <2>2, <2>3
  <1>5. PICK t : t = b \o r
    OBVIOUS
  <1>6. /\ t \in Seq(Pieces) /\ Len(t) = Len(b) + m
        /\ \A i \in 1 .. Len(b) : t[i] = b[i]
        /\ \A i \in 1 .. m : t[Len(b) + i] = r[i]
    BY <1>4, <1>5
  <1>7. ASSUME NEW i \in 1 .. Len(t)
        PROVE  \/ i \in 1 .. Len(b) /\ t[i] = b[i]
               \/ i - Len(b) \in 1 .. m /\ t[i] = r[i - Len(b)] /\ Position(t[i]) = x + (i - Len(b))
    <2>1. CASE i \in 1 .. Len(b)
      BY <1>6, <2>1
    <2>2. CASE i \notin 1 .. Len(b)
      <3>1. i - Len(b) \in 1 .. m /\ i = Len(b) + (i - Len(b))
        BY <1>1, <1>6, <2>2
      <3> QED
        BY <1>3, <1>6, <3>1
    <2> QED
      BY <2>1, <2>2
  <1>8. ASSUME NEW i \in 1 .. Len(t), NEW j \in 1 .. Len(t), i < j
        PROVE  Position(t[i]) < Position(t[j])
    <2>1. CASE j \in 1 .. Len(b)
      BY <1>1, <1>6, <1>8, <2>1
    <2>2. CASE j \notin 1 .. Len(b)
      <3>1. j - Len(b) \in 1 .. m /\ Position(t[j]) = x + (j - Len(b))
        BY <1>7, <2>2
      <3>2. CASE i \in 1 .. Len(b)
        <4>1. Position(t[i]) <= e
          BY <1>1, <1>6, <3>2
        <4>2. Position(t[i]) \in Int
          BY <1>1, <1>6, <3>2, PositionFacts
        <4> QED
          BY <3>1, <4>1, <4>2
      <3>3. CASE i \notin 1 .. Len(b)
        <4>1. Position(t[i]) = x + (i - Len(b))
          BY <1>7, <3>3
        <4> QED
          BY <1>1, <1>6, <1>8, <3>1, <4>1
      <3> QED
        BY <3>2, <3>3
    <2> QED
      BY <2>1, <2>2
  <1>9. ASSUME NEW q \in Pieces PROVE Has(t, q) <=> Has(b, q) \/ Has(r, q)
    <2>1. ASSUME Has(t, q) PROVE Has(b, q) \/ Has(r, q)
      <3>1. PICK i \in 1 .. Len(t) : t[i] = q
        BY <2>1 DEF Has
      <3> QED
        BY <1>3, <1>7, <3>1 DEF Has
    <2>2. ASSUME Has(b, q) PROVE Has(t, q)
      <3>1. PICK i \in 1 .. Len(b) : b[i] = q
        BY <2>2 DEF Has
      <3>2. i \in 1 .. Len(t)
        BY <1>1, <1>6
      <3> QED
        BY <1>6, <3>1, <3>2 DEF Has
    <2>3. ASSUME Has(r, q) PROVE Has(t, q)
      <3>1. PICK i \in 1 .. m : r[i] = q
        BY <1>3, <2>3 DEF Has
      <3>2. Len(b) + i \in 1 .. Len(t)
        BY <1>1, <1>6
      <3> QED
        BY <1>6, <3>1, <3>2 DEF Has
    <2> QED
      BY <2>1, <2>2, <2>3
  <1> QED
    BY <1>2, <1>5, <1>6, <1>8, <1>9 DEF Sorted

-----------------------------------------------------------------------------
(* The forms in which a document is whole.                                   *)
Of(d, x) == [doc |-> d, part |-> x]

LEMMA PiecesShape ==
  ASSUME NEW p \in Pieces
  PROVE  p.doc \in Docs /\ p.part \in 1 .. 7 /\ p = Of(p.doc, p.part)
  BY DEF Pieces, Of

LEMMA Forms ==
  ASSUME NEW d \in Docs
  PROVE  /\ Content(d) \in Seq(Pieces) /\ Len(Content(d)) = 7
         /\ \A i \in 1 .. 7 : Content(d)[i] = Of(d, i)
         /\ Unspaced(d) \in Seq(Pieces) /\ Len(Unspaced(d)) = 6
         /\ \A i \in 1 .. 6 : Unspaced(d)[i] = Of(d, IF i < Blank THEN i ELSE i + 1)
         /\ \A x \in 1 .. 7 : Of(d, x) \in Pieces /\ Of(d, x).doc = d /\ Of(d, x).part = x
  BY DEF Content, Unspaced, Pieces, Of, Blank

LEMMA FormsAreDocuments ==
  ASSUME NEW d \in Docs, NEW s, SameText(s, d)
  PROVE  /\ IsDocument(s) /\ s # <<>> /\ s[1].doc = d
         /\ \A i \in 1 .. Len(s) : s[i].doc = d
  <1>1. CASE s = Content(d)
    <2>1. Len(s) = 7 /\ \A i \in 1 .. 7 : s[i].doc = d /\ s[i].part = i
      BY <1>1, Forms
    <2>2. IsDocument(s)
      BY <2>1 DEF IsDocument, Begins, Ends, Texts, Blank
    <2> QED
      BY <1>1, <2>1, <2>2, Forms
  <1>2. CASE s = Unspaced(d)
    <2>1. Len(s) = 6 /\ \A i \in 1 .. 6 : s[i].doc = d /\ s[i].part = IF i < 4 THEN i ELSE i + 1
      BY <1>2, Forms DEF Blank
    <2>2. IsDocument(s)
      BY <2>1 DEF IsDocument, Begins, Ends, Texts, Blank
    <2> QED
      BY <1>2, <2>1, <2>2, Forms
  <1> QED
    BY <1>1, <1>2 DEF SameText

(* Pieces of one document in their order, with all of it but perhaps the     *)
(* white space.                                                              *)
LEMMA WholeDocument ==
  ASSUME NEW s, Sorted(s), NEW d \in Docs, \A i \in 1 .. Len(s) : s[i].doc = d,
         \A x \in 1 .. 7 : x # Blank => Has(s, Of(d, x))
  PROVE  SameText(s, d) /\ (Has(s, Of(d, Blank)) => s = Content(d))
  <1>1. /\ s \in Seq(Pieces) /\ Len(s) \in Nat
        /\ \A i \in 1 .. Len(s) : /\ s[i] \in Pieces /\ s[i].doc = d /\ s[i].part \in 1 .. 7
                                  /\ s[i] = Of(d, s[i].part)
    <2>1. s \in Seq(Pieces) /\ Len(s) \in Nat /\ \A i \in 1 .. Len(s) : s[i] \in Pieces
      BY DEF Sorted
    <2>2. ASSUME NEW i \in 1 .. Len(s)
          PROVE  s[i].part \in 1 .. 7 /\ s[i] = Of(d, s[i].part)
      <3>1. s[i] \in Pieces /\ s[i].doc = d
        BY <2>1
      <3> QED
        BY <3>1, PiecesShape
    <2> QED
      BY <2>1, <2>2
  <1>2. ASSUME NEW i \in 1 .. Len(s), NEW j \in 1 .. Len(s), i < j
        PROVE  s[i].part < s[j].part
    BY <1>1, <1>2, PositionFacts DEF Sorted
  <1>3. /\ \E i \in 1 .. Len(s) : s[i].part = 1
        /\ \E i \in 1 .. Len(s) : s[i].part = 2
        /\ \E i \in 1 .. Len(s) : s[i].part = 3
        /\ \E i \in 1 .. Len(s) : s[i].part = 5
        /\ \E i \in 1 .. Len(s) : s[i].part = 6
        /\ \E i \in 1 .. Len(s) : s[i].part = 7
    <2>1. ASSUME NEW x \in 1 .. 7, Has(s, Of(d, x)) PROVE \E i \in 1 .. Len(s) : s[i].part = x
      BY <2>1 DEF Has, Of
    <2>2. /\ Has(s, Of(d, 1)) /\ Has(s, Of(d, 2)) /\ Has(s, Of(d, 3))
          /\ Has(s, Of(d, 5)) /\ Has(s, Of(d, 6)) /\ Has(s, Of(d, 7))
      BY DEF Blank
    <2> QED
      BY <2>1, <2>2
  <1>12. PICK n \in Nat : n = Len(s)
    BY <1>1
  <1>4. PICK p \in [1 .. n -> 1 .. 7] : n = Len(s) /\ \A i \in 1 .. n : p[i] = s[i].part
    <2>1. [i \in 1 .. Len(s) |-> s[i].part] \in [1 .. Len(s) -> 1 .. 7]
      BY <1>1
    <2> QED
      BY <1>12, <2>1
  <1>5. \A i, j \in 1 .. n : i < j => p[i] < p[j]
    BY <1>2, <1>4
  <1>6. PICK a \in 1 .. n, b \in 1 .. n, c \in 1 .. n, e \in 1 .. n, f \in 1 .. n, g \in 1 .. n :
          p[a] = 1 /\ p[b] = 2 /\ p[c] = 3 /\ p[e] = 5 /\ p[f] = 6 /\ p[g] = 7
    BY <1>3, <1>4
  <1>7. a = 1
    BY <1>5, <1>6
  <1>8. b = 2 /\ c = 3
    <2>1. a < b /\ b < c
      BY <1>5, <1>6
    <2>2. a + 1 \in 1 .. n /\ b + 1 \in 1 .. n
      BY <2>1
    <2>3. b = a + 1
      BY <1>5, <1>6, <2>1, <2>2
    <2>4. c = b + 1
      BY <1>5, <1>6, <2>1, <2>2
    <2> QED
      BY <1>7, <2>3, <2>4
  <1>9. f = e + 1 /\ g = f + 1 /\ n = g /\ c < e
    <2>1. e < f /\ f < g /\ c < e
      BY <1>5, <1>6
    <2>2. e + 1 \in 1 .. n /\ f + 1 \in 1 .. n /\ n \in 1 .. n
      BY <2>1
    <2>3. f = e + 1
      BY <1>5, <1>6, <2>1, <2>2
    <2>4. g = f + 1
      BY <1>5, <1>6, <2>1, <2>2
    <2>5. n = g
      BY <1>5, <1>6, <2>2
    <2> QED
      BY <2>1, <2>3, <2>4, <2>5
  <1>10. CASE e = 4
    <2>1. n = 6 /\ p[1] = 1 /\ p[2] = 2 /\ p[3] = 3 /\ p[4] = 5 /\ p[5] = 6 /\ p[6] = 7
      BY <1>6, <1>7, <1>8, <1>9, <1>10
    <2>2. \A i \in 1 .. 6 : s[i] = Of(d, IF i < Blank THEN i ELSE i + 1)
      BY <1>1, <1>4, <2>1 DEF Blank
    <2>3. s = Unspaced(d)
      <3>1. Len(s) = Len(Unspaced(d)) /\ \A i \in 1 .. Len(s) : s[i] = Unspaced(d)[i]
        BY <1>4, <2>1, <2>2, Forms
      <3>2. Unspaced(d) \in Seq(Pieces)
        BY Forms
      <3> QED
        BY <1>1, <3>1, <3>2, SeqEqual
    <2>4. ~Has(s, Of(d, Blank))
      BY <1>4, <2>1 DEF Has, Of, Blank
    <2> QED
      BY <2>3, <2>4 DEF SameText
  <1>11. CASE e # 4
    <2>1. 4 \in 1 .. n /\ 3 < 4 /\ 4 < e
      BY <1>8, <1>9, <1>11
    <2>2. p[4] = 4
      BY <1>5, <1>6, <1>8, <2>1
    <2>3. e = 5
      <3>1. 5 \in 1 .. n
        BY <2>1
      <3> QED
        BY <1>5, <1>6, <2>1, <2>2, <3>1
    <2>4. /\ n = 7 /\ p[1] = 1 /\ p[2] = 2 /\ p[3] = 3 /\ p[4] = 4
          /\ p[5] = 5 /\ p[6] = 6 /\ p[7] = 7
      BY <1>6, <1>7, <1>8, <1>9, <2>2, <2>3
    <2>5. \A i \in 1 .. 7 : s[i] = Of(d, i)
      BY <1>1, <1>4, <2>4
    <2>6. s = Content(d)
      <3>1. Len(s) = Len(Content(d)) /\ \A i \in 1 .. Len(s) : s[i] = Content(d)[i]
        BY <1>4, <2>4, <2>5, Forms
      <3>2. Content(d) \in Seq(Pieces)
        BY Forms
      <3> QED
        BY <1>1, <3>1, <3>2, SeqEqual
    <2> QED
      BY <2>6 DEF SameText
  <1> QED
    BY <1>10, <1>11

(* With the end of a document everything that is needed of it.               *)
LEMMA EndedDocument ==
  ASSUME NEW s, Sorted(s), NEW cut, NEW d \in Docs, \A i \in 1 .. Len(s) : s[i].doc = d,
         Len(s) > 0, s[Len(s)] = Of(d, 7), Unbroken(s, cut)
  PROVE  SameText(s, d) /\ (d \notin cut => s = Content(d))
  <1>1. Len(s) \in 1 .. Len(s)
    BY DEF Sorted
  <1>2. Keeps(s, Of(d, 7), cut)
    BY <1>1 DEF Unbroken
  <1>3. ASSUME NEW x \in 1 .. 7, x # Blank \/ d \notin cut PROVE Has(s, Of(d, x))
    <2>1. Of(d, x) \in UpTo(Of(d, 7)) /\ Needed(Of(d, x), cut)
      <3>1. /\ Of(d, x) \in Pieces /\ Of(d, x).doc = d /\ Of(d, x).part = x
            /\ Of(d, 7).doc = d /\ Of(d, 7).part = 7
        BY Forms
      <3> QED
        BY <1>3, <3>1 DEF UpTo, Needed
    <2> QED
      BY <1>2, <2>1 DEF Keeps
  <1>4. Blank \in 1 .. 7
    BY DEF Blank
  <1> QED
    BY <1>3, <1>4, WholeDocument

(* What the parser takes for one document is one.                            *)
LEMMA ParsedDocument ==
  ASSUME NEW s, Sorted(s), NEW cut, Unbroken(s, cut), IsDocument(s)
  PROVE  /\ s[Len(s)].doc \in Docs /\ s[Len(s)] = Of(s[Len(s)].doc, 7)
         /\ s[1].doc = s[Len(s)].doc
         /\ SameText(s, s[Len(s)].doc)
         /\ s[Len(s)].doc \notin cut => s = Content(s[Len(s)].doc)
  <1>1. /\ s \in Seq(Pieces) /\ Len(s) \in Nat /\ Len(s) >= 4
        /\ \A i \in 1 .. Len(s) : s[i] \in Pieces
        /\ s[2].part = 2 /\ s[Len(s) - 1].part = 6 /\ s[Len(s)].part = 7
        /\ \A i \in 3 .. Len(s) - 2 : s[i].part \in Texts
    BY DEF Sorted, IsDocument, Begins, Ends
  <1>2. PICK n \in Nat : n = Len(s)
    BY <1>1
  <1>3. PICK d \in Docs : s[n].doc = d /\ s[n] = Of(d, 7)
    <2>1. n \in 1 .. n
      BY <1>1, <1>2
    <2> QED
      BY <1>1, <1>2, <2>1 DEF Pieces, Of
  <1>4. Has(s, Of(d, 1))
    <2>1. Keeps(s, Of(d, 7), cut)
      <3>1. n \in 1 .. n
        BY <1>1, <1>2
      <3> QED
        BY <1>2, <1>3, <3>1 DEF Unbroken
    <2>2. Of(d, 1) \in UpTo(Of(d, 7)) /\ Needed(Of(d, 1), cut)
      <3>1. /\ Of(d, 1) \in Pieces /\ Of(d, 1).doc = d /\ Of(d, 1).part = 1
            /\ Of(d, 7).doc = d /\ Of(d, 7).part = 7
        BY Forms
      <3> QED
        BY <3>1 DEF UpTo, Needed, Blank
    <2> QED
      BY <2>1, <2>2 DEF Keeps
  <1>5. s[1] = Of(d, 1)
    <2>1. PICK i \in 1 .. n : s[i] = Of(d, 1)
      BY <1>2, <1>4 DEF Has
    <2>2. s[i].part = 1
      BY <2>1, Forms
    <2>3. i = 1
      <3>1. i = 1 \/ i = 2 \/ i \in 3 .. n - 2 \/ i = n - 1 \/ i = n
        BY <1>1, <1>2
      <3> QED
        BY <1>1, <1>2, <2>2, <3>1 DEF Texts, Blank
    <2> QED
      BY <2>1, <2>3
  <1>6. ASSUME NEW i \in 1 .. n PROVE s[i].doc = d
    <2>1. 1 \in 1 .. n /\ n \in 1 .. n
      BY <1>1, <1>2
    <2>2. Position(s[1]) <= Position(s[i]) /\ Position(s[i]) <= Position(s[n])
      <3>1. /\ i = 1 \/ 1 < i
            /\ i = n \/ i < n
        BY <1>2
      <3>2. Position(s[1]) \in Int /\ Position(s[i]) \in Int /\ Position(s[n]) \in Int
        BY <1>1, <1>2, <2>1, PositionFacts
      <3> QED
        BY <1>2, <2>1, <3>1, <3>2 DEF Sorted
    <2>3. s[1].doc = d /\ s[n].doc = d
      BY <1>3, <1>5, Forms
    <2>4. s[1].doc <= s[i].doc /\ s[i].doc <= s[n].doc /\ s[i].doc \in Docs
      <3>1. s[1] \in Pieces /\ s[i] \in Pieces /\ s[n] \in Pieces
        BY <1>1, <1>2, <2>1
      <3> QED
        BY <2>2, <3>1, PositionFacts DEF Pieces
    <2> QED
      BY <2>3, <2>4, DocsAssumption DEF Docs
  <1>7. SameText(s, d) /\ (d \notin cut => s = Content(d))
    <2>1. /\ \A i \in 1 .. Len(s) : s[i].doc = d
          /\ Len(s) > 0 /\ s[Len(s)] = Of(d, 7)
      BY <1>1, <1>2, <1>3, <1>6
    <2> QED
      BY <2>1, EndedDocument
  <1> QED
    BY <1>2, <1>3, <1>5, <1>7, Forms

-----------------------------------------------------------------------------
(* A packet that arrives.                                                    *)

LEMMA Neighbours ==
  ASSUME NEW k \in Nat, k + 1 <= 7 * MaxDocs
  PROVE  /\ Piece(k + 1).part = (k % 7) + 1
         /\ k % 7 # 0 => /\ k \in 1 .. 7 * MaxDocs /\ Piece(k).part = k % 7
                         /\ Piece(k).doc = Piece(k + 1).doc
  <1>1. PICK r \in 0 .. 6, q \in Nat : k = 7 * q + r /\ k % 7 = r
    <2>1. k % 7 \in 0 .. 6 /\ k \div 7 \in Nat /\ k = 7 * (k \div 7) + (k % 7)
      OBVIOUS
    <2> QED
      BY <2>1
  <1>2. k + 1 \in 1 .. 7 * MaxDocs
    BY DocsAssumption
  <1>3. Piece(k + 1).part = r + 1 /\ Piece(k + 1).doc = q + 1
    <2>1. PICK d \in 1 .. MaxDocs, x \in 1 .. 7 :
            Piece(k + 1).doc = d /\ Piece(k + 1).part = x /\ k + 1 = 7 * (d - 1) + x
      BY <1>2, PieceAt
    <2>2. x = r + 1 /\ d = q + 1
      BY <1>1, <2>1, DocsAssumption
    <2> QED
      BY <2>1, <2>2
  <1>4. ASSUME r # 0
        PROVE  k \in 1 .. 7 * MaxDocs /\ Piece(k).part = r /\ Piece(k).doc = q + 1
    <2>1. k \in 1 .. 7 * MaxDocs
      BY <1>1, <1>2, <1>4, DocsAssumption
    <2>2. PICK d \in 1 .. MaxDocs, x \in 1 .. 7 :
            Piece(k).doc = d /\ Piece(k).part = x /\ k = 7 * (d - 1) + x
      BY <2>1, PieceAt
    <2>3. x = r /\ d = q + 1
      BY <1>1, <1>4, <2>2, DocsAssumption
    <2> QED
      BY <2>1, <2>2, <2>3
  <1> QED
    BY <1>1, <1>3, <1>4

(* What is in the buffer, and the packet without the white space at its ends.*)
Joins(s, t, n) ==
  /\ n \in Nat \ {0} /\ at + n <= 7 * MaxDocs
  /\ s = Trim(Run(at, n))
  /\ t = IF Begins(s) THEN s ELSE buffer \o s

(* The packet may lose a blank at its end only if that is known of its       *)
(* document.                                                                 *)
Cuts(n, cut) ==
  /\ trimmed \subseteq cut
  /\ Piece(at + n).part \in {Blank - 1, Blank} => Piece(at + n).doc \in cut

LEMMA JoinsFacts ==
  ASSUME FramingInv, NEW n, NEW s, NEW t, Joins(s, t, n)
  PROVE  \E lo \in {at, at + 1}, m \in Nat :
           /\ lo \in Nat /\ lo + m <= 7 * MaxDocs /\ s = Run(lo, m)
           /\ lo + m \in {at + n - 1, at + n}
           /\ lo = at + 1 => Piece(at + 1).part = Blank
           /\ lo + m = at + n - 1 => Piece(at + n).part = Blank
           /\ Begins(s) <=> m >= 2 /\ Piece(lo + 1).part = 1
           /\ Begins(s) => at % 7 = 0
           /\ Ends(s) <=> m >= 2 /\ Piece(lo + m).part = 7
           /\ Ends(s) => lo + m = at + n
           /\ Sorted(t) /\ \A i \in 1 .. Len(t) : Position(t[i]) <= at + n
           /\ \A q \in Pieces :
                Has(t, q) <=> (~Begins(s) /\ Has(buffer, q)) \/ Position(q) \in lo + 1 .. lo + m
  <1>1. /\ at \in Nat /\ n \in Nat \ {0} /\ at + n <= 7 * MaxDocs /\ MaxDocs \in Nat
        /\ s = Trim(Run(at, n))
        /\ Sorted(buffer) /\ \A i \in 1 .. Len(buffer) : Position(buffer[i]) <= at
    BY DocsAssumption DEF FramingInv, BufferInv, Joins
  <1>2. PICK lo \in {at, at + 1}, m \in Nat :
           /\ s = Run(lo, m)
           /\ lo + m \in {at + n - 1, at + n}
           /\ lo = at + 1 => Piece(at + 1).part = Blank
           /\ lo + m = at + n - 1 => Piece(at + n).part = Blank
    BY <1>1, TrimIsRun
  <1>3. lo \in Nat /\ lo + m <= 7 * MaxDocs /\ lo >= at
    BY <1>1, <1>2
  <1>4. /\ Begins(s) <=> m >= 2 /\ Piece(lo + 1).part = 1
        /\ Ends(s) <=> m >= 2 /\ Piece(lo + m).part = 7
    BY <1>2, <1>3, RunEnds
  <1>5. Begins(s) => at % 7 = 0
    <2> SUFFICES ASSUME Begins(s) PROVE at % 7 = 0
      OBVIOUS
    <2>1. lo = at
      <3> SUFFICES ASSUME lo = at + 1 PROVE FALSE
        BY <1>2
      <3>1. Piece(at + 1).part = Blank /\ Piece((at + 1) + 1).part = 1
        BY <1>2, <1>4
      <3>2. at + 1 \in 1 .. 7 * MaxDocs /\ (at + 1) + 1 \in 1 .. 7 * MaxDocs
        BY <1>1, <1>3, <1>4
      <3> QED
        BY <3>1, <3>2, PieceAt DEF Blank
    <2>2. Piece(at + 1).part = (at % 7) + 1
      <3>1. at + 1 <= 7 * MaxDocs
        BY <1>1
      <3> QED
        BY <1>1, <3>1, Neighbours
    <2> QED
      BY <1>1, <1>4, <2>1, <2>2
  <1>6. Ends(s) => lo + m = at + n
    <2> SUFFICES ASSUME Ends(s), lo + m = at + n - 1 PROVE FALSE
      BY <1>2
    <2>1. Piece(at + n).part = Blank /\ Piece(at + n - 1).part = 7
      BY <1>2, <1>4
    <2>2. at + n \in 1 .. 7 * MaxDocs /\ at + n - 1 \in 1 .. 7 * MaxDocs
      BY <1>1, <1>2, <1>3, <1>4
    <2>3. PICK d \in 1 .. MaxDocs : at + n = 7 * (d - 1) + 4
      BY <2>1, <2>2, PieceAt DEF Blank
    <2>4. PICK c \in 1 .. MaxDocs : at + n - 1 = 7 * (c - 1) + 7
      BY <2>1, <2>2, PieceAt
    <2> QED
      BY <1>1, <2>3, <2>4
  <1>7. /\ Sorted(s) /\ Len(s) = m /\ \A i \in 1 .. m : Position(s[i]) = lo + i
        /\ \A q \in Pieces : Has(s, q) <=> Position(q) \in lo + 1 .. lo + m
    BY <1>2, <1>3, RunSorted, RunIsSeq, HasRun
  <1>8. /\ Sorted(t)
        /\ \A q \in Pieces :
             Has(t, q) <=> (~Begins(s) /\ Has(buffer, q)) \/ Position(q) \in lo + 1 .. lo + m
    <2>1. CASE Begins(s)
      BY <1>7, <2>1 DEF Joins
    <2>2. CASE ~Begins(s)
      <3>1. t = buffer \o s
        BY <2>2 DEF Joins
      <3>2. /\ Sorted(buffer \o s)
            /\ \A q \in Pieces : Has(buffer \o s, q) <=> Has(buffer, q) \/ Has(s, q)
        BY <1>1, <1>2, <1>3, Joined
      <3> QED
        BY <1>7, <2>2, <3>1, <3>2
    <2> QED
      BY <2>1, <2>2
  <1>9. ASSUME NEW i \in 1 .. Len(t) PROVE Position(t[i]) <= at + n
    <2>1. t[i] \in Pieces /\ Has(t, t[i])
      BY <1>8 DEF Sorted, Has
    <2>2. CASE Has(buffer, t[i])
      BY <1>1, <2>1, <2>2, PositionFacts DEF Has
    <2>3. CASE Position(t[i]) \in lo + 1 .. lo + m
      BY <1>1, <1>2, <1>3, <2>3
    <2> QED
      BY <1>8, <2>1, <2>2, <2>3
  <1> QED
    BY <1>2, <1>3, <1>4, <1>5, <1>6, <1>8, <1>9

(* With a piece of the packet there is what is needed of its document up to  *)
(* it: in the packet, or before it in the buffer.                            *)
LEMMA ArrivedKeeps ==
  ASSUME FramingInv, NEW n, NEW s, NEW t, Joins(s, t, n), NEW cut, Cuts(n, cut),
         NEW p \in Pieces, Position(p) \in at + 1 .. at + n
  PROVE  Keeps(t, p, cut)
  <1>1. at \in Nat /\ n \in Nat \ {0} /\ at + n <= 7 * MaxDocs /\ MaxDocs \in Nat
    BY DocsAssumption DEF FramingInv, Joins
  <1>2. PICK lo \in {at, at + 1}, m \in Nat :
           /\ lo + m \in {at + n - 1, at + n}
           /\ lo = at + 1 => Piece(at + 1).part = Blank
           /\ lo + m = at + n - 1 => Piece(at + n).part = Blank
           /\ Begins(s) => at % 7 = 0
           /\ \A q \in Pieces :
                Has(t, q) <=> (~Begins(s) /\ Has(buffer, q)) \/ Position(q) \in lo + 1 .. lo + m
    BY JoinsFacts
  <1> SUFFICES ASSUME NEW q \in Pieces, q.doc = p.doc, q.part <= p.part, Needed(q, cut)
               PROVE  Has(t, q)
    BY DEF Keeps, UpTo
  <1>3. /\ Position(q) \in 1 .. 7 * MaxDocs /\ Piece(Position(q)) = q
        /\ Position(q) = 7 * (q.doc - 1) + q.part /\ Position(p) = 7 * (p.doc - 1) + p.part
        /\ q.doc \in 1 .. MaxDocs /\ q.part \in 1 .. 7 /\ p.part \in 1 .. 7
    BY PositionFacts, PiecesShape DEF Position, Docs
  <1>4. Needed(q, trimmed)
    BY DEF Needed, Cuts
  <1>5. CASE Position(q) <= at
    <2>1. at % 7 # 0
      <3> SUFFICES ASSUME at % 7 = 0 PROVE FALSE
        OBVIOUS
      <3>1. PICK y \in Nat : at = 7 * y
        <4>1. at = 7 * (at \div 7) + (at % 7) /\ at \div 7 \in Nat
          BY <1>1
        <4> QED
          BY <4>1
      <3> QED
        BY <1>1, <1>3, <1>5, <3>1
    <2>2. /\ at \in 1 .. 7 * MaxDocs /\ Keeps(buffer, Piece(at), trimmed)
      BY <1>1, <2>1 DEF FramingInv, MiddleInv
    <2>3. /\ at = 7 * (Piece(at).doc - 1) + Piece(at).part
          /\ Piece(at).doc \in 1 .. MaxDocs /\ Piece(at).part \in 1 .. 7
      BY <2>2, PieceAt
    <2>4. q.doc = Piece(at).doc /\ q.part <= Piece(at).part
      <3>1. PICK c \in 1 .. MaxDocs, x \in 1 .. 7 : Piece(at).doc = c /\ Piece(at).part = x
        BY <2>3
      <3>2. at = 7 * (c - 1) + x
        BY <2>3, <3>1
      <3>3. PICK d \in 1 .. MaxDocs, y \in 1 .. 7, z \in 1 .. 7 :
              q.doc = d /\ q.part = y /\ p.part = z /\ p.doc = d
        BY <1>3
      <3>4. 7 * (d - 1) + y <= at /\ at + 1 <= 7 * (d - 1) + z
        BY <1>3, <1>5, <3>3
      <3>5. d = c /\ y <= x
        BY <1>1, <3>2, <3>4
      <3> QED
        BY <3>1, <3>3, <3>5
    <2>5. Has(buffer, q)
      BY <1>4, <2>2, <2>4 DEF Keeps, UpTo
    <2> QED
      BY <1>2, <2>1, <2>5
  <1>6. CASE Position(q) > at
    <2>1. Position(q) \in at + 1 .. at + n
      BY <1>1, <1>3, <1>6
    <2>2. CASE Position(q) \in lo + 1 .. lo + m
      BY <1>2, <2>2
    <2>3. CASE Position(q) = at + 1 /\ lo = at + 1
      <3>1. q.part = Blank /\ Piece(at + 1) = q
        BY <1>2, <1>3, <2>3
      <3>2. at + 1 <= 7 * MaxDocs /\ at % 7 = Blank - 1
        <4>1. at + 1 <= 7 * MaxDocs
          BY <1>1
        <4>2. Piece(at + 1).part = (at % 7) + 1
          BY <1>1, <4>1, Neighbours
        <4> QED
          BY <1>1, <3>1, <4>1, <4>2 DEF Blank
      <3>3. at % 7 # 0
        BY <3>2 DEF Blank
      <3>4. Piece(at).part = Blank - 1 /\ Piece(at).doc = q.doc
        BY <1>1, <3>1, <3>2, <3>3, Neighbours
      <3>5. q.doc \in trimmed
        BY <3>3, <3>4 DEF FramingInv, MiddleInv
      <3> QED
        BY <1>4, <3>1, <3>5 DEF Needed
    <2>4. CASE Position(q) = at + n /\ lo + m = at + n - 1
      <3>1. q.part = Blank /\ Piece(at + n) = q
        BY <1>2, <1>3, <2>4
      <3> QED
        BY <3>1 DEF Needed, Cuts
    <2> QED
      BY <1>1, <1>2, <2>1, <2>2, <2>3, <2>4
  <1> QED
    BY <1>1, <1>3, <1>5, <1>6

LEMMA ArrivedClosed ==
  ASSUME FramingInv, NEW n, NEW s, NEW t, Joins(s, t, n), NEW cut, Cuts(n, cut)
  PROVE  /\ Sorted(t) /\ Unbroken(t, cut)
         /\ \A i \in 1 .. Len(t) : Position(t[i]) <= at + n
         /\ Keeps(t, Piece(at + n), cut)
         /\ Ends(s) => /\ t \in Seq(Pieces) /\ Len(t) > 0 /\ t[Len(t)] = Piece(at + n)
                       /\ Piece(at + n).part = 7
  <1>1. at \in Nat /\ n \in Nat \ {0} /\ at + n <= 7 * MaxDocs /\ MaxDocs \in Nat
    BY DocsAssumption DEF FramingInv, Joins
  <1>2. PICK lo \in {at, at + 1}, m \in Nat :
           /\ lo + m \in {at + n - 1, at + n}
           /\ Ends(s) <=> m >= 2 /\ Piece(lo + m).part = 7
           /\ Ends(s) => lo + m = at + n
           /\ Sorted(t) /\ \A i \in 1 .. Len(t) : Position(t[i]) <= at + n
           /\ \A q \in Pieces :
                Has(t, q) <=> (~Begins(s) /\ Has(buffer, q)) \/ Position(q) \in lo + 1 .. lo + m
    BY JoinsFacts
  <1>3. at + n \in 1 .. 7 * MaxDocs /\ Piece(at + n) \in Pieces /\ Position(Piece(at + n)) = at + n
    <2>1. at + n \in 1 .. 7 * MaxDocs
      BY <1>1
    <2> QED
      BY <2>1, PieceFacts
  <1>4. Keeps(t, Piece(at + n), cut)
    <2>1. at + n \in at + 1 .. at + n
      BY <1>1
    <2> QED
      BY <1>3, <2>1, ArrivedKeeps
  <1>5. ASSUME NEW i \in 1 .. Len(t) PROVE Keeps(t, t[i], cut)
    <2>1. t[i] \in Pieces /\ Has(t, t[i])
      BY <1>2 DEF Sorted, Has
    <2>2. CASE Position(t[i]) \in lo + 1 .. lo + m
      <3>1. Position(t[i]) \in at + 1 .. at + n
        BY <1>1, <1>2, <2>2
      <3> QED
        BY <2>1, <3>1, ArrivedKeeps
    <2>3. CASE ~Begins(s) /\ Has(buffer, t[i])
      <3>1. PICK j \in 1 .. Len(buffer) : buffer[j] = t[i]
        BY <2>3 DEF Has
      <3>2. Keeps(buffer, t[i], trimmed)
        BY <3>1 DEF FramingInv, BufferInv, Unbroken
      <3> SUFFICES ASSUME NEW q \in UpTo(t[i]), Needed(q, cut) PROVE Has(t, q)
        BY DEF Keeps
      <3>3. Needed(q, trimmed)
        BY DEF Needed, Cuts
      <3>4. Has(buffer, q) /\ q \in Pieces
        BY <3>2, <3>3 DEF Keeps, UpTo
      <3> QED
        BY <1>2, <2>3, <3>4
    <2> QED
      BY <1>2, <2>1, <2>2, <2>3
  <1>6. ASSUME Ends(s)
        PROVE  /\ t \in Seq(Pieces) /\ Len(t) > 0 /\ t[Len(t)] = Piece(at + n)
               /\ Piece(at + n).part = 7
    <2>1. Piece(at + n).part = 7 /\ Has(t, Piece(at + n)) /\ t \in Seq(Pieces)
      <3>1. lo + m = at + n /\ m >= 2 /\ Piece(lo + m).part = 7
        BY <1>2, <1>6
      <3>2. at + n \in lo + 1 .. lo + m
        BY <1>1, <1>2, <3>1
      <3> QED
        BY <1>2, <1>3, <3>1, <3>2 DEF Sorted
    <2>2. PICK i \in 1 .. Len(t) : t[i] = Piece(at + n)
      BY <2>1 DEF Has
    <2>3. Len(t) \in Nat
      BY <2>1
    <2>4. i = Len(t)
      <3> SUFFICES ASSUME i < Len(t) PROVE FALSE
        BY <2>3
      <3>1. Len(t) \in 1 .. Len(t)
        BY <2>3
      <3>2. Position(t[i]) < Position(t[Len(t)]) /\ Position(t[Len(t)]) <= at + n
        BY <1>2, <3>1 DEF Sorted
      <3>3. Position(t[Len(t)]) \in Int
        BY <2>1, <3>1, PositionFacts
      <3> QED
        BY <1>1, <1>3, <2>2, <3>2, <3>3
    <2> QED
      BY <2>1, <2>2, <2>3, <2>4
  <1> QED
    BY <1>2, <1>4, <1>5, <1>6 DEF Unbroken

(* A packet of one document that was sent alone so far.                      *)
LEMMA ArrivedAlone ==
  ASSUME FramingInv, NEW n, NEW s, NEW t, Joins(s, t, n),
         Piece(at + 1).doc = Piece(at + n).doc, Piece(at + n).part \notin {1, 6},
         Piece(at + n).doc \notin mistaken
  PROVE  /\ \A i \in 1 .. Len(t) : t[i].doc = Piece(at + n).doc
         /\ Piece(at + n).part = 7 => Ends(s)
  <1>1. at \in Nat /\ n \in Nat \ {0} /\ at + n <= 7 * MaxDocs /\ MaxDocs \in Nat
    BY DocsAssumption DEF FramingInv, Joins
  <1>2. PICK lo \in {at, at + 1}, m \in Nat :
           /\ lo + m \in {at + n - 1, at + n}
           /\ lo = at + 1 => Piece(at + 1).part = Blank
           /\ lo + m = at + n - 1 => Piece(at + n).part = Blank
           /\ Begins(s) <=> m >= 2 /\ Piece(lo + 1).part = 1
           /\ Ends(s) <=> m >= 2 /\ Piece(lo + m).part = 7
           /\ Sorted(t)
           /\ \A q \in Pieces :
                Has(t, q) <=> (~Begins(s) /\ Has(buffer, q)) \/ Position(q) \in lo + 1 .. lo + m
    BY JoinsFacts
  <1>3. PICK d \in 1 .. MaxDocs, x \in 1 .. 7, z \in 1 .. 7 :
          /\ Piece(at + 1).doc = d /\ Piece(at + 1).part = x
          /\ Piece(at + n).doc = d /\ Piece(at + n).part = z
          /\ at + 1 = 7 * (d - 1) + x /\ at + n = 7 * (d - 1) + z
    <2>1. at + 1 \in 1 .. 7 * MaxDocs /\ at + n \in 1 .. 7 * MaxDocs
      BY <1>1
    <2> QED
      BY <2>1, PieceAt
  <1>7. at + 1 <= 7 * MaxDocs
    BY <1>1
  <1>4. x = (at % 7) + 1
    BY <1>1, <1>3, <1>7, Neighbours
  <1>5. CASE at % 7 = 0
    <2>1. x = 1 /\ z # 1 /\ z = n /\ lo = at
      BY <1>1, <1>2, <1>3, <1>4, <1>5 DEF Blank
    <2>2. m >= 2 /\ (z = 7 => lo + m = at + n)
      BY <1>1, <1>2, <1>3, <2>1 DEF Blank
    <2>3. Begins(s)
      BY <1>2, <1>3, <2>1, <2>2
    <2>4. ASSUME NEW i \in 1 .. Len(t) PROVE t[i].doc = d
      <3>1. t[i] \in Pieces /\ Has(t, t[i])
        BY <1>2 DEF Sorted, Has
      <3>2. Position(t[i]) \in lo + 1 .. lo + m
        BY <1>2, <2>3, <3>1
      <3> QED
        <4>1. PICK c \in 1 .. MaxDocs, y \in 1 .. 7 :
                t[i].doc = c /\ Position(t[i]) = 7 * (c - 1) + y
          BY <3>1, PiecesShape DEF Position, Docs
        <4>2. 7 * (c - 1) + y \in at + 1 .. at + n
          BY <1>1, <1>2, <3>2, <4>1
        <4>3. c = d
          BY <1>1, <1>3, <4>2
        <4> QED
          BY <4>1, <4>3
    <2>5. z = 7 => Ends(s)
      BY <1>2, <1>3, <2>2
    <2> QED
      BY <1>3, <2>4, <2>5
  <1>6. CASE at % 7 # 0
    <2>1. /\ Piece(at).doc = d /\ Piece(at).part = x - 1 /\ x - 1 \notin {1, 6}
          /\ \A i \in 1 .. Len(buffer) : buffer[i].doc = d
      <3>1. Piece(at).doc = d /\ Piece(at).part = x - 1
        <4>1. /\ at % 7 = x - 1 /\ Piece(at).part = at % 7
              /\ Piece(at).doc = Piece(at + 1).doc
          <5>1. at % 7 = x - 1
            BY <1>1, <1>4
          <5> QED
            BY <1>1, <1>6, <1>7, <5>1, Neighbours
        <4> QED
          BY <1>3, <4>1
      <3> QED
        BY <1>3, <1>6, <3>1 DEF FramingInv, MiddleInv
    <2>2. ASSUME NEW i \in 1 .. Len(t) PROVE t[i].doc = d
      <3>1. t[i] \in Pieces /\ Has(t, t[i])
        BY <1>2 DEF Sorted, Has
      <3>2. CASE Has(buffer, t[i])
        BY <2>1, <3>2 DEF Has
      <3>3. CASE Position(t[i]) \in lo + 1 .. lo + m
        <4>1. PICK c \in 1 .. MaxDocs, y \in 1 .. 7 :
                t[i].doc = c /\ Position(t[i]) = 7 * (c - 1) + y
          BY <3>1, PiecesShape DEF Position, Docs
        <4>2. 7 * (c - 1) + y \in at + 1 .. at + n
          BY <1>1, <1>2, <3>3, <4>1
        <4>3. c = d
          BY <1>1, <1>3, <4>2
        <4> QED
          BY <4>1, <4>3
      <3> QED
        BY <1>2, <3>1, <3>2, <3>3
    <2>3. ASSUME z = 7 PROVE Ends(s)
      <3>1. lo + m = at + n
        BY <1>2, <1>3, <2>3 DEF Blank
      <3>2. lo = at + 1 => x = 4
        BY <1>2, <1>3 DEF Blank
      <3>3. m >= 2
        BY <1>1, <1>2, <1>3, <2>1, <2>3, <3>1, <3>2
      <3> QED
        BY <1>2, <1>3, <2>3, <3>1, <3>3
    <2> QED
      BY <1>3, <2>2, <2>3
  <1> QED
    BY <1>5, <1>6

-----------------------------------------------------------------------------
(* The steps.                                                                *)

LEMMA OnDataFacts ==
  ASSUME NEW packet, OnData(packet), NEW s, s = Trim(packet),
         NEW t, t = IF Begins(s) THEN s ELSE buffer \o s
  PROVE  /\ Ends(s) => /\ buffer' \in {<<>>, buffer}
                       /\ IsDocument(t) => delivered' = Append(delivered, t)
                       /\ ~IsDocument(t) => delivered' = delivered
         /\ ~Ends(s) => buffer' = t /\ delivered' = delivered
  <1>1. CASE Begins(s) /\ Ends(s)
    <2>1. PICK rest \in {<<>>, buffer} : Parse(t, rest)
      BY <1>1 DEF OnData
    <2> QED
      BY <1>1, <2>1 DEF Parse
  <1>2. CASE ~Begins(s) /\ Ends(s)
    <2>1. Parse(t, <<>>)
      BY <1>2 DEF OnData
    <2> QED
      BY <1>2, <2>1 DEF Parse
  <1>3. CASE ~Ends(s)
    BY <1>3 DEF OnData
  <1> QED
    BY <1>1, <1>2, <1>3

(* What was delivered stays so.                                              *)
LEMMA DeliveredStays ==
  ASSUME NEW s, NEW d \in Docs, NEW e \in Int, NEW cut, Delivery(s, d, e, cut),
         NEW e2 \in Int, e2 >= e, NEW cut2, cut \subseteq cut2
  PROVE  Delivery(s, d, e2, cut2)
  BY DocsAssumption DEF Delivery, Docs

LEMMA ArrivesInv ==
  ASSUME FramingInv, NEW n \in 1 .. 7 * MaxDocs, Arrives(n)
  PROVE  FramingInv'
  <1>1. PICK p, s, t : /\ p = Run(at, n) /\ s = Trim(p)
                       /\ t = IF Begins(s) THEN s ELSE buffer \o s
    OBVIOUS
  <1>2. /\ at \in Nat /\ n \in Nat \ {0} /\ at + n <= 7 * MaxDocs /\ MaxDocs \in Nat
        /\ at' = at + n /\ side' = side
    BY DocsAssumption DEF FramingInv, Arrives
  <1>3. /\ OnData(p)
        /\ received' = received \cup {p[i].doc : i \in {j \in 1 .. n : p[j].part = 7}}
        /\ mistaken' = mistaken \cup
             IF p[1].doc # p[n].doc \/ p[n].part \in {1, 6}
             THEN {p[i].doc : i \in 1 .. n} ELSE {}
        /\ trimmed' = trimmed \cup IF p[n].part \in {Blank - 1, Blank} THEN {p[n].doc} ELSE {}
    BY <1>1 DEF Arrives, Run
  <1>4. /\ \A i \in 1 .. n : at + i \in 1 .. 7 * MaxDocs /\ p[i] = Piece(at + i) /\ p[i].doc \in Docs
        /\ p[1] = Piece(at + 1) /\ p[n] = Piece(at + n)
    <2>1. \A i \in 1 .. n : at + i \in 1 .. 7 * MaxDocs /\ p[i] = Piece(at + i) /\ p[i] \in Pieces
      BY <1>1, <1>2, RunIsSeq
    <2>2. 1 \in 1 .. n /\ n \in 1 .. n
      BY <1>2
    <2> QED
      BY <2>1, <2>2, PiecesShape
  <1>5. PICK d \in Docs, z \in 1 .. 7 :
          Piece(at + n) = Of(d, z) /\ Piece(at + n).doc = d /\ Piece(at + n).part = z
          /\ at + n = 7 * (d - 1) + z
    <2>1. at + n \in 1 .. 7 * MaxDocs
      BY <1>2
    <2> QED
      BY <2>1, PieceAt DEF Of, Docs
  <1>6. Joins(s, t, n) /\ Cuts(n, trimmed')
    BY <1>1, <1>2, <1>3, <1>4 DEF Joins, Cuts
  <1>7. /\ Sorted(t) /\ Unbroken(t, trimmed')
        /\ \A i \in 1 .. Len(t) : Position(t[i]) <= at + n
        /\ Keeps(t, Piece(at + n), trimmed')
        /\ Ends(s) => t \in Seq(Pieces) /\ Len(t) > 0 /\ t[Len(t)] = Of(d, 7) /\ z = 7
    <2>1. /\ Sorted(t) /\ Unbroken(t, trimmed')
          /\ \A i \in 1 .. Len(t) : Position(t[i]) <= at + n
          /\ Keeps(t, Piece(at + n), trimmed')
          /\ Ends(s) => /\ t \in Seq(Pieces) /\ Len(t) > 0 /\ t[Len(t)] = Piece(at + n)
                        /\ Piece(at + n).part = 7
      BY <1>6, ArrivedClosed
    <2> QED
      BY <1>5, <2>1
  <1>8. /\ Ends(s) => /\ buffer' \in {<<>>, buffer}
                      /\ IsDocument(t) => delivered' = Append(delivered, t)
                      /\ ~IsDocument(t) => delivered' = delivered
        /\ ~Ends(s) => buffer' = t /\ delivered' = delivered
    BY <1>1, <1>3, OnDataFacts
  <1>9. /\ received' \subseteq Docs /\ mistaken' \subseteq Docs /\ trimmed' \subseteq Docs
        /\ mistaken \subseteq mistaken' /\ trimmed \subseteq trimmed'
    <2>1. /\ {p[i].doc : i \in {j \in 1 .. n : p[j].part = 7}} \subseteq Docs
          /\ {p[i].doc : i \in 1 .. n} \subseteq Docs /\ p[n].doc \in Docs
      <3>1. n \in 1 .. n
        BY <1>2
      <3> QED
        BY <1>4, <3>1
    <2> QED
      BY <1>3, <2>1 DEF FramingInv
  <1>10. BufferInv'
    <2>1. CASE Ends(s) /\ buffer' = buffer
      <3>1. \A i \in 1 .. Len(buffer) : Keeps(buffer, buffer[i], trimmed')
        BY <1>9 DEF FramingInv, BufferInv, Unbroken, Keeps, Needed
      <3>2. \A i \in 1 .. Len(buffer) : Position(buffer[i]) <= at + n
        <4> SUFFICES ASSUME NEW i \in 1 .. Len(buffer) PROVE Position(buffer[i]) <= at + n
          OBVIOUS
        <4>1. Position(buffer[i]) <= at /\ buffer[i] \in Pieces
          BY DEF FramingInv, BufferInv, Sorted
        <4> QED
          BY <1>2, <4>1, PositionFacts
      <3>3. Sorted(buffer)
        BY DEF FramingInv, BufferInv
      <3> QED
        BY <1>2, <2>1, <3>1, <3>2, <3>3 DEF BufferInv, Unbroken
    <2>2. CASE Ends(s) /\ buffer' = <<>>
      BY <2>2 DEF BufferInv, Sorted, Unbroken
    <2>3. CASE ~Ends(s)
      BY <1>2, <1>7, <1>8, <2>3 DEF BufferInv
    <2> QED
      BY <1>8, <2>1, <2>2, <2>3
  <1>11. MiddleInv'
    <2> SUFFICES ASSUME (at + n) % 7 # 0
                 PROVE  /\ Keeps(buffer', Piece(at + n), trimmed')
                        /\ z = Blank - 1 => d \in trimmed'
                        /\ d \notin mistaken' =>
                             /\ z \notin {1, 6}
                             /\ \A i \in 1 .. Len(buffer') : buffer'[i].doc = d
      BY <1>2, <1>5 DEF MiddleInv
    <2>1. buffer' = t
      <3>1. z # 7
        BY <1>5 DEF Docs
      <3> QED
        BY <1>7, <1>8, <3>1
    <2>2. z = Blank - 1 => d \in trimmed'
      BY <1>3, <1>4, <1>5
    <2>3. ASSUME d \notin mistaken'
          PROVE  z \notin {1, 6} /\ \A i \in 1 .. Len(t) : t[i].doc = d
      <3>1. Piece(at + 1).doc = d /\ z \notin {1, 6} /\ d \notin mistaken
        <4>1. d \in {p[i].doc : i \in 1 .. n}
          <5>1. n \in 1 .. n
            BY <1>2
          <5> QED
            BY <1>4, <1>5, <5>1
        <4> QED
          BY <1>3, <1>4, <1>5, <2>3, <4>1
      <3> QED
        BY <1>5, <1>6, <3>1, ArrivedAlone
    <2> QED
      BY <1>7, <2>1, <2>2, <2>3
  <1>12. \A i \in 1 .. Len(delivered) : \E c \in Docs : Delivery(delivered[i], c, at + n, trimmed')
    <2> SUFFICES ASSUME NEW i \in 1 .. Len(delivered)
                 PROVE  \E c \in Docs : Delivery(delivered[i], c, at + n, trimmed')
      OBVIOUS
    <2>1. PICK c \in Docs : Delivery(delivered[i], c, at, trimmed)
      BY DEF FramingInv, DeliveredInv
    <2>2. at \in Int /\ at + n \in Int /\ at + n >= at
      BY <1>2
    <2>3. Delivery(delivered[i], c, at + n, trimmed')
      BY <1>9, <2>1, <2>2, DeliveredStays
    <2> QED
      BY <2>3
  <1>13. DeliveredInv'
    <2>1. CASE delivered' = delivered
      BY <1>2, <1>12, <2>1 DEF FramingInv, DeliveredInv
    <2>2. CASE Ends(s) /\ IsDocument(t) /\ delivered' = Append(delivered, t)
      <3>1. Delivery(t, d, at + n, trimmed') /\ t \in Seq(Pieces)
        <4>1. /\ t[Len(t)].doc = d /\ z = 7
          BY <1>7, <2>2, Forms
        <4>2. /\ t[1].doc = d /\ SameText(t, d) /\ (d \notin trimmed' => t = Content(d))
          BY <1>7, <2>2, <4>1, ParsedDocument
        <4>3. 7 * d <= at + n
          BY <1>5, <4>1 DEF Docs
        <4> QED
          BY <1>7, <2>2, <4>2, <4>3 DEF Delivery
      <3>2. /\ delivered \in Seq(Seq(Pieces)) /\ Len(delivered) \in Nat
            /\ delivered' \in Seq(Seq(Pieces)) /\ Len(delivered') = Len(delivered) + 1
            /\ \A i \in 1 .. Len(delivered) : delivered'[i] = delivered[i]
            /\ delivered'[Len(delivered) + 1] = t
        <4>1. delivered \in Seq(Seq(Pieces))
          BY DEF FramingInv, DeliveredInv
        <4> QED
          BY <2>2, <3>1, <4>1, AppendProperties
      <3>3. ASSUME NEW i \in 1 .. Len(delivered')
            PROVE  \E c \in Docs : Delivery(delivered'[i], c, at + n, trimmed')
        <4>1. i \in 1 .. Len(delivered) \/ i = Len(delivered) + 1
          BY <3>2
        <4> QED
          BY <1>12, <3>1, <3>2, <4>1
      <3>4. ASSUME NEW i \in 1 .. Len(delivered'), NEW j \in 1 .. Len(delivered'), i < j
            PROVE  delivered'[i][1].doc < delivered'[j][1].doc
        <4>1. CASE j \in 1 .. Len(delivered)
          <5>1. i \in 1 .. Len(delivered)
            BY <3>2, <3>4, <4>1
          <5> QED
            BY <3>2, <3>4, <4>1, <5>1 DEF FramingInv, DeliveredInv
        <4>2. CASE j = Len(delivered) + 1
          <5>1. i \in 1 .. Len(delivered)
            BY <3>2, <3>4, <4>2
          <5>2. PICK c \in Docs : Delivery(delivered[i], c, at, trimmed)
            BY <5>1 DEF FramingInv, DeliveredInv
          <5>3. delivered'[i][1].doc = c /\ 7 * c <= at
            BY <3>2, <5>1, <5>2 DEF Delivery
          <5>4. delivered'[j][1].doc = d
            BY <3>1, <3>2, <4>2 DEF Delivery
          <5>5. c < d
            BY <1>2, <1>5, <5>3 DEF Docs
          <5> QED
            BY <5>3, <5>4, <5>5
        <4> QED
          BY <3>2, <4>1, <4>2
      <3> QED
        BY <1>2, <3>2, <3>3, <3>4 DEF DeliveredInv
    <2> QED
      BY <1>8, <2>1, <2>2
  <1>14. ReceivedIsDelivered'
    <2> SUFFICES ASSUME NEW c \in received' \ mistaken'
                 PROVE  \E i \in 1 .. Len(delivered') : SameText(delivered'[i], c)
      BY DEF ReceivedIsDelivered, SameText, Content, Unspaced
    <2>1. /\ delivered \in Seq(Seq(Pieces)) /\ Len(delivered) \in Nat
          /\ \A i \in 1 .. Len(delivered) : i \in 1 .. Len(delivered') /\ delivered'[i] = delivered[i]
      <3>1. delivered \in Seq(Seq(Pieces)) /\ Len(delivered) \in Nat
        BY DEF FramingInv, DeliveredInv
      <3>2. CASE delivered' = delivered
        BY <3>1, <3>2
      <3>3. CASE Ends(s) /\ delivered' = Append(delivered, t)
        BY <1>7, <3>1, <3>3, AppendProperties
      <3> QED
        BY <1>8, <3>1, <3>2, <3>3
    <2>2. CASE c \in received
      <3>1. PICK i \in 1 .. Len(delivered) : SameText(delivered[i], c)
        BY <1>9, <2>2 DEF FramingInv, ReceivedIsDelivered
      <3> QED
        BY <2>1, <3>1
    <2>3. CASE c \notin received
      <3>1. PICK k \in 1 .. n : p[k].part = 7 /\ p[k].doc = c
        BY <1>3, <2>3
      <3>2. /\ Piece(at + 1).doc = d /\ z \notin {1, 6} /\ c \notin mistaken
        BY <1>3, <1>4, <1>5, <3>1
      <3>3. c = d /\ k = n /\ z = 7
        <4>1. at + 1 \in 1 .. 7 * MaxDocs /\ at + k \in 1 .. 7 * MaxDocs
          BY <1>2
        <4>2. PICK x \in 1 .. 7 : at + 1 = 7 * (d - 1) + x
          BY <3>2, <4>1, PieceAt
        <4>3. PICK e \in 1 .. MaxDocs : c = e /\ at + k = 7 * (e - 1) + 7
          BY <1>4, <3>1, <4>1, PieceAt
        <4>4. e = d
          BY <1>2, <1>5, <4>2, <4>3 DEF Docs
        <4>5. k = n /\ z = 7
          BY <1>2, <1>5, <4>3, <4>4 DEF Docs
        <4> QED
          BY <4>3, <4>4, <4>5
      <3>4. Ends(s) /\ \A i \in 1 .. Len(t) : t[i].doc = d
        BY <1>5, <1>6, <3>2, <3>3, ArrivedAlone
      <3>5. SameText(t, d)
        BY <1>7, <3>4, EndedDocument
      <3>6. delivered' = Append(delivered, t)
        BY <1>8, <3>4, <3>5, FormsAreDocuments
      <3>7. Len(delivered') = Len(delivered) + 1 /\ delivered'[Len(delivered) + 1] = t
        BY <1>7, <2>1, <3>4, <3>6, AppendProperties
      <3>8. Len(delivered) + 1 \in 1 .. Len(delivered')
        BY <2>1, <3>7
      <3> QED
        BY <3>3, <3>5, <3>7, <3>8
    <2> QED
      BY <2>2, <2>3
  <1>15. at' \in 0 .. 7 * MaxDocs /\ side' \in {"client", "server"}
    BY <1>2 DEF FramingInv
  <1> QED
    BY <1>9, <1>10, <1>11, <1>13, <1>14, <1>15 DEF FramingInv

LEMMA ReconnectInv ==
  ASSUME FramingInv, Reconnect
  PROVE  FramingInv'
  <1>1. PICK d \in Docs : at < 7 * d /\ at' = 7 * d
    BY DEF Reconnect
  <1>2. /\ at \in Nat /\ at' \in 0 .. 7 * MaxDocs /\ at' >= at /\ at' % 7 = 0
    BY <1>1, DocsAssumption DEF FramingInv, Docs
  <1>3. BufferInv'
    <2>1. CASE buffer' = buffer
      <3>1. \A i \in 1 .. Len(buffer) : Position(buffer[i]) <= at'
        <4> SUFFICES ASSUME NEW i \in 1 .. Len(buffer) PROVE Position(buffer[i]) <= at'
          OBVIOUS
        <4>1. Position(buffer[i]) <= at /\ buffer[i] \in Pieces
          BY DEF FramingInv, BufferInv, Sorted
        <4> QED
          BY <1>2, <4>1, PositionFacts
      <3> QED
        BY <2>1, <3>1 DEF Reconnect, FramingInv, BufferInv
    <2>2. CASE buffer' = <<>>
      BY <2>2 DEF BufferInv, Sorted, Unbroken
    <2> QED
      BY <2>1, <2>2 DEF Reconnect
  <1>4. MiddleInv'
    BY <1>2 DEF MiddleInv
  <1>5. DeliveredInv'
    <2>1. ASSUME NEW i \in 1 .. Len(delivered)
          PROVE  \E c \in Docs : Delivery(delivered[i], c, at', trimmed)
      <3>1. PICK c \in Docs : Delivery(delivered[i], c, at, trimmed)
        BY DEF FramingInv, DeliveredInv
      <3>2. at \in Int /\ at' \in Int
        BY <1>2
      <3> QED
        BY <1>2, <3>1, <3>2, DeliveredStays
    <2> QED
      BY <2>1 DEF Reconnect, FramingInv, DeliveredInv
  <1>6. ReceivedIsDelivered'
    BY DEF Reconnect, FramingInv, ReceivedIsDelivered, SameText, Content, Unspaced
  <1> QED
    BY <1>2, <1>3, <1>4, <1>5, <1>6 DEF Reconnect, FramingInv

LEMMA FramingIsInvariant == FramingSpec => []FramingInv
  <1>1. FramingInit => FramingInv
    <2> SUFFICES ASSUME FramingInit PROVE FramingInv
      OBVIOUS
    <2>1. at = 0 /\ 0 \in 0 .. 7 * MaxDocs /\ 0 % 7 = 0
      BY DocsAssumption DEF FramingInit
    <2> QED
      BY <2>1 DEF FramingInit, FramingInv, BufferInv, Sorted, Unbroken, MiddleInv, DeliveredInv,
                  ReceivedIsDelivered
  <1>2. FramingInv /\ [FramingNext]_framingVars => FramingInv'
    <2> SUFFICES ASSUME FramingInv, [FramingNext]_framingVars PROVE FramingInv'
      OBVIOUS
    <2>1. CASE Reconnect
      BY <2>1, ReconnectInv
    <2>2. ASSUME NEW n \in 1 .. 7 * MaxDocs, Arrives(n) PROVE FramingInv'
      BY <2>2, ArrivesInv
    <2>3. CASE UNCHANGED framingVars
      BY <2>3 DEF framingVars, FramingInv, BufferInv, MiddleInv, DeliveredInv, ReceivedIsDelivered,
                  SameText, Content, Unspaced
    <2> QED
      BY <2>1, <2>2, <2>3 DEF FramingNext
  <1> QED
    BY <1>1, <1>2, PTL DEF FramingSpec

(* Nothing is acted on that was not sent: whatever packets the stream is cut *)
(* into, and wherever a connection is lost and another one begins, what a    *)
(* data handler passes on is a document of the peer, but for white space     *)
(* next to which a packet ended; each at most once, and in their order.      *)
THEOREM DeliveredIsWhatWasSent == FramingSpec => []DeliveredIsSent
  <1>1. FramingInv => DeliveredIsSent
    <2> SUFFICES ASSUME FramingInv PROVE DeliveredIsSent
      OBVIOUS
    <2>1. FramingTypeOK
      <3>1. /\ buffer \in Seq(Pieces) /\ DOMAIN buffer = 1 .. Len(buffer) /\ Len(buffer) \in Nat
            /\ \A i \in 1 .. Len(buffer) : Position(buffer[i]) \in 1 .. at
        <4>1. /\ buffer \in Seq(Pieces)
              /\ \A i \in 1 .. Len(buffer) : buffer[i] \in Pieces /\ Position(buffer[i]) <= at
          BY DEF FramingInv, BufferInv, Sorted
        <4>2. \A i \in 1 .. Len(buffer) : Position(buffer[i]) \in 1 .. 7 * MaxDocs
          BY <4>1, PositionFacts
        <4> QED
          BY <4>1, <4>2, DocsAssumption DEF FramingInv
      <3>2. \A i \in 2 .. Len(buffer) : i - 1 \in 1 .. Len(buffer) /\ i \in 1 .. Len(buffer) /\ i - 1 < i
        BY <3>1
      <3> QED
        BY <3>1, <3>2 DEF FramingTypeOK, FramingInv, BufferInv, Sorted
    <2>2. NothingIsInvented /\ DeliveredIsUnchanged
      BY DEF NothingIsInvented, DeliveredIsUnchanged, FramingInv, DeliveredInv, Delivery
    <2> QED
      BY <2>1, <2>2 DEF DeliveredIsSent
  <1> QED
    BY <1>1, FramingIsInvariant, PTL

(* A document that has arrived is passed on, however it was cut into packets *)
(* and whatever was lost, broken or left in the buffer before it; but for    *)
(* those that shared a packet with another, and those whose first or last    *)
(* tag was cut in two.                                                       *)
THEOREM ReceivedIsPassedOn == FramingSpec => []ReceivedIsDelivered
  <1>1. FramingInv => ReceivedIsDelivered
    BY DEF FramingInv
  <1> QED
    BY <1>1, FramingIsInvariant, PTL

-----------------------------------------------------------------------------
(* The elements of a document.                                               *)

Below(S, i) == {j \in S : j <= i}

(* Each of the positions is counted, and counted once.                      *)
LEMMA OrderCounts ==
  ASSUME NEW S \in SUBSET Nat, IsFiniteSet(S)
  PROVE  /\ Cardinality(S) \in Nat
         /\ \A i \in S : Cardinality(Below(S, i)) \in 1 .. Cardinality(S)
         /\ \A i, j \in S : i < j => Cardinality(Below(S, i)) < Cardinality(Below(S, j))
<1>1. Cardinality(S) \in Nat
  BY FS_CardinalityType
<1>2. \A i \in S : /\ IsFiniteSet(Below(S, i)) /\ Cardinality(Below(S, i)) \in Nat
                   /\ Cardinality(Below(S, i)) <= Cardinality(S)
  <2> SUFFICES ASSUME NEW i \in S
               PROVE  /\ IsFiniteSet(Below(S, i)) /\ Cardinality(Below(S, i)) \in Nat
                      /\ Cardinality(Below(S, i)) <= Cardinality(S)
    OBVIOUS
  <2>1. Below(S, i) \in SUBSET S
    BY DEF Below
  <2>2. IsFiniteSet(Below(S, i)) /\ Cardinality(Below(S, i)) <= Cardinality(S)
    BY <2>1, FS_Subset
  <2> QED  BY <2>2, FS_CardinalityType
<1>3. \A i \in S : Cardinality(Below(S, i)) # 0
  <2> SUFFICES ASSUME NEW i \in S PROVE Cardinality(Below(S, i)) # 0
    OBVIOUS
  <2>1. i \in Below(S, i)
    BY DEF Below
  <2> QED  BY <1>2, <2>1, FS_EmptySet
<1>4. ASSUME NEW i \in S, NEW j \in S, i < j
      PROVE  Cardinality(Below(S, i)) < Cardinality(Below(S, j))
  <2>1. Below(S, i) \in SUBSET Below(S, j)
    <3>1. \A x \in S : x <= i => x <= j
      BY <1>4
    <3> QED  BY <3>1 DEF Below
  <2>2. j \in Below(S, j) /\ j \notin Below(S, i)
    BY <1>4 DEF Below
  <2>3. Cardinality(Below(S, i)) <= Cardinality(Below(S, j))
    BY <1>2, <2>1, FS_Subset
  <2>4. Cardinality(Below(S, i)) # Cardinality(Below(S, j))
    BY <1>2, <2>1, <2>2, FS_Subset
  <2> QED  BY <1>2, <2>3, <2>4
<1> QED  BY <1>1, <1>2, <1>3, <1>4

(* InOrder numbers the positions from the lowest to the highest.             *)
LEMMA OrderOf ==
  ASSUME NEW S \in SUBSET Nat, IsFiniteSet(S)
  PROVE  /\ Cardinality(S) \in Nat
         /\ InOrder(S) \in [1 .. Cardinality(S) -> S]
         /\ \A a, b \in 1 .. Cardinality(S) : a < b => InOrder(S)[a] < InOrder(S)[b]
         /\ \A i \in S : \E k \in 1 .. Cardinality(S) : InOrder(S)[k] = i
<1> DEFINE m == Cardinality(S)
           count == [i \in S |-> Cardinality(Below(S, i))]
<1>1. m \in Nat /\ count \in [S -> 1 .. m]
  BY OrderCounts
<1>2. \A i, j \in S : i < j => count[i] < count[j]
  BY OrderCounts
<1>3. \A i, j \in S : count[i] = count[j] => i = j
  <2> SUFFICES ASSUME NEW i \in S, NEW j \in S, count[i] = count[j]
               PROVE  i = j
    OBVIOUS
  <2>1. i \in Nat /\ j \in Nat /\ count[i] \in Nat /\ count[j] \in Nat
    BY <1>1
  <2>2. ~ (i < j) /\ ~ (j < i)
    BY <1>2, <2>1
  <2> QED  BY <2>1, <2>2
<1>4. count \in Injection(S, 1 .. m)
  BY <1>1, <1>3 DEF Injection, IsInjective
<1>5. IsFiniteSet(1 .. m) /\ Cardinality(1 .. m) = m
  BY <1>1, FS_Interval
<1>6. count \in Surjection(S, 1 .. m)
  BY <1>4, <1>5, FS_Injection
<1>7. ASSUME NEW k \in 1 .. m
      PROVE  InOrder(S)[k] \in S /\ count[InOrder(S)[k]] = k
  <2>1. \E i \in S : count[i] = k
    BY <1>6 DEF Surjection
  <2>2. InOrder(S)[k] = CHOOSE i \in S : Cardinality(Below(S, i)) = k
    BY DEF InOrder, Below
  <2>3. \E i \in S : Cardinality(Below(S, i)) = k
    BY <2>1
  <2> HIDE DEF count
  <2>4. InOrder(S)[k] \in S /\ Cardinality(Below(S, InOrder(S)[k])) = k
    BY <2>2, <2>3
  <2> QED  BY <2>4 DEF count
<1>8. InOrder(S) \in [1 .. m -> S]
  <2>1. \A k \in 1 .. m : (CHOOSE i \in S : Cardinality({j \in S : j <= i}) = k) \in S
    <3> SUFFICES ASSUME NEW k \in 1 .. m
                 PROVE  (CHOOSE i \in S : Cardinality({j \in S : j <= i}) = k) \in S
      OBVIOUS
    <3>1. InOrder(S)[k] = CHOOSE i \in S : Cardinality({j \in S : j <= i}) = k
      BY DEF InOrder
    <3> QED  BY <1>7, <3>1
  <2> QED  BY <2>1 DEF InOrder
<1> HIDE DEF count
<1>9. ASSUME NEW a \in 1 .. m, NEW b \in 1 .. m, a < b
      PROVE  InOrder(S)[a] < InOrder(S)[b]
  <2>1. PICK x \in S, y \in S : x = InOrder(S)[a] /\ y = InOrder(S)[b]
    BY <1>7
  <2>2. count[x] = a /\ count[y] = b
    BY <1>7, <2>1
  <2>3. ~ (y < x) /\ x # y
    BY <1>1, <1>2, <1>9, <2>2
  <2> QED  BY <1>1, <2>1, <2>3
<1>10. ASSUME NEW i \in S PROVE \E k \in 1 .. m : InOrder(S)[k] = i
  BY <1>1, <1>3, <1>7
<1> QED  BY <1>1, <1>8, <1>9, <1>10

(* And it is the only one that does.                                         *)
LEMMA OrderIsUnique ==
  ASSUME NEW S \in SUBSET Nat, NEW m \in Nat, NEW f \in [1 .. m -> S],
         \A a, b \in 1 .. m : a < b => f[a] < f[b],
         \A i \in S : \E k \in 1 .. m : f[k] = i
  PROVE  IsFiniteSet(S) /\ Cardinality(S) = m /\ InOrder(S) = f
<1>1. \A a, b \in 1 .. m : f[a] <= f[b] <=> a <= b
  <2> SUFFICES ASSUME NEW a \in 1 .. m, NEW b \in 1 .. m PROVE f[a] <= f[b] <=> a <= b
    OBVIOUS
  <2>1. f[a] \in Nat /\ f[b] \in Nat
    OBVIOUS
  <2>2. a < b \/ b < a \/ a = b
    OBVIOUS
  <2> QED  BY <2>1, <2>2
<1>2. \A k \in 1 .. m : IsFiniteSet(Below(S, f[k])) /\ Cardinality(Below(S, f[k])) = k
  <2> SUFFICES ASSUME NEW k \in 1 .. m
               PROVE  IsFiniteSet(Below(S, f[k])) /\ Cardinality(Below(S, f[k])) = k
    OBVIOUS
  <2> DEFINE g == [i \in 1 .. k |-> f[i]]
  <2>1. g \in [1 .. k -> Below(S, f[k])]
    BY <1>1 DEF Below
  <2>2. \A a, b \in 1 .. k : g[a] = g[b] => a = b
    <3> SUFFICES ASSUME NEW a \in 1 .. k, NEW b \in 1 .. k, g[a] = g[b] PROVE a = b
      OBVIOUS
    <3>1. f[a] <= f[b] /\ f[b] <= f[a]
      <4>1. f[a] \in Nat /\ f[b] \in Nat
        <5>1. a \in 1 .. m /\ b \in 1 .. m
          OBVIOUS
        <5> QED  BY <5>1
      <4> QED  BY <4>1
    <3> QED  BY <1>1, <3>1
  <2>3. \A j \in Below(S, f[k]) : \E i \in 1 .. k : g[i] = j
    BY <1>1 DEF Below
  <2>4. g \in Bijection(1 .. k, Below(S, f[k]))
    BY <2>1, <2>2, <2>3 DEF Bijection, Injection, IsInjective, Surjection
  <2>5. IsFiniteSet(1 .. k) /\ Cardinality(1 .. k) = k
    BY FS_Interval
  <2> QED  BY <2>4, <2>5, FS_Bijection DEF ExistsBijection
<1>3. IsFiniteSet(S) /\ Cardinality(S) = m
  <2>1. \A a, b \in 1 .. m : f[a] = f[b] => a = b
    <3> SUFFICES ASSUME NEW a \in 1 .. m, NEW b \in 1 .. m, f[a] = f[b] PROVE a = b
      OBVIOUS
    <3>1. f[a] <= f[b] /\ f[b] <= f[a]
      <4>1. f[a] \in Nat /\ f[b] \in Nat
        OBVIOUS
      <4> QED  BY <4>1
    <3> QED  BY <1>1, <3>1
  <2>2. f \in Bijection(1 .. m, S)
    BY <2>1 DEF Bijection, Injection, IsInjective, Surjection
  <2>3. IsFiniteSet(1 .. m) /\ Cardinality(1 .. m) = m
    BY FS_Interval
  <2> QED  BY <2>2, <2>3, FS_Bijection DEF ExistsBijection
<1>4. \A k \in 1 .. m : InOrder(S)[k] = f[k]
  <2> SUFFICES ASSUME NEW k \in 1 .. m PROVE InOrder(S)[k] = f[k]
    OBVIOUS
  <2>1. InOrder(S)[k] = CHOOSE i \in S : Cardinality(Below(S, i)) = k
    BY <1>3 DEF InOrder, Below
  <2>2. f[k] \in S /\ Cardinality(Below(S, f[k])) = k
    BY <1>2
  <2>3. \A i \in S : Cardinality(Below(S, i)) = k => i = f[k]
    BY <1>2
  <2> QED  BY <2>1, <2>2, <2>3
<1>5. InOrder(S) = f
  <2>1. \A k \in 1 .. m : (CHOOSE i \in S : Cardinality({j \in S : j <= i}) = k) = f[k]
    <3> SUFFICES ASSUME NEW k \in 1 .. m
                 PROVE  (CHOOSE i \in S : Cardinality({j \in S : j <= i}) = k) = f[k]
      OBVIOUS
    <3>1. InOrder(S)[k] = CHOOSE i \in S : Cardinality({j \in S : j <= i}) = k
      BY <1>3 DEF InOrder
    <3> QED  BY <1>4, <3>1
  <2> QED  BY <1>3, <2>1 DEF InOrder
<1> QED  BY <1>3, <1>5

LEMMA Selects ==
  ASSUME NEW s, NEW S \in SUBSET Nat, IsFiniteSet(S)
  PROVE  /\ Cardinality(S) \in Nat
         /\ DOMAIN Selected(s, S) = 1 .. Cardinality(S)
         /\ Len(Selected(s, S)) = Cardinality(S)
         /\ \A k \in 1 .. Cardinality(S) :
              InOrder(S)[k] \in S /\ Selected(s, S)[k] = s[InOrder(S)[k]]
<1>1. Cardinality(S) \in Nat
  BY OrderOf
<1>2. \A k \in 1 .. Cardinality(S) : InOrder(S)[k] \in S
  BY OrderOf
<1>3. DOMAIN Selected(s, S) = 1 .. Cardinality(S)
  BY DEF Selected
<1>4. Selected(s, S) \in Seq({s[InOrder(S)[k]] : k \in 1 .. Cardinality(S)})
  BY <1>1 DEF Selected
<1>5. Len(Selected(s, S)) = Cardinality(S)
  BY <1>1, <1>3, <1>4
<1>6. \A k \in 1 .. Cardinality(S) : Selected(s, S)[k] = s[InOrder(S)[k]]
  BY DEF Selected
<1> QED  BY <1>1, <1>2, <1>3, <1>5, <1>6

-----------------------------------------------------------------------------
(* What becomes of a child.                                                  *)

LEMMA DescribedIsSomething ==
  /\ DOMAIN NoAttributes = {}
  /\ DOMAIN Described = {"techDescription"} /\ Described # NoAttributes
  /\ Described["techDescription"] = Text("d")
<1>1. DOMAIN NoAttributes = {}
  BY DEF NoAttributes
<1>2. DOMAIN Described = {"techDescription"} /\ Described["techDescription"] = Text("d")
  BY DEF Described, :>
<1> QED  BY <1>1, <1>2

LEMMA ChildrenAreFields ==
  ASSUME NEW c \in Children
  PROVE  /\ c.name \in Names /\ c.attributes \in {NoAttributes, Described}
         /\ c.text \in Values
  BY DEF Children, Field

LEMMA FieldNodes ==
  ASSUME NEW c \in Children
  PROVE  /\ FieldNode(c).name = c.name
         /\ FieldNode(c).type = IF c.text = Empty THEN "element" ELSE "text"
         /\ FieldNode(c).props =
              IF c.text = Empty THEN Attributes(c) ELSE ("text" :> Text(Native(c.text))) @@ Attributes(c)
<1>1. Len(<<>>) = 0
  OBVIOUS
<1>2. FieldNode(c) = Node(c.name, IF c.text # Empty THEN "text" ELSE "element",
                          IF c.text # Empty THEN FoldText(Attributes(c), c.text)
                          ELSE Attributes(c))
  BY <1>1 DEF FieldNode, Compact
<1> QED  BY <1>2 DEF Node, FoldText

LEMMA FieldProps ==
  ASSUME NEW c \in Children
  PROVE  LET x == FieldNode(c)
         IN  /\ DOMAIN x.props = (IF c.text = Empty THEN {} ELSE {"text"})
                   \union (IF c.attributes = NoAttributes THEN {} ELSE {"attributes"})
             /\ c.text # Empty => x.props["text"] = Text(Native(c.text))
             /\ c.attributes # NoAttributes =>
                  c.attributes = Described /\ x.props["attributes"] = Object(Described)
             /\ AttributesOf(x) = c.attributes
<1> DEFINE x == FieldNode(c)
<1>1. DOMAIN Attributes(c) = IF c.attributes = NoAttributes THEN {} ELSE {"attributes"}
  BY DescribedIsSomething DEF Attributes, :>
<1>2. c.attributes # NoAttributes =>
        c.attributes = Described /\ Attributes(c)["attributes"] = Object(Described)
  BY ChildrenAreFields DEF Attributes, :>
<1>3. DOMAIN x.props = (IF c.text = Empty THEN {} ELSE {"text"}) \union DOMAIN Attributes(c)
  BY FieldNodes DEF :>, @@
<1>4. c.text # Empty => x.props["text"] = Text(Native(c.text))
  BY FieldNodes DEF :>, @@
<1>5. c.attributes # NoAttributes => x.props["attributes"] = Attributes(c)["attributes"]
  BY <1>1, FieldNodes DEF :>, @@
<1>6. AttributesOf(x) = c.attributes
  <2>1. CASE c.attributes = NoAttributes
    <3>1. "attributes" \notin DOMAIN x.props
      BY <1>1, <1>3, <2>1
    <3> QED  BY <2>1, <3>1 DEF AttributesOf
  <2>2. CASE c.attributes # NoAttributes
    <3>1. "attributes" \in DOMAIN x.props
      BY <1>1, <1>3, <2>2
    <3>2. AttributesOf(x) = x.props["attributes"].props
      BY <3>1 DEF AttributesOf
    <3> QED  BY <1>2, <1>5, <2>2, <3>2 DEF Object
  <2> QED  BY <2>1, <2>2
<1> HIDE DEF x
<1>7. DOMAIN x.props = (IF c.text = Empty THEN {} ELSE {"text"})
                   \union (IF c.attributes = NoAttributes THEN {} ELSE {"attributes"})
  BY <1>1, <1>3
<1> QED  BY <1>2, <1>4, <1>5, <1>6, <1>7 DEF x

LEMMA FieldKeys ==
  ASSUME NEW c \in Children, c.text # Empty
  PROVE  Keys(FieldNode(c)) <= 3 <=> c.attributes = NoAttributes
<1> DEFINE d == DOMAIN FieldNode(c).props
<1>1. CASE c.attributes = NoAttributes
  <2>1. d = {"text"}
    BY <1>1, FieldProps
  <2> HIDE DEF d
  <2>2. Cardinality(d) = 1
    BY <2>1, FS_Singleton
  <2> USE DEF d
  <2> QED  BY <1>1, <2>2 DEF Keys
<1>2. CASE c.attributes # NoAttributes
  <2>1. d = {"text"} \union {"attributes"}
    BY <1>2, FieldProps
  <2> HIDE DEF d
  <2>2. IsFiniteSet({"text"}) /\ Cardinality({"text"}) = 1
    BY FS_Singleton
  <2>3. Cardinality(d) = 2
    <3>1. "attributes" \notin {"text"}
      OBVIOUS
    <3> QED  BY <2>1, <2>2, <3>1, FS_AddElement
  <2> USE DEF d
  <2> QED  BY <1>2, <2>3 DEF Keys
<1> QED  BY <1>1, <1>2

LEMMA FieldMerged ==
  ASSUME NEW c \in Children
  PROVE  LET y == Merged(FieldNode(c))
         IN  /\ y.name = c.name /\ y.type = FieldNode(c).type
             /\ DOMAIN y.props = (IF c.text = Empty THEN {} ELSE {"text"})
                   \union (IF c.attributes = NoAttributes THEN {} ELSE {"techDescription"})
             /\ c.text # Empty => y.props["text"] = Text(Native(c.text))
             /\ c.attributes # NoAttributes => y.props["techDescription"] = Text("d")
<1> DEFINE x == FieldNode(c)
           w == WithoutAttributes(x.props)
<1>1. DOMAIN w = IF c.text = Empty THEN {} ELSE {"text"}
  BY FieldProps DEF WithoutAttributes
<1>2. c.text # Empty => w["text"] = Text(Native(c.text))
  BY FieldProps DEF WithoutAttributes
<1>3. Merged(x) = Node(x.name, x.type, c.attributes @@ w)
  BY FieldProps DEF Merged
<1>4. Merged(x).name = c.name /\ Merged(x).type = x.type /\ Merged(x).props = c.attributes @@ w
  BY <1>3, FieldNodes DEF Node
<1> HIDE DEF w
<1>5. c.attributes # NoAttributes => c.attributes = Described
  BY FieldProps
<1>6. /\ DOMAIN (c.attributes @@ w) = DOMAIN c.attributes \union DOMAIN w
      /\ \A p \in DOMAIN c.attributes : (c.attributes @@ w)[p] = c.attributes[p]
      /\ \A p \in DOMAIN w \ DOMAIN c.attributes : (c.attributes @@ w)[p] = w[p]
  BY DEF @@
<1>7. DOMAIN c.attributes = IF c.attributes = NoAttributes THEN {} ELSE {"techDescription"}
  BY <1>5, DescribedIsSomething
<1>8. DOMAIN (c.attributes @@ w) = (IF c.text = Empty THEN {} ELSE {"text"})
                   \union (IF c.attributes = NoAttributes THEN {} ELSE {"techDescription"})
  BY <1>1, <1>6, <1>7
<1>9. c.text # Empty => (c.attributes @@ w)["text"] = Text(Native(c.text))
  BY <1>1, <1>2, <1>6, <1>7
<1>10. c.attributes # NoAttributes => (c.attributes @@ w)["techDescription"] = Text("d")
  BY <1>5, <1>6, <1>7, DescribedIsSomething
<1> QED  BY <1>4, <1>8, <1>9, <1>10

(* A text that is something else than 0, false or nothing.                    *)
Legible(v) == v \notin Falsy \union {Empty}

(* A text stays one when it is converted, and becomes legible only if it was. *)
LEMMA NativeTexts ==
  ASSUME NEW v
  PROVE  /\ Native(v) = Empty <=> v = Empty
         /\ Legible(Native(v)) => Legible(v)
BY RewrittenAssumption DEF Native, Legible

LEMMA TruthyTexts ==
  ASSUME NEW v
  PROVE  Truthy(Text(v)) <=> Legible(v)
<1>1. Text(v).kind = "text" /\ Undefined.kind = "undefined" /\ \A t : Text(t).value = t
  BY DEF Text, Undefined
<1>2. Text(v) # Undefined
  BY <1>1
<1>3. \A t : Text(v) = Text(t) <=> v = t
  BY <1>1
<1>4. Text(v) \in {Text(t) : t \in Falsy \union {Empty}} <=> v \in Falsy \union {Empty}
  BY <1>3
<1> QED  BY <1>2, <1>4 DEF Truthy, Legible

LEMMA ObjectsHave ==
  ASSUME NEW props, NEW p
  PROVE  /\ Object(props).kind = "object"
         /\ HasProperty(Object(props), p) <=> p \in DOMAIN props
         /\ p \in DOMAIN props => Property(Object(props), p) = props[p]
         /\ p \notin DOMAIN props => Property(Object(props), p) = Undefined
<1>1. Object(props).kind = "object" /\ Object(props).props = props
  BY DEF Object
<1> QED  BY <1>1 DEF HasProperty, Property

(* A text, or an object with a text, is read as that text.                   *)
LEMMA TextsAreRead ==
  ASSUME NEW v, Legible(v)
  PROVE  /\ String128(Text(v)) = v /\ Text(v).kind # "array"
         /\ \A props : "text" \in DOMAIN props /\ props["text"] = Text(v)
              => String128(Object(props)) = v /\ Object(props).kind # "array"
<1>1. Text(v).value = v /\ Text(v).kind = "text"
  BY DEF Text
<1>2. ASSUME NEW props, "text" \in DOMAIN props, props["text"] = Text(v)
      PROVE  String128(Object(props)) = v /\ Object(props).kind # "array"
  <2>1. Object(props).kind = "object" /\ Property(Object(props), "text") = Text(v)
    BY <1>2, ObjectsHave
  <2>2. Truthy(Property(Object(props), "text"))
    BY <2>1, TruthyTexts
  <2> QED  BY <1>1, <2>1, <2>2 DEF String128
<1> QED  BY <1>1, <1>2 DEF String128

(* Below its own $name and $type a node shows its properties.                 *)
LEMMA AsItIsHas ==
  ASSUME NEW x
  PROVE  \E props : /\ AsItIs(x) = Object(props)
                    /\ DOMAIN props = DOMAIN x.props \union {"$name", "$type"}
                    /\ \A p \in DOMAIN x.props : props[p] = x.props[p]
                    /\ "$name" \notin DOMAIN x.props => props["$name"] = Text(x.name)
<1> DEFINE name  == "$name" :> Text(x.name)
           type  == "$type" :> Text(x.type)
           props == (x.props @@ name) @@ type
<1>1. AsItIs(x) = Object(props)
  BY DEF AsItIs
<1>2. DOMAIN name = {"$name"} /\ name["$name"] = Text(x.name) /\ DOMAIN type = {"$type"}
  BY DEF :>
<1> HIDE DEF name, type
<1>3. /\ DOMAIN (x.props @@ name) = DOMAIN x.props \union {"$name"}
      /\ \A p \in DOMAIN x.props : (x.props @@ name)[p] = x.props[p]
      /\ "$name" \notin DOMAIN x.props => (x.props @@ name)["$name"] = Text(x.name)
  BY <1>2 DEF @@
<1>4. /\ DOMAIN props = DOMAIN (x.props @@ name) \union {"$type"}
      /\ \A p \in DOMAIN (x.props @@ name) : props[p] = (x.props @@ name)[p]
  BY <1>2 DEF @@
<1> HIDE DEF props
<1> QED  BY <1>1, <1>3, <1>4

(* Every way a child with an id is folded, its id is what is read.            *)
LEMMA ValuesAreRead ==
  ASSUME NEW c \in Children, Legible(Native(c.text))
  PROVE  LET x == FieldNode(c)
         IN  /\ String128(SameValue(x)) = Native(c.text)
             /\ String128(UniqueValue(x)) = Native(c.text) /\ UniqueValue(x).kind # "array"
             /\ String128(MixedValue(x)) = Native(c.text) /\ MixedValue(x).kind # "array"
<1> DEFINE x == FieldNode(c)
<1>0. c.text # Empty
  BY NativeTexts DEF Legible
<1>1. x.type = "text" /\ "text" \in DOMAIN x.props /\ x.props["text"] = Text(Native(c.text))
  BY <1>0, FieldNodes, FieldProps
<1>2. "text" \in DOMAIN Merged(x).props /\ Merged(x).props["text"] = Text(Native(c.text))
  BY <1>0, FieldMerged
<1> HIDE DEF x
<1>3. String128(AsItIs(x)) = Native(c.text) /\ AsItIs(x).kind # "array"
  <2>1. PICK props : /\ AsItIs(x) = Object(props)
                     /\ \A p \in DOMAIN x.props : props[p] = x.props[p]
                     /\ DOMAIN props = DOMAIN x.props \union {"$name", "$type"}
    BY AsItIsHas
  <2> QED  BY <1>1, <2>1, TextsAreRead
<1>4. String128(AsItIs(Merged(x))) = Native(c.text) /\ AsItIs(Merged(x)).kind # "array"
  <2>1. PICK props : /\ AsItIs(Merged(x)) = Object(props)
                     /\ \A p \in DOMAIN Merged(x).props : props[p] = Merged(x).props[p]
                     /\ DOMAIN props = DOMAIN Merged(x).props \union {"$name", "$type"}
    BY AsItIsHas
  <2> QED  BY <1>2, <2>1, TextsAreRead
<1>5. String128(Stripped(x)) = Native(c.text) /\ Stripped(x).kind # "array"
  BY <1>1, TextsAreRead DEF Stripped
<1>6. String128(Stripped(Merged(x))) = Native(c.text) /\ Stripped(Merged(x)).kind # "array"
  BY <1>2, TextsAreRead DEF Stripped
<1>7. String128(Text(Native(c.text))) = Native(c.text) /\ Text(Native(c.text)).kind # "array"
  BY TextsAreRead
<1>8. SameValue(x) = AsItIs(x)
  BY <1>1 DEF SameValue
<1>9. UniqueValue(x) \in {Text(Native(c.text)), Stripped(Merged(x))}
  BY <1>1 DEF UniqueValue
<1>10. MixedValue(x) \in {Text(Native(c.text)), AsItIs(Merged(x)), Stripped(x)}
  BY <1>1 DEF MixedValue
<1>11. String128(SameValue(x)) = Native(c.text)
  BY <1>3, <1>8
<1>12. String128(UniqueValue(x)) = Native(c.text) /\ UniqueValue(x).kind # "array"
  BY <1>6, <1>7, <1>9
<1>13. String128(MixedValue(x)) = Native(c.text) /\ MixedValue(x).kind # "array"
  BY <1>4, <1>5, <1>7, <1>10
<1> QED  BY <1>11, <1>12, <1>13 DEF x

-----------------------------------------------------------------------------
(* What becomes of the element they are written below.                       *)

NamesOf == {children[i].name : i \in DOMAIN children}
PositionsOf(n) == {i \in DOMAIN children : children[i].name = n}
Nodes   == [i \in DOMAIN children |-> FieldNode(children[i])]

DocumentsTypeInv == place \in Places /\ children \in Seq(Children)

LEMMA OwnNothing ==
  ASSUME NEW f
  PROVE  /\ DOMAIN (f @@ NoAttributes) = DOMAIN f
         /\ \A p \in DOMAIN f : (f @@ NoAttributes)[p] = f[p]
BY DescribedIsSomething DEF @@

LEMMA ChildrenAreNumbered ==
  ASSUME DocumentsTypeInv
  PROVE  /\ Len(children) \in Nat /\ DOMAIN children = 1 .. Len(children)
         /\ DOMAIN Nodes = 1 .. Len(children) /\ Len(Nodes) = Len(children)
         /\ \A i \in DOMAIN children : /\ children[i] \in Children
                                       /\ Nodes[i] = FieldNode(children[i])
                                       /\ Nodes[i].name = children[i].name
         /\ NamesOf = {Nodes[i].name : i \in DOMAIN Nodes}
         /\ IsFiniteSet(NamesOf) /\ Cardinality(NamesOf) \in Nat
         /\ NamesOf \subseteq Names
<1>1. children \in Seq(Children)
  BY DEF DocumentsTypeInv
<1>2. Len(children) \in Nat /\ DOMAIN children = 1 .. Len(children)
      /\ \A i \in DOMAIN children : children[i] \in Children
  BY <1>1
<1>3. \A i \in DOMAIN children : /\ Nodes[i] = FieldNode(children[i])
                                 /\ Nodes[i].name = children[i].name
  BY <1>2, FieldNodes DEF Nodes
<1>4. DOMAIN Nodes = 1 .. Len(children) /\ Len(Nodes) = Len(children)
  <2>1. Nodes \in Seq({FieldNode(children[i]) : i \in DOMAIN children})
    BY <1>2 DEF Nodes
  <2> QED  BY <1>2, <2>1 DEF Nodes
<1>5. NamesOf = {Nodes[i].name : i \in DOMAIN Nodes}
  BY <1>2, <1>3, <1>4 DEF NamesOf
<1>6. IsFiniteSet(NamesOf) /\ Cardinality(NamesOf) \in Nat
  <2> DEFINE f == [i \in 1 .. Len(children) |-> children[i].name]
  <2>1. f \in Surjection(1 .. Len(children), NamesOf)
    BY <1>2 DEF Surjection, NamesOf
  <2>2. IsFiniteSet(1 .. Len(children))
    BY <1>2, FS_Interval
  <2>3. IsFiniteSet(NamesOf)
    BY <2>1, <2>2, FS_Surjection
  <2> QED  BY <2>3, FS_CardinalityType
<1>7. NamesOf \subseteq Names
  BY <1>2, ChildrenAreFields DEF NamesOf
<1> QED  BY <1>2, <1>3, <1>4, <1>5, <1>6, <1>7

LEMMA AllAreInOrder ==
  ASSUME NEW m \in Nat
  PROVE  Cardinality(1 .. m) = m /\ \A k \in 1 .. m : InOrder(1 .. m)[k] = k
<1> DEFINE f == [k \in 1 .. m |-> k]
<1>1. f \in [1 .. m -> 1 .. m] /\ 1 .. m \in SUBSET Nat
  OBVIOUS
<1>2. \A a, b \in 1 .. m : a < b => f[a] < f[b]
  OBVIOUS
<1>3. \A i \in 1 .. m : \E k \in 1 .. m : f[k] = i
  OBVIOUS
<1> HIDE DEF f
<1>4. Cardinality(1 .. m) = m /\ InOrder(1 .. m) = f
  BY <1>1, <1>2, <1>3, OrderIsUnique
<1> QED  BY <1>4 DEF f

LEMMA ChildrenAreFinite ==
  ASSUME DocumentsTypeInv
  PROVE  IsFiniteSet(DOMAIN children) /\ Cardinality(DOMAIN children) = Len(children)
<1>1. PICK m : m = Len(children)
  OBVIOUS
<1>2. m \in Nat /\ DOMAIN children = 1 .. m
  BY <1>1, ChildrenAreNumbered
<1>3. IsFiniteSet(1 .. m) /\ Cardinality(1 .. m) = m
  BY <1>2, FS_Interval, AllAreInOrder
<1> QED  BY <1>1, <1>2, <1>3

LEMMA SourceNode ==
  ASSUME DocumentsTypeInv, children # <<>>
  PROVE  /\ ElementNode(Source).name = "element"
         /\ ElementNode(Source).type = IF Len(children) = 1 /\ Nodes[1].type = "text"
                                       THEN "text" ELSE "element"
         /\ ElementNode(Source).props = Fold(Source, NoAttributes, Nodes)
<1>1. Source.name = "element" /\ Source.text = Empty /\ Source.attributes = NoAttributes
      /\ Source.children = children
  BY DEF Source, Element
<1>2. Attributes(Source) = NoAttributes
  BY <1>1 DEF Attributes
<1>3. ElementNode(Source) = Compact(Source, Nodes)
  BY <1>1 DEF ElementNode, Nodes
<1>4. Nodes # <<>> /\ Len(Nodes) = Len(children)
  BY ChildrenAreNumbered, EmptySeq DEF DocumentsTypeInv
<1>5. Compact(Source, Nodes) =
        Node("element", IF Len(Nodes) = 1 /\ Nodes[1].type = "text" THEN "text" ELSE "element",
             Fold(Source, NoAttributes, Nodes))
  BY <1>1, <1>2, <1>4 DEF Compact
<1> QED  BY <1>3, <1>4, <1>5 DEF Node

(* An only child.                                                            *)
LEMMA SourceOfOne ==
  ASSUME DocumentsTypeInv, Len(children) = 1, children[1].text # Empty
  PROVE  LET c == children[1]
             e == ElementNode(Source)
         IN  /\ e.type = "text"
             /\ DOMAIN e.props = DOMAIN c.attributes \union {c.name, "text"}
             /\ e.props[c.name] = Text(Native(c.text)) /\ e.props["text"] = Text(Native(c.text))
             /\ c.attributes # NoAttributes => e.props["techDescription"] = Text("d")
<1> DEFINE c == children[1]
           x == FieldNode(c)
           p == ElementNode(Source).props
<1>1. c \in Children /\ Nodes[1] = x /\ Len(Nodes) = 1 /\ children # <<>>
  BY ChildrenAreNumbered
<1>2. x.type = "text" /\ x.name = c.name /\ x.props["text"] = Text(Native(c.text))
      /\ AttributesOf(x) = c.attributes
  BY <1>1, FieldNodes, FieldProps
<1>3. ElementNode(Source).type = "text" /\ p = Fold(Source, NoAttributes, Nodes)
  BY <1>1, <1>2, SourceNode
<1>4. p = FoldOne(NoAttributes, x)
  BY <1>1, <1>3 DEF Fold
<1> DEFINE name == c.name :> Text(Native(c.text))
           text == "text" :> Text(Native(c.text))
<1>5. p = ((c.attributes @@ name) @@ text) @@ NoAttributes
  BY <1>2, <1>4 DEF FoldOne
<1>6. /\ DOMAIN name = {c.name} /\ name[c.name] = Text(Native(c.text))
      /\ DOMAIN text = {"text"} /\ text["text"] = Text(Native(c.text))
  BY DEF :>
<1>7. c.name \in Names /\ c.name # "text" /\ c.name # "techDescription"
  BY <1>1, ChildrenAreFields, NamesAssumption
<1>8. /\ DOMAIN c.attributes \subseteq {"techDescription"}
      /\ c.attributes # NoAttributes =>
           "techDescription" \in DOMAIN c.attributes /\ c.attributes["techDescription"] = Text("d")
  BY <1>1, ChildrenAreFields, DescribedIsSomething
<1> HIDE DEF name, text, c, x, p
<1>9. /\ DOMAIN (c.attributes @@ name) = DOMAIN c.attributes \union {c.name}
      /\ (c.attributes @@ name)[c.name] = Text(Native(c.text))
      /\ c.attributes # NoAttributes => (c.attributes @@ name)["techDescription"] = Text("d")
  BY <1>6, <1>7, <1>8 DEF @@
<1>10. /\ DOMAIN ((c.attributes @@ name) @@ text) = DOMAIN c.attributes \union {c.name, "text"}
       /\ ((c.attributes @@ name) @@ text)[c.name] = Text(Native(c.text))
       /\ ((c.attributes @@ name) @@ text)["text"] = Text(Native(c.text))
       /\ c.attributes # NoAttributes =>
            ((c.attributes @@ name) @@ text)["techDescription"] = Text("d")
  BY <1>6, <1>7, <1>8, <1>9 DEF @@
<1>11. /\ DOMAIN p = DOMAIN c.attributes \union {c.name, "text"}
       /\ p[c.name] = Text(Native(c.text)) /\ p["text"] = Text(Native(c.text))
       /\ c.attributes # NoAttributes => p["techDescription"] = Text("d")
  BY <1>5, <1>8, <1>10, OwnNothing
<1> QED  BY <1>3, <1>11 DEF c, p

LEMMA SourceOfOneEmpty ==
  ASSUME DocumentsTypeInv, Len(children) = 1, children[1].text = Empty
  PROVE  LET c == children[1]
             e == ElementNode(Source)
         IN  /\ e.type = "element" /\ DOMAIN e.props = {c.name}
             /\ e.props[c.name] = Object(Attributes(c))
<1> DEFINE c == children[1]
           x == FieldNode(c)
           p == ElementNode(Source).props
<1>1. c \in Children /\ Nodes[1] = x /\ Len(Nodes) = 1 /\ children # <<>>
  BY ChildrenAreNumbered
<1>2. x.type = "element" /\ x.name = c.name /\ x.props = Attributes(c)
  BY <1>1, FieldNodes
<1>3. ElementNode(Source).type = "element" /\ p = Fold(Source, NoAttributes, Nodes)
  BY <1>1, <1>2, SourceNode
<1>4. p = FoldOne(NoAttributes, x)
  BY <1>1, <1>3 DEF Fold
<1> DEFINE name == c.name :> Object(Attributes(c))
<1>5. p = name @@ NoAttributes
  BY <1>2, <1>4 DEF FoldOne, Stripped
<1>6. DOMAIN name = {c.name} /\ name[c.name] = Object(Attributes(c))
  BY DEF :>
<1> HIDE DEF name, c, x, p
<1>7. DOMAIN p = {c.name} /\ p[c.name] = Object(Attributes(c))
  BY <1>5, <1>6, OwnNothing
<1> QED  BY <1>3, <1>7 DEF c, p

(* Several children.                                                         *)
LEMMA SourceOfSeveral ==
  ASSUME DocumentsTypeInv, Len(children) > 1
  PROVE  LET e == ElementNode(Source)
         IN  /\ e.type = "element" /\ NamesOf # {}
             /\ Cardinality(NamesOf) = 1 => e.props = FoldSame(NoAttributes, Nodes)
             /\ Cardinality(NamesOf) # 1 /\ Cardinality(NamesOf) = Len(children) =>
                  e.props = FoldUnique(NoAttributes, Nodes)
             /\ Cardinality(NamesOf) # 1 /\ Cardinality(NamesOf) # Len(children) =>
                  e.props = FoldMixed(NoAttributes, Nodes)
<1>1. children # <<>> /\ Len(Nodes) = Len(children) /\ Len(Nodes) # 1
      /\ NamesOf = {Nodes[i].name : i \in DOMAIN Nodes}
  BY ChildrenAreNumbered
<1>2. Source.name \notin OrderedTags
  BY DEF Source, Element, OrderedTags
<1>3. NamesOf \intersect {"type", "name"} = {}
  BY ChildrenAreNumbered, NamesAssumption
<1>4. ElementNode(Source).type = "element"
      /\ ElementNode(Source).props = Fold(Source, NoAttributes, Nodes)
  BY <1>1, SourceNode
<1>5. NamesOf # {}
  BY <1>1, ChildrenAreNumbered
<1> QED  BY <1>1, <1>2, <1>3, <1>4, <1>5 DEF Fold

LEMMA SourceOfSame ==
  ASSUME DocumentsTypeInv, Len(children) > 1, Cardinality(NamesOf) = 1, NEW n \in NamesOf
  PROVE  LET e == ElementNode(Source)
         IN  /\ e.type = "element" /\ DOMAIN e.props = {n} /\ NamesOf = {n}
             /\ e.props[n] = Array([i \in DOMAIN children |-> SameValue(FieldNode(children[i]))])
<1> DEFINE p == ElementNode(Source).props
           values == Array([i \in DOMAIN Nodes |-> SameValue(Nodes[i])])
<1>1. NamesOf = {n}
  <2>1. PICK x : NamesOf = {x}
    BY ChildrenAreNumbered, FS_Singleton
  <2> QED  BY <2>1
<1>2. Nodes[1].name = n
  <2>1. 1 \in DOMAIN children /\ Nodes[1].name = children[1].name
    BY ChildrenAreNumbered
  <2>2. children[1].name \in NamesOf
    BY <2>1 DEF NamesOf
  <2> QED  BY <1>1, <2>1, <2>2
<1>3. p = (n :> values) @@ NoAttributes
  BY <1>2, SourceOfSeveral DEF FoldSame
<1>4. [i \in DOMAIN Nodes |-> SameValue(Nodes[i])]
        = [i \in DOMAIN children |-> SameValue(FieldNode(children[i]))]
  BY ChildrenAreNumbered
<1>5. DOMAIN (n :> values) = {n} /\ (n :> values)[n] = values
  BY DEF :>
<1> HIDE DEF p
<1>6. DOMAIN p = {n} /\ p[n] = values
  BY <1>3, <1>5, OwnNothing
<1> QED  BY <1>1, <1>4, <1>6, SourceOfSeveral DEF p

LEMMA SourceOfUnique ==
  ASSUME DocumentsTypeInv, Len(children) > 1, Cardinality(NamesOf) # 1,
         Cardinality(NamesOf) = Len(children)
  PROVE  LET e == ElementNode(Source)
         IN  /\ e.type = "element"
             /\ NamesOf \subseteq DOMAIN e.props /\ DOMAIN e.props \subseteq NamesOf \union {"text"}
             /\ \A i, j \in DOMAIN children : children[i].name = children[j].name => i = j
             /\ \A i \in DOMAIN children :
                  e.props[children[i].name] = UniqueValue(FieldNode(children[i]))
<1>1. \A i, j \in DOMAIN children : children[i].name = children[j].name => i = j
  <2> DEFINE f == [i \in DOMAIN children |-> children[i].name]
  <2>1. f \in Surjection(DOMAIN children, NamesOf)
    BY DEF Surjection, NamesOf
  <2>2. IsFiniteSet(DOMAIN children) /\ Cardinality(DOMAIN children) = Len(children)
    BY ChildrenAreFinite
  <2>3. f \in Injection(DOMAIN children, NamesOf)
    BY <2>1, <2>2, FS_Surjection
  <2> QED  BY <2>3 DEF Injection, IsInjective
<1> DEFINE named(n) == CHOOSE i \in DOMAIN Nodes : Nodes[i].name = n
           falsy == {i \in DOMAIN Nodes : Nodes[i].type = "text" /\ Keys(Nodes[i]) <= 3
                                            /\ ~ Truthy(Nodes[i].props["text"])}
           f == [n \in NamesOf |-> UniqueValue(Nodes[named(n)])]
           last == CHOOSE i \in falsy : \A j \in falsy : j <= i
           g == IF falsy = {} THEN NoAttributes ELSE "text" :> Nodes[last].props["text"]
           p == ElementNode(Source).props
<1>2. p = (f @@ g) @@ NoAttributes
  <2>1. NamesOf = {Nodes[i].name : i \in DOMAIN Nodes}
    BY ChildrenAreNumbered
  <2>2. p = FoldUnique(NoAttributes, Nodes)
    BY SourceOfSeveral
  <2> DEFINE h == [n \in {Nodes[i].name : i \in DOMAIN Nodes} |-> UniqueValue(Nodes[named(n)])]
  <2>3. FoldUnique(NoAttributes, Nodes) = (h @@ g) @@ NoAttributes
    BY Zenon DEF FoldUnique
  <2>4. h = f
    BY <2>1
  <2> HIDE DEF h, f, g, p
  <2> QED  BY <2>2, <2>3, <2>4
<1>3. \A i \in DOMAIN children : named(children[i].name) = i
  <2> SUFFICES ASSUME NEW i \in DOMAIN children PROVE named(children[i].name) = i
    OBVIOUS
  <2>1. i \in DOMAIN Nodes /\ Nodes[i].name = children[i].name
    BY ChildrenAreNumbered
  <2>2. \A j \in DOMAIN Nodes : Nodes[j].name = children[i].name => j = i
    BY <1>1, ChildrenAreNumbered
  <2> QED  BY <2>1, <2>2
<1>4. \A i \in DOMAIN children : children[i].name \in NamesOf
  BY DEF NamesOf
<1>5. \A i \in DOMAIN children : f[children[i].name] = UniqueValue(FieldNode(children[i]))
  BY <1>3, <1>4, ChildrenAreNumbered
<1>6. DOMAIN f = NamesOf /\ DOMAIN g \subseteq {"text"}
  BY DescribedIsSomething DEF :>
<1> HIDE DEF f, g, p
<1>7. DOMAIN p = NamesOf \union DOMAIN g /\ \A n \in NamesOf : p[n] = f[n]
  <2>1. DOMAIN (f @@ g) = NamesOf \union DOMAIN g /\ \A n \in NamesOf : (f @@ g)[n] = f[n]
    BY <1>6 DEF @@
  <2> QED  BY <1>2, <2>1, OwnNothing
<1>8. \A i \in DOMAIN children : p[children[i].name] = UniqueValue(FieldNode(children[i]))
  BY <1>4, <1>5, <1>7
<1>9. ElementNode(Source).type = "element"
  BY SourceOfSeveral
<1> QED  BY <1>1, <1>6, <1>7, <1>8, <1>9 DEF p

(* The value of a name that one or several children have.                    *)
MixedList(n) ==
  [k \in 1 .. Cardinality(PositionsOf(n)) |->
     MixedValue(FieldNode(children[InOrder(PositionsOf(n))[k]]))]

LEMMA PositionsAre ==
  ASSUME DocumentsTypeInv, NEW n \in NamesOf
  PROVE  /\ PositionsOf(n) \in SUBSET Nat /\ IsFiniteSet(PositionsOf(n))
         /\ PositionsOf(n) \subseteq DOMAIN children
         /\ Cardinality(PositionsOf(n)) \in Nat \ {0}
         /\ \A k \in 1 .. Cardinality(PositionsOf(n)) :
              /\ InOrder(PositionsOf(n))[k] \in DOMAIN children
              /\ children[InOrder(PositionsOf(n))[k]].name = n
<1> DEFINE S == PositionsOf(n)
<1>1. S \in SUBSET Nat /\ S \subseteq DOMAIN children /\ S # {}
  BY ChildrenAreNumbered DEF PositionsOf, NamesOf
<1>2. IsFiniteSet(S)
  <2>1. IsFiniteSet(DOMAIN children)
    BY ChildrenAreFinite
  <2> QED  BY <1>1, <2>1, FS_Subset
<1>3. Cardinality(S) \in Nat /\ Cardinality(S) # 0
  BY <1>1, <1>2, FS_EmptySet, FS_CardinalityType
<1>4. \A k \in 1 .. Cardinality(S) : InOrder(S)[k] \in S
  BY <1>1, <1>2, OrderOf
<1>5. \A i \in S : children[i].name = n
  BY DEF PositionsOf
<1> QED  BY <1>1, <1>2, <1>3, <1>4, <1>5

LEMMA SourceOfMixed ==
  ASSUME DocumentsTypeInv, Len(children) > 1, Cardinality(NamesOf) # 1,
         Cardinality(NamesOf) # Len(children)
  PROVE  LET e == ElementNode(Source)
         IN  /\ e.type = "element" /\ DOMAIN e.props = NamesOf
             /\ \A n \in NamesOf :
                  e.props[n] = IF Cardinality(PositionsOf(n)) > 1 THEN Array(MixedList(n))
                               ELSE MixedList(n)[1]
<1> DEFINE named(n)  == Named(Nodes, n)
           values(n) == [i \in DOMAIN named(n) |-> MixedValue(named(n)[i])]
           f == [n \in NamesOf |-> IF Len(values(n)) > 1 THEN Array(values(n)) ELSE values(n)[1]]
           p == ElementNode(Source).props
<1>1. p = f @@ NoAttributes
  <2>1. NamesOf = {Nodes[i].name : i \in DOMAIN Nodes}
    BY ChildrenAreNumbered
  <2>2. p = FoldMixed(NoAttributes, Nodes)
    BY SourceOfSeveral
  <2>3. FoldMixed(NoAttributes, Nodes) = f @@ NoAttributes
    BY <2>1, Zenon DEF FoldMixed
  <2> QED  BY <2>2, <2>3
<1>2. ASSUME NEW n \in NamesOf
      PROVE  values(n) = MixedList(n) /\ Len(values(n)) = Cardinality(PositionsOf(n))
  <2>1. {i \in DOMAIN Nodes : Nodes[i].name = n} = PositionsOf(n)
    BY ChildrenAreNumbered DEF PositionsOf
  <2>2. named(n) = Selected(Nodes, PositionsOf(n))
    BY <2>1 DEF Named
  <2>3. /\ Cardinality(PositionsOf(n)) \in Nat
        /\ DOMAIN named(n) = 1 .. Cardinality(PositionsOf(n))
        /\ \A k \in 1 .. Cardinality(PositionsOf(n)) :
             named(n)[k] = Nodes[InOrder(PositionsOf(n))[k]]
    BY <2>2, PositionsAre, Selects
  <2>4. \A k \in 1 .. Cardinality(PositionsOf(n)) :
          named(n)[k] = FieldNode(children[InOrder(PositionsOf(n))[k]])
    BY <2>3, PositionsAre, ChildrenAreNumbered
  <2>5. values(n) = MixedList(n)
    BY <2>3, <2>4 DEF MixedList
  <2>6. MixedList(n) \in Seq({MixedList(n)[k] : k \in 1 .. Cardinality(PositionsOf(n))})
    BY <2>3 DEF MixedList
  <2>7. Len(MixedList(n)) = Cardinality(PositionsOf(n))
    BY <2>3, <2>6 DEF MixedList
  <2> QED  BY <2>5, <2>7
<1> HIDE DEF values
<1>3. DOMAIN f = NamesOf
      /\ \A n \in NamesOf : f[n] = IF Cardinality(PositionsOf(n)) > 1 THEN Array(MixedList(n))
                                   ELSE MixedList(n)[1]
  BY <1>2
<1> HIDE DEF f, p
<1>4. DOMAIN p = NamesOf
      /\ \A n \in NamesOf : p[n] = IF Cardinality(PositionsOf(n)) > 1 THEN Array(MixedList(n))
                                   ELSE MixedList(n)[1]
  BY <1>1, <1>3, OwnNothing
<1> QED  BY <1>4, SourceOfSeveral DEF p

-----------------------------------------------------------------------------
(* What is read below the element.                                           *)

ReadAs(value) == [i \in DOMAIN AsArray(value) |-> String128(AsArray(value)[i])]

LEMMA SentAre ==
  ASSUME DocumentsTypeInv, NEW n \in NamesOf
  PROVE  Sent(n) = [k \in 1 .. Cardinality(PositionsOf(n)) |->
                      children[InOrder(PositionsOf(n))[k]].text]
<1>1. Named(children, n) = Selected(children, PositionsOf(n))
  BY DEF Named, PositionsOf
<1> QED  BY <1>1, PositionsAre, Selects DEF Sent

LEMMA OneIsRead ==
  ASSUME DocumentsTypeInv, NEW i \in DOMAIN children,
         \A j \in DOMAIN children : children[j].name = children[i].name => j = i,
         NEW value, value.kind # "array", String128(value) = Native(children[i].text)
  PROVE  ReadAs(value) = Natives(Sent(children[i].name))
<1> DEFINE n == children[i].name
<1>1. n \in NamesOf
  BY DEF NamesOf
<1>2. PositionsOf(n) = {i}
  BY DEF PositionsOf
<1>3. Cardinality(PositionsOf(n)) = 1
  BY <1>2, FS_Singleton
<1>4. \A k \in 1 .. 1 : InOrder(PositionsOf(n))[k] = i
  <2>1. InOrder(PositionsOf(n)) \in [1 .. 1 -> PositionsOf(n)]
    BY <1>1, <1>3, PositionsAre, OrderOf
  <2> QED  BY <1>2, <2>1
<1> HIDE DEF n
<1>5. Sent(n) = [k \in 1 .. 1 |-> children[i].text]
  BY <1>1, <1>3, <1>4, SentAre
<1>6. AsArray(value) = <<value>>
  BY DEF AsArray
<1>7. ReadAs(value) = [k \in 1 .. 1 |-> Native(children[i].text)]
  BY <1>6 DEF ReadAs
<1>8. Natives(Sent(n)) = [k \in 1 .. 1 |-> Native(children[i].text)]
  BY <1>5 DEF Natives
<1> QED  BY <1>7, <1>8 DEF n

LEMMA ArraysAre ==
  ASSUME NEW items
  PROVE  AsArray(Array(items)) = items /\ Array(items).kind = "array"
                                       /\ Array(items).items = items
BY DEF AsArray, Array

LEMMA SourceIsRead ==
  ASSUME DocumentsTypeInv, NEW n \in NamesOf,
         \A i \in DOMAIN children : children[i].name = n => Legible(Native(children[i].text))
  PROVE  /\ n \in DOMAIN ElementNode(Source).props
         /\ ReadAs(ElementNode(Source).props[n]) = Natives(Sent(n))
<1> DEFINE p == ElementNode(Source).props
<1>1. Len(children) \in Nat /\ Len(children) > 0
  BY ChildrenAreNumbered DEF NamesOf
<1>2. PICK first \in DOMAIN children : children[first].name = n
  BY DEF NamesOf
<1>3. \A i \in DOMAIN children :
        children[i].name = n =>
          LET x == FieldNode(children[i])
          IN  /\ String128(SameValue(x)) = Native(children[i].text)
              /\ String128(UniqueValue(x)) = Native(children[i].text) /\ UniqueValue(x).kind # "array"
              /\ String128(MixedValue(x)) = Native(children[i].text) /\ MixedValue(x).kind # "array"
  BY ChildrenAreNumbered, ValuesAreRead
<1>4. CASE Len(children) = 1
  <2>1. first = 1 /\ DOMAIN children = {1}
    BY <1>4, ChildrenAreNumbered
  <2>2. children[1].name = n /\ Legible(Native(children[1].text))
    BY <1>2, <2>1
  <2>6. children[1].text # Empty
    BY <2>2, NativeTexts DEF Legible
  <2>3. n \in DOMAIN p /\ p[n] = Text(Native(children[1].text))
    BY <1>4, <2>2, <2>6, SourceOfOne
  <2>4. String128(p[n]) = Native(children[1].text) /\ p[n].kind # "array"
    BY <2>2, <2>3, TextsAreRead
  <2> HIDE DEF p
  <2>5. ReadAs(p[n]) = Natives(Sent(n))
    BY <2>1, <2>2, <2>4, OneIsRead
  <2> QED  BY <2>3, <2>5 DEF p
<1>5. CASE Len(children) > 1 /\ Cardinality(NamesOf) = 1
  <2>1. /\ DOMAIN p = {n} /\ NamesOf = {n}
        /\ p[n] = Array([i \in DOMAIN children |-> SameValue(FieldNode(children[i]))])
    BY <1>5, SourceOfSame
  <2>2. PositionsOf(n) = 1 .. Len(children)
    BY <2>1, ChildrenAreNumbered DEF PositionsOf, NamesOf
  <2>3. Sent(n) = [k \in 1 .. Len(children) |-> children[k].text]
    BY <1>1, <2>2, SentAre, AllAreInOrder
  <2>4. ReadAs(p[n]) = [k \in 1 .. Len(children) |->
                          String128(SameValue(FieldNode(children[k])))]
    BY <2>1, ArraysAre, ChildrenAreNumbered DEF ReadAs
  <2>5. \A k \in 1 .. Len(children) : String128(SameValue(FieldNode(children[k]))) = Native(children[k].text)
    BY <1>3, <2>2 DEF PositionsOf
  <2>6. Natives(Sent(n)) = [k \in 1 .. Len(children) |-> Native(children[k].text)]
    BY <2>3 DEF Natives
  <2>7. ReadAs(p[n]) = [k \in 1 .. Len(children) |-> Native(children[k].text)]
    BY <2>4, <2>5
  <2> HIDE DEF p
  <2> QED  BY <2>1, <2>6, <2>7 DEF p
<1>6. CASE Len(children) > 1 /\ Cardinality(NamesOf) # 1 /\ Cardinality(NamesOf) = Len(children)
  <2>1. /\ n \in DOMAIN p
        /\ \A j \in DOMAIN children : children[j].name = children[first].name => j = first
        /\ p[n] = UniqueValue(FieldNode(children[first]))
    BY <1>2, <1>6, SourceOfUnique
  <2>2. String128(p[n]) = Native(children[first].text) /\ p[n].kind # "array"
    BY <1>2, <1>3, <2>1
  <2> HIDE DEF p
  <2>3. ReadAs(p[n]) = Natives(Sent(n))
    BY <1>2, <2>1, <2>2, OneIsRead
  <2> QED  BY <2>1, <2>3 DEF p
<1>7. CASE Len(children) > 1 /\ Cardinality(NamesOf) # 1 /\ Cardinality(NamesOf) # Len(children)
  <2> DEFINE S == PositionsOf(n)
  <2>1. n \in DOMAIN p /\ p[n] = IF Cardinality(S) > 1 THEN Array(MixedList(n)) ELSE MixedList(n)[1]
    BY <1>7, SourceOfMixed
  <2>2. Cardinality(S) \in Nat \ {0}
    BY PositionsAre
  <2>3. \A k \in 1 .. Cardinality(S) :
          /\ MixedList(n)[k].kind # "array"
          /\ String128(MixedList(n)[k]) = Native(children[InOrder(S)[k]].text)
    BY <1>3, PositionsAre DEF MixedList
  <2>4. DOMAIN MixedList(n) = 1 .. Cardinality(S)
    BY DEF MixedList
  <2>5. ReadAs(p[n]) = [k \in 1 .. Cardinality(S) |-> String128(MixedList(n)[k])]
    <3>1. CASE Cardinality(S) > 1
      BY <2>1, <2>4, <3>1, ArraysAre DEF ReadAs
    <3>2. CASE Cardinality(S) = 1
      <4>1. p[n] = MixedList(n)[1] /\ p[n].kind # "array"
        BY <2>1, <2>3, <3>2
      <4> HIDE DEF p
      <4>2. AsArray(p[n]) = <<MixedList(n)[1]>>
        BY <4>1 DEF AsArray
      <4> QED  BY <3>2, <4>2 DEF ReadAs
    <3> QED  BY <2>2, <3>1, <3>2
  <2> HIDE DEF p
  <2>6. ReadAs(p[n]) = Natives(Sent(n))
    <3>1. Natives(Sent(n)) = [k \in 1 .. Cardinality(S) |-> Native(children[InOrder(S)[k]].text)]
      BY SentAre DEF Natives
    <3>2. ReadAs(p[n]) = [k \in 1 .. Cardinality(S) |-> Native(children[InOrder(S)[k]].text)]
      BY <2>3, <2>5
    <3> QED  BY <3>1, <3>2
  <2> QED  BY <2>1, <2>6 DEF p
<1>8. Len(children) = 1 \/ Len(children) > 1
  BY <1>1
<1> HIDE DEF p
<1> QED  BY <1>4, <1>5, <1>6, <1>7, <1>8 DEF p

-----------------------------------------------------------------------------
(* What the folding of the parent leaves of the element.                     *)

(* The element keeps its level: it has its properties, and at most its own    *)
(* name and type besides.                                                    *)
Shows(value, e) ==
  /\ value = Object(value.props)
  /\ DOMAIN e.props \subseteq DOMAIN value.props
  /\ DOMAIN value.props \subseteq DOMAIN e.props \union {"$name", "$type"}
  /\ \A p \in DOMAIN e.props : value.props[p] = e.props[p]
  /\ "$name" \in DOMAIN value.props \ DOMAIN e.props => value.props["$name"] = Text("element")

LEMMA ThreeShow ==
  ASSUME NEW e, e.name = "element", "attributes" \notin DOMAIN e.props
  PROVE  /\ Shows(Stripped(e), e) /\ Shows(AsItIs(e), e) /\ Shows(Stripped(Merged(e)), e)
         /\ Stripped(e).kind # "array" /\ AsItIs(e).kind # "array"
         /\ Stripped(Merged(e)).kind # "array"
<1>1. \A props : Object(props).kind # "array" /\ Object(props).props = props
  BY DEF Object
<1>2. Shows(Stripped(e), e) /\ Stripped(e).kind # "array"
  BY <1>1 DEF Shows, Stripped
<1>3. Shows(AsItIs(e), e) /\ AsItIs(e).kind # "array"
  <2>1. PICK props : /\ AsItIs(e) = Object(props)
                     /\ DOMAIN props = DOMAIN e.props \union {"$name", "$type"}
                     /\ \A p \in DOMAIN e.props : props[p] = e.props[p]
                     /\ "$name" \notin DOMAIN e.props => props["$name"] = Text(e.name)
    BY AsItIsHas
  <2>2. AsItIs(e).props = props /\ AsItIs(e).kind # "array"
    BY <1>1, <2>1
  <2> QED  BY <2>1, <2>2 DEF Shows
<1>4. Shows(Stripped(Merged(e)), e) /\ Stripped(Merged(e)).kind # "array"
  <2> DEFINE w == WithoutAttributes(e.props)
             q == NoAttributes @@ w
  <2>1. Merged(e).props = q
    BY DEF Merged, AttributesOf, Node
  <2>2. DOMAIN w = DOMAIN e.props /\ \A p \in DOMAIN e.props : w[p] = e.props[p]
    BY DEF WithoutAttributes
  <2> HIDE DEF w
  <2>3. DOMAIN q = DOMAIN w /\ \A p \in DOMAIN w : q[p] = w[p]
    BY DescribedIsSomething DEF @@
  <2> HIDE DEF q
  <2>4. Stripped(Merged(e)) = Object(q)
    BY <2>1 DEF Stripped
  <2>5. Stripped(Merged(e)).props = q /\ Stripped(Merged(e)).kind # "array"
    BY <1>1, <2>4
  <2> QED  BY <2>2, <2>3, <2>4, <2>5 DEF Shows
<1> QED  BY <1>2, <1>3, <1>4

LEMMA ParentNodes ==
  ASSUME NEW list, NEW m \in Nat \ {0}, Siblings[place] = list, list \in Seq({Source, Sibling}),
         Len(list) = m, NEW nodes, nodes = [i \in 1 .. m |-> ElementNode(list[i])]
  PROVE  /\ Len(nodes) = m /\ DOMAIN nodes = 1 .. m
         /\ Parent.name \notin OrderedTags
         /\ Xml2js(Parent) = Object(Fold(Parent, NoAttributes, nodes))
<1>1. Parent.name = "parent" /\ Parent.text = Empty /\ Parent.attributes = NoAttributes
      /\ Parent.children = list /\ DOMAIN list = 1 .. m
  BY DEF Element, Parent
<1>2. nodes \in Seq({ElementNode(list[i]) : i \in 1 .. m}) /\ DOMAIN nodes = 1 .. m
  OBVIOUS
<1>3. Len(nodes) = m /\ nodes # <<>>
  BY <1>2
<1>4. Attributes(Parent) = NoAttributes
  BY <1>1 DEF Attributes
<1>5. ParentNode(Parent) = Compact(Parent, nodes)
  BY <1>1 DEF ParentNode
<1>6. Compact(Parent, nodes).props = Fold(Parent, NoAttributes, nodes)
  BY <1>1, <1>3, <1>4 DEF Compact, Node
<1>7. Xml2js(Parent) = Object(ParentNode(Parent).props)
  BY DEF Xml2js, Stripped
<1>8. Parent.name \notin OrderedTags
  BY <1>1 DEF OrderedTags
<1> QED  BY <1>2, <1>3, <1>5, <1>6, <1>7, <1>8

LEMMA SiblingNode == ElementNode(Sibling).name = "sibling"
<1>1. Sibling.name = "sibling"
  BY DEF Sibling, Field
<1> QED  BY <1>1 DEF ElementNode, Compact, Node

LEMMA TwoNames ==
  /\ Cardinality({"element"}) = 1
  /\ Cardinality({"sibling", "element"}) = 2
<1>1. IsFiniteSet({"element"}) /\ Cardinality({"element"}) = 1
  BY FS_Singleton
<1>2. "sibling" \notin {"element"}
  OBVIOUS
<1>3. {"sibling", "element"} = {"element"} \union {"sibling"}
  OBVIOUS
<1> QED  BY <1>1, <1>2, <1>3, FS_AddElement

LEMMA ReadFrom ==
  ASSUME NEW e, NEW p, Xml2js(Parent) = Object(p), "element" \in DOMAIN p,
         \/ Shows(p["element"], e) /\ p["element"].kind # "array"
         \/ \E items : p["element"] = Array(items) /\ Shows(items[1], e)
  PROVE  Shows(Received, e)
<1>1. Received = AsArray(p["element"])[1]
  BY ObjectsHave DEF Received
<1>2. CASE Shows(p["element"], e) /\ p["element"].kind # "array"
  <2>1. AsArray(p["element"]) = <<p["element"]>>
    BY <1>2 DEF AsArray
  <2> QED  BY <1>1, <1>2, <2>1
<1>3. CASE \E items : p["element"] = Array(items) /\ Shows(items[1], e)
  <2>1. PICK items : p["element"] = Array(items) /\ Shows(items[1], e)
    BY <1>3
  <2>2. AsArray(p["element"]) = items
    BY <2>1, ArraysAre
  <2> QED  BY <1>1, <2>1, <2>2
<1> QED  BY <1>2, <1>3

(* All that its parent has: the node of the element is folded into it, as     *)
(* what it has below it or, where it is a text, as no more than that.        *)
LEMMA ReceivedAlone ==
  ASSUME place = "alone",
         NEW e, e = ElementNode(Source), e.name = "element", "attributes" \notin DOMAIN e.props
  PROVE  /\ e.type = "element" => Shows(Received, e)
         /\ \A v : e.type = "text" /\ e.props["text"] = Text(v) => Received = Text(v)
<1>1. PICK list : list = <<Source>>
  OBVIOUS
<1>2. PICK nodes : nodes = [i \in 1 .. 1 |-> ElementNode(list[i])]
  OBVIOUS
<1>3. list \in Seq({Source, Sibling}) /\ Len(list) = 1 /\ Siblings[place] = list
  BY <1>1 DEF Siblings
<1>4. PICK p : p = Fold(Parent, NoAttributes, nodes)
  OBVIOUS
<1>5. Len(nodes) = 1 /\ Xml2js(Parent) = Object(p)
  <2>1. 1 \in Nat \ {0}
    OBVIOUS
  <2> QED  BY <1>2, <1>3, <1>4, <2>1, ParentNodes
<1>6. p = FoldOne(NoAttributes, e)
  <2>1. nodes[1] = e
    BY <1>1, <1>2
  <2> QED  BY <1>4, <1>5, <2>1 DEF Fold
<1>7. ASSUME e.type = "element" PROVE Shows(Received, e)
  <2>1. PICK name : name = "element" :> Stripped(e)
    OBVIOUS
  <2>2. p = name @@ NoAttributes
    BY <1>6, <1>7, <2>1 DEF FoldOne
  <2>3. DOMAIN name = {"element"} /\ name["element"] = Stripped(e)
    BY <2>1 DEF :>
  <2>4. "element" \in DOMAIN p /\ p["element"] = Stripped(e)
    BY <2>2, <2>3, OwnNothing
  <2> QED  BY <1>5, <2>4, ThreeShow, ReadFrom
<1>8. ASSUME NEW v, e.type = "text", e.props["text"] = Text(v) PROVE Received = Text(v)
  <2>1. PICK name, text : name = "element" :> Text(v) /\ text = "text" :> Text(v)
    OBVIOUS
  <2>2. AttributesOf(e) = NoAttributes
    BY DEF AttributesOf
  <2>3. p = ((NoAttributes @@ name) @@ text) @@ NoAttributes
    BY <1>6, <1>8, <2>1, <2>2 DEF FoldOne
  <2>4. /\ DOMAIN name = {"element"} /\ name["element"] = Text(v)
        /\ DOMAIN text = {"text"} /\ text["text"] = Text(v)
    BY <2>1 DEF :>
  <2> HIDE <2>1
  <2>5. "element" \in DOMAIN (NoAttributes @@ name) /\ (NoAttributes @@ name)["element"] = Text(v)
    BY <2>4, DescribedIsSomething DEF @@
  <2>6. /\ "element" \in DOMAIN ((NoAttributes @@ name) @@ text)
        /\ ((NoAttributes @@ name) @@ text)["element"] = Text(v)
    BY <2>5 DEF @@
  <2>7. "element" \in DOMAIN p /\ p["element"] = Text(v)
    BY <2>3, <2>6, OwnNothing
  <2>8. Property(Xml2js(Parent), "element") = Text(v)
    BY <1>5, <2>7, ObjectsHave
  <2>9. AsArray(Text(v)) = <<Text(v)>>
    BY DEF AsArray, Text
  <2> QED  BY <2>8, <2>9 DEF Received
<1> QED  BY <1>7, <1>8

LEMMA ReceivedAmong ==
  ASSUME place = "among",
         NEW e, e = ElementNode(Source), e.name = "element", "attributes" \notin DOMAIN e.props,
         e.type = "text" => ~ (Keys(e) <= 3)
  PROVE  Shows(Received, e)
<1>1. PICK list : list = <<Sibling, Source>>
  OBVIOUS
<1>2. PICK nodes : nodes = [i \in 1 .. 2 |-> ElementNode(list[i])]
  OBVIOUS
<1>3. list \in Seq({Source, Sibling}) /\ Len(list) = 2 /\ Siblings[place] = list
  BY <1>1 DEF Siblings
<1>4. PICK p : p = Fold(Parent, NoAttributes, nodes)
  OBVIOUS
<1>5. Len(nodes) = 2 /\ DOMAIN nodes = 1 .. 2 /\ Parent.name \notin OrderedTags
      /\ Xml2js(Parent) = Object(p)
  <2>1. 2 \in Nat \ {0}
    OBVIOUS
  <2>2. PICK k \in Nat \ {0} : k = 2
    BY <2>1
  <2>3. Len(list) = k /\ nodes = [i \in 1 .. k |-> ElementNode(list[i])]
    BY <1>2, <1>3, <2>2
  <2> HIDE <2>2
  <2>4. Len(nodes) = k /\ DOMAIN nodes = 1 .. k /\ Parent.name \notin OrderedTags
        /\ Xml2js(Parent) = Object(Fold(Parent, NoAttributes, nodes))
    BY <1>3, <2>3, ParentNodes
  <2> QED  BY <1>4, <2>2, <2>4
<1>6. nodes[1].name = "sibling" /\ nodes[2] = e /\ DOMAIN nodes = {1, 2}
  BY <1>1, <1>2, <1>5, SiblingNode
<1>7. {nodes[i].name : i \in DOMAIN nodes} = {"sibling", "element"}
  BY <1>6
<1>8. p = FoldUnique(NoAttributes, nodes)
  BY <1>4, <1>5, <1>7, TwoNames DEF Fold
<1> DEFINE named(n) == CHOOSE i \in DOMAIN nodes : nodes[i].name = n
           falsy == {i \in DOMAIN nodes : nodes[i].type = "text" /\ Keys(nodes[i]) <= 3
                                            /\ ~ Truthy(nodes[i].props["text"])}
           f == [n \in {nodes[i].name : i \in DOMAIN nodes} |-> UniqueValue(nodes[named(n)])]
           last == CHOOSE i \in falsy : \A j \in falsy : j <= i
           g == IF falsy = {} THEN NoAttributes ELSE "text" :> nodes[last].props["text"]
<1>9. p = (f @@ g) @@ NoAttributes
  BY <1>8, Zenon DEF FoldUnique
<1>10. named("element") = 2
  BY <1>6
<1>11. "element" \in DOMAIN f /\ f["element"] = UniqueValue(e)
  BY <1>6, <1>7, <1>10
<1> HIDE DEF f, g
<1>12. "element" \in DOMAIN (f @@ g) /\ (f @@ g)["element"] = UniqueValue(e)
  BY <1>11 DEF @@
<1>13. "element" \in DOMAIN p /\ p["element"] = UniqueValue(e)
  BY <1>9, <1>12, OwnNothing
<1>14. UniqueValue(e) = Stripped(Merged(e))
  BY DEF UniqueValue
<1>15. "element" \in DOMAIN p /\ Shows(p["element"], e) /\ p["element"].kind # "array"
  BY <1>13, <1>14, ThreeShow
<1> QED  BY <1>5, <1>15, ReadFrom

LEMMA ReceivedTwins ==
  ASSUME place = "twins",
         NEW e, e = ElementNode(Source), e.name = "element", "attributes" \notin DOMAIN e.props,
         e.type = "text" \/ Cardinality(DOMAIN e.props) > 1
  PROVE  Shows(Received, e)
<1>1. PICK list : list = <<Source, Source>>
  OBVIOUS
<1>2. PICK nodes : nodes = [i \in 1 .. 2 |-> ElementNode(list[i])]
  OBVIOUS
<1>3. list \in Seq({Source, Sibling}) /\ Len(list) = 2 /\ Siblings[place] = list
  BY <1>1 DEF Siblings
<1>4. PICK p : p = Fold(Parent, NoAttributes, nodes)
  OBVIOUS
<1>5. Len(nodes) = 2 /\ DOMAIN nodes = 1 .. 2 /\ Parent.name \notin OrderedTags
      /\ Xml2js(Parent) = Object(p)
  <2>1. 2 \in Nat \ {0}
    OBVIOUS
  <2> QED  BY <1>2, <1>3, <1>4, <2>1, ParentNodes
<1>6. nodes[1] = e /\ nodes[2] = e /\ DOMAIN nodes = {1, 2}
  BY <1>1, <1>2, <1>5
<1>7. {nodes[i].name : i \in DOMAIN nodes} = {"element"}
  BY <1>6
<1>8. p = FoldSame(NoAttributes, nodes)
  <2>1. {"element"} \intersect {"type", "name"} = {}
    OBVIOUS
  <2> QED  BY <1>4, <1>5, <1>7, <2>1, TwoNames DEF Fold
<1>9. PICK items : items = [i \in DOMAIN nodes |-> SameValue(nodes[i])]
  OBVIOUS
<1>10. p = ("element" :> Array(items)) @@ NoAttributes
  BY <1>6, <1>8, <1>9 DEF FoldSame
<1>11. DOMAIN ("element" :> Array(items)) = {"element"}
       /\ ("element" :> Array(items))["element"] = Array(items)
  BY DEF :>
<1>12. "element" \in DOMAIN p /\ p["element"] = Array(items)
  BY <1>10, <1>11, OwnNothing
<1>13. SameValue(e) = AsItIs(e) \/ SameValue(e) = Stripped(Merged(e))
  BY DEF SameValue
<1>14. Shows(items[1], e)
  BY <1>6, <1>9, <1>13, ThreeShow
<1> QED  BY <1>5, <1>12, <1>14, ReadFrom

LEMMA ReceivedMixed ==
  ASSUME place = "mixed",
         NEW e, e = ElementNode(Source), e.name = "element", "attributes" \notin DOMAIN e.props,
         e.type = "text" => ~ (Keys(e) <= 3)
  PROVE  Shows(Received, e)
<1>1. PICK list : list = <<Source, Sibling, Source>>
  OBVIOUS
<1>2. PICK nodes : nodes = [i \in 1 .. 3 |-> ElementNode(list[i])]
  OBVIOUS
<1>3. list \in Seq({Source, Sibling}) /\ Len(list) = 3 /\ Siblings[place] = list
  BY <1>1 DEF Siblings
<1>4. PICK p : p = Fold(Parent, NoAttributes, nodes)
  OBVIOUS
<1>5. Len(nodes) = 3 /\ DOMAIN nodes = 1 .. 3 /\ Parent.name \notin OrderedTags
      /\ Xml2js(Parent) = Object(p)
  <2>1. 3 \in Nat \ {0}
    OBVIOUS
  <2>2. PICK k \in Nat \ {0} : k = 3
    BY <2>1
  <2>3. Len(list) = k /\ nodes = [i \in 1 .. k |-> ElementNode(list[i])]
    BY <1>2, <1>3, <2>2
  <2> HIDE <2>2
  <2>4. Len(nodes) = k /\ DOMAIN nodes = 1 .. k /\ Parent.name \notin OrderedTags
        /\ Xml2js(Parent) = Object(Fold(Parent, NoAttributes, nodes))
    BY <1>3, <2>3, ParentNodes
  <2> QED  BY <1>4, <2>2, <2>4
<1>6. nodes[1] = e /\ nodes[2].name = "sibling" /\ nodes[3] = e /\ DOMAIN nodes = {1, 2, 3}
  BY <1>1, <1>2, <1>5, SiblingNode
<1>7. {nodes[i].name : i \in DOMAIN nodes} = {"sibling", "element"}
  BY <1>6
<1>8. p = FoldMixed(NoAttributes, nodes)
  BY <1>4, <1>5, <1>7, TwoNames DEF Fold
<1> DEFINE named(n)  == Named(nodes, n)
           values(n) == [i \in DOMAIN named(n) |-> MixedValue(named(n)[i])]
           f == [n \in {nodes[i].name : i \in DOMAIN nodes} |->
                   IF Len(values(n)) > 1 THEN Array(values(n)) ELSE values(n)[1]]
<1>9. p = f @@ NoAttributes
  BY <1>8, Zenon DEF FoldMixed
<1>10. PICK S : S = {1, 3}
  OBVIOUS
<1>11. named("element") = Selected(nodes, S)
  <2>1. {i \in DOMAIN nodes : nodes[i].name = "element"} = S
    BY <1>6, <1>10
  <2> QED  BY <2>1 DEF Named
<1>12. IsFiniteSet(S) /\ Cardinality(S) = 2 /\ S \in SUBSET Nat
  <2>1. IsFiniteSet({1}) /\ Cardinality({1}) = 1
    BY FS_Singleton
  <2>2. 3 \notin {1} /\ S = {1} \union {3}
    BY <1>10
  <2>3. S \in SUBSET Nat
    BY <1>10
  <2> QED  BY <2>1, <2>2, <2>3, FS_AddElement
<1>13. /\ DOMAIN Selected(nodes, S) = 1 .. 2
       /\ \A k \in 1 .. 2 : InOrder(S)[k] \in S /\ Selected(nodes, S)[k] = nodes[InOrder(S)[k]]
  BY <1>12, Selects
<1>14. \A k \in 1 .. 2 : Selected(nodes, S)[k] = e
  BY <1>6, <1>10, <1>13
<1>15. PICK list2 : list2 = [k \in 1 .. 2 |-> MixedValue(e)]
  OBVIOUS
<1>16. values("element") = list2
  BY <1>11, <1>13, <1>14, <1>15
<1>17. Len(list2) = 2
  <2>1. list2 \in Seq({MixedValue(e)})
    BY <1>15
  <2> QED  BY <1>15, <2>1
<1> HIDE DEF values
<1>18. "element" \in DOMAIN f /\ f["element"] = Array(list2)
  BY <1>7, <1>16, <1>17
<1> HIDE DEF f
<1>19. "element" \in DOMAIN p /\ p["element"] = Array(list2)
  BY <1>9, <1>18, OwnNothing
<1>20. MixedValue(e) = Stripped(e)
  BY DEF MixedValue
<1>21. Shows(list2[1], e)
  BY <1>15, <1>20, ThreeShow
<1> QED  BY <1>5, <1>19, <1>21, ReadFrom

LEMMA SourceKeeps ==
  ASSUME DocumentsTypeInv, children # <<>>, KeepsItsLevel
  PROVE  LET e == ElementNode(Source)
         IN  /\ e.name = "element" /\ "attributes" \notin DOMAIN e.props
             /\ e.type = "text" => ~ (Keys(e) <= 3)
             /\ place = "alone" => e.type = "element"
             /\ place = "twins" => e.type = "text" \/ Cardinality(DOMAIN e.props) > 1
<1> DEFINE e == ElementNode(Source)
           p == e.props
<1>1. e.name = "element"
  BY SourceNode
<1>2. Len(children) \in Nat /\ Len(children) > 0 /\ "attributes" \notin NamesOf
  BY ChildrenAreNumbered, NamesAssumption, EmptySeq DEF DocumentsTypeInv
<1>3. place = "twins" => \/ Cardinality(NamesOf) > 1
                         \/ Len(children) = 1 /\ children[1].text # Empty
  BY DEF KeepsItsLevel, OneText, NamesOf
<1>4. CASE Len(children) = 1 /\ children[1].text # Empty
  <2> DEFINE c == children[1]
  <2>1. e.type = "text" /\ DOMAIN p = DOMAIN c.attributes \union {c.name, "text"}
    BY <1>4, SourceOfOne
  <2>2. c \in Children /\ c.name \in Names /\ c.name \notin {"text", "attributes"}
    BY <1>4, ChildrenAreNumbered, ChildrenAreFields, NamesAssumption
  <2>3. DOMAIN c.attributes \subseteq {"techDescription"}
    BY <2>2, ChildrenAreFields, DescribedIsSomething
  <2>4. IsFiniteSet({c.name, "text"}) /\ Cardinality({c.name, "text"}) = 2
    <3>1. PICK S : S = {c.name}
      OBVIOUS
    <3>2. IsFiniteSet(S) /\ Cardinality(S) = 1
      BY <3>1, FS_Singleton
    <3>3. {c.name, "text"} = S \union {"text"} /\ "text" \notin S
      BY <2>2, <3>1
    <3>4. IsFiniteSet(S \union {"text"}) /\ Cardinality(S \union {"text"}) = 2
      BY <3>2, <3>3, FS_AddElement
    <3> QED  BY <3>3, <3>4
  <2> HIDE DEF c, p
  <2>5. IsFiniteSet(DOMAIN p)
    <3>1. IsFiniteSet({"techDescription"})
      BY FS_Singleton
    <3>2. IsFiniteSet(DOMAIN c.attributes)
      BY <2>3, <3>1, FS_Subset
    <3>3. IsFiniteSet(DOMAIN c.attributes \union {c.name, "text"})
      BY <2>4, <3>2, FS_Union
    <3> QED  BY <2>1, <3>3
  <2>6. Cardinality(DOMAIN p) \in Nat /\ Cardinality(DOMAIN p) >= 2
    <3>1. {c.name, "text"} \in SUBSET (DOMAIN p)
      BY <2>1
    <3>2. Cardinality({c.name, "text"}) <= Cardinality(DOMAIN p)
      BY <2>5, <3>1, FS_Subset
    <3> QED  BY <2>4, <2>5, <3>2, FS_CardinalityType
  <2>7. ~ (Keys(e) <= 3)
    BY <2>6 DEF Keys, p
  <2>8. "attributes" \notin DOMAIN p
    BY <2>1, <2>2, <2>3
  <2>9. place # "alone"
    BY <1>4 DEF KeepsItsLevel, OneText
  <2> QED  BY <1>1, <2>1, <2>7, <2>8, <2>9 DEF p
<1>5. CASE Len(children) = 1 /\ children[1].text = Empty
  <2>1. e.type = "element" /\ DOMAIN p = {children[1].name}
    BY <1>5, SourceOfOneEmpty
  <2>2. NamesOf = {children[1].name}
    BY <1>5, ChildrenAreNumbered DEF NamesOf
  <2>3. Cardinality(NamesOf) = 1
    BY <2>2, FS_Singleton
  <2>4. place # "twins"
    BY <1>3, <1>5, <2>3
  <2> QED  BY <1>1, <1>2, <2>1, <2>2, <2>4
<1>6. CASE Len(children) > 1 /\ Cardinality(NamesOf) = 1
  <2>1. PICK n : n \in NamesOf
    BY <1>6, SourceOfSeveral
  <2>2. e.type = "element" /\ DOMAIN p = {n}
    BY <1>6, <2>1, SourceOfSame
  <2>3. place # "twins"
    BY <1>3, <1>6
  <2> QED  BY <1>1, <1>2, <2>1, <2>2, <2>3
<1>7. CASE Len(children) > 1 /\ Cardinality(NamesOf) # 1
  <2>1. IsFiniteSet(NamesOf) /\ Cardinality(NamesOf) \in Nat
    BY ChildrenAreNumbered
  <2>2. Cardinality(NamesOf) > 1
    <3>1. NamesOf # {}
      BY <1>7, SourceOfSeveral
    <3>2. Cardinality(NamesOf) # 0
      BY <2>1, <3>1, FS_EmptySet
    <3> QED  BY <1>7, <2>1, <3>2
  <2>3. e.type = "element" /\ NamesOf \subseteq DOMAIN p /\ DOMAIN p \subseteq NamesOf \union {"text"}
    <3>1. CASE Cardinality(NamesOf) = Len(children)
      BY <1>7, <3>1, SourceOfUnique
    <3>2. CASE Cardinality(NamesOf) # Len(children)
      BY <1>7, <3>2, SourceOfMixed
    <3> QED  BY <3>1, <3>2
  <2> HIDE DEF p
  <2>4. Cardinality(DOMAIN p) > 1
    <3>1. IsFiniteSet(NamesOf \union {"text"})
      BY <2>1, FS_AddElement
    <3>2. IsFiniteSet(DOMAIN p)
      BY <2>3, <3>1, FS_Subset
    <3>3. Cardinality(NamesOf) <= Cardinality(DOMAIN p) /\ Cardinality(DOMAIN p) \in Nat
      BY <2>3, <3>2, FS_Subset, FS_CardinalityType
    <3> QED  BY <2>1, <2>2, <3>3
  <2>5. "attributes" \notin DOMAIN p
    BY <1>2, <2>3
  <2>6. e.type = "element" /\ e.type # "text"
    BY <2>3
  <2>7. e.name = "element" /\ "attributes" \notin DOMAIN e.props /\ Cardinality(DOMAIN e.props) > 1
    BY <1>1, <2>4, <2>5 DEF p
  <2> HIDE DEF e
  <2> QED  BY <2>6, <2>7 DEF e
<1>8. Len(children) = 1 \/ Len(children) > 1
  <2>1. PICK m : m = Len(children)
    OBVIOUS
  <2>2. m \in Nat /\ m # 0
    BY <1>2, <2>1
  <2>3. m = 1 \/ m > 1
    BY <2>2
  <2> QED  BY <2>1, <2>3
<1> HIDE DEF e
<1> QED  BY <1>4, <1>5, <1>6, <1>7, <1>8 DEF e

LEMMA ReceivedIsTheSource ==
  ASSUME DocumentsTypeInv, children # <<>>, KeepsItsLevel
  PROVE  Shows(Received, ElementNode(Source))
<1>1. PICK e : e = ElementNode(Source)
  OBVIOUS
<1>2. /\ e.name = "element" /\ "attributes" \notin DOMAIN e.props
      /\ e.type = "text" => ~ (Keys(e) <= 3)
      /\ place = "alone" => e.type = "element"
      /\ place = "twins" => e.type = "text" \/ Cardinality(DOMAIN e.props) > 1
  BY <1>1, SourceKeeps
<1>3. place \in {"alone", "among", "twins", "mixed"}
  BY DEF DocumentsTypeInv, Places
<1>4. CASE place = "among"
  BY <1>1, <1>2, <1>4, ReceivedAmong
<1>5. CASE place = "twins"
  BY <1>1, <1>2, <1>5, ReceivedTwins
<1>6. CASE place = "mixed"
  BY <1>1, <1>2, <1>6, ReceivedMixed
<1>7. CASE place = "alone"
  BY <1>1, <1>2, <1>7, ReceivedAlone
<1> QED  BY <1>1, <1>3, <1>4, <1>5, <1>6, <1>7

LEMMA ShownIsProperty ==
  ASSUME NEW value, NEW e, Shows(value, e), NEW p
  PROVE  /\ p \in DOMAIN e.props => HasProperty(value, p) /\ Property(value, p) = e.props[p]
         /\ p \notin DOMAIN e.props \union {"$name", "$type"} =>
              ~ HasProperty(value, p) /\ Property(value, p) = Undefined
<1>1. PICK props : props = value.props /\ value = Object(props)
  BY DEF Shows
<1>2. /\ p \in DOMAIN e.props => p \in DOMAIN props /\ props[p] = e.props[p]
      /\ p \notin DOMAIN e.props \union {"$name", "$type"} => p \notin DOMAIN props
  BY <1>1 DEF Shows
<1> QED  BY <1>1, <1>2, ObjectsHave

LEMMA SentAreAll ==
  ASSUME DocumentsTypeInv, NEW n \in NamesOf,
         \A i \in DOMAIN Sent(n) : Legible(Native(Sent(n)[i]))
  PROVE  \A i \in DOMAIN children :
           children[i].name = n => Legible(Native(children[i].text))
<1> SUFFICES ASSUME NEW i \in DOMAIN children, children[i].name = n
             PROVE  Legible(Native(children[i].text))
  OBVIOUS
<1>1. i \in PositionsOf(n)
  BY DEF PositionsOf
<1>2. PICK k \in 1 .. Cardinality(PositionsOf(n)) : InOrder(PositionsOf(n))[k] = i
  BY <1>1, PositionsAre, OrderOf
<1>3. Sent(n)[k] = children[i].text /\ k \in DOMAIN Sent(n)
  <2>1. PICK o : o = InOrder(PositionsOf(n))
    OBVIOUS
  <2>2. Sent(n) = [j \in 1 .. Cardinality(PositionsOf(n)) |-> children[o[j]].text] /\ o[k] = i
    BY <1>2, <2>1, SentAre
  <2> QED  BY <2>2
<1> QED  BY <1>3

LEMMA IdsAreReadHere ==
  ASSUME DocumentsTypeInv
  PROVE  IdsAreRead
<1> SUFFICES ASSUME NEW n \in NamesOf, KeepsItsLevel,
                    \A i \in DOMAIN Sent(n) : Native(Sent(n)[i]) \notin Falsy \union {Empty}
             PROVE  Read(Received, n) = Natives(Sent(n))
  BY DEF IdsAreRead, NamesOf
<1>1. children # <<>>
  BY DEF NamesOf
<1>2. /\ n \in DOMAIN ElementNode(Source).props
      /\ ReadAs(ElementNode(Source).props[n]) = Natives(Sent(n))
  BY SentAreAll, SourceIsRead DEF Legible
<1>3. Property(Received, n) = ElementNode(Source).props[n]
  BY <1>1, <1>2, ReceivedIsTheSource, ShownIsProperty
<1>4. Read(Received, n) = ReadAs(Property(Received, n))
  BY DEF Read, ReadAs
<1> QED  BY <1>2, <1>3, <1>4

(* A 0 among several has lost its text.                                      *)
LEMMA FalsyAreGarbled ==
  ASSUME NEW c \in Children, c.text # Empty
  PROVE  String128(SameValue(FieldNode(c))) = IF Native(c.text) \in Falsy THEN Garbled
                                              ELSE Native(c.text)
<1>1. CASE Native(c.text) \notin Falsy
  <2>1. Legible(Native(c.text))
    BY <1>1, NativeTexts DEF Legible
  <2> QED  BY <1>1, <2>1, ValuesAreRead
<1>2. CASE Native(c.text) \in Falsy
  <2> DEFINE x == FieldNode(c)
  <2>1. x.type = "text" /\ "text" \in DOMAIN x.props /\ x.props["text"] = Text(Native(c.text))
    BY FieldNodes, FieldProps
  <2>2. SameValue(x) = AsItIs(x)
    BY <2>1 DEF SameValue
  <2> HIDE DEF x
  <2>3. PICK props : /\ AsItIs(x) = Object(props)
                     /\ DOMAIN props = DOMAIN x.props \union {"$name", "$type"}
                     /\ \A p \in DOMAIN x.props : props[p] = x.props[p]
    BY AsItIsHas
  <2>4. AsItIs(x).kind = "object" /\ Property(AsItIs(x), "text") = Text(Native(c.text))
    BY <2>1, <2>3, ObjectsHave
  <2>5. ~ Truthy(Property(AsItIs(x), "text"))
    BY <1>2, <2>4, TruthyTexts DEF Legible
  <2>6. AsItIs(x) # Object(NoAttributes)
    <3>1. Object(props).props = props /\ Object(NoAttributes).props = NoAttributes
      BY DEF Object
    <3>2. props # NoAttributes
      BY <2>3, DescribedIsSomething
    <3> QED  BY <2>3, <3>1, <3>2
  <2>7. String128(AsItIs(x)) = Garbled
    BY <2>4, <2>5, <2>6 DEF String128
  <2> QED  BY <1>2, <2>2, <2>7 DEF x
<1> QED  BY <1>1, <1>2

LEMMA ReaderIsTheSame ==
  /\ Reader!Garbled = Garbled /\ Reader!Falsy = Falsy
  /\ \A v : Reader!Native(v) = Native(v)
BY DEF Reader!Garbled, Garbled, Reader!Falsy, Falsy, Reader!Native, Native

LEMMA IdsReadAlike ==
  ASSUME DocumentsTypeInv, NEW n \in Names, place \in {"among", "mixed"}, children # <<>>,
         \A i \in DOMAIN children :
           children[i].name = n /\ children[i].text # Empty
                                /\ children[i].attributes = NoAttributes
  PROVE  /\ Reader!ReadIds(Sent(n)) = Read(Received, n)
         /\ Reader!SourcePresent("storyID", Sent(n)) <=> Truthy(Property(Received, n))
<1> DEFINE p == ElementNode(Source).props
           m == Len(children)
<1>1. m \in Nat /\ m # 0 /\ DOMAIN children = 1 .. m /\ \A i \in 1 .. m : children[i] \in Children
  BY ChildrenAreNumbered, EmptySeq DEF DocumentsTypeInv
<1>2. NamesOf = {n}
  BY <1>1 DEF NamesOf
<1>3. Cardinality(NamesOf) = 1
  BY <1>2, FS_Singleton
<1>4. PositionsOf(n) = 1 .. m
  BY <1>1 DEF PositionsOf
<1>5. Sent(n) = [k \in 1 .. m |-> children[k].text]
  BY <1>1, <1>2, <1>4, SentAre, AllAreInOrder
<1>6. Shows(Received, ElementNode(Source))
  BY ReceivedIsTheSource DEF KeepsItsLevel
<1>7. Read(Received, n) = ReadAs(Property(Received, n))
  BY DEF Read, ReadAs
<1>8. CASE m = 1
  <2> DEFINE v == children[1].text
  <2>1. v # Empty
    BY <1>1, <1>8
  <2>2. n \in DOMAIN p /\ p[n] = Text(Native(v))
    BY <1>1, <1>8, SourceOfOne
  <2>3. Property(Received, n) = Text(Native(v))
    BY <1>6, <2>2, ShownIsProperty
  <2>4. Sent(n) = <<v>>
    BY <1>5, <1>8
  <2> HIDE DEF v, m
  <2>5. AsArray(Text(Native(v))) = <<Text(Native(v))>> /\ String128(Text(Native(v))) = Native(v)
    BY DEF AsArray, String128, Text
  <2>6. Read(Received, n) = <<Native(v)>>
    BY <1>7, <2>3, <2>5 DEF ReadAs
  <2>7. Reader!ReadIds(<<v>>) = <<Native(v)>>
    BY ReaderIsTheSame DEF Reader!ReadIds
  <2>8. Reader!SourcePresent("storyID", <<v>>) <=> Native(v) \notin Falsy
    BY ReaderIsTheSame DEF Reader!SourcePresent, Reader!BecomesText
  <2>9. Native(v) # Empty
    BY <2>1, NativeTexts
  <2>10. Truthy(Text(Native(v))) <=> Native(v) \notin Falsy
    BY <2>9, TruthyTexts DEF Legible
  <2> QED  BY <2>3, <2>4, <2>6, <2>7, <2>8, <2>10
<1>9. CASE m > 1
  <2>1. /\ n \in DOMAIN p
        /\ p[n] = Array([i \in DOMAIN children |-> SameValue(FieldNode(children[i]))])
    BY <1>2, <1>3, <1>9, SourceOfSame
  <2>2. PICK items : items = [i \in 1 .. m |-> SameValue(FieldNode(children[i]))]
    OBVIOUS
  <2>3. Property(Received, n) = Array(items)
    BY <1>1, <1>6, <2>1, <2>2, ShownIsProperty
  <2>4. Read(Received, n) = [i \in 1 .. m |-> String128(items[i])]
    BY <1>7, <2>2, <2>3, ArraysAre DEF ReadAs
  <2>5. \A i \in 1 .. m : String128(items[i]) =
                           IF Native(children[i].text) \in Falsy THEN Garbled
                           ELSE Native(children[i].text)
    BY <1>1, <2>2, FalsyAreGarbled
  <2>6. Sent(n) \in Seq({children[k].text : k \in 1 .. m}) /\ Len(Sent(n)) = m
        /\ DOMAIN Sent(n) = 1 .. m
    BY <1>1, <1>5
  <2> HIDE DEF m
  <2>7. Reader!ReadIds(Sent(n)) =
          [i \in 1 .. m |-> IF Native(Sent(n)[i]) \in Falsy THEN Garbled ELSE Native(Sent(n)[i])]
    BY <1>9, <2>6, ReaderIsTheSame DEF Reader!ReadIds
  <2>8. Reader!ReadIds(Sent(n)) = Read(Received, n)
    <3>1. \A i \in 1 .. m : Sent(n)[i] = children[i].text
      BY <1>5
    <3>2. \A i \in 1 .. m :
            String128(items[i]) = IF Native(Sent(n)[i]) \in Falsy THEN Garbled
                                  ELSE Native(Sent(n)[i])
      BY <2>5, <3>1
    <3> QED  BY <2>4, <2>7, <3>2
  <2>9. Reader!SourcePresent("storyID", Sent(n))
    <3>1. Sent(n) # <<>> /\ Len(Sent(n)) # 1
      BY <1>1, <1>9, <2>6
    <3> QED  BY <3>1 DEF Reader!SourcePresent, Reader!BecomesText
  <2>10. Truthy(Property(Received, n))
    <3>1. Array(items).kind = "array" /\ Undefined.kind = "undefined" /\ \A t : Text(t).kind = "text"
      BY DEF Array, Undefined, Text
    <3> QED  BY <2>3, <3>1 DEF Truthy
  <2> QED  BY <2>8, <2>9, <2>10
<1> QED  BY <1>1, <1>8, <1>9

-----------------------------------------------------------------------------
(* Selecting from what was selected, and from two lists one after the other.  *)

LEMMA OrderComposes ==
  ASSUME NEW S \in SUBSET Nat, IsFiniteSet(S), NEW K \in SUBSET (1 .. Cardinality(S)),
         NEW T, T = {InOrder(S)[k] : k \in K}
  PROVE  /\ IsFiniteSet(K) /\ Cardinality(K) \in Nat
         /\ IsFiniteSet(T) /\ Cardinality(T) = Cardinality(K)
         /\ \A j \in 1 .. Cardinality(K) :
              InOrder(K)[j] \in K /\ InOrder(T)[j] = InOrder(S)[InOrder(K)[j]]
<1>1. PICK o : o = InOrder(S)
  OBVIOUS
<1>2. PICK c : c = Cardinality(S)
  OBVIOUS
<1>3. /\ c \in Nat /\ o \in [1 .. c -> S]
      /\ \A a, b \in 1 .. c : a < b => o[a] < o[b]
  BY <1>1, <1>2, OrderOf
<1>4. K \in SUBSET Nat /\ K \subseteq 1 .. c
  BY <1>2, <1>3
<1>5. IsFiniteSet(K)
  <2>1. IsFiniteSet(1 .. c)
    BY <1>3, FS_Interval
  <2> QED  BY <1>4, <2>1, FS_Subset
<1>6. PICK m : m = Cardinality(K)
  OBVIOUS
<1>7. PICK q : q = InOrder(K)
  OBVIOUS
<1>8. /\ m \in Nat /\ q \in [1 .. m -> K]
      /\ \A a, b \in 1 .. m : a < b => q[a] < q[b]
      /\ \A i \in K : \E k \in 1 .. m : q[k] = i
  BY <1>4, <1>5, <1>6, <1>7, OrderOf
<1>9. PICK f : f = [j \in 1 .. m |-> o[q[j]]]
  OBVIOUS
<1>10. \A j \in 1 .. m : q[j] \in K /\ q[j] \in 1 .. c
  BY <1>4, <1>8
<1>11. f \in [1 .. m -> T]
  BY <1>1, <1>9, <1>10
<1>12. T \in SUBSET Nat
  BY <1>1, <1>3, <1>4
<1>13. \A a, b \in 1 .. m : a < b => f[a] < f[b]
  BY <1>3, <1>8, <1>9, <1>10
<1>14. \A i \in T : \E k \in 1 .. m : f[k] = i
  <2> SUFFICES ASSUME NEW i \in T PROVE \E k \in 1 .. m : f[k] = i
    OBVIOUS
  <2>1. PICK k \in K : i = o[k]
    BY <1>1
  <2>2. PICK j \in 1 .. m : q[j] = k
    BY <1>8
  <2> QED  BY <1>9, <2>1, <2>2
<1>15. IsFiniteSet(T) /\ Cardinality(T) = m /\ InOrder(T) = f
  BY <1>8, <1>11, <1>12, <1>13, <1>14, OrderIsUnique
<1>16. \A j \in 1 .. m : InOrder(T)[j] = o[q[j]] /\ q[j] \in K
  BY <1>8, <1>9, <1>15
<1>17. IsFiniteSet(T) /\ Cardinality(T) = m /\ IsFiniteSet(K) /\ m \in Nat
  BY <1>5, <1>8, <1>15
<1> QED  BY <1>1, <1>6, <1>7, <1>16, <1>17

(* The positions A of a list of d, and the positions B of what follows it.    *)
Follows(S, d, A, B) ==
  /\ d \in Nat /\ A \in SUBSET (1 .. d) /\ B \in SUBSET Nat /\ IsFiniteSet(B)
  /\ \A j \in B : j > 0
  /\ \A i : i \in S <=> i \in A \/ \E j \in B : i = d + j

LEMMA OrderOfTwo ==
  ASSUME NEW S, NEW d, NEW A, NEW B, Follows(S, d, A, B)
  PROVE  /\ IsFiniteSet(A) /\ Cardinality(A) \in Nat /\ Cardinality(B) \in Nat
         /\ IsFiniteSet(S) /\ Cardinality(S) = Cardinality(A) + Cardinality(B)
         /\ \A k \in 1 .. Cardinality(A) : InOrder(S)[k] = InOrder(A)[k]
         /\ \A k \in 1 .. Cardinality(B) :
              InOrder(S)[Cardinality(A) + k] = d + InOrder(B)[k]
<1> d \in Nat /\ A \in SUBSET (1 .. d) /\ B \in SUBSET Nat /\ IsFiniteSet(B)
  BY DEF Follows
<1> (\A j \in B : j > 0) /\ \A i : i \in S <=> i \in A \/ \E j \in B : i = d + j
  BY DEF Follows
<1>1. IsFiniteSet(A) /\ A \in SUBSET Nat
  <2>1. IsFiniteSet(1 .. d)
    BY FS_Interval
  <2>2. IsFiniteSet(A)
    BY <2>1, FS_Subset
  <2> QED  BY <2>2
<1>2. PICK a, b, p, q : a = Cardinality(A) /\ b = Cardinality(B) /\ p = InOrder(A) /\ q = InOrder(B)
  OBVIOUS
<1>3. /\ a \in Nat /\ p \in [1 .. a -> A]
      /\ \A x, y \in 1 .. a : x < y => p[x] < p[y]
      /\ \A i \in A : \E k \in 1 .. a : p[k] = i
  BY <1>1, <1>2, OrderOf
<1>4. /\ b \in Nat /\ q \in [1 .. b -> B]
      /\ \A x, y \in 1 .. b : x < y => q[x] < q[y]
      /\ \A i \in B : \E k \in 1 .. b : q[k] = i
  BY <1>2, OrderOf
<1>5. PICK f : f = [k \in 1 .. a + b |-> IF k <= a THEN p[k] ELSE d + q[k - a]]
  OBVIOUS
<1>6. \A k \in 1 .. a : k \in 1 .. a + b /\ f[k] = p[k] /\ f[k] \in A
  BY <1>3, <1>4, <1>5
<1>7. \A k \in 1 .. b : /\ a + k \in 1 .. a + b /\ f[a + k] = d + q[k]
                        /\ q[k] \in B /\ f[a + k] \in S
  <2> SUFFICES ASSUME NEW k \in 1 .. b
               PROVE  /\ a + k \in 1 .. a + b /\ f[a + k] = d + q[k]
                      /\ q[k] \in B /\ f[a + k] \in S
    OBVIOUS
  <2>1. a + k \in 1 .. a + b /\ ~ (a + k <= a) /\ (a + k) - a = k
    BY <1>3, <1>4
  <2>2. f[a + k] = d + q[k]
    BY <1>5, <2>1
  <2> QED  BY <1>4, <2>1, <2>2
<1>8. \A k \in 1 .. a + b : k \in 1 .. a \/ (k - a \in 1 .. b /\ k = a + (k - a))
  BY <1>3, <1>4
<1>9. S \in SUBSET Nat /\ f \in [1 .. a + b -> S]
  <2>1. \A k \in 1 .. a + b : f[k] \in S
    <3> SUFFICES ASSUME NEW k \in 1 .. a + b PROVE f[k] \in S
      OBVIOUS
    <3>1. CASE k \in 1 .. a
      BY <1>6, <3>1
    <3>2. CASE k \notin 1 .. a
      <4>1. PICK l \in 1 .. b : k = a + l
        BY <1>8, <3>2
      <4> QED  BY <1>7, <4>1
    <3> QED  BY <3>1, <3>2
  <2>2. S \in SUBSET Nat
    <3> SUFFICES ASSUME NEW i \in S PROVE i \in Nat
      OBVIOUS
    <3>1. CASE i \in A
      BY <1>1, <3>1
    <3>2. CASE i \notin A
      <4>1. PICK j \in B : i = d + j
        BY <3>2
      <4> QED  BY <4>1
    <3> QED  BY <3>1, <3>2
  <2> QED  BY <1>5, <2>1, <2>2
<1>10. ASSUME NEW x \in 1 .. a + b, NEW y \in 1 .. a + b, x < y PROVE f[x] < f[y]
  <2>1. CASE y \in 1 .. a
    <3>1. x \in 1 .. a
      BY <1>3, <1>10, <2>1
    <3> QED  BY <1>3, <1>6, <1>10, <2>1, <3>1
  <2>2. CASE x \in 1 .. a /\ y \notin 1 .. a
    <3>1. f[x] \in 1 .. d
      BY <1>6, <2>2
    <3>2. PICK k \in 1 .. b : y = a + k
      BY <1>8, <2>2
    <3>3. f[y] = d + q[k] /\ q[k] \in Nat /\ q[k] > 0
      BY <1>7, <3>2
    <3> QED  BY <3>1, <3>3
  <2>3. CASE x \notin 1 .. a /\ y \notin 1 .. a
    <3>1. PICK k \in 1 .. b : x = a + k
      BY <1>8, <2>3
    <3>2. PICK l \in 1 .. b : y = a + l
      BY <1>8, <2>3
    <3>3. k < l
      BY <1>3, <1>10, <3>1, <3>2
    <3>4. f[x] = d + q[k] /\ f[y] = d + q[l] /\ q[k] \in Nat /\ q[l] \in Nat
      BY <1>7, <3>1, <3>2
    <3>5. q[k] < q[l]
      BY <1>4, <3>3
    <3> QED  BY <3>4, <3>5
  <2> QED  BY <2>1, <2>2, <2>3
<1>11. ASSUME NEW i \in S PROVE \E k \in 1 .. a + b : f[k] = i
  <2>1. CASE i \in A
    BY <1>3, <1>6, <2>1
  <2>2. CASE i \notin A
    <3>1. PICK j \in B : i = d + j
      BY <2>2
    <3>2. PICK k \in 1 .. b : q[k] = j
      BY <1>4
    <3> QED  BY <1>7, <3>1, <3>2
  <2> QED  BY <2>1, <2>2
<1>12. a + b \in Nat
  BY <1>3, <1>4
<1>13. IsFiniteSet(S) /\ Cardinality(S) = a + b /\ InOrder(S) = f
  BY <1>9, <1>10, <1>11, <1>12, OrderIsUnique
<1> QED  BY <1>1, <1>2, <1>3, <1>4, <1>6, <1>7, <1>13

(* The paths of a type that have a description, in a list of paths.           *)
Wanted(paths, tag) ==
  {i \in DOMAIN paths : paths[i].type = tag /\ paths[i].description # Empty}
Picked(paths, tag) == Selected(paths, Wanted(paths, tag))

LEMMA PickedIs ==
  ASSUME NEW R, NEW paths \in Seq(R), NEW tag
  PROVE  LET W == Wanted(paths, tag)
         IN  /\ IsFiniteSet(W) /\ Cardinality(W) \in Nat /\ W \in SUBSET (1 .. Len(paths))
             /\ DOMAIN Picked(paths, tag) = 1 .. Cardinality(W)
             /\ \A k \in 1 .. Cardinality(W) :
                  InOrder(W)[k] \in W /\ Picked(paths, tag)[k] = paths[InOrder(W)[k]]
             /\ Picked(paths, tag) \in Seq(R) /\ Len(Picked(paths, tag)) = Cardinality(W)
<1>1. PICK W : W = Wanted(paths, tag)
  OBVIOUS
<1>2. DOMAIN paths = 1 .. Len(paths) /\ Len(paths) \in Nat
  OBVIOUS
<1>3. W \in SUBSET (1 .. Len(paths)) /\ W \in SUBSET Nat
  BY <1>1, <1>2 DEF Wanted
<1>4. IsFiniteSet(W)
  <2>1. IsFiniteSet(1 .. Len(paths))
    BY <1>2, FS_Interval
  <2> QED  BY <1>3, <2>1, FS_Subset
<1>5. PICK p : p = Picked(paths, tag)
  OBVIOUS
<1>6. /\ Cardinality(W) \in Nat /\ DOMAIN p = 1 .. Cardinality(W) /\ Len(p) = Cardinality(W)
      /\ \A k \in 1 .. Cardinality(W) : InOrder(W)[k] \in W /\ p[k] = paths[InOrder(W)[k]]
  BY <1>1, <1>3, <1>4, <1>5, Selects DEF Picked
<1>7. p \in Seq(R)
  <2>1. p = [k \in 1 .. Cardinality(W) |-> paths[InOrder(W)[k]]]
    BY <1>1, <1>5 DEF Picked, Selected
  <2>2. \A k \in 1 .. Cardinality(W) : paths[InOrder(W)[k]] \in R
    <3> SUFFICES ASSUME NEW k \in 1 .. Cardinality(W) PROVE paths[InOrder(W)[k]] \in R
      OBVIOUS
    <3>1. PICK i : i = InOrder(W)[k]
      OBVIOUS
    <3>2. i \in 1 .. Len(paths)
      BY <1>3, <1>6, <3>1
    <3>3. paths[i] \in R
      BY <3>2, ElementOfSeq
    <3> QED  BY <3>1, <3>3
  <2> QED  BY <1>6, <2>1, <2>2
<1> QED  BY <1>1, <1>3, <1>4, <1>5, <1>6, <1>7

LEMMA PickedOfTwo ==
  ASSUME NEW R, NEW s \in Seq(R), NEW t \in Seq(R), NEW tag
  PROVE  Picked(s \o t, tag) = Picked(s, tag) \o Picked(t, tag)
<1>1. PICK d : d = Len(s)
  OBVIOUS
<1>2. PICK A, B, S : A = Wanted(s, tag) /\ B = Wanted(t, tag) /\ S = Wanted(s \o t, tag)
  OBVIOUS
<1>3. PICK st : st = s \o t
  OBVIOUS
<1>4. /\ st \in Seq(R) /\ Len(st) = d + Len(t) /\ d \in Nat /\ Len(t) \in Nat
      /\ DOMAIN s = 1 .. d /\ DOMAIN t = 1 .. Len(t) /\ DOMAIN st = 1 .. d + Len(t)
      /\ \A i \in 1 .. d : st[i] = s[i]
      /\ \A i \in 1 .. Len(t) : st[d + i] = t[i]
  <2>1. /\ st \in Seq(R) /\ Len(st) = d + Len(t)
        /\ \A i \in 1 .. d + Len(t) : st[i] = IF i <= d THEN s[i] ELSE t[i - d]
    BY <1>1, <1>3, ConcatProperties
  <2>2. d \in Nat /\ Len(t) \in Nat /\ DOMAIN s = 1 .. d /\ DOMAIN t = 1 .. Len(t)
        /\ DOMAIN st = 1 .. d + Len(t)
    BY <1>1, <2>1
  <2>3. \A i \in 1 .. d : st[i] = s[i]
    BY <2>1, <2>2
  <2>4. \A i \in 1 .. Len(t) : st[d + i] = t[i]
    <3> SUFFICES ASSUME NEW i \in 1 .. Len(t) PROVE st[d + i] = t[i]
      OBVIOUS
    <3>1. d + i \in 1 .. d + Len(t) /\ ~ (d + i <= d) /\ (d + i) - d = i
      BY <2>2
    <3> QED  BY <2>1, <3>1
  <2> QED  BY <2>1, <2>2, <2>3, <2>4
<1>5. A \in SUBSET (1 .. d) /\ B \in SUBSET Nat /\ IsFiniteSet(B) /\ B \subseteq 1 .. Len(t)
  BY <1>1, <1>2, <1>4, PickedIs
<1>6. \A i : i \in S <=> i \in A \/ \E j \in B : i = d + j
  <2>1. \A i \in 1 .. d : i \in S <=> i \in A
    BY <1>2, <1>3, <1>4 DEF Wanted
  <2>2. \A j \in 1 .. Len(t) : d + j \in S <=> j \in B
    BY <1>2, <1>3, <1>4 DEF Wanted
  <2>3. S \subseteq 1 .. d + Len(t)
    BY <1>2, <1>3, <1>4 DEF Wanted
  <2>4. \A i \in 1 .. d + Len(t) : i \in 1 .. d \/ \E j \in 1 .. Len(t) : i = d + j
    <3> SUFFICES ASSUME NEW i \in 1 .. d + Len(t), i \notin 1 .. d
                 PROVE  \E j \in 1 .. Len(t) : i = d + j
      OBVIOUS
    <3>1. i - d \in 1 .. Len(t) /\ i = d + (i - d)
      BY <1>4
    <3> QED  BY <3>1
  <2> QED  BY <1>5, <2>1, <2>2, <2>3, <2>4
<1>7. PICK a, b : a = Cardinality(A) /\ b = Cardinality(B)
  OBVIOUS
<1>8. /\ a \in Nat /\ b \in Nat /\ Cardinality(S) = a + b
      /\ \A k \in 1 .. a : InOrder(S)[k] = InOrder(A)[k]
      /\ \A k \in 1 .. b : InOrder(S)[a + k] = d + InOrder(B)[k]
  <2>1. \A j \in B : j > 0
    BY <1>5
  <2>2. Follows(S, d, A, B)
    BY <1>4, <1>5, <1>6, <2>1 DEF Follows
  <2>3. /\ Cardinality(A) \in Nat /\ Cardinality(B) \in Nat
        /\ Cardinality(S) = Cardinality(A) + Cardinality(B)
        /\ \A k \in 1 .. Cardinality(A) : InOrder(S)[k] = InOrder(A)[k]
        /\ \A k \in 1 .. Cardinality(B) :
             InOrder(S)[Cardinality(A) + k] = d + InOrder(B)[k]
    BY <2>2, OrderOfTwo
  <2> QED  BY <1>7, <2>3
<1>9. PICK u, v, w : u = Picked(s, tag) /\ v = Picked(t, tag) /\ w = Picked(s \o t, tag)
  OBVIOUS
<1>10. /\ u \in Seq(R) /\ Len(u) = a
       /\ \A k \in 1 .. a : InOrder(A)[k] \in A /\ u[k] = s[InOrder(A)[k]]
  BY <1>2, <1>7, <1>9, PickedIs
<1>11. /\ v \in Seq(R) /\ Len(v) = b
       /\ \A k \in 1 .. b : InOrder(B)[k] \in B /\ v[k] = t[InOrder(B)[k]]
  BY <1>2, <1>7, <1>9, PickedIs
<1>12. /\ w \in Seq(R) /\ Len(w) = a + b
       /\ \A k \in 1 .. a + b : w[k] = st[InOrder(S)[k]]
  <2>1. S = Wanted(st, tag) /\ w = Picked(st, tag) /\ st \in Seq(R)
    BY <1>2, <1>3, <1>4, <1>9
  <2>2. /\ w \in Seq(R) /\ Len(w) = Cardinality(S)
        /\ \A k \in 1 .. Cardinality(S) : w[k] = st[InOrder(S)[k]]
    BY <2>1, PickedIs
  <2> QED  BY <1>8, <2>2
<1>13. \A k \in 1 .. a + b : w[k] = (u \o v)[k]
  <2> SUFFICES ASSUME NEW k \in 1 .. a + b PROVE w[k] = (u \o v)[k]
    OBVIOUS
  <2>1. (u \o v)[k] = IF k <= a THEN u[k] ELSE v[k - a]
    BY <1>8, <1>10, <1>11, ConcatProperties
  <2>2. CASE k <= a
    <3>1. k \in 1 .. a
      BY <1>8, <2>2
    <3>2. PICK i : i = InOrder(A)[k]
      OBVIOUS
    <3>3. i \in 1 .. d /\ u[k] = s[i] /\ InOrder(S)[k] = i
      BY <1>5, <1>8, <1>10, <3>1, <3>2
    <3>4. w[k] = st[i] /\ st[i] = s[i]
      BY <1>4, <1>12, <3>3
    <3> QED  BY <2>1, <2>2, <3>3, <3>4
  <2>3. CASE ~ (k <= a)
    <3>1. PICK l : l = k - a
      OBVIOUS
    <3>2. l \in 1 .. b /\ k = a + l
      BY <1>8, <2>3, <3>1
    <3>3. InOrder(B)[l] \in 1 .. Len(t) /\ v[l] = t[InOrder(B)[l]]
      BY <1>5, <1>11, <3>2
    <3>4. w[k] = st[d + InOrder(B)[l]]
      BY <1>8, <1>12, <3>2
    <3> QED  BY <1>4, <2>1, <2>3, <3>1, <3>3, <3>4
  <2> QED  BY <2>2, <2>3
<1>14. u \o v \in Seq(R) /\ Len(u \o v) = a + b
  BY <1>10, <1>11, ConcatProperties
<1>15. w = u \o v
  BY <1>12, <1>13, <1>14, SeqEqual
<1> QED  BY <1>9, <1>15

-----------------------------------------------------------------------------
(* What fromXML takes for a path.                                            *)

Tags == {PathTags[i] : i \in DOMAIN PathTags}

LEMMA TagsAre ==
  /\ DOMAIN PathTags = 1 .. 3
  /\ PathTags[1] = "objPath" /\ PathTags[2] = "objProxyPath" /\ PathTags[3] = "objMetadataPath"
  /\ Tags = {"objPath", "objProxyPath", "objMetadataPath"}
<1>1. /\ DOMAIN PathTags = 1 .. 3
      /\ PathTags[1] = "objPath" /\ PathTags[2] = "objProxyPath" /\ PathTags[3] = "objMetadataPath"
  BY DEF PathTags
<1>2. Tags = {PathTags[1], PathTags[2], PathTags[3]}
  BY <1>1 DEF Tags
<1> QED  BY <1>1, <1>2

LEMMA PathTypes ==
  ASSUME NEW value, NEW name, NEW tag,
         \A t \in Tags : HasProperty(value, t) \/ name = t <=> t = tag
  PROVE  PathType(value, name) = IF tag \in Tags THEN tag ELSE NoType
<1> DEFINE types == {i \in DOMAIN PathTags : HasProperty(value, PathTags[i]) \/ name = PathTags[i]}
<1>1. PathType(value, name) = IF types = {} THEN NoType
                              ELSE PathTags[CHOOSE i \in types : \A j \in types : i <= j]
  BY DEF PathType
<1>2. types = {i \in DOMAIN PathTags : PathTags[i] = tag}
  BY DEF Tags
<1> HIDE DEF types
<1>3. CASE tag \notin Tags
  <2>1. types = {}
    BY <1>2, <1>3 DEF Tags
  <2> QED  BY <1>1, <1>3, <2>1
<1>4. CASE tag \in Tags
  <2>1. PICK i \in 1 .. 3 : types = {i} /\ PathTags[i] = tag
    BY <1>2, <1>4, TagsAre
  <2>2. (CHOOSE k \in types : \A j \in types : k <= j) = i
    BY <2>1
  <2> QED  BY <1>1, <1>4, <2>1, <2>2
<1> QED  BY <1>3, <1>4

LEMMA PathFound ==
  ASSUME NEW value, NEW key, NEW tag \in Tags, NEW v, Property(value, "text") = Text(v),
         \/ PathType(value, NameOf(value)) = tag
         \/ PathType(value, NameOf(value)) = NoType /\ PathType(Undefined, key) = tag
  PROVE  ObjectPath(value, key) =
           IF ~ Legible(v) THEN <<>>
           ELSE <<[type |-> tag, target |-> v,
                   description |-> IF Description(value) = Undefined THEN Empty
                                   ELSE Description(value).value]>>
<1>1. NoType \notin Tags
  BY TagsAre DEF NoType
<1>2. Text(v).value = v
  BY DEF Text
<1> DEFINE own    == PathType(value, NameOf(value))
           type   == IF own = NoType THEN PathType(Undefined, key) ELSE own
           target == Property(value, "text")
<1>3. type = tag
  BY <1>1
<1>4. Truthy(target) <=> Legible(v)
  BY TruthyTexts
<1>5. ObjectPath(value, key) =
        IF type # NoType /\ Truthy(target)
        THEN <<[type |-> type, target |-> target.value,
                description |-> IF Description(value) = Undefined THEN Empty
                                ELSE Description(value).value]>>
        ELSE <<>>
  BY DEF ObjectPath
<1> HIDE DEF type
<1> QED  BY <1>1, <1>2, <1>3, <1>4, <1>5

LEMMA NoPathFound ==
  ASSUME NEW value, NEW key, Property(value, "text") = Undefined
  PROVE  ObjectPath(value, key) = <<>>
<1>1. ~ Truthy(Property(value, "text"))
  BY DEF Truthy
<1> QED  BY <1>1 DEF ObjectPath

LEMMA OnlyObjectsHave ==
  ASSUME NEW value, NEW p, value.kind # "object"
  PROVE  ~ HasProperty(value, p) /\ Property(value, p) = Undefined
BY DEF HasProperty, Property

LEMMA Kinds ==
  /\ Undefined.kind = "undefined"
  /\ \A v : Text(v).kind = "text" /\ Text(v).value = v
  /\ \A props : Object(props).kind = "object"
  /\ \A v : Text(v) # Undefined
BY DEF Undefined, Text, Object

(* Where the description is: a property of the value, or of its attributes.   *)
LEMMA Descriptions ==
  ASSUME NEW value
  PROVE  /\ Property(value, "techDescription") = Text("d") => Description(value) = Text("d")
         /\ /\ Property(value, "techDescription") = Undefined
            /\ Property(value, "attributes") = Object(Described)
            => Description(value) = Text("d")
         /\ /\ Property(value, "techDescription") = Undefined
            /\ Property(value, "attributes") = Undefined
            => Description(value) = Undefined
<1>1. Truthy(Text("d")) /\ ~ Truthy(Undefined)
  <2>1. Truthy(Text("d")) <=> Legible("d")
    BY TruthyTexts
  <2>2. Legible("d")
    BY DEF Legible, Falsy, Empty
  <2>3. ~ Truthy(Undefined)
    BY DEF Truthy
  <2> QED  BY <2>1, <2>2, <2>3
<1>2. Property(Object(Described), "techDescription") = Text("d")
  BY DescribedIsSomething, ObjectsHave
<1>3. Property(Undefined, "techDescription") = Undefined
  BY Kinds, OnlyObjectsHave
<1> QED  BY <1>1, <1>2, <1>3 DEF Description

(* What is read of a text: converted or, in what was built, as it is.         *)
Target(native, v) == IF native THEN Native(v) ELSE v
Targets(native)   == [i \in DOMAIN children |-> Target(native, children[i].text)]

IsSent(c) == Legible(Native(c.text)) /\ c.attributes = Described
PathOf(native, c) == [type |-> c.name, target |-> Target(native, c.text), description |-> "d"]

(* The path of a child that was sent is found; of another one at most a path  *)
(* of its type without a description.                                        *)
Finds(native, value, key, c) ==
  LET found == ObjectPath(value, key)
  IN  /\ IsSent(c) => found = <<PathOf(native, c)>>
      /\ ~ IsSent(c) => \/ found = <<>>
                        \/ found = <<[type |-> c.name, target |-> Target(native, c.text),
                                      description |-> Empty]>>

LEMMA NoTextFinds ==
  ASSUME NEW native \in BOOLEAN, NEW c, ~ IsSent(c), NEW value, Property(value, "text") = Undefined, NEW key
  PROVE  Finds(native, value, key, c)
BY NoPathFound DEF Finds

(* The properties that tell a child with a text, its name and description.    *)
Carries(native, props, key, c) ==
  /\ "text" \in DOMAIN props /\ props["text"] = Text(Target(native, c.text))
  /\ DOMAIN props \intersect Tags = {}
  /\ c.attributes = NoAttributes =>
       "attributes" \notin DOMAIN props /\ "techDescription" \notin DOMAIN props
  /\ c.attributes # NoAttributes =>
       \/ "techDescription" \in DOMAIN props /\ props["techDescription"] = Text("d")
       \/ /\ "techDescription" \notin DOMAIN props
          /\ "attributes" \in DOMAIN props /\ props["attributes"] = Object(Described)
  /\ "$name" \in DOMAIN props => props["$name"] = Text(c.name)
  /\ "$name" \in DOMAIN props \/ key = c.name

LEMMA ObjectFinds ==
  ASSUME NEW native \in BOOLEAN, NEW c \in Children, c.name \in Tags, NEW props, NEW key, Carries(native, props, key, c),
         native \/ Legible(Native(c.text))
  PROVE  Finds(native, Object(props), key, c)
<1> USE DEF Carries
<1> DEFINE value == Object(props)
<1>1. /\ value.kind = "object" /\ Property(value, "text") = Text(Target(native, c.text))
      /\ \A t \in Tags : ~ HasProperty(value, t)
  BY ObjectsHave
<1>2. \/ PathType(value, NameOf(value)) = c.name
      \/ PathType(value, NameOf(value)) = NoType /\ PathType(Undefined, key) = c.name
  <2>1. CASE "$name" \in DOMAIN props
    <3>1. HasProperty(value, "$name") /\ value.props["$name"] = Text(c.name)
      BY <2>1, ObjectsHave DEF Object
    <3>2. NameOf(value) = c.name
      BY <3>1, Kinds DEF NameOf
    <3> HIDE DEF value
    <3>3. PathType(value, NameOf(value)) = c.name
      BY <1>1, <3>2, PathTypes
    <3> QED  BY <3>3
  <2>2. CASE "$name" \notin DOMAIN props
    <3>1. ~ HasProperty(value, "$name")
      BY <2>2, ObjectsHave
    <3>2. NameOf(value) = Nameless
      BY <3>1 DEF NameOf
    <3>3. Nameless \notin Tags
      BY TagsAre DEF Nameless
    <3> HIDE DEF value
    <3>4. PathType(value, NameOf(value)) = NoType
      BY <1>1, <3>2, <3>3, PathTypes
    <3>5. \A t \in Tags : ~ HasProperty(Undefined, t)
      BY Kinds, OnlyObjectsHave
    <3>6. key = c.name
      BY <2>2
    <3>7. PathType(Undefined, key) = c.name
      BY <3>5, <3>6, PathTypes
    <3> QED  BY <3>4, <3>7
  <2> QED  BY <2>1, <2>2
<1>3. ObjectPath(value, key) =
        IF ~ Legible(Target(native, c.text)) THEN <<>>
        ELSE <<[type |-> c.name, target |-> Target(native, c.text),
                description |-> IF Description(value) = Undefined THEN Empty
                                ELSE Description(value).value]>>
  <2> HIDE DEF value
  <2> QED  BY <1>1, <1>2, PathFound
<1>4. c.attributes # NoAttributes => Description(value) = Text("d")
  <2> SUFFICES ASSUME c.attributes # NoAttributes PROVE Description(value) = Text("d")
    OBVIOUS
  <2>1. CASE "techDescription" \in DOMAIN props /\ props["techDescription"] = Text("d")
    BY <2>1, ObjectsHave, Descriptions
  <2>2. CASE /\ "techDescription" \notin DOMAIN props
             /\ "attributes" \in DOMAIN props /\ props["attributes"] = Object(Described)
    <3>1. Property(value, "techDescription") = Undefined
          /\ Property(value, "attributes") = Object(Described)
      BY <2>2, ObjectsHave
    <3> HIDE DEF value
    <3> QED  BY <3>1, Descriptions
  <2> QED  BY <2>1, <2>2
<1>5. c.attributes = NoAttributes => Description(value) = Undefined
  <2> SUFFICES ASSUME c.attributes = NoAttributes PROVE Description(value) = Undefined
    OBVIOUS
  <2>1. Property(value, "techDescription") = Undefined
        /\ Property(value, "attributes") = Undefined
    BY ObjectsHave
  <2> HIDE DEF value
  <2> QED  BY <2>1, Descriptions
<1>6. c.attributes \in {NoAttributes, Described} /\ Described # NoAttributes
  BY ChildrenAreFields, DescribedIsSomething
<1>7. Text("d") # Undefined /\ Text("d").value = "d"
  BY Kinds
<1> HIDE DEF value
<1>8. IsSent(c) => Finds(native, value, key, c)
  <2> SUFFICES ASSUME IsSent(c) PROVE Finds(native, value, key, c)
    OBVIOUS
  <2>1. Legible(Target(native, c.text)) /\ c.attributes # NoAttributes
    BY <1>6, NativeTexts DEF IsSent, Target
  <2>2. ObjectPath(value, key) = <<[type |-> c.name, target |-> Target(native, c.text), description |-> "d"]>>
    BY <1>3, <1>4, <1>7, <2>1
  <2> QED  BY <2>2 DEF Finds, PathOf
<1>9. ASSUME ~ IsSent(c) PROVE Finds(native, value, key, c)
  <2>1. CASE ~ Legible(Target(native, c.text))
    BY <1>3, <1>9, <2>1 DEF Finds
  <2>2. CASE Legible(Target(native, c.text))
    <3>1. c.attributes = NoAttributes
      BY <1>6, <1>9, <2>2 DEF IsSent, Target
    <3>2. ObjectPath(value, key) = <<[type |-> c.name, target |-> Target(native, c.text), description |-> Empty]>>
      BY <1>3, <1>5, <2>2, <3>1
    <3> QED  BY <1>9, <3>2 DEF Finds
  <2> QED  BY <2>1, <2>2
<1>10. Finds(native, value, key, c)
  BY <1>8, <1>9
<1> QED  BY <1>10 DEF value

LEMMA ValuesFind ==
  ASSUME NEW c \in Children, c.name \in Tags
  PROVE  LET x == FieldNode(c)
         IN  /\ Finds(TRUE, SameValue(x), "index", c)
             /\ Finds(TRUE, UniqueValue(x), c.name, c) /\ UniqueValue(x).kind # "array"
             /\ \A key \in {c.name, "index"} : Finds(TRUE, MixedValue(x), key, c)
             /\ MixedValue(x).kind # "array"
<1> DEFINE x == FieldNode(c)
<1>1. /\ x.name = c.name
      /\ x.type = "text" <=> c.text # Empty
      /\ DOMAIN x.props = (IF c.text = Empty THEN {} ELSE {"text"})
           \union (IF c.attributes = NoAttributes THEN {} ELSE {"attributes"})
      /\ c.text # Empty => x.props["text"] = Text(Native(c.text))
      /\ c.attributes # NoAttributes => x.props["attributes"] = Object(Described)
  BY FieldNodes, FieldProps
<1>2. c.text # Empty => (Keys(x) <= 3 <=> c.attributes = NoAttributes)
  BY FieldKeys
<1>3. /\ Merged(x).name = c.name
      /\ DOMAIN Merged(x).props = (IF c.text = Empty THEN {} ELSE {"text"})
           \union (IF c.attributes = NoAttributes THEN {} ELSE {"techDescription"})
      /\ c.text # Empty => Merged(x).props["text"] = Text(Native(c.text))
      /\ c.attributes # NoAttributes => Merged(x).props["techDescription"] = Text("d")
  BY FieldMerged
<1> HIDE DEF x
<1>4. "text" \notin Tags /\ "attributes" \notin Tags /\ "techDescription" \notin Tags
      /\ "$name" \notin Tags /\ "$type" \notin Tags
  BY TagsAre
<1>5. c.text = Empty => ~ IsSent(c)
  BY NativeTexts DEF IsSent, Legible
<1>6. c.attributes = NoAttributes => ~ IsSent(c)
  BY DescribedIsSomething DEF IsSent
<1>7. ASSUME c.attributes = NoAttributes, NEW key
      PROVE  Finds(TRUE, Text(Native(c.text)), key, c)
  <2>1. Property(Text(Native(c.text)), "text") = Undefined
    BY Kinds, OnlyObjectsHave
  <2> QED  BY <1>6, <1>7, <2>1, NoTextFinds
<1>8. ASSUME c.text # Empty PROVE Finds(TRUE, AsItIs(x), "index", c)
  <2>1. PICK props : /\ AsItIs(x) = Object(props)
                     /\ DOMAIN props = DOMAIN x.props \union {"$name", "$type"}
                     /\ \A p \in DOMAIN x.props : props[p] = x.props[p]
                     /\ "$name" \notin DOMAIN x.props => props["$name"] = Text(x.name)
    BY AsItIsHas
  <2>2. /\ "text" \in DOMAIN props /\ props["text"] = Text(Native(c.text))
        /\ DOMAIN props \intersect Tags = {}
        /\ "$name" \in DOMAIN props /\ props["$name"] = Text(c.name)
    BY <1>1, <1>4, <1>8, <2>1
  <2>3. c.attributes = NoAttributes =>
           "attributes" \notin DOMAIN props /\ "techDescription" \notin DOMAIN props
    BY <1>1, <2>1
  <2>4. c.attributes # NoAttributes =>
           /\ "techDescription" \notin DOMAIN props
           /\ "attributes" \in DOMAIN props /\ props["attributes"] = Object(Described)
    BY <1>1, <2>1
  <2>5. Carries(TRUE, props, "index", c)
    BY <2>2, <2>3, <2>4 DEF Carries, Target
  <2> QED  BY <2>1, <2>5, ObjectFinds
<1>9. ASSUME c.text # Empty, NEW key PROVE Finds(TRUE, AsItIs(Merged(x)), key, c)
  <2>1. PICK props : /\ AsItIs(Merged(x)) = Object(props)
                     /\ DOMAIN props = DOMAIN Merged(x).props \union {"$name", "$type"}
                     /\ \A p \in DOMAIN Merged(x).props : props[p] = Merged(x).props[p]
                     /\ "$name" \notin DOMAIN Merged(x).props => props["$name"] = Text(Merged(x).name)
    BY AsItIsHas
  <2>2. /\ "text" \in DOMAIN props /\ props["text"] = Text(Native(c.text))
        /\ DOMAIN props \intersect Tags = {}
        /\ "$name" \in DOMAIN props /\ props["$name"] = Text(c.name)
    BY <1>3, <1>4, <1>9, <2>1
  <2>3. c.attributes = NoAttributes =>
           "attributes" \notin DOMAIN props /\ "techDescription" \notin DOMAIN props
    BY <1>3, <2>1
  <2>4. c.attributes # NoAttributes =>
           "techDescription" \in DOMAIN props /\ props["techDescription"] = Text("d")
    BY <1>3, <2>1
  <2>5. Carries(TRUE, props, key, c)
    BY <2>2, <2>3, <2>4 DEF Carries, Target
  <2> QED  BY <2>1, <2>5, ObjectFinds
<1>10. ASSUME c.text # Empty, c.attributes # NoAttributes
       PROVE  Finds(TRUE, Stripped(Merged(x)), c.name, c)
  <2>1. PICK props : props = Merged(x).props
    OBVIOUS
  <2>2. /\ "text" \in DOMAIN props /\ props["text"] = Text(Native(c.text))
        /\ DOMAIN props \intersect Tags = {}
        /\ "$name" \notin DOMAIN props
        /\ "techDescription" \in DOMAIN props /\ props["techDescription"] = Text("d")
    BY <1>3, <1>4, <1>10, <2>1
  <2>3. Carries(TRUE, props, c.name, c)
    BY <1>10, <2>2 DEF Carries, Target
  <2>4. Finds(TRUE, Object(props), c.name, c)
    BY <2>3, ObjectFinds
  <2> QED  BY <2>1, <2>4 DEF Stripped
<1>11. ASSUME c.text = Empty, NEW key
       PROVE  /\ Finds(TRUE, AsItIs(Merged(x)), key, c) /\ Finds(TRUE, Stripped(Merged(x)), key, c)
              /\ Finds(TRUE, Stripped(x), key, c)
  <2>1. PICK props : /\ AsItIs(Merged(x)) = Object(props)
                     /\ DOMAIN props = DOMAIN Merged(x).props \union {"$name", "$type"}
    BY AsItIsHas
  <2>2. "text" \notin DOMAIN props /\ "text" \notin DOMAIN Merged(x).props
        /\ "text" \notin DOMAIN x.props
    BY <1>1, <1>3, <1>11, <2>1
  <2>3. Property(Object(props), "text") = Undefined
        /\ Property(Object(Merged(x).props), "text") = Undefined
        /\ Property(Object(x.props), "text") = Undefined
    BY <2>2, ObjectsHave
  <2> QED  BY <1>5, <1>11, <2>1, <2>3, NoTextFinds DEF Stripped
<1>12. Finds(TRUE, SameValue(x), "index", c)
  <2>1. CASE c.text # Empty
    <3>1. SameValue(x) = AsItIs(x)
      BY <1>1, <2>1 DEF SameValue
    <3> QED  BY <1>8, <2>1, <3>1
  <2>2. CASE c.text = Empty
    <3>1. x.type # "text"
      BY <1>1, <2>2
    <3>2. Property(SameValue(x), "text") = Undefined
      <4>1. CASE c.attributes = NoAttributes
        <5>1. DOMAIN x.props = {}
          BY <1>1, <2>2, <4>1
        <5>2. Cardinality(DOMAIN x.props) = 0
          BY <5>1, FS_EmptySet
        <5>3. SameValue(x) \in {Undefined, x.props[CHOOSE p \in DOMAIN x.props : TRUE]}
          BY <3>1, <5>2 DEF SameValue
        <5>4. x.props = NoAttributes
          BY <2>2, <4>1, FieldNodes DEF x, Attributes
        <5>5. SameValue(x) = Undefined
          BY <3>1, <5>2, <5>4 DEF SameValue
        <5> QED  BY <5>5, Kinds, OnlyObjectsHave
      <4>2. CASE c.attributes # NoAttributes
        <5>1. DOMAIN x.props = {"attributes"} /\ x.props["attributes"] = Object(Described)
          BY <1>1, <2>2, <4>2
        <5>2. Cardinality(DOMAIN x.props) = 1
          BY <5>1, FS_Singleton
        <5>3. x.props # NoAttributes
          BY <5>1, DescribedIsSomething
        <5>4. (CHOOSE p \in DOMAIN x.props : TRUE) = "attributes"
          BY <5>1
        <5>5. SameValue(x) = Object(Described)
          BY <3>1, <5>1, <5>2, <5>3, <5>4 DEF SameValue
        <5>6. "text" \notin DOMAIN Described
          BY DescribedIsSomething
        <5> QED  BY <5>5, <5>6, ObjectsHave
      <4> QED  BY <4>1, <4>2
    <3> QED  BY <1>5, <2>2, <3>2, NoTextFinds
  <2> QED  BY <2>1, <2>2
<1>13. Finds(TRUE, UniqueValue(x), c.name, c) /\ UniqueValue(x).kind # "array"
  <2>1. CASE c.text # Empty /\ c.attributes = NoAttributes
    <3>1. UniqueValue(x) = Text(Native(c.text))
      BY <1>1, <1>2, <2>1 DEF UniqueValue
    <3> QED  BY <1>7, <2>1, <3>1, Kinds
  <2>2. CASE ~ (c.text # Empty /\ c.attributes = NoAttributes)
    <3>1. UniqueValue(x) = Stripped(Merged(x))
      BY <1>1, <1>2, <2>2 DEF UniqueValue
    <3>2. Stripped(Merged(x)).kind # "array"
      BY Kinds DEF Stripped
    <3> QED  BY <1>10, <1>11, <2>2, <3>1, <3>2
  <2> QED  BY <2>1, <2>2
<1>14. ASSUME NEW key \in {c.name, "index"}
       PROVE  Finds(TRUE, MixedValue(x), key, c) /\ MixedValue(x).kind # "array"
  <2>1. CASE c.text # Empty /\ c.attributes = NoAttributes
    <3>1. MixedValue(x) = Text(Native(c.text))
      BY <1>1, <1>2, <2>1 DEF MixedValue
    <3> QED  BY <1>7, <2>1, <3>1, Kinds
  <2>2. CASE c.attributes # NoAttributes
    <3>1. MixedValue(x) = AsItIs(Merged(x))
      BY <1>1, <1>2, <2>2 DEF MixedValue
    <3>2. AsItIs(Merged(x)).kind # "array"
      <4>1. PICK props : AsItIs(Merged(x)) = Object(props)
        BY AsItIsHas
      <4> QED  BY <4>1, Kinds
    <3> QED  BY <1>9, <1>11, <3>1, <3>2
  <2>3. CASE c.text = Empty /\ c.attributes = NoAttributes
    <3>1. MixedValue(x) = Stripped(x)
      BY <1>1, <2>3 DEF MixedValue
    <3>2. Stripped(x).kind # "array"
      BY Kinds DEF Stripped
    <3> QED  BY <1>11, <2>3, <3>1, <3>2
  <2> QED  BY <2>1, <2>2, <2>3
<1> QED  BY <1>12, <1>13, <1>14 DEF x

(* The paths of a type that were sent with a description.                     *)
SentAt(tag) == {i \in DOMAIN children : children[i].name = tag /\ IsSent(children[i])}
PathSet     ==
  [type : Tags, target : Values \union {Native(v) : v \in Values}, description : {"d", Empty}]

LEMMA SentPathsAre ==
  ASSUME NEW native \in BOOLEAN, DocumentsTypeInv, NEW tag
  PROVE  /\ SentAt(tag) \in SUBSET Nat /\ IsFiniteSet(SentAt(tag))
         /\ Cardinality(SentAt(tag)) \in Nat
         /\ SentPaths(tag, Targets(native)) = [k \in 1 .. Cardinality(SentAt(tag)) |->
                                PathOf(native, children[InOrder(SentAt(tag))[k]])]
<1> DEFINE path(i) == [type |-> tag, target |-> Targets(native)[i], description |-> "d"]
<1> DEFINE all == [i \in DOMAIN children |-> path(i)]
<1> DEFINE has == {i \in DOMAIN children : /\ children[i].name = tag
                                           /\ Native(children[i].text) \notin Falsy \union {Empty}
                                           /\ children[i].attributes = Described}
<1>1. has = SentAt(tag)
  BY DEF SentAt, IsSent, Legible
<1>2. SentPaths(tag, Targets(native)) = Selected(all, SentAt(tag))
  BY <1>1 DEF SentPaths
<1>3. SentAt(tag) \in SUBSET Nat /\ IsFiniteSet(SentAt(tag))
  <2>1. DOMAIN children = 1 .. Len(children) /\ Len(children) \in Nat
    BY ChildrenAreNumbered
  <2>2. IsFiniteSet(1 .. Len(children))
    BY <2>1, FS_Interval
  <2>3. SentAt(tag) \subseteq 1 .. Len(children)
    BY <2>1 DEF SentAt
  <2> QED  BY <2>1, <2>2, <2>3, FS_Subset
<1> HIDE DEF has
<1>4. PICK S : S = SentAt(tag)
  OBVIOUS
<1>5. /\ Cardinality(S) \in Nat
      /\ \A k \in 1 .. Cardinality(S) :
           InOrder(S)[k] \in S /\ Selected(all, S)[k] = all[InOrder(S)[k]]
  <2> HIDE DEF all
  <2> QED  BY <1>3, <1>4, Selects
<1>6. \A i \in S : all[i] = PathOf(native, children[i])
  BY <1>4 DEF SentAt, PathOf, Targets
<1>7. Selected(all, S) = [k \in 1 .. Cardinality(S) |-> PathOf(native, children[InOrder(S)[k]])]
  <2> HIDE DEF all
  <2>1. Selected(all, S) = [k \in 1 .. Cardinality(S) |-> all[InOrder(S)[k]]]
    BY DEF Selected
  <2>2. \A k \in 1 .. Cardinality(S) : all[InOrder(S)[k]] = PathOf(native, children[InOrder(S)[k]])
    BY <1>5, <1>6
  <2> QED  BY <2>1, <2>2
<1> HIDE DEF all
<1> QED  BY <1>2, <1>3, <1>4, <1>5, <1>7

LEMMA NothingPicked ==
  ASSUME NEW paths \in Seq(PathSet), NEW tag, Wanted(paths, tag) = {}
  PROVE  Picked(paths, tag) = <<>>
<1>1. Cardinality(Wanted(paths, tag)) = 0
  BY FS_EmptySet
<1>2. Picked(paths, tag) \in Seq(PathSet) /\ Len(Picked(paths, tag)) = 0
  BY <1>1, PickedIs
<1> QED  BY <1>2, EmptySeq

LEMMA NothingSent ==
  ASSUME NEW native \in BOOLEAN, DocumentsTypeInv, NEW tag, SentAt(tag) = {}
  PROVE  SentPaths(tag, Targets(native)) = <<>>
<1>1. Cardinality(SentAt(tag)) = 0
  BY FS_EmptySet
<1>2. SentPaths(tag, Targets(native)) = [k \in 1 .. 0 |-> PathOf(native, children[InOrder(SentAt(tag))[k]])]
  BY <1>1, SentPathsAre
<1> QED  BY <1>2

(* Every list of at most one path that a child gives.                         *)
LEMMA FoundAre ==
  ASSUME NEW native \in BOOLEAN, NEW c \in Children, c.name \in Tags, NEW value, NEW key, Finds(native, value, key, c)
  PROVE  LET found == ObjectPath(value, key)
         IN  \/ found = <<>> /\ ~ IsSent(c)
             \/ /\ found # <<>> /\ found[1] \in PathSet /\ found = <<found[1]>>
                /\ found[1].type = c.name
                /\ found[1].description # Empty <=> IsSent(c)
                /\ IsSent(c) => found[1] = PathOf(native, c)
<1>1. Target(native, c.text) \in Values \union {Native(v) : v \in Values}
  BY ChildrenAreFields DEF Target
<1>2. "d" # Empty
  BY DEF Empty
<1>3. PICK found : found = ObjectPath(value, key)
  OBVIOUS
<1>4. CASE IsSent(c)
  <2>1. found = <<PathOf(native, c)>>
    BY <1>3, <1>4 DEF Finds
  <2>2. PathOf(native, c) \in PathSet /\ PathOf(native, c).type = c.name /\ PathOf(native, c).description = "d"
    BY <1>1 DEF PathOf, PathSet
  <2>3. found # <<>> /\ found[1] = PathOf(native, c)
    BY <2>1
  <2> QED  BY <1>2, <1>3, <1>4, <2>1, <2>2, <2>3
<1>5. CASE ~ IsSent(c) /\ found # <<>>
  <2>1. PICK p : p = [type |-> c.name, target |-> Target(native, c.text), description |-> Empty]
    OBVIOUS
  <2>2. found = <<p>>
    BY <1>3, <1>5, <2>1 DEF Finds
  <2>3. p \in PathSet /\ p.type = c.name /\ p.description = Empty
    BY <1>1, <2>1 DEF PathSet
  <2>4. found[1] = p
    BY <2>2
  <2> QED  BY <1>3, <1>5, <2>2, <2>3, <2>4
<1> QED  BY <1>3, <1>4, <1>5

IsRead(native, paths, key) ==
  /\ paths \in Seq(PathSet)
  /\ \A tag \in Tags : Picked(paths, tag) = IF key = tag THEN SentPaths(tag, Targets(native)) ELSE <<>>

(* No child has the name.                                                    *)
LEMMA NoneIsRead ==
  ASSUME NEW native \in BOOLEAN, DocumentsTypeInv, NEW key, key \notin NamesOf
  PROVE  IsRead(native, <<>>, key)
<1>1. <<>> \in Seq(PathSet)
  OBVIOUS
<1>2. \A tag : Picked(<<>>, tag) = <<>>
  <2> SUFFICES ASSUME NEW tag PROVE Picked(<<>>, tag) = <<>>
    OBVIOUS
  <2>1. Wanted(<<>>, tag) = {}
    BY DEF Wanted
  <2> QED  BY <1>1, <2>1, NothingPicked
<1>3. SentPaths(key, Targets(native)) = <<>>
  <2>1. SentAt(key) = {}
    BY DEF SentAt, NamesOf
  <2> QED  BY <2>1, NothingSent
<1> QED  BY <1>1, <1>2, <1>3 DEF IsRead

(* One child has it.                                                         *)
LEMMA SingleIsRead ==
  ASSUME NEW native \in BOOLEAN, DocumentsTypeInv, NEW key \in Tags, NEW i \in DOMAIN children, PositionsOf(key) = {i},
         NEW value, NEW x, Finds(native, value, x, children[i])
  PROVE  IsRead(native, ObjectPath(value, x), key)
<1>1. PICK c : c = children[i]
  OBVIOUS
<1>2. c \in Children /\ c.name = key
  <2>1. i \in PositionsOf(key)
    OBVIOUS
  <2> QED  BY <1>1, <2>1, ChildrenAreNumbered DEF PositionsOf
<1>3. PICK found : found = ObjectPath(value, x)
  OBVIOUS
<1>4. \/ found = <<>> /\ ~ IsSent(c)
      \/ /\ found # <<>> /\ found[1] \in PathSet /\ found = <<found[1]>>
         /\ found[1].type = c.name
         /\ found[1].description # Empty <=> IsSent(c)
         /\ IsSent(c) => found[1] = PathOf(native, c)
  BY <1>1, <1>2, <1>3, FoundAre
<1>5. SentAt(key) = IF IsSent(c) THEN {i} ELSE {}
  BY <1>1 DEF SentAt, PositionsOf
<1>6. found \in Seq(PathSet)
  <2>1. CASE found = <<>>
    BY <2>1
  <2>2. CASE found # <<>>
    <3>1. PICK p \in PathSet : found = <<p>>
      BY <1>4, <2>2
    <3> QED  BY <3>1
  <2> QED  BY <2>1, <2>2
<1>7. CASE IsSent(c)
  <2>1. PICK p : p = PathOf(native, c)
    OBVIOUS
  <2>2. found = <<p>> /\ p.type = key /\ p.description # Empty /\ p \in PathSet
    BY <1>2, <1>4, <1>7, <2>1
  <2>3. Len(found) = 1 /\ DOMAIN found = {1} /\ found[1] = p
    BY <2>2
  <2>4. Wanted(found, key) = {1}
    BY <2>2, <2>3 DEF Wanted
  <2>5. Picked(found, key) = <<p>>
    <3>1. Cardinality({1}) = 1
      BY FS_Singleton
    <3>2. /\ Picked(found, key) \in Seq(PathSet) /\ Len(Picked(found, key)) = 1
          /\ InOrder({1})[1] \in {1} /\ Picked(found, key)[1] = found[InOrder({1})[1]]
      <4>1. LET W == Wanted(found, key)
            IN  /\ \A k \in 1 .. Cardinality(W) :
                     InOrder(W)[k] \in W /\ Picked(found, key)[k] = found[InOrder(W)[k]]
                /\ Picked(found, key) \in Seq(PathSet) /\ Len(Picked(found, key)) = Cardinality(W)
        BY <1>6, PickedIs
      <4> QED  BY <2>4, <3>1, <4>1
    <3>3. Picked(found, key)[1] = p
      BY <2>3, <3>2
    <3> QED  BY <3>2, <3>3
  <2>6. SentPaths(key, Targets(native)) = <<p>>
    <3>1. PICK S : S = SentAt(key)
      OBVIOUS
    <3>2. S = {i} /\ Cardinality(S) = 1
      BY <1>5, <1>7, <3>1, FS_Singleton
    <3>3. InOrder(S)[1] = i
      <4>1. S \in SUBSET Nat /\ IsFiniteSet(S)
        BY <3>1, SentPathsAre
      <4>2. InOrder(S) \in [1 .. 1 -> S]
        BY <3>2, <4>1, OrderOf
      <4> QED  BY <3>2, <4>2
    <3>4. SentPaths(key, Targets(native)) = [k \in 1 .. 1 |-> PathOf(native, children[InOrder(S)[k]])]
      <4>1. SentPaths(key, Targets(native)) = [k \in 1 .. Cardinality(SentAt(key)) |->
                                PathOf(native, children[InOrder(SentAt(key))[k]])]
        BY SentPathsAre
      <4>2. SentPaths(key, Targets(native)) = [k \in 1 .. Cardinality(S) |-> PathOf(native, children[InOrder(S)[k]])]
        BY <3>1, <4>1
      <4> HIDE <4>1
      <4> QED  BY <3>2, <4>2
    <3>5. SentPaths(key, Targets(native)) = [k \in 1 .. 1 |-> p]
      BY <1>1, <2>1, <3>3, <3>4
    <3> QED  BY <3>5
  <2>7. \A tag \in Tags : tag # key => Picked(found, tag) = <<>>
    <3> SUFFICES ASSUME NEW tag \in Tags, tag # key PROVE Picked(found, tag) = <<>>
      OBVIOUS
    <3>1. Wanted(found, tag) = {}
      BY <2>2, <2>3 DEF Wanted
    <3> QED  BY <1>6, <3>1, NothingPicked
  <2> QED  BY <1>3, <1>6, <2>5, <2>6, <2>7 DEF IsRead
<1>8. CASE ~ IsSent(c)
  <2>1. SentPaths(key, Targets(native)) = <<>>
    BY <1>5, <1>8, NothingSent
  <2>2. \A tag \in Tags : Picked(found, tag) = <<>>
    <3> SUFFICES ASSUME NEW tag \in Tags PROVE Picked(found, tag) = <<>>
      OBVIOUS
    <3>1. Wanted(found, tag) = {}
      <4>1. CASE found = <<>>
        BY <4>1 DEF Wanted
      <4>2. CASE found # <<>>
        <5>1. PICK p : found = <<p>> /\ p.description = Empty
          BY <1>4, <1>8, <4>2
        <5>2. DOMAIN found = {1} /\ found[1] = p
          BY <5>1
        <5> QED  BY <5>1, <5>2 DEF Wanted
      <4> QED  BY <4>1, <4>2
    <3> QED  BY <1>6, <3>1, NothingPicked
  <2> QED  BY <1>3, <1>6, <2>1, <2>2 DEF IsRead
<1> QED  BY <1>7, <1>8

(* Several children have it.                                                 *)
ListFinds(native, items, key) ==
  /\ DOMAIN items = 1 .. Cardinality(PositionsOf(key))
  /\ \A k \in 1 .. Cardinality(PositionsOf(key)) :
       Finds(native, items[k], "index", children[InOrder(PositionsOf(key))[k]])

FoundBelow(V, key, items, found, some) ==
  /\ Property(V, key) = Array(items)
  /\ found = [i \in DOMAIN items |-> ObjectPath(items[i], "index")]
  /\ some = {i \in DOMAIN items : found[i] # <<>>}

LEMMA ListPaths ==
  ASSUME NEW V, NEW key, NEW items, NEW found, NEW some,
         FoundBelow(V, key, items, found, some)
  PROVE  PathsOfKey(V, key) = [k \in 1 .. Cardinality(some) |-> found[InOrder(some)[k]][1]]
<1> USE DEF FoundBelow
<1> DEFINE kept  == Selected(found, some)
<1>1. Array(items).kind = "array" /\ Array(items).items = items
  BY ArraysAre
<1>2. PathsOfKey(V, key) = [k \in DOMAIN kept |-> kept[k][1]]
  BY <1>1 DEF PathsOfKey
<1>3. kept = [k \in 1 .. Cardinality(some) |-> found[InOrder(some)[k]]]
  BY DEF Selected
<1> HIDE DEF kept
<1>4. DOMAIN kept = 1 .. Cardinality(some)
      /\ \A k \in 1 .. Cardinality(some) : kept[k] = found[InOrder(some)[k]]
  BY <1>3
<1>5. PathsOfKey(V, key) = [k \in 1 .. Cardinality(some) |-> found[InOrder(some)[k]][1]]
  BY <1>2, <1>4
<1> QED  BY <1>5

LEMMA ListIsRead ==
  ASSUME NEW native \in BOOLEAN, DocumentsTypeInv, NEW key \in Tags, key \in NamesOf,
         NEW items, ListFinds(native, items, key), NEW V, Property(V, key) = Array(items)
  PROVE  IsRead(native, PathsOfKey(V, key), key)
<1>1. PICK P, m : P = PositionsOf(key) /\ m = Cardinality(P)
  OBVIOUS
<1>2. /\ P \in SUBSET Nat /\ IsFiniteSet(P) /\ m \in Nat
      /\ InOrder(P) \in [1 .. m -> P]
      /\ \A a, b \in 1 .. m : a < b => InOrder(P)[a] < InOrder(P)[b]
      /\ \A i \in P : \E k \in 1 .. m : InOrder(P)[k] = i
  BY <1>1, PositionsAre, OrderOf
<1>3. PICK f : f = [k \in 1 .. m |-> children[InOrder(P)[k]]]
  OBVIOUS
<1>4. \A k \in 1 .. m : /\ f[k] = children[InOrder(P)[k]] /\ f[k] \in Children
                        /\ f[k].name = key
  <2>1. \A k \in 1 .. m : InOrder(P)[k] \in DOMAIN children /\ children[InOrder(P)[k]].name = key
    BY <1>1, PositionsAre
  <2> QED  BY <1>3, <2>1, ChildrenAreNumbered
<1>5. PICK found : found = [i \in DOMAIN items |-> ObjectPath(items[i], "index")]
  OBVIOUS
<1>6. DOMAIN items = 1 .. m /\ DOMAIN found = 1 .. m
      /\ \A k \in 1 .. m : found[k] = ObjectPath(items[k], "index")
  BY <1>1, <1>5 DEF ListFinds
<1>7. \A k \in 1 .. m : \/ found[k] = <<>> /\ ~ IsSent(f[k])
                        \/ /\ found[k] # <<>> /\ found[k][1] \in PathSet
                           /\ found[k][1].type = key
                           /\ found[k][1].description # Empty <=> IsSent(f[k])
                           /\ IsSent(f[k]) => found[k][1] = PathOf(native, f[k])
  <2> SUFFICES ASSUME NEW k \in 1 .. m
               PROVE  \/ found[k] = <<>> /\ ~ IsSent(f[k])
                      \/ /\ found[k] # <<>> /\ found[k][1] \in PathSet
                         /\ found[k][1].type = key
                         /\ found[k][1].description # Empty <=> IsSent(f[k])
                         /\ IsSent(f[k]) => found[k][1] = PathOf(native, f[k])
    OBVIOUS
  <2>1. Finds(native, items[k], "index", f[k])
    BY <1>1, <1>4 DEF ListFinds
  <2>2. f[k] \in Children /\ f[k].name \in Tags /\ f[k].name = key
        /\ found[k] = ObjectPath(items[k], "index")
    BY <1>4, <1>6
  <2> QED  BY <2>1, <2>2, FoundAre
<1>8. PICK K1 : K1 = {i \in 1 .. m : found[i] # <<>>}
  OBVIOUS
<1>9. /\ K1 \in SUBSET Nat /\ IsFiniteSet(K1) /\ K1 \subseteq 1 .. m
  <2>1. IsFiniteSet(1 .. m)
    BY <1>2, FS_Interval
  <2>2. K1 \subseteq 1 .. m /\ K1 \in SUBSET Nat
    BY <1>2, <1>8
  <2> QED  BY <2>1, <2>2, FS_Subset
<1>10. PICK m1, g : m1 = Cardinality(K1) /\ g = InOrder(K1)
  OBVIOUS
<1>11. /\ m1 \in Nat /\ g \in [1 .. m1 -> K1]
       /\ \A i \in K1 : \E k \in 1 .. m1 : g[k] = i
  BY <1>9, <1>10, OrderOf
<1>12. PICK paths : paths = PathsOfKey(V, key)
  OBVIOUS
<1>13. paths = [k \in 1 .. m1 |-> found[g[k]][1]]
  <2>1. K1 = {i \in DOMAIN items : found[i] # <<>>}
    BY <1>6, <1>8
  <2>2. paths = [k \in 1 .. Cardinality(K1) |-> found[InOrder(K1)[k]][1]]
    <3>1. FoundBelow(V, key, items, found, K1)
      BY <1>5, <2>1 DEF FoundBelow
    <3> QED  BY <1>12, <3>1, ListPaths
  <2> QED  BY <1>10, <2>2
<1>14. \A k \in 1 .. m1 : /\ g[k] \in 1 .. m /\ found[g[k]] # <<>>
                          /\ paths[k] = found[g[k]][1]
  BY <1>8, <1>11, <1>13
<1>15. /\ paths \in Seq(PathSet) /\ Len(paths) = m1 /\ DOMAIN paths = 1 .. m1
       /\ \A k \in 1 .. m1 : paths[k].type = key
  <2>1. \A k \in 1 .. m1 : paths[k] \in PathSet /\ paths[k].type = key
    BY <1>7, <1>14
  <2>2. paths \in [1 .. m1 -> PathSet]
    BY <1>13, <2>1
  <2> QED  BY <1>11, <2>1, <2>2, SeqDef
<1>16. \A tag \in Tags : tag # key => Picked(paths, tag) = <<>>
  <2> SUFFICES ASSUME NEW tag \in Tags, tag # key PROVE Picked(paths, tag) = <<>>
    OBVIOUS
  <2>1. Wanted(paths, tag) = {}
    BY <1>15 DEF Wanted
  <2> QED  BY <1>15, <2>1, NothingPicked
<1>17. PICK K2, K, H : /\ K2 = Wanted(paths, key)
                       /\ K = {g[k] : k \in K2}
                       /\ H = SentAt(key)
  OBVIOUS
<1>18. K2 = {k \in 1 .. m1 : IsSent(f[g[k]])}
  <2>1. K2 = {k \in 1 .. m1 : paths[k].description # Empty}
    BY <1>15, <1>17 DEF Wanted
  <2>2. \A k \in 1 .. m1 : paths[k].description # Empty <=> IsSent(f[g[k]])
    BY <1>7, <1>14
  <2> QED  BY <2>1, <2>2
<1>19. K = {k \in 1 .. m : IsSent(f[k])}
  <2>1. \A k \in K : k \in 1 .. m /\ IsSent(f[k])
    BY <1>14, <1>17, <1>18
  <2>2. ASSUME NEW k \in 1 .. m, IsSent(f[k]) PROVE k \in K
    <3>1. k \in K1
      BY <1>7, <1>8, <2>2
    <3>2. PICK j \in 1 .. m1 : g[j] = k
      BY <1>11, <3>1
    <3>3. j \in K2
      BY <1>18, <2>2, <3>2
    <3> QED  BY <1>17, <3>2, <3>3
  <2> QED  BY <2>1, <2>2
<1>20. H = {InOrder(P)[k] : k \in K}
  <2>1. ASSUME NEW k \in K PROVE InOrder(P)[k] \in H
    <3>1. k \in 1 .. m /\ IsSent(f[k]) /\ InOrder(P)[k] \in P
      BY <1>2, <1>19, <2>1
    <3> QED  BY <1>1, <1>4, <1>17, <3>1 DEF SentAt, PositionsOf
  <2>2. ASSUME NEW i \in H PROVE \E k \in K : i = InOrder(P)[k]
    <3>1. i \in P /\ IsSent(children[i])
      BY <1>1, <1>17, <2>2 DEF SentAt, PositionsOf
    <3>2. PICK k \in 1 .. m : InOrder(P)[k] = i
      BY <1>2, <3>1
    <3>3. k \in K
      BY <1>4, <1>19, <3>1, <3>2
    <3> QED  BY <3>2, <3>3
  <2> QED  BY <2>1, <2>2
<1>21. PICK n : n = Cardinality(K2)
  OBVIOUS
<1>22. /\ n \in Nat /\ Cardinality(K) = n
       /\ \A j \in 1 .. n : InOrder(K2)[j] \in K2 /\ InOrder(K)[j] = g[InOrder(K2)[j]]
  <2>1. K2 \in SUBSET (1 .. Cardinality(K1))
    BY <1>10, <1>18
  <2>2. K = {InOrder(K1)[k] : k \in K2}
    BY <1>10, <1>17
  <2>3. /\ Cardinality(K2) \in Nat /\ Cardinality(K) = Cardinality(K2)
        /\ \A j \in 1 .. Cardinality(K2) :
              InOrder(K2)[j] \in K2 /\ InOrder(K)[j] = InOrder(K1)[InOrder(K2)[j]]
    <3>1. K1 \in SUBSET Nat /\ IsFiniteSet(K1)
      BY <1>9
    <3> HIDE <1>9
    <3> QED  BY <2>1, <2>2, <3>1, OrderComposes
  <2> QED  BY <1>10, <1>21, <2>3
<1>23. /\ Cardinality(H) = n
       /\ \A j \in 1 .. n : InOrder(K)[j] \in K /\ InOrder(H)[j] = InOrder(P)[InOrder(K)[j]]
  <2>1. K \in SUBSET (1 .. Cardinality(P))
    BY <1>1, <1>19
  <2>2. /\ Cardinality(H) = Cardinality(K)
        /\ \A j \in 1 .. Cardinality(K) :
              InOrder(K)[j] \in K /\ InOrder(H)[j] = InOrder(P)[InOrder(K)[j]]
    BY <1>2, <1>20, <2>1, OrderComposes
  <2> QED  BY <1>22, <2>2
<1>24. SentPaths(key, Targets(native)) = [j \in 1 .. n |-> PathOf(native, children[InOrder(H)[j]])]
  <2>1. SentPaths(key, Targets(native)) = [k \in 1 .. Cardinality(SentAt(key)) |->
                            PathOf(native, children[InOrder(SentAt(key))[k]])]
    BY SentPathsAre
  <2>2. SentPaths(key, Targets(native)) = [k \in 1 .. Cardinality(H) |-> PathOf(native, children[InOrder(H)[k]])]
    BY <1>17, <2>1
  <2> HIDE <2>1
  <2> QED  BY <1>23, <2>2
<1>25. PICK u : u = Picked(paths, key)
  OBVIOUS
<1>26. DOMAIN u = 1 .. n /\ \A j \in 1 .. n : u[j] = paths[InOrder(K2)[j]]
  <2>1. LET W == Wanted(paths, key)
        IN  /\ DOMAIN Picked(paths, key) = 1 .. Cardinality(W)
            /\ \A k \in 1 .. Cardinality(W) : Picked(paths, key)[k] = paths[InOrder(W)[k]]
    BY <1>15, PickedIs
  <2> QED  BY <1>17, <1>21, <1>25, <2>1
<1>27. \A j \in 1 .. n : u[j] = PathOf(native, children[InOrder(H)[j]])
  <2> SUFFICES ASSUME NEW j \in 1 .. n PROVE u[j] = PathOf(native, children[InOrder(H)[j]])
    OBVIOUS
  <2>1. PICK k, i : k = InOrder(K2)[j] /\ i = g[k]
    OBVIOUS
  <2>2. k \in 1 .. m1 /\ IsSent(f[i]) /\ u[j] = paths[k]
    BY <1>18, <1>22, <1>26, <2>1
  <2>3. i \in 1 .. m /\ u[j] = found[i][1]
    BY <1>14, <2>1, <2>2
  <2>4. found[i][1] = PathOf(native, f[i])
    BY <1>7, <2>2, <2>3
  <2>5. InOrder(K)[j] = i
    BY <1>22, <2>1
  <2>6. f[i] = children[InOrder(H)[j]]
    BY <1>4, <1>23, <2>3, <2>5
  <2> QED  BY <2>3, <2>4, <2>6
<1>28. u = [j \in 1 .. n |-> PathOf(native, children[InOrder(H)[j]])]
  <2>1. u = [j \in 1 .. Cardinality(Wanted(paths, key)) |->
               paths[InOrder(Wanted(paths, key))[j]]]
    BY <1>25 DEF Picked, Selected
  <2>2. u = [j \in 1 .. n |-> paths[InOrder(K2)[j]]]
    BY <1>17, <1>21, <2>1
  <2> QED  BY <1>26, <1>27, <2>2
<1>29. Picked(paths, key) = SentPaths(key, Targets(native))
  BY <1>24, <1>25, <1>28
<1> QED  BY <1>12, <1>15, <1>16, <1>29 DEF IsRead

(* What is below a key is what its children, none, one or several, give.      *)
HoldsPaths(native, value, key) ==
  \/ key \notin NamesOf /\ value = Undefined
  \/ \E i \in DOMAIN children : /\ PositionsOf(key) = {i}
                                /\ value.kind # "array" /\ Finds(native, value, key, children[i])
  \/ key \in NamesOf /\ \E items : value = Array(items) /\ ListFinds(native, items, key)

LEMMA KeyIsRead ==
  ASSUME NEW native \in BOOLEAN, DocumentsTypeInv, NEW V, NEW key \in Tags, HoldsPaths(native, Property(V, key), key)
  PROVE  IsRead(native, PathsOfKey(V, key), key)
<1>1. CASE key \notin NamesOf /\ Property(V, key) = Undefined
  <2>1. PathsOfKey(V, key) = ObjectPath(Undefined, key)
    BY <1>1, Kinds DEF PathsOfKey
  <2>2. ObjectPath(Undefined, key) = <<>>
    BY Kinds, OnlyObjectsHave, NoPathFound
  <2> QED  BY <1>1, <2>1, <2>2, NoneIsRead
<1>2. ASSUME NEW i \in DOMAIN children, PositionsOf(key) = {i},
             Property(V, key).kind # "array", Finds(native, Property(V, key), key, children[i])
      PROVE  IsRead(native, PathsOfKey(V, key), key)
  <2>1. PathsOfKey(V, key) = ObjectPath(Property(V, key), key)
    BY <1>2 DEF PathsOfKey
  <2> QED  BY <1>2, <2>1, SingleIsRead
<1>3. ASSUME key \in NamesOf, NEW items, Property(V, key) = Array(items), ListFinds(native, items, key)
      PROVE  IsRead(native, PathsOfKey(V, key), key)
  BY <1>3, ListIsRead
<1> QED  BY <1>1, <1>2, <1>3 DEF HoldsPaths

LEMMA NothingElse ==
  ASSUME NEW R, NEW s \in Seq(R)
  PROVE  s \o <<>> = s /\ <<>> \o s = s
OBVIOUS

LEMMA AllKeysAreRead ==
  ASSUME NEW native \in BOOLEAN, DocumentsTypeInv, NEW V, ~ HasProperty(V, "techDescription"),
         \A key \in Tags : HoldsPaths(native, Property(V, key), key),
         NEW tag \in Tags
  PROVE  ReadPaths(V, tag) = SentPaths(tag, Targets(native))
<1>1. PICK a, b, c : /\ a = PathsOfKey(V, "objPath") /\ b = PathsOfKey(V, "objProxyPath")
                     /\ c = PathsOfKey(V, "objMetadataPath")
  OBVIOUS
<1>2. /\ IsRead(native, a, "objPath") /\ IsRead(native, b, "objProxyPath") /\ IsRead(native, c, "objMetadataPath")
  BY <1>1, TagsAre, KeyIsRead
<1>3. a \in Seq(PathSet) /\ b \in Seq(PathSet) /\ c \in Seq(PathSet)
  BY <1>2 DEF IsRead
<1>4. Paths(V) = (a \o b) \o c
  BY <1>1, TagsAre DEF Paths
<1>5. ReadPaths(V, tag) = Picked((a \o b) \o c, tag)
  <2>1. ReadPaths(V, tag) = Picked(Paths(V), tag)
    BY DEF ReadPaths, Picked, Wanted
  <2> QED  BY <1>4, <2>1
<1>6. a \o b \in Seq(PathSet)
  BY <1>3
<1>7. Picked((a \o b) \o c, tag) = (Picked(a, tag) \o Picked(b, tag)) \o Picked(c, tag)
  <2>1. Picked((a \o b) \o c, tag) = Picked(a \o b, tag) \o Picked(c, tag)
    <3>1. PICK ab : ab = a \o b
      OBVIOUS
    <3>2. ab \in Seq(PathSet) /\ c \in Seq(PathSet)
      BY <1>3, <1>6, <3>1
    <3> HIDE <3>1
    <3>3. Picked(ab \o c, tag) = Picked(ab, tag) \o Picked(c, tag)
      BY <3>2, PickedOfTwo
    <3> QED  BY <3>1, <3>3
  <2>2. Picked(a \o b, tag) = Picked(a, tag) \o Picked(b, tag)
    BY <1>3, PickedOfTwo
  <2> QED  BY <2>1, <2>2
<1>8. PICK s : s = SentPaths(tag, Targets(native))
  OBVIOUS
<1>9. /\ Picked(a, tag) = IF "objPath" = tag THEN s ELSE <<>>
      /\ Picked(b, tag) = IF "objProxyPath" = tag THEN s ELSE <<>>
      /\ Picked(c, tag) = IF "objMetadataPath" = tag THEN s ELSE <<>>
  BY <1>2, <1>8 DEF IsRead
<1>10. Picked(a, tag) \in Seq(PathSet) /\ Picked(b, tag) \in Seq(PathSet)
       /\ Picked(c, tag) \in Seq(PathSet)
  BY <1>3, PickedIs
<1>11. /\ s \in Seq(PathSet)
       /\ tag \in {"objPath", "objProxyPath", "objMetadataPath"}
  BY <1>9, <1>10, TagsAre
<1>12. s \o <<>> = s /\ <<>> \o s = s
  BY <1>11, NothingElse
<1>13. CASE tag = "objPath"
  BY <1>5, <1>7, <1>8, <1>9, <1>12, <1>13
<1>14. CASE tag = "objProxyPath"
  BY <1>5, <1>7, <1>8, <1>9, <1>12, <1>14
<1>15. CASE tag = "objMetadataPath"
  <2>1. <<>> \o <<>> = <<>>
    OBVIOUS
  <2> QED  BY <1>5, <1>7, <1>8, <1>9, <1>12, <1>15, <2>1
<1> QED  BY <1>11, <1>13, <1>14, <1>15

(* Below the element every key holds its paths, but for an only child with a  *)
(* text and a description, whose description goes up to the element.          *)
DescribesItself == Len(children) = 1 /\ children[1].text # Empty /\ children[1].attributes # NoAttributes

LEMMA OnlyPosition ==
  ASSUME DocumentsTypeInv, NEW i \in DOMAIN children,
         \A j \in DOMAIN children : children[j].name = children[i].name => j = i
  PROVE  PositionsOf(children[i].name) = {i}
BY DEF PositionsOf

LEMMA OneChild ==
  ASSUME DocumentsTypeInv, Len(children) = 1
  PROVE  LET c == children[1]
         IN  /\ 1 \in DOMAIN children /\ c \in Children /\ NamesOf = {c.name}
             /\ PositionsOf(c.name) = {1}
BY ChildrenAreNumbered DEF NamesOf, PositionsOf

LEMMA SourceHolds ==
  ASSUME DocumentsTypeInv, children # <<>>, ~ DescribesItself, NEW key \in Tags
  PROVE  LET e == ElementNode(Source)
         IN  /\ key \in NamesOf => key \in DOMAIN e.props /\ HoldsPaths(TRUE, e.props[key], key)
             /\ key \notin NamesOf => key \notin DOMAIN e.props
<1>1. PICK p : p = ElementNode(Source).props
  OBVIOUS
<1>2. key \notin {"text", "techDescription", "attributes"}
  BY TagsAre
<1>3. CASE Len(children) = 1 /\ children[1].text # Empty
  <2>1. PICK c : c = children[1]
    OBVIOUS
  <2>2. c \in Children /\ NamesOf = {c.name} /\ PositionsOf(c.name) = {1} /\ 1 \in DOMAIN children
    BY <1>3, <2>1, OneChild
  <2>3. c.attributes = NoAttributes
    BY <1>3, <2>1 DEF DescribesItself
  <2>4. /\ DOMAIN p = DOMAIN c.attributes \union {c.name, "text"}
        /\ p[c.name] = Text(Native(c.text))
    BY <1>1, <1>3, <2>1, SourceOfOne
  <2>5. DOMAIN p = {c.name, "text"}
    BY <2>3, <2>4, DescribedIsSomething
  <2>6. Text(Native(c.text)).kind # "array" /\ Property(Text(Native(c.text)), "text") = Undefined
    BY Kinds, OnlyObjectsHave
  <2>7. ~ IsSent(c)
    BY <2>3, DescribedIsSomething DEF IsSent
  <2>8. Finds(TRUE, Text(Native(c.text)), c.name, c)
    BY <2>6, <2>7, NoTextFinds
  <2>9. HoldsPaths(TRUE, Text(Native(c.text)), c.name)
    BY <2>1, <2>2, <2>6, <2>8 DEF HoldsPaths
  <2> QED  BY <1>1, <1>2, <2>2, <2>4, <2>5, <2>9
<1>4. CASE Len(children) = 1 /\ children[1].text = Empty
  <2>1. PICK c : c = children[1]
    OBVIOUS
  <2>2. c \in Children /\ NamesOf = {c.name} /\ PositionsOf(c.name) = {1} /\ 1 \in DOMAIN children
    BY <1>4, <2>1, OneChild
  <2>3. PICK own : own = Attributes(c)
    OBVIOUS
  <2>4. DOMAIN p = {c.name} /\ p[c.name] = Object(own)
    BY <1>1, <1>4, <2>1, <2>3, SourceOfOneEmpty
  <2>5. "text" \notin DOMAIN own
    BY <2>3, DescribedIsSomething DEF Attributes, :>
  <2>6. Object(own).kind # "array" /\ Property(Object(own), "text") = Undefined
    BY <2>5, Kinds, ObjectsHave
  <2>7. ~ IsSent(c)
    BY <1>4, <2>1, NativeTexts DEF IsSent, Legible
  <2>8. Finds(TRUE, Object(own), c.name, c)
    BY <2>6, <2>7, NoTextFinds
  <2>9. HoldsPaths(TRUE, Object(own), c.name)
    BY <2>1, <2>2, <2>6, <2>8 DEF HoldsPaths
  <2> QED  BY <1>1, <2>2, <2>4, <2>9
<1>5. CASE Len(children) > 1 /\ Cardinality(NamesOf) = 1
  <2>1. PICK n : n \in NamesOf
    BY <1>5, SourceOfSeveral
  <2>2. PICK items : items = [i \in DOMAIN children |-> SameValue(FieldNode(children[i]))]
    OBVIOUS
  <2>3. DOMAIN p = {n} /\ NamesOf = {n} /\ p[n] = Array(items)
    BY <1>1, <1>5, <2>1, <2>2, SourceOfSame
  <2>4. CASE key # n
    BY <1>1, <2>3, <2>4
  <2>5. CASE key = n
    <3>1. PICK m : m = Len(children)
      OBVIOUS
    <3>2. m \in Nat /\ DOMAIN children = 1 .. m /\ \A i \in 1 .. m : children[i] \in Children
      BY <3>1, ChildrenAreNumbered
    <3>3. \A i \in 1 .. m : children[i].name = key
      BY <2>3, <2>5, <3>2 DEF NamesOf
    <3>4. PositionsOf(key) = 1 .. m
      BY <3>2, <3>3 DEF PositionsOf
    <3>5. Cardinality(1 .. m) = m /\ \A k \in 1 .. m : InOrder(1 .. m)[k] = k
      BY <3>2, AllAreInOrder
    <3>6. \A k \in 1 .. m : Finds(TRUE, items[k], "index", children[k])
      BY <2>2, <3>2, <3>3, ValuesFind
    <3>7. ListFinds(TRUE, items, key)
      BY <2>2, <3>2, <3>4, <3>5, <3>6 DEF ListFinds
    <3>8. HoldsPaths(TRUE, p[key], key)
      BY <2>3, <2>5, <3>7 DEF HoldsPaths
    <3> QED  BY <1>1, <2>3, <2>5, <3>8
  <2> QED  BY <2>4, <2>5
<1>6. CASE Len(children) > 1 /\ Cardinality(NamesOf) # 1 /\ Cardinality(NamesOf) = Len(children)
  <2>1. /\ NamesOf \subseteq DOMAIN p /\ DOMAIN p \subseteq NamesOf \union {"text"}
        /\ \A i, j \in DOMAIN children : children[i].name = children[j].name => i = j
        /\ \A i \in DOMAIN children : p[children[i].name] = UniqueValue(FieldNode(children[i]))
    BY <1>1, <1>6, SourceOfUnique
  <2>2. ASSUME key \in NamesOf PROVE HoldsPaths(TRUE, p[key], key)
    <3>1. PICK i \in DOMAIN children : children[i].name = key
      BY <2>2 DEF NamesOf
    <3>2. PositionsOf(key) = {i}
      BY <2>1, <3>1 DEF PositionsOf
    <3>3. children[i] \in Children
      BY ChildrenAreNumbered
    <3>4. p[key] = UniqueValue(FieldNode(children[i]))
      BY <2>1, <3>1
    <3>5. Finds(TRUE, p[key], key, children[i]) /\ p[key].kind # "array"
      BY <3>1, <3>3, <3>4, ValuesFind
    <3> QED  BY <3>2, <3>5 DEF HoldsPaths
  <2> QED  BY <1>1, <1>2, <2>1, <2>2
<1>7. CASE Len(children) > 1 /\ Cardinality(NamesOf) # 1 /\ Cardinality(NamesOf) # Len(children)
  <2>1. /\ DOMAIN p = NamesOf
        /\ \A n \in NamesOf : p[n] = IF Cardinality(PositionsOf(n)) > 1 THEN Array(MixedList(n))
                                     ELSE MixedList(n)[1]
    BY <1>1, <1>7, SourceOfMixed
  <2>2. ASSUME key \in NamesOf PROVE HoldsPaths(TRUE, p[key], key)
    <3>1. PICK P, m, items : P = PositionsOf(key) /\ m = Cardinality(P) /\ items = MixedList(key)
      OBVIOUS
    <3>2. /\ P \in SUBSET Nat /\ IsFiniteSet(P) /\ m \in Nat \ {0}
          /\ \A k \in 1 .. m : /\ InOrder(P)[k] \in DOMAIN children
                               /\ children[InOrder(P)[k]].name = key
      BY <2>2, <3>1, PositionsAre
    <3>3. /\ DOMAIN items = 1 .. m
          /\ \A k \in 1 .. m : items[k] = MixedValue(FieldNode(children[InOrder(P)[k]]))
      BY <3>1 DEF MixedList
    <3>4. \A k \in 1 .. m : children[InOrder(P)[k]] \in Children
      BY <3>2, ChildrenAreNumbered
    <3>5. \A k \in 1 .. m : /\ \A x \in {key, "index"} : Finds(TRUE, items[k], x, children[InOrder(P)[k]])
                            /\ items[k].kind # "array"
      <4> SUFFICES ASSUME NEW k \in 1 .. m
                   PROVE  /\ \A x \in {key, "index"} : Finds(TRUE, items[k], x, children[InOrder(P)[k]])
                          /\ items[k].kind # "array"
        OBVIOUS
      <4>1. PICK c : c = children[InOrder(P)[k]]
        OBVIOUS
      <4>2. c \in Children /\ c.name = key /\ items[k] = MixedValue(FieldNode(c))
        BY <3>2, <3>3, <3>4, <4>1
      <4>3. /\ \A x \in {c.name, "index"} : Finds(TRUE, MixedValue(FieldNode(c)), x, c)
            /\ MixedValue(FieldNode(c)).kind # "array"
        BY <4>2, ValuesFind
      <4> QED  BY <4>1, <4>2, <4>3
    <3>6. CASE m > 1
      <4>1. p[key] = Array(items)
        BY <2>1, <2>2, <3>1, <3>6
      <4>2. ListFinds(TRUE, items, key)
        BY <3>1, <3>3, <3>5 DEF ListFinds
      <4> QED  BY <2>2, <4>1, <4>2 DEF HoldsPaths
    <3>7. CASE ~ (m > 1)
      <4>1. m = 1 /\ p[key] = items[1]
        BY <2>1, <2>2, <3>1, <3>2, <3>7
      <4>2. PICK i : P = {i}
        BY <3>1, <3>2, <4>1, FS_Singleton
      <4>3. InOrder(P)[1] = i /\ i \in DOMAIN children
        <5>1. InOrder(P) \in [1 .. 1 -> P]
          BY <3>1, <3>2, <4>1, OrderOf
        <5> QED  BY <3>2, <4>1, <4>2, <5>1
      <4>4. Finds(TRUE, items[1], key, children[i]) /\ items[1].kind # "array"
        <5>1. 1 \in 1 .. m
          BY <4>1
        <5>2. /\ \A x \in {key, "index"} : Finds(TRUE, items[1], x, children[InOrder(P)[1]])
              /\ items[1].kind # "array"
          BY <3>5, <5>1
        <5> QED  BY <4>3, <5>2
      <4> QED  BY <3>1, <4>1, <4>2, <4>3, <4>4 DEF HoldsPaths
    <3> QED  BY <3>6, <3>7
  <2> QED  BY <1>1, <2>1, <2>2
<1>8. Len(children) = 1 \/ Len(children) > 1
  <2>1. PICK m : m = Len(children)
    OBVIOUS
  <2>2. m \in Nat /\ m # 0
    BY <2>1, ChildrenAreNumbered, EmptySeq DEF DocumentsTypeInv
  <2>3. m = 1 \/ m > 1
    BY <2>2
  <2> QED  BY <2>1, <2>3
<1> QED  BY <1>3, <1>4, <1>5, <1>6, <1>7, <1>8

LEMMA SourceKeys ==
  ASSUME DocumentsTypeInv, children # <<>>, ~ DescribesItself
  PROVE  DOMAIN ElementNode(Source).props \subseteq NamesOf \union {"text"}
<1>1. CASE Len(children) = 1 /\ children[1].text # Empty
  <2>1. DOMAIN children[1].attributes = {}
    BY <1>1, DescribedIsSomething DEF DescribesItself
  <2> QED  BY <1>1, <2>1, SourceOfOne, OneChild
<1>2. CASE Len(children) = 1 /\ children[1].text = Empty
  BY <1>2, SourceOfOneEmpty, OneChild
<1>3. CASE Len(children) > 1 /\ Cardinality(NamesOf) = 1
  <2>1. PICK n : n \in NamesOf
    BY <1>3, SourceOfSeveral
  <2> QED  BY <1>3, <2>1, SourceOfSame
<1>4. CASE Len(children) > 1 /\ Cardinality(NamesOf) # 1 /\ Cardinality(NamesOf) = Len(children)
  BY <1>4, SourceOfUnique
<1>5. CASE Len(children) > 1 /\ Cardinality(NamesOf) # 1 /\ Cardinality(NamesOf) # Len(children)
  BY <1>5, SourceOfMixed
<1>6. Len(children) = 1 \/ Len(children) > 1
  <2>1. PICK m : m = Len(children)
    OBVIOUS
  <2>2. m \in Nat /\ m # 0
    BY <2>1, ChildrenAreNumbered, EmptySeq DEF DocumentsTypeInv
  <2>3. m = 1 \/ m > 1
    BY <2>2
  <2> QED  BY <2>1, <2>3
<1> QED  BY <1>1, <1>2, <1>3, <1>4, <1>5, <1>6

(* An element without children.                                              *)
LEMMA SourceOfNone ==
  ASSUME DocumentsTypeInv, children = <<>>, KeepsItsLevel
  PROVE  /\ Shows(Received, ElementNode(Source)) /\ NamesOf = {}
         /\ DOMAIN ElementNode(Source).props = {}
<1>1. PICK e : e = ElementNode(Source)
  OBVIOUS
<1>2. NamesOf = {} /\ Cardinality(NamesOf) = 0 /\ Len(children) = 0
  <2>1. NamesOf = {} /\ Len(children) = 0
    BY DEF NamesOf
  <2> QED  BY <2>1, FS_EmptySet
<1>3. place # "twins"
  BY <1>2 DEF KeepsItsLevel, OneText, NamesOf
<1>4. /\ Source.name = "element" /\ Source.text = Empty /\ Source.attributes = NoAttributes
      /\ Source.children = <<>>
  BY DEF Source, Element
<1>5. e.name = "element" /\ e.type = "element" /\ e.props = NoAttributes
  <2>1. [i \in DOMAIN Source.children |-> FieldNode(Source.children[i])] = <<>>
    BY <1>4
  <2>2. e = Compact(Source, <<>>)
    BY <1>1, <2>1 DEF ElementNode
  <2>3. Len(<<>>) # 1
    OBVIOUS
  <2> QED  BY <1>4, <2>2, <2>3 DEF Compact, Node, Attributes
<1>6. DOMAIN e.props = {}
  BY <1>5, DescribedIsSomething
<1>7. place \in {"alone", "among", "mixed"}
  BY <1>3 DEF DocumentsTypeInv, Places
<1>8. CASE place = "among"
  BY <1>1, <1>2, <1>5, <1>6, <1>8, ReceivedAmong
<1>9. CASE place = "mixed"
  BY <1>1, <1>2, <1>5, <1>6, <1>9, ReceivedMixed
<1>10. CASE place = "alone"
  BY <1>1, <1>2, <1>5, <1>6, <1>10, ReceivedAlone
<1> QED  BY <1>1, <1>2, <1>6, <1>7, <1>8, <1>9, <1>10

(* Alone, the element is left as a text where it has nothing but one text.    *)
LEMMA AloneIsText ==
  ASSUME DocumentsTypeInv, place = "alone"
  PROVE  Received.kind = "text" <=> OneText
<1>1. ASSUME OneText PROVE Received.kind = "text"
  <2>1. PICK e, v : e = ElementNode(Source) /\ v = Native(children[1].text)
    OBVIOUS
  <2>2. e.type = "text" /\ e.props["text"] = Text(v)
        /\ DOMAIN e.props = DOMAIN children[1].attributes \union {children[1].name, "text"}
    BY <1>1, <2>1, SourceOfOne DEF OneText
  <2>3. children # <<>> /\ children[1] \in Children
    BY <1>1, ChildrenAreNumbered DEF OneText
  <2>4. e.name = "element"
    BY <2>1, <2>3, SourceNode
  <2>5. "attributes" \notin DOMAIN e.props
    <3>1. children[1].name # "attributes" /\ DOMAIN children[1].attributes \subseteq {"techDescription"}
      BY <2>3, ChildrenAreFields, NamesAssumption, DescribedIsSomething
    <3> QED  BY <2>2, <3>1
  <2>6. Received = Text(v)
    BY <2>1, <2>2, <2>4, <2>5, ReceivedAlone
  <2> QED  BY <2>6 DEF Text
<1>2. ASSUME ~ OneText PROVE Received.kind # "text"
  <2>1. KeepsItsLevel
    BY <1>2 DEF KeepsItsLevel
  <2>2. Shows(Received, ElementNode(Source))
    BY <2>1, SourceOfNone, ReceivedIsTheSource
  <2>3. PICK props : Received = Object(props)
    BY <2>2 DEF Shows
  <2> QED  BY <2>3 DEF Object
<1> QED  BY <1>1, <1>2

LEMMA DialogueReadsAlikeHere ==
  ASSUME DocumentsTypeInv
  PROVE  DialogueReadsAlike
BY AloneIsText, IdsReadAlike DEF DialogueReadsAlike

LEMMA ReceivedPaths ==
  ASSUME DocumentsTypeInv, KeepsItsLevel, ~ DescribesItself, NEW tag \in Tags
  PROVE  ReadPaths(Received, tag) = SentPaths(tag, Targets(TRUE))
<1>1. PICK V, e : V = Received /\ e = ElementNode(Source)
  OBVIOUS
<1>2. Shows(V, e) /\ DOMAIN e.props \subseteq NamesOf \union {"text"}
      /\ \A key \in Tags : /\ key \in NamesOf => key \in DOMAIN e.props /\ HoldsPaths(TRUE, e.props[key], key)
                           /\ key \notin NamesOf => key \notin DOMAIN e.props
  <2>1. CASE children = <<>>
    BY <1>1, <2>1, SourceOfNone
  <2>2. CASE children # <<>>
    BY <1>1, <2>2, ReceivedIsTheSource, SourceKeys, SourceHolds
  <2> QED  BY <2>1, <2>2
<1>3. "techDescription" \notin NamesOf
  BY ChildrenAreNumbered, NamesAssumption
<1>4. ~ HasProperty(V, "techDescription")
  <2>1. "techDescription" \notin DOMAIN e.props \union {"$name", "$type"}
    BY <1>2, <1>3
  <2> QED  BY <1>2, <2>1, ShownIsProperty
<1>5. ASSUME NEW key \in Tags PROVE HoldsPaths(TRUE, Property(V, key), key)
  <2>1. CASE key \in NamesOf
    <3>1. Property(V, key) = e.props[key]
      BY <1>2, <2>1, ShownIsProperty
    <3> QED  BY <1>2, <2>1, <3>1
  <2>2. CASE key \notin NamesOf
    <3>1. key \notin DOMAIN e.props \union {"$name", "$type"}
      BY <1>2, <2>2, TagsAre
    <3>2. Property(V, key) = Undefined
      BY <1>2, <3>1, ShownIsProperty
    <3> QED  BY <2>2, <3>2 DEF HoldsPaths
  <2> QED  BY <2>1, <2>2
<1>6. ReadPaths(V, tag) = SentPaths(tag, Targets(TRUE))
  <2> HIDE <1>1
  <2> QED  BY <1>4, <1>5, AllKeysAreRead
<1> QED  BY <1>1, <1>6

(* An only child with a text and a description: the element is its path.      *)
LEMMA OnlyPath ==
  ASSUME DocumentsTypeInv, KeepsItsLevel, DescribesItself, NEW tag \in Tags
  PROVE  ReadPaths(Received, tag) = SentPaths(tag, Targets(TRUE))
<1>1. PICK V, e, c : V = Received /\ e = ElementNode(Source) /\ c = children[1]
  OBVIOUS
<1>2. /\ 1 \in DOMAIN children /\ c \in Children /\ NamesOf = {c.name}
      /\ PositionsOf(c.name) = {1} /\ c.name \in Names
      /\ c.text # Empty /\ c.attributes # NoAttributes
  BY <1>1, OneChild, ChildrenAreFields DEF DescribesItself
<1>3. /\ DOMAIN e.props = {"techDescription", c.name, "text"}
      /\ e.props["text"] = Text(Native(c.text)) /\ e.props["techDescription"] = Text("d")
  <2>1. c.attributes = Described
    BY <1>2, ChildrenAreFields
  <2> QED  BY <1>1, <1>2, <2>1, SourceOfOne, DescribedIsSomething DEF DescribesItself
<1>4. Shows(V, e)
  <2>1. children # <<>>
    BY <1>2
  <2> QED  BY <1>1, <2>1, ReceivedIsTheSource
<1>5. /\ HasProperty(V, "techDescription") /\ Property(V, "techDescription") = Text("d")
      /\ Property(V, "text") = Text(Native(c.text))
  BY <1>3, <1>4, ShownIsProperty
<1>6. \A t \in Tags : HasProperty(V, t) <=> t = c.name
  <2> SUFFICES ASSUME NEW t \in Tags PROVE HasProperty(V, t) <=> t = c.name
    OBVIOUS
  <2>1. t \notin {"techDescription", "text", "$name", "$type"}
    BY TagsAre
  <2>2. CASE t = c.name
    BY <1>3, <1>4, <2>2, ShownIsProperty
  <2>3. CASE t # c.name
    <3>1. t \notin DOMAIN e.props \union {"$name", "$type"}
      BY <1>3, <2>1, <2>3
    <3> QED  BY <1>4, <2>3, <3>1, ShownIsProperty
  <2> QED  BY <2>2, <2>3
<1>7. NameOf(V) \notin Tags
  <2>1. "$name" \notin DOMAIN e.props
    BY <1>2, <1>3, NamesAssumption
  <2>2. CASE HasProperty(V, "$name")
    <3>1. V.props["$name"] = Text("element")
      BY <1>4, <2>1, <2>2 DEF Shows, HasProperty
    <3>2. NameOf(V) = "element"
      BY <2>2, <3>1, Kinds DEF NameOf
    <3> QED  BY <3>2, TagsAre
  <2>3. CASE ~ HasProperty(V, "$name")
    BY <2>3, TagsAre DEF NameOf, Nameless
  <2> QED  BY <2>2, <2>3
<1>8. \A t \in Tags : HasProperty(V, t) \/ NameOf(V) = t <=> t = c.name
  BY <1>6, <1>7
<1>9. PathType(V, NameOf(V)) = IF c.name \in Tags THEN c.name ELSE NoType
  BY <1>8, PathTypes
<1>10. Paths(V) = ObjectPath(V, Nameless)
  BY <1>5 DEF Paths
<1>11. Description(V) = Text("d") /\ Text("d") # Undefined /\ Text("d").value = "d"
  BY <1>5, Descriptions, Kinds
<1>12. CASE c.name \in Tags
  <2>1. ObjectPath(V, Nameless) =
          IF ~ Legible(Native(c.text)) THEN <<>>
          ELSE <<[type |-> c.name, target |-> Native(c.text), description |-> "d"]>>
    <3>1. ObjectPath(V, Nameless) =
            IF ~ Legible(Native(c.text)) THEN <<>>
            ELSE <<[type |-> c.name, target |-> Native(c.text),
                    description |-> IF Description(V) = Undefined THEN Empty
                                    ELSE Description(V).value]>>
      BY <1>5, <1>9, <1>12, PathFound
    <3> QED  BY <1>11, <3>1
  <2>2. c.attributes = Described
    BY <1>2, ChildrenAreFields
  <2>3. Finds(TRUE, V, Nameless, c)
    <3>1. IsSent(c) <=> Legible(Native(c.text))
      BY <2>2 DEF IsSent
    <3> QED  BY <2>1, <3>1 DEF Finds, PathOf, Target
  <2>4. IsRead(TRUE, ObjectPath(V, Nameless), c.name)
    BY <1>1, <1>2, <1>12, <2>3, SingleIsRead
  <2>5. ReadPaths(V, tag) = IF c.name = tag THEN SentPaths(tag, Targets(TRUE)) ELSE <<>>
    BY <1>10, <2>4 DEF IsRead, ReadPaths, Picked, Wanted
  <2>6. c.name # tag => SentPaths(tag, Targets(TRUE)) = <<>>
    <3>1. c.name # tag => SentAt(tag) = {}
      BY <1>2 DEF SentAt, NamesOf
    <3> QED  BY <3>1, NothingSent
  <2> QED  BY <1>1, <2>5, <2>6
<1>13. CASE c.name \notin Tags
  <2>1. PathType(V, NameOf(V)) = NoType
    BY <1>9, <1>13
  <2>2. PathType(Undefined, Nameless) = NoType
    <3>1. \A t \in Tags : HasProperty(Undefined, t) \/ Nameless = t <=> t = Nameless
      BY Kinds, OnlyObjectsHave
    <3>2. Nameless \notin Tags
      BY TagsAre DEF Nameless
    <3> QED  BY <3>1, <3>2, PathTypes
  <2>3. Paths(V) = <<>>
    BY <1>10, <2>1, <2>2 DEF ObjectPath
  <2>4. tag \notin NamesOf
    BY <1>2, <1>13
  <2>5. IsRead(TRUE, <<>>, tag)
    BY <2>4, NoneIsRead
  <2>6. ReadPaths(V, tag) = SentPaths(tag, Targets(TRUE))
    BY <2>3, <2>5 DEF IsRead, ReadPaths, Picked, Wanted
  <2> QED  BY <1>1, <2>6
<1> QED  BY <1>12, <1>13

(* What xmlToObject makes of the element, when no two children have one name. *)
LEMMA NamesAreDistinct ==
  ASSUME DocumentsTypeInv, Distinct
  PROVE  \A i, j \in DOMAIN children : children[i].name = children[j].name => i = j
<1> DEFINE f == [i \in DOMAIN children |-> children[i].name]
<1>1. f \in Surjection(DOMAIN children, NamesOf)
  BY DEF Surjection, NamesOf
<1>2. IsFiniteSet(DOMAIN children) /\ Cardinality(DOMAIN children) = Len(children)
  BY ChildrenAreFinite
<1>3. Cardinality(NamesOf) = Len(children)
  BY DEF Distinct, NamesOf
<1>4. f \in Injection(DOMAIN children, NamesOf)
  BY <1>1, <1>2, <1>3, FS_Surjection
<1> QED  BY <1>4 DEF Injection, IsInjective

LEMMA FieldObjectFinds ==
  ASSUME NEW c \in Children, Legible(Native(c.text))
  PROVE  /\ FieldObject(c).kind # "array"
         /\ c.name \in Tags => Finds(FALSE, FieldObject(c), c.name, c)
<1>1. c.children = <<>> /\ c.attributes \in {NoAttributes, Described}
  BY DEF Children, Field
<1>2. PICK own : own = Attributes(c)
  OBVIOUS
<1>6. c.text # Empty
  BY NativeTexts DEF Legible
<1>3. FieldObject(c) = IF own = NoAttributes THEN Text(c.text)
                       ELSE Object(("text" :> Text(c.text)) @@ own)
  BY <1>2, <1>6 DEF FieldObject, ObjectOf
<1>4. CASE c.attributes = NoAttributes
  <2>1. FieldObject(c) = Text(c.text)
    BY <1>2, <1>3, <1>4 DEF Attributes
  <2>2. Property(Text(c.text), "text") = Undefined /\ Text(c.text).kind # "array"
    BY Kinds, OnlyObjectsHave
  <2>3. ~ IsSent(c)
    BY <1>4, DescribedIsSomething DEF IsSent
  <2> QED  BY <2>1, <2>2, <2>3, NoTextFinds
<1>5. CASE c.attributes # NoAttributes
  <2>1. own = "attributes" :> Object(Described)
    BY <1>1, <1>2, <1>5 DEF Attributes
  <2>2. DOMAIN own = {"attributes"} /\ own["attributes"] = Object(Described)
    BY <2>1 DEF :>
  <2>3. own # NoAttributes
    BY <2>2, DescribedIsSomething
  <2>4. PICK text : text = "text" :> Text(c.text)
    OBVIOUS
  <2>5. DOMAIN text = {"text"} /\ text["text"] = Text(c.text)
    BY <2>4 DEF :>
  <2>6. PICK props : props = text @@ own
    OBVIOUS
  <2>7. /\ DOMAIN props = {"text", "attributes"} /\ props["text"] = Text(c.text)
        /\ props["attributes"] = Object(Described)
    <3> HIDE <2>1, <2>4
    <3> QED  BY <2>2, <2>5, <2>6 DEF @@
  <2>8. FieldObject(c) = Object(props)
    BY <1>3, <2>3, <2>4, <2>6
  <2>9. "text" \notin Tags /\ "attributes" \notin Tags
    BY TagsAre
  <2>10. Carries(FALSE, props, c.name, c)
    BY <1>5, <2>7, <2>9 DEF Carries, Target
  <2> QED  BY <2>8, <2>10, Kinds, ObjectFinds
<1> QED  BY <1>4, <1>5

LEMMA SourceObject ==
  ASSUME DocumentsTypeInv, Distinct
  PROVE  \E p : /\ ElementObject(Source) = Object(p) /\ DOMAIN p = NamesOf
                /\ \A i \in DOMAIN children : p[children[i].name] = FieldObject(children[i])
<1>1. /\ Source.children = children /\ Source.text = Empty
      /\ Source.attributes = NoAttributes
  BY DEF Source, Element
<1>2. PICK objects : objects = [i \in DOMAIN children |-> FieldObject(children[i])]
  OBVIOUS
<1> DEFINE values(n) == Selected(objects, {i \in DOMAIN objects : children[i].name = n})
           f == [n \in NamesOf |-> IF Len(values(n)) > 1 THEN Array(values(n)) ELSE values(n)[1]]
<1>3. ElementObject(Source) = Object(f @@ NoAttributes)
  <2>1. ElementObject(Source) = ObjectOf(Source, objects)
    BY <1>1, <1>2 DEF ElementObject
  <2>2. Attributes(Source) = NoAttributes
    BY <1>1 DEF Attributes
  <2>3. {Source.children[i].name : i \in DOMAIN Source.children} = NamesOf
    BY <1>1 DEF NamesOf
  <2>4. ObjectOf(Source, objects) = Object(f @@ NoAttributes)
    BY <1>1, <2>2, <2>3, Zenon DEF ObjectOf
  <2> QED  BY <2>1, <2>4
<1>4. ASSUME NEW i \in DOMAIN children
      PROVE  f[children[i].name] = FieldObject(children[i])
  <2>1. PICK n, S : n = children[i].name /\ S = {j \in DOMAIN objects : children[j].name = n}
    OBVIOUS
  <2>2. S = {i} /\ i \in Nat
    BY <1>2, <1>4, <2>1, NamesAreDistinct, ChildrenAreNumbered
  <2>3. IsFiniteSet(S) /\ Cardinality(S) = 1 /\ S \in SUBSET Nat
    BY <2>2, FS_Singleton
  <2>4. PICK v : v = Selected(objects, S)
    OBVIOUS
  <2>5. Len(v) = 1 /\ InOrder(S)[1] \in S /\ v[1] = objects[InOrder(S)[1]]
    <3>1. /\ Len(v) = Cardinality(S)
          /\ \A k \in 1 .. Cardinality(S) : InOrder(S)[k] \in S /\ v[k] = objects[InOrder(S)[k]]
      BY <2>3, <2>4, Selects
    <3>2. 1 \in 1 .. Cardinality(S)
      BY <2>3
    <3> QED  BY <2>3, <3>1, <3>2
  <2>6. v[1] = FieldObject(children[i])
    BY <1>2, <2>2, <2>5
  <2>7. values(n) = v
    BY <2>1, <2>4
  <2> HIDE DEF values
  <2>8. n \in NamesOf
    BY <2>1 DEF NamesOf
  <2>9. f[n] = IF Len(values(n)) > 1 THEN Array(values(n)) ELSE values(n)[1]
    BY <2>8
  <2>10. ~ (Len(v) > 1)
    BY <2>5
  <2>11. f[n] = v[1]
    BY <2>7, <2>9, <2>10
  <2> QED  BY <2>1, <2>6, <2>11
<1>5. DOMAIN f = NamesOf
  OBVIOUS
<1> HIDE DEF f
<1>6. /\ DOMAIN (f @@ NoAttributes) = NamesOf
      /\ \A p \in NamesOf : (f @@ NoAttributes)[p] = f[p]
  BY <1>5, OwnNothing
<1>7. \A i \in DOMAIN children : children[i].name \in NamesOf
  BY DEF NamesOf
<1>8. PICK p : p = f @@ NoAttributes
  OBVIOUS
<1> QED  BY <1>3, <1>4, <1>6, <1>7, <1>8

(* Wherever the element is, it is the first of its name that is built.        *)
LEMMA BuiltIsTheSource ==
  ASSUME DocumentsTypeInv, Distinct
  PROVE  Built = ElementObject(Source)
<1>1. PICK list : list = Siblings[place]
  OBVIOUS
<1>2. /\ list \in Seq({Source, Sibling}) /\ list # <<>>
      /\ \E i \in DOMAIN list : list[i] = Source
  <2>1. place \in {"alone", "among", "twins", "mixed"}
    BY DEF DocumentsTypeInv, Places
  <2>2. CASE place = "among"
    <3>1. list = <<Sibling, Source>>
      BY <1>1, <2>2 DEF Siblings
    <3> QED  BY <3>1
  <2>3. CASE place = "twins"
    <3>1. list = <<Source, Source>>
      BY <1>1, <2>3 DEF Siblings
    <3> QED  BY <3>1
  <2>4. CASE place = "mixed"
    <3>1. list = <<Source, Sibling, Source>>
      BY <1>1, <2>4 DEF Siblings
    <3> QED  BY <3>1
  <2>5. CASE place = "alone"
    <3>1. list = <<Source>>
      BY <1>1, <2>5 DEF Siblings
    <3> QED  BY <3>1
  <2> QED  BY <2>1, <2>2, <2>3, <2>4, <2>5
<1>3. Source.name = "element" /\ Sibling.name = "sibling"
  BY DEF Source, Sibling, Element, Field
<1>4. /\ Parent.children = list /\ Parent.text = Empty
      /\ Parent.attributes = NoAttributes
  BY <1>1 DEF Parent, Element
<1>5. PICK objects : objects = [i \in DOMAIN list |-> ElementObject(list[i])]
  OBVIOUS
<1>6. PICK names : names = {list[i].name : i \in DOMAIN list}
  OBVIOUS
<1> DEFINE values(n) == Selected(objects, {i \in DOMAIN objects : list[i].name = n})
           f == [n \in names |-> IF Len(values(n)) > 1 THEN Array(values(n)) ELSE values(n)[1]]
<1>7. XmlToObject(Parent) = Object(f @@ NoAttributes)
  <2>1. XmlToObject(Parent) = ObjectOf(Parent, objects)
    BY <1>4, <1>5 DEF XmlToObject
  <2>2. Attributes(Parent) = NoAttributes
    BY <1>4 DEF Attributes
  <2>3. {Parent.children[i].name : i \in DOMAIN Parent.children} = names
    BY <1>4, <1>6
  <2>4. ObjectOf(Parent, objects) = Object(f @@ NoAttributes)
    BY <1>4, <2>2, <2>3, Zenon DEF ObjectOf
  <2> QED  BY <2>1, <2>4
<1>8. PICK S : S = {i \in DOMAIN objects : list[i].name = "element"}
  OBVIOUS
<1>9. PICK m : m = Len(list)
  OBVIOUS
<1>10. m \in Nat /\ DOMAIN list = 1 .. m /\ DOMAIN objects = 1 .. m
       /\ \A i \in 1 .. m : list[i] \in {Source, Sibling} /\ objects[i] = ElementObject(list[i])
  BY <1>2, <1>5, <1>9, ElementOfSeq
<1>11. /\ S \in SUBSET Nat /\ IsFiniteSet(S) /\ S # {}
       /\ \A i \in S : objects[i] = ElementObject(Source)
  <2>1. IsFiniteSet(1 .. m)
    BY <1>10, FS_Interval
  <2>2. S \subseteq 1 .. m /\ S \in SUBSET Nat
    BY <1>8, <1>10
  <2>3. \A i \in S : list[i] = Source
    BY <1>3, <1>8, <1>10
  <2>4. S # {}
    BY <1>2, <1>3, <1>8, <1>10
  <2> QED  BY <1>10, <2>1, <2>2, <2>3, <2>4, FS_Subset
<1>12. PICK v : v = Selected(objects, S)
  OBVIOUS
<1>13. v[1] = ElementObject(Source)
  <2>1. Cardinality(S) \in Nat /\ Cardinality(S) # 0
    BY <1>11, FS_EmptySet, FS_CardinalityType
  <2>2. 1 \in 1 .. Cardinality(S)
    BY <2>1
  <2>3. InOrder(S)[1] \in S /\ v[1] = objects[InOrder(S)[1]]
    BY <1>11, <1>12, <2>2, Selects
  <2> QED  BY <1>11, <2>3
<1>14. "element" \in names
  BY <1>2, <1>3, <1>6
<1>15. values("element") = v
  BY <1>8, <1>12
<1> HIDE DEF values
<1>16. f["element"] = IF Len(v) > 1 THEN Array(v) ELSE v[1]
  BY <1>14, <1>15
<1>17. DOMAIN f = names
  OBVIOUS
<1> HIDE DEF f
<1>18. DOMAIN (f @@ NoAttributes) = names /\ (f @@ NoAttributes)["element"] = f["element"]
  BY <1>14, <1>17, OwnNothing
<1>19. Property(XmlToObject(Parent), "element") = f["element"]
  <2>1. PICK p : p = f @@ NoAttributes
    OBVIOUS
  <2> QED  BY <1>7, <1>14, <1>18, <2>1, ObjectsHave
<1>20. ElementObject(Source).kind # "array"
  <2>1. PICK p : ElementObject(Source) = Object(p)
    BY SourceObject
  <2> QED  BY <2>1, Kinds
<1>21. AsArray(f["element"])[1] = v[1]
  <2>1. CASE Len(v) > 1
    BY <1>16, <2>1, ArraysAre
  <2>2. CASE ~ (Len(v) > 1)
    <3>1. f["element"] = ElementObject(Source)
      BY <1>13, <1>16, <2>2
    <3> QED  BY <1>13, <1>20, <3>1 DEF AsArray
  <2> QED  BY <2>1, <2>2
<1> QED  BY <1>13, <1>19, <1>21 DEF Built

LEMMA BuiltPaths ==
  ASSUME DocumentsTypeInv, Distinct, NEW tag \in Tags
  PROVE  ReadPaths(Built, tag) = SentPaths(tag, Targets(FALSE))
<1>1. PICK V, p : /\ V = Built /\ V = Object(p) /\ DOMAIN p = NamesOf
                  /\ \A i \in DOMAIN children : p[children[i].name] = FieldObject(children[i])
  <2>1. PICK p : /\ ElementObject(Source) = Object(p) /\ DOMAIN p = NamesOf
                 /\ \A i \in DOMAIN children : p[children[i].name] = FieldObject(children[i])
    BY SourceObject
  <2>2. Built = Object(p)
    BY <2>1, BuiltIsTheSource
  <2> QED  BY <2>1, <2>2
<1>2. ~ HasProperty(V, "techDescription")
  <2>1. "techDescription" \notin NamesOf
    BY ChildrenAreNumbered, NamesAssumption
  <2> QED  BY <1>1, <2>1, ObjectsHave
<1>3. ASSUME NEW key \in Tags PROVE HoldsPaths(FALSE, Property(V, key), key)
  <2>1. CASE key \in NamesOf
    <3>1. PICK i \in DOMAIN children : children[i].name = key
      BY <2>1 DEF NamesOf
    <3>2. PositionsOf(key) = {i}
      BY <3>1, NamesAreDistinct DEF PositionsOf
    <3>3. children[i] \in Children /\ Legible(Native(children[i].text))
      BY ChildrenAreNumbered DEF Distinct, Legible
    <3>4. Property(V, key) = FieldObject(children[i])
      BY <1>1, <2>1, <3>1, ObjectsHave
    <3>5. Property(V, key).kind # "array" /\ Finds(FALSE, Property(V, key), key, children[i])
      BY <3>1, <3>3, <3>4, FieldObjectFinds
    <3> QED  BY <3>2, <3>5 DEF HoldsPaths
  <2>2. CASE key \notin NamesOf
    <3>1. Property(V, key) = Undefined
      BY <1>1, <2>2, ObjectsHave
    <3> QED  BY <2>2, <3>1 DEF HoldsPaths
  <2> QED  BY <2>1, <2>2
<1>4. ReadPaths(V, tag) = SentPaths(tag, Targets(FALSE))
  <2> HIDE <1>1
  <2> QED  BY <1>2, <1>3, AllKeysAreRead
<1> QED  BY <1>1, <1>4

LEMMA TargetsAre ==
  /\ Targets(TRUE) = Natives(ChildTexts)
  /\ Targets(FALSE) = ChildTexts
BY DEF Targets, Target, Natives, ChildTexts

LEMMA PathsAreReadHere ==
  ASSUME DocumentsTypeInv
  PROVE  PathsAreRead
<1> SUFFICES ASSUME NEW tag \in Tags
             PROVE  /\ KeepsItsLevel /\ ~ PathsThrow(Received) =>
                         ReadPaths(Received, tag) = SentPaths(tag, Targets(TRUE))
                    /\ Distinct => ReadPaths(Built, tag) = SentPaths(tag, Targets(FALSE))
  BY TargetsAre DEF PathsAreRead, Tags
<1>1. ASSUME KeepsItsLevel PROVE ReadPaths(Received, tag) = SentPaths(tag, Targets(TRUE))
  BY <1>1, ReceivedPaths, OnlyPath
<1>2. ASSUME Distinct PROVE ReadPaths(Built, tag) = SentPaths(tag, Targets(FALSE))
  BY <1>2, BuiltPaths
<1> QED  BY <1>1, <1>2

-----------------------------------------------------------------------------
(* Documents grow child by child.                                            *)

(* What is written stays a list of fields, at one of the four places.         *)
THEOREM DocumentsAreWritten == DocumentsSpec => []DocumentsTypeInv
<1>1. DocumentsInit => DocumentsTypeInv
  BY DEF DocumentsInit, DocumentsTypeInv
<1>2. DocumentsTypeInv /\ [WriteChild]_documentsVars => DocumentsTypeInv'
  <2> SUFFICES ASSUME DocumentsTypeInv, [WriteChild]_documentsVars PROVE DocumentsTypeInv'
    OBVIOUS
  <2>1. CASE UNCHANGED documentsVars
    BY <2>1 DEF DocumentsTypeInv, documentsVars
  <2>2. CASE WriteChild
    <3>1. PICK child \in Children : children' = Append(children, child) /\ place' = place
      BY <2>2 DEF WriteChild
    <3>2. children' \in Seq(Children)
      BY <3>1 DEF DocumentsTypeInv
    <3> QED  BY <3>1, <3>2 DEF DocumentsTypeInv
  <2> QED  BY <2>1, <2>2
<1> QED  BY <1>1, <1>2, PTL DEF DocumentsSpec

(* Of every element that keeps its level, with any number of children of     *)
(* any names and texts, alone or among siblings: each list of ids is read     *)
(* complete and in order, texts that look like numbers or booleans as these   *)
(* are written ("007" as "7", for any such texts).  So the four ways in which *)
(* concatChildrenAndTraverseObject folds children tell the fromXML functions  *)
(* the same ids.  Lists with an empty text, a 0 or a false are not claimed.   *)
THEOREM IdsAreAlwaysRead == DocumentsSpec => []IdsAreRead
<1>1. DocumentsTypeInv => IdsAreRead
  BY IdsAreReadHere
<1> QED  BY <1>1, DocumentsAreWritten, PTL

(* Dialogue's short way of reading a list of ids says what the whole way      *)
(* through xml2js and MosString128 says, what is converted, garbled or taken  *)
(* for absent included; and an element that is alone comes out as a bare text *)
(* just where Dialogue says so, when it has nothing but one text.             *)
THEOREM DialogueAlwaysReadsAlike == DocumentsSpec => []DialogueReadsAlike
<1>1. DocumentsTypeInv => DialogueReadsAlike
  BY DialogueReadsAlikeHere
<1> QED  BY <1>1, DocumentsAreWritten, PTL

(* XMLObjectPaths.fromXML finds every path that has a description and a       *)
(* target, under its type and in order, in every element that xml2js leaves   *)
(* at its level, the target as nativeType converts it; and as it was written  *)
(* in every built element with one path of a type.                            *)
THEOREM PathsAreAlwaysRead == DocumentsSpec => []PathsAreRead
<1>1. DocumentsTypeInv => PathsAreRead
  BY PathsAreReadHere
<1> QED  BY <1>1, DocumentsAreWritten, PTL

-----------------------------------------------------------------------------
(* The ids of messages.                                                      *)

USE MaxAssumption, WindowAssumption

(* The id of a command is the counter, counted back by its age over the      *)
(* wrap; so its age determines it, and the other way round.                  *)
AgeGivesId ==
  \A c \in commands : \/ c.id = messageID - c.age
                      \/ c.id = messageID - c.age + (MAX - 1)

IdsInv == IdsTypeOK /\ AgeGivesId

LEMMA IdsInvGivesUnique == IdsInv => IdsAreUnique
<1> SUFFICES ASSUME IdsInv, NEW c \in commands, NEW d \in commands, c.id = d.id
             PROVE  c = d
  BY DEF IdsAreUnique
<1>1. /\ c \in [id : 1 .. MAX - 1, age : 0 .. Window]
      /\ d \in [id : 1 .. MAX - 1, age : 0 .. Window]
  BY DEF IdsInv, IdsTypeOK
<1>2. c.age = d.age
  <2>1. /\ c.id = messageID - c.age \/ c.id = messageID - c.age + (MAX - 1)
        /\ d.id = messageID - d.age \/ d.id = messageID - d.age + (MAX - 1)
    BY DEF IdsInv, AgeGivesId
  <2>2. messageID \in 1 .. MAX - 1 BY DEF IdsInv, IdsTypeOK
  <2>3. c.age \in 0 .. Window /\ d.age \in 0 .. Window BY <1>1
  <2> QED BY <2>1, <2>2, <2>3
<1> QED BY <1>1, <1>2

LEMMA DrawKeepsOlder ==
  ASSUME IdsInv, Draw
  PROVE  /\ messageID' \in 1 .. MAX - 1 /\ drawn' \in BOOLEAN
         /\ \A e \in Older :
              /\ e \in [id : 1 .. MAX - 1, age : 0 .. Window]
              /\ \/ e.id = messageID' - e.age
                 \/ e.id = messageID' - e.age + (MAX - 1)
<1>1. messageID \in 1 .. MAX - 1 BY DEF IdsInv, IdsTypeOK
<1>2. messageID' = IF messageID + 1 >= MAX THEN 1 ELSE messageID + 1
  BY DEF Draw, NewMessageID
<1>3. messageID' \in 1 .. MAX - 1 /\ drawn' \in BOOLEAN BY <1>1, <1>2 DEF Draw
<1>4. ASSUME NEW c \in commands
      PROVE  /\ c.id \in 1 .. MAX - 1 /\ c.age + 1 \in 0 .. Window
             /\ \/ c.id = messageID' - (c.age + 1)
                \/ c.id = messageID' - (c.age + 1) + (MAX - 1)
  <2>1. c \in [id : 1 .. MAX - 1, age : 0 .. Window] BY DEF IdsInv, IdsTypeOK
  <2>2. c.id \in 1 .. MAX - 1 /\ c.age \in 0 .. Window BY <2>1
  <2>3. c.age < Window BY DEF Draw
  <2>4. c.id = messageID - c.age \/ c.id = messageID - c.age + (MAX - 1)
    BY DEF IdsInv, AgeGivesId
  <2> QED BY <1>1, <1>2, <2>2, <2>3, <2>4
<1>5. ASSUME NEW e \in Older
      PROVE  /\ e \in [id : 1 .. MAX - 1, age : 0 .. Window]
             /\ \/ e.id = messageID' - e.age
                \/ e.id = messageID' - e.age + (MAX - 1)
  <2>1. PICK c \in commands : e = [id |-> c.id, age |-> c.age + 1] BY DEF Older
  <2> QED BY <1>4, <2>1
<1> QED BY <1>3, <1>5

LEMMA NextIdsInv == IdsInv /\ [IdsNext]_idsVars => IdsInv'
<1> SUFFICES ASSUME IdsInv, [IdsNext]_idsVars PROVE IdsInv' OBVIOUS
<1>1. CASE Command
  <2>1. Draw /\ commands' = Older \cup {[id |-> messageID', age |-> 0]}
    BY <1>1 DEF Command
  <2>2. /\ messageID' \in 1 .. MAX - 1 /\ drawn' \in BOOLEAN
        /\ \A e \in Older :
             /\ e \in [id : 1 .. MAX - 1, age : 0 .. Window]
             /\ \/ e.id = messageID' - e.age
                \/ e.id = messageID' - e.age + (MAX - 1)
    BY <2>1, DrawKeepsOlder
  <2>3. [id |-> messageID', age |-> 0] \in [id : 1 .. MAX - 1, age : 0 .. Window]
    BY <2>2
  <2>4. IdsTypeOK' BY <2>1, <2>2, <2>3 DEF IdsTypeOK
  <2>5. AgeGivesId'
    <3> SUFFICES ASSUME NEW e \in commands'
                 PROVE  \/ e.id = messageID' - e.age
                        \/ e.id = messageID' - e.age + (MAX - 1)
      BY DEF AgeGivesId
    <3>1. CASE e \in Older BY <2>2, <3>1
    <3>2. CASE e = [id |-> messageID', age |-> 0]
      <4>1. e.id = messageID' /\ e.age = 0 BY <3>2
      <4>2. messageID' \in 1 .. MAX - 1 BY <2>2
      <4>3. \A m \in 1 .. MAX - 1 : m = m - 0 OBVIOUS
      <4>4. messageID' = messageID' - 0 BY <4>2, <4>3, Zenon
      <4> QED BY <4>1, <4>4, Zenon
    <3> QED BY <2>1, <3>1, <3>2
  <2> QED BY <2>4, <2>5 DEF IdsInv
<1>2. CASE Reply
  <2>1. Draw /\ commands' = Older BY <1>2 DEF Reply
  <2> QED BY <2>1, DrawKeepsOlder DEF IdsInv, IdsTypeOK, AgeGivesId
<1>3. CASE Settle
  <2>1. commands' \subseteq commands /\ UNCHANGED <<messageID, drawn>>
    BY <1>3 DEF Settle
  <2>2. IdsTypeOK' BY <2>1 DEF IdsInv, IdsTypeOK
  <2>3. AgeGivesId'
    <3> SUFFICES ASSUME NEW c \in commands'
                 PROVE  c.id = messageID' - c.age \/ c.id = messageID' - c.age + (MAX - 1)
      BY DEF AgeGivesId
    <3> QED BY <2>1 DEF IdsInv, AgeGivesId
  <2> QED BY <2>2, <2>3 DEF IdsInv
<1>4. CASE UNCHANGED idsVars BY <1>4 DEF idsVars, IdsInv, IdsTypeOK, AgeGivesId
<1> QED BY <1>1, <1>2, <1>3, <1>4 DEF IdsNext

LEMMA IdsInvariance == IdsSpec => []IdsInv
<1>1. IdsInit => IdsInv
  <2> SUFFICES ASSUME IdsInit PROVE IdsInv OBVIOUS
  <2>1. IdsTypeOK
    <3>1. 1 \in 1 .. MAX - 1 OBVIOUS
    <3> QED BY <3>1, Zenon DEF IdsInit, IdsTypeOK
  <2>2. AgeGivesId BY DEF IdsInit, AgeGivesId
  <2> QED BY <2>1, <2>2 DEF IdsInv
<1> QED BY <1>1, NextIdsInv, PTL DEF IdsSpec

(* The counter stays below MAX_MESSAGE_ID, and so does every id in use.      *)
THEOREM IdsTypeCorrect == IdsSpec => []IdsTypeOK
<1>1. IdsInv => IdsTypeOK BY DEF IdsInv
<1> QED BY <1>1, IdsInvariance, PTL

(* Commands that wait for a reply at the same time have different ids, for   *)
(* every MAX_MESSAGE_ID, if none outlives MAX - 2 drawings (getNewMessageID).*)
THEOREM LiveIdsAreUnique == IdsSpec => []IdsAreUnique
<1> QED BY IdsInvGivesUnique, IdsInvariance, PTL
=============================================================================
