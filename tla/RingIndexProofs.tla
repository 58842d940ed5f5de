--------------------------- MODULE RingIndexProofs ---------------------------
(***************************************************************************)
(* Proofs about RingIndex, for every size of the words and of the rings.    *)
(***************************************************************************)
EXTENDS RingIndex, FiniteSetTheorems, SequenceTheorems, TLAPS

-----------------------------------------------------------------------------
(* The invariant. *)

\* The slot of the k-th operation of the batch refers to itself and has the operation.
Filled(k) ==
  LET slot == Slot(Wrap(tail + (k - 1)), SqEntries)
  IN sqArray[slot] = slot /\ sqes[slot] = batch[k]

\* The kernel has taken what was submitted before, unless the submitter waits for it;
\* a batch is of operations that nobody else has, and what is filled of it stays.
SubmitterOK ==
  /\ batch \in Seq(Ops) /\ Wrap(sqTail - sqHead) <= SqEntries
  /\ spc # "enter" => sqHead = sqTail
  /\ spc = "load" => batch = <<>>
  /\ spc = "fill" =>
       /\ tail = sqTail /\ Len(batch) > 0 /\ IsInjective(batch) /\ Range(batch) \subseteq idle
       /\ \A k \in 1 .. i : Filled(k)

\* reap is somewhere between the head that the kernel sees and the tail that reap saw,
\* and that tail is not beyond the kernel's.
CompleterOK ==
  /\ Wrap(cqTail - cqHead) <= CqEntries
  /\ cpc = "copy" =>
       /\ Wrap(head - cqHead) + Wrap(cqTail - head) = Wrap(cqTail - cqHead)
       /\ Wrap(seen - head) + Wrap(cqTail - seen) = Wrap(cqTail - head)

RingIndexInv == TypeOK /\ SubmitterOK /\ CompleterOK

-----------------------------------------------------------------------------
(* Words that wrap. *)

\* Quotient and remainder are the only ones there are.
LEMMA Remainder ==
  ASSUME NEW d \in Nat \ {0}, NEW q \in Int, NEW r \in 0 .. d - 1
  PROVE  (d * q + r) % d = r
  <1> DEFINE a == d * q + r
             p == a \div d
             s == a % d
  <1>1. a \in Int
    OBVIOUS
  <1>2. p \in Int /\ s \in 0 .. d - 1 /\ a = d * p + s
    <2> HIDE DEF a
    <2> QED  BY <1>1, SMT
  <1>3. d * (q - p) = s - r
    <2> HIDE DEF p, s
    <2> QED  BY <1>2
  <1>4. \A k \in Int : (k >= 1 => d * k >= d) /\ (k <= -1 => d * k <= -d)
    OBVIOUS
  <1>5. q - p = 0
    <2> HIDE DEF p, s, a
    <2>1. d * (q - p) < d /\ d * (q - p) > -d
      BY <1>2, <1>3
    <2>2. q - p \in Int
      BY <1>2
    <2> QED  BY <1>4, <2>1, <2>2
  <1> QED
    <2> HIDE DEF p, s
    <2>1. q = p
      BY <1>2, <1>5
    <2>2. s = r
      BY <1>2, <2>1
    <2> QED  BY <2>2 DEF s

\* Every number has a quotient and a remainder.
LEMMA Division ==
  \A c \in Int, d \in Nat \ {0} :
    c % d \in 0 .. d - 1 /\ c \div d \in Int /\ c = d * (c \div d) + (c % d)
  BY SMT

\* Sums and differences of two words wrap at most once.
LEMMA WrapFacts ==
  /\ Word \in Nat \ {0}
  /\ \A a, b \in 0 .. Word - 1 :
       /\ Wrap(b - a) = IF a <= b THEN b - a ELSE b - a + Word
       /\ Wrap(a + b) = IF a + b < Word THEN a + b ELSE a + b - Word
  <1>1. Word \in Nat \ {0}
    BY SizesAssumption
  <1>2. ASSUME NEW r \in 0 .. Word - 1
        PROVE  Wrap(r) = r /\ Wrap(r - Word) = r /\ Wrap(r + Word) = r
    <2>1. (Word * 0 + r) % Word = r /\ (Word * (-1) + r) % Word = r /\ (Word * 1 + r) % Word = r
      <3>1. 0 \in Int /\ -1 \in Int /\ 1 \in Int
        OBVIOUS
      <3> QED  BY <1>1, <3>1, Remainder
    <2>2. Word * 0 + r = r /\ Word * (-1) + r = r - Word /\ Word * 1 + r = r + Word
      BY <1>1
    <2> QED  BY <2>1, <2>2 DEF Wrap
  <1>3. ASSUME NEW a \in 0 .. Word - 1, NEW b \in 0 .. Word - 1
        PROVE  /\ Wrap(b - a) = IF a <= b THEN b - a ELSE b - a + Word
               /\ Wrap(a + b) = IF a + b < Word THEN a + b ELSE a + b - Word
    <2>1. ASSUME a <= b PROVE Wrap(b - a) = b - a
      <3>1. PICK r \in 0 .. Word - 1 : r = b - a /\ b - a = r
        BY <1>1, <2>1
      <3> QED  BY <1>2, <3>1
    <2>2. ASSUME ~(a <= b) PROVE Wrap(b - a) = b - a + Word
      <3>1. PICK r \in 0 .. Word - 1 : r = b - a + Word /\ b - a = r - Word
        BY <1>1, <2>2
      <3> QED  BY <1>2, <3>1
    <2>3. ASSUME a + b < Word PROVE Wrap(a + b) = a + b
      <3>1. PICK r \in 0 .. Word - 1 : r = a + b /\ a + b = r
        BY <1>1, <2>3
      <3> QED  BY <1>2, <3>1
    <2>4. ASSUME ~(a + b < Word) PROVE Wrap(a + b) = a + b - Word
      <3>1. PICK r \in 0 .. Word - 1 : r = a + b - Word /\ a + b = r + Word
        BY <1>1, <2>4
      <3> QED  BY <1>2, <3>1
    <2> QED  BY <2>1, <2>2, <2>3, <2>4
  <1> QED  BY <1>1, <1>3

Words == 0 .. Word - 1

\* How far it is from one word to another, and where a word gets by so many steps.
LEMMA Distances ==
  \A a, b \in Words :
    /\ Wrap(b - a) \in Words
    /\ Wrap(b - a) = 0 <=> a = b
    /\ Wrap(a + b) \in Words
    /\ Wrap(Wrap(a + b) - a) = b
    /\ Wrap(a + Wrap(b - a)) = b
  <1>1. Word \in Nat \ {0}
    BY WrapFacts
  <1>2. ASSUME NEW a \in Words, NEW b \in Words
        PROVE  Wrap(b - a) \in Words /\ (Wrap(b - a) = 0 <=> a = b) /\ Wrap(a + b) \in Words
    BY <1>1, WrapFacts DEF Words
  <1>3. ASSUME NEW a \in Words, NEW b \in Words
        PROVE  Wrap(Wrap(a + b) - a) = b
    <2>1. PICK c \in Words : c = Wrap(a + b)
      BY <1>2
    <2>2. Wrap(c - a) = IF a <= c THEN c - a ELSE c - a + Word
      BY WrapFacts DEF Words
    <2>3. c = IF a + b < Word THEN a + b ELSE a + b - Word
      BY <2>1, WrapFacts DEF Words
    <2>4. Wrap(c - a) = b
      BY <1>1, <2>2, <2>3 DEF Words
    <2> QED  BY <2>1, <2>4
  <1>4. ASSUME NEW a \in Words, NEW b \in Words
        PROVE  Wrap(a + Wrap(b - a)) = b
    <2>1. PICK c \in Words : c = Wrap(b - a)
      BY <1>2
    <2>2. Wrap(a + c) = IF a + c < Word THEN a + c ELSE a + c - Word
      BY WrapFacts DEF Words
    <2>3. c = IF a <= b THEN b - a ELSE b - a + Word
      BY <2>1, WrapFacts DEF Words
    <2>4. Wrap(a + c) = b
      BY <1>1, <2>2, <2>3 DEF Words
    <2> QED  BY <2>1, <2>4
  <1> QED  BY <1>2, <1>3, <1>4

\* One step at either end.
LEMMA OneStep ==
  \A a, b \in Words :
    /\ Wrap(a + 1) \in Words
    /\ a # b => Wrap(b - Wrap(a + 1)) = Wrap(b - a) - 1
    /\ Wrap(b - a) < Word - 1 => Wrap(Wrap(b + 1) - a) = Wrap(b - a) + 1
    /\ \A n \in Words : n < Word - 1 => Wrap(Wrap(a + 1) + n) = Wrap(a + (n + 1))
  <1>1. Word \in Nat \ {0} /\ (Word > 1 => 1 \in Words)
    BY WrapFacts DEF Words
  <1>2. Word > 1
    BY SizesAssumption
  <1>3. ASSUME NEW a \in Words
        PROVE  Wrap(a + 1) = IF a + 1 < Word THEN a + 1 ELSE 0
    <2>1. Wrap(a + 1) = IF a + 1 < Word THEN a + 1 ELSE a + 1 - Word
      BY <1>1, <1>2, WrapFacts DEF Words
    <2> QED  BY <1>1, <2>1 DEF Words
  <1>4. ASSUME NEW a \in Words, NEW b \in Words
        PROVE  /\ Wrap(a + 1) \in Words
               /\ a # b => Wrap(b - Wrap(a + 1)) = Wrap(b - a) - 1
               /\ Wrap(b - a) < Word - 1 => Wrap(Wrap(b + 1) - a) = Wrap(b - a) + 1
    <2>1. PICK c \in Words, d \in Words : c = Wrap(a + 1) /\ d = Wrap(b + 1)
      BY <1>1, <1>3 DEF Words
    <2>2. /\ Wrap(b - c) = IF c <= b THEN b - c ELSE b - c + Word
          /\ Wrap(d - a) = IF a <= d THEN d - a ELSE d - a + Word
          /\ Wrap(b - a) = IF a <= b THEN b - a ELSE b - a + Word
      BY WrapFacts DEF Words
    <2>3. /\ c = IF a + 1 < Word THEN a + 1 ELSE 0
          /\ d = IF b + 1 < Word THEN b + 1 ELSE 0
      BY <1>3, <2>1
    <2>4. a # b => Wrap(b - c) = Wrap(b - a) - 1
      BY <1>1, <2>2, <2>3 DEF Words
    <2>5. Wrap(b - a) < Word - 1 => Wrap(d - a) = Wrap(b - a) + 1
      BY <1>1, <2>2, <2>3 DEF Words
    <2> QED  BY <2>1, <2>4, <2>5
  <1>5. ASSUME NEW a \in Words, NEW n \in Words, n < Word - 1
        PROVE  Wrap(Wrap(a + 1) + n) = Wrap(a + (n + 1))
    <2>1. PICK c \in Words, m \in Words : c = Wrap(a + 1) /\ m = n + 1
      <3>1. Wrap(a + 1) \in Words
        BY <1>4
      <3>2. n + 1 \in Words
        BY <1>1, <1>5 DEF Words
      <3> QED  BY <3>1, <3>2
    <2>2. /\ Wrap(c + n) = IF c + n < Word THEN c + n ELSE c + n - Word
          /\ Wrap(a + m) = IF a + m < Word THEN a + m ELSE a + m - Word
      BY WrapFacts DEF Words
    <2>3. c = IF a + 1 < Word THEN a + 1 ELSE 0
      BY <1>3, <2>1
    <2>4. Wrap(c + n) = Wrap(a + m)
      BY <1>1, <1>5, <2>1, <2>2, <2>3 DEF Words
    <2> QED  BY <2>1, <2>4
  <1> QED  BY <1>4, <1>5

-----------------------------------------------------------------------------
(* The slots of a ring. *)

\* The size of a ring: the words wrap at one of its multiples.
RingSize(size) == size \in Nat \ {0} /\ size < Word /\ Word % size = 0

LEMMA SizesAreRingSizes == RingSize(SqEntries) /\ RingSize(CqEntries)
  BY SizesAssumption DEF RingSize

\* The slot of a word does not depend on whether the word has wrapped.
LEMMA SlotOfWrapped ==
  ASSUME NEW size, RingSize(size), NEW a \in 0 .. Word - 1, NEW n \in 0 .. Word - 1
  PROVE  Slot(Wrap(a + n), size) = (a + n) % size /\ (a + n) % size \in 0 .. size - 1
  <1>1. size \in Nat \ {0} /\ Word \in Nat \ {0} /\ Word % size = 0
    BY SizesAssumption DEF RingSize
  <1>2. PICK m \in Int : Word = size * m
    <2>1. Word \div size \in Int /\ Word = size * (Word \div size) + 0
      BY <1>1, Division
    <2> QED  BY <1>1, <2>1
  <1>3. PICK q \in Int, r \in 0 .. size - 1 : a + n = size * q + r
    <2>1. a + n \in Int
      BY <1>1
    <2>2. PICK q \in Int : a + n = size * q + ((a + n) % size)
      BY <1>1, <2>1, Division, Zenon
    <2>3. PICK r \in 0 .. size - 1 : r = (a + n) % size
      BY <1>1, <2>1, Division, Zenon
    <2>4. a + n = size * q + r
      BY <2>2, <2>3
    <2> QED  BY <2>4
  <1>4. (a + n) % size = r
    BY <1>1, <1>3, Remainder
  <1>5. CASE a + n < Word
    BY <1>3, <1>4, <1>5, WrapFacts DEF Slot
  <1>6. CASE ~(a + n < Word)
    <2>1. Wrap(a + n) = a + n - Word
      BY <1>6, WrapFacts
    <2>2. a + n - Word = size * (q - m) + r
      <3>1. size * (q - m) = size * q - size * m
        BY <1>1
      <3> QED  BY <1>1, <1>2, <1>3, <3>1
    <2>3. q - m \in Int
      OBVIOUS
    <2>4. (a + n - Word) % size = r
      BY <1>1, <2>2, <2>3, Remainder
    <2> QED  BY <1>3, <1>4, <2>1, <2>4 DEF Slot
  <1> QED  BY <1>5, <1>6

\* As many words as there are slots have a slot each.
LEMMA SlotsDiffer ==
  ASSUME NEW size, RingSize(size), NEW a \in 0 .. Word - 1,
         NEW j \in 0 .. size - 1, NEW k \in 0 .. size - 1, j # k
  PROVE  Slot(Wrap(a + j), size) # Slot(Wrap(a + k), size)
  <1>1. size \in Nat \ {0} /\ Word \in Nat \ {0} /\ size < Word
    BY SizesAssumption DEF RingSize
  <1>2. SUFFICES ASSUME (a + j) % size = (a + k) % size PROVE FALSE
    <2>1. j \in 0 .. Word - 1 /\ k \in 0 .. Word - 1
      BY <1>1
    <2> QED  BY <2>1, SlotOfWrapped
  <1>3. PICK p \in Int, q \in Int, r \in 0 .. size - 1 : a + j = size * p + r /\ a + k = size * q + r
    <2>1. a + j \in Int /\ a + k \in Int
      BY <1>1
    <2>2. PICK p \in Int : a + j = size * p + ((a + j) % size)
      BY <1>1, <2>1, Division, Zenon
    <2>3. PICK q \in Int : a + k = size * q + ((a + k) % size)
      BY <1>1, <2>1, Division, Zenon
    <2>4. PICK r \in 0 .. size - 1 : r = (a + j) % size
      BY <1>1, <2>1, Division, Zenon
    <2>5. a + j = size * p + r /\ a + k = size * q + r
      BY <1>2, <2>2, <2>3, <2>4, Zenon
    <2> QED  BY <2>5
  <1>4. j - k = size * (p - q)
    BY <1>1, <1>3
  <1>5. \A c \in Int : (c >= 1 => size * c >= size) /\ (c <= -1 => size * c <= -size)
    BY <1>1
  <1>6. p - q = 0
    <2>1. size * (p - q) < size /\ size * (p - q) > -size
      BY <1>1, <1>4
    <2> QED  BY <1>1, <1>5, <2>1
  <1>7. j - k = 0
    BY <1>1, <1>4, <1>6
  <1> QED  BY <1>1, <1>7


-----------------------------------------------------------------------------
(* The steps of the invariant. *)

LEMMA SizeFacts ==
  /\ Word \in Nat \ {0} /\ SqEntries \in Nat \ {0} /\ CqEntries \in Nat \ {0}
  /\ SqEntries < Word /\ CqEntries < Word /\ 0 \in Words
  BY SizesAssumption DEF Words

LEMMA SlotType ==
  /\ \A x \in Words : Slot(x, SqEntries) \in 0 .. SqEntries - 1
  /\ \A x \in Words : Slot(x, CqEntries) \in 0 .. CqEntries - 1
  <1>1. \A x \in Words : x \in Int
    BY SizeFacts DEF Words
  <1> QED  BY <1>1, SizeFacts, Division, Zenon DEF Slot

\* Where the j-th slot from a word is.
LEMMA SlotAhead ==
  ASSUME NEW a \in Words, NEW j \in Words
  PROVE  /\ Wrap(a + j) \in Words
         /\ Slot(Wrap(a + j), SqEntries) \in 0 .. SqEntries - 1
         /\ Slot(Wrap(a + j), CqEntries) \in 0 .. CqEntries - 1
  BY Distances, SlotType

LEMMA IndexInit == Init => RingIndexInv
  <1> SUFFICES ASSUME Init PROVE RingIndexInv
    OBVIOUS
  <1> USE DEF Init
  <1>1. (CHOOSE op \in Ops : TRUE) \in Ops
    BY SizesAssumption
  <1>2. batch \in Seq(Ops) /\ Len(batch) = 0 /\ Range(batch) = {}
    BY DEF Range
  <1>3. TypeOK
    <2>1. sqes \in [0 .. SqEntries - 1 -> Ops] /\ cqes \in [0 .. CqEntries - 1 -> Ops]
      BY <1>1
    <2>2. sqArray \in [0 .. SqEntries - 1 -> 0 .. SqEntries - 1]
      BY SizeFacts
    <2> QED  BY <1>2, <2>1, <2>2, SizeFacts DEF TypeOK, Words
  <1>4. SubmitterOK /\ CompleterOK
    BY <1>2, SizeFacts, Distances, SMTT(30) DEF SubmitterOK, CompleterOK
  <1> QED  BY <1>3, <1>4 DEF RingIndexInv

\* What does not touch the words of the SQ or the batch, and takes nothing from idle.
LEMMA SubmitterFrame ==
  ASSUME SubmitterOK, UNCHANGED <<sqVars, subVars>>, idle \subseteq idle'
  PROVE  SubmitterOK'
  <1>1. \A k \in 1 .. i : Filled(k)' <=> Filled(k)
    BY DEF Filled, sqVars, subVars
  <1> QED  BY <1>1 DEF SubmitterOK, sqVars, subVars

LEMMA CompleterFrame ==
  ASSUME CompleterOK, UNCHANGED <<cqHead, cqTail, reapVars>>
  PROVE  CompleterOK'
  BY DEF CompleterOK, reapVars

\* submitBatch takes a prefix of the pending operations.
LEMMA LoadStep ==
  ASSUME RingIndexInv, SubLoad
  PROVE  RingIndexInv'
  <1> USE DEF RingIndexInv
  <1>1. PICK n \in 1 .. Cardinality(idle) : \E pending \in [1 .. n -> idle] :
          /\ IsInjective(pending)
          /\ batch' = SubSeq(pending, 1, IF n > Available THEN Available ELSE n)
    BY DEF SubLoad
  <1>2. Available = SqEntries /\ spc = "load" /\ sqHead = sqTail
    <2>1. spc = "load" /\ sqHead = sqTail
      BY DEF SubLoad, SubmitterOK
    <2>2. Wrap(sqTail - sqHead) = 0
      BY <2>1, Distances DEF TypeOK, Words
    <2> QED  BY <2>1, <2>2, SizeFacts DEF Available
  <1>3. n \in Nat /\ n > 0 /\ idle \subseteq Ops
    BY DEF TypeOK
  <1>4. PICK pending \in [1 .. n -> idle] :
          /\ IsInjective(pending)
          /\ batch' = SubSeq(pending, 1, IF n > Available THEN Available ELSE n)
    BY <1>1
  <1>5. pending \in Seq(idle) /\ Len(pending) = n
    BY <1>1, <1>3
  <1>6. PICK m \in 1 .. n : m <= SqEntries /\ batch' = SubSeq(pending, 1, m)
    <2>1. CASE n > Available
      BY <1>4, <1>2, <1>3, <2>1, SizeFacts
    <2>2. CASE ~(n > Available)
      BY <1>4, <1>2, <1>3, <2>2, SizeFacts
    <2> QED  BY <2>1, <2>2
  <1>7. /\ batch' \in Seq(idle) /\ Len(batch') = m /\ DOMAIN batch' = 1 .. m
        /\ \A k \in 1 .. m : batch'[k] = pending[k]
    BY <1>3, <1>5, <1>6
  <1>8. IsInjective(batch')
    <2>1. \A a, b \in 1 .. n : pending[a] = pending[b] => a = b
      BY <1>4, <1>5 DEF IsInjective
    <2>2. \A a, b \in 1 .. m : batch'[a] = batch'[b] => a = b
      BY <1>3, <1>7, <2>1
    <2> QED  BY <1>7, <2>2 DEF IsInjective
  <1>9. Range(batch') \subseteq idle /\ batch' \in Seq(Ops)
    BY <1>3, <1>7 DEF Range
  <1>10. /\ tail' = sqTail /\ i' = 0 /\ spc' = "fill"
        /\ UNCHANGED <<sqVars, cqVars, idle, kernel, reapVars>>
    BY DEF SubLoad
  <1>11. TypeOK'
    BY <1>3, <1>6, <1>7, <1>9, <1>10 DEF TypeOK, sqVars, cqVars, reapVars
  <1>12. SubmitterOK'
    BY <1>2, <1>7, <1>8, <1>9, <1>10 DEF SubmitterOK, sqVars
  <1>13. CompleterOK'
    BY <1>10, CompleterFrame DEF cqVars
  <1> QED  BY <1>11, <1>12, <1>13

\* A slot of the batch is filled, and no other slot of it touched.
LEMMA FillStep ==
  ASSUME RingIndexInv, SubFill
  PROVE  RingIndexInv'
  <1> USE DEF RingIndexInv
  <1>1. /\ spc = "fill" /\ i < Len(batch) /\ i' = i + 1
        /\ sqes' = [sqes EXCEPT ![FillSlot] = batch[i + 1]]
        /\ sqArray' = [sqArray EXCEPT ![FillSlot] = FillSlot]
        /\ UNCHANGED <<sqHead, sqTail, cqVars, idle, kernel, spc, batch, tail, reapVars>>
    BY DEF SubFill
  <1>2. /\ i \in Nat /\ Len(batch) \in Nat /\ Len(batch) <= SqEntries /\ tail \in Words
        /\ i + 1 \in 1 .. Len(batch) /\ i \in 0 .. SqEntries - 1 /\ batch[i + 1] \in Ops
    <2>1. i \in 0 .. Len(batch) /\ batch \in Seq(Ops) /\ Len(batch) <= SqEntries /\ tail \in Words
      BY DEF TypeOK, SubmitterOK, Words
    <2>2. Len(batch) \in Nat /\ i \in Nat /\ i + 1 \in 1 .. Len(batch) /\ i \in 0 .. SqEntries - 1
      BY <1>1, <2>1, SizeFacts
    <2>3. batch[i + 1] \in Ops
      BY <2>1, <2>2
    <2> QED  BY <2>1, <2>2, <2>3
  <1>3. FillSlot \in 0 .. SqEntries - 1
    <2>1. i \in Words
      BY <1>2, SizeFacts DEF Words
    <2> QED  BY <1>2, <2>1, SlotAhead DEF FillSlot
  <1>4. PICK slot \in 0 .. SqEntries - 1 : slot = FillSlot
    BY <1>3
  <1>5. /\ sqes' \in [0 .. SqEntries - 1 -> Ops] /\ sqArray' \in [0 .. SqEntries - 1 -> 0 .. SqEntries - 1]
        /\ sqes'[slot] = batch[i + 1] /\ sqArray'[slot] = slot
        /\ \A s \in 0 .. SqEntries - 1 : s # slot => sqes'[s] = sqes[s] /\ sqArray'[s] = sqArray[s]
    BY <1>1, <1>2, <1>4 DEF TypeOK
  <1>6. TypeOK'
    BY <1>1, <1>2, <1>5 DEF TypeOK, cqVars, reapVars
  <1>7. SubmitterOK'
    <2>1. \A k \in 1 .. i' : Filled(k)'
      <3> SUFFICES ASSUME NEW k \in 1 .. i + 1 PROVE Filled(k)'
        BY <1>1
      <3>1. PICK j \in 0 .. SqEntries - 1 : j = k - 1
        BY <1>2, SizeFacts
      <3>2. PICK s \in 0 .. SqEntries - 1 : s = Slot(Wrap(tail + j), SqEntries)
        <4>1. j \in Words
          BY SizeFacts DEF Words
        <4> QED  BY <1>2, <4>1, SlotAhead
      <3>3. Filled(k)' <=> sqArray'[s] = s /\ sqes'[s] = batch[k]
        BY <1>1, <3>1, <3>2 DEF Filled
      <3>4. CASE k = i + 1
        <4>1. j = i
          BY <1>2, <3>1, <3>4
        <4>2. s = slot
          BY <1>4, <3>2, <4>1 DEF FillSlot
        <4> QED  BY <1>5, <3>3, <3>4, <4>2
      <3>5. CASE k # i + 1
        <4>1. k \in 1 .. i /\ j # i
          BY <1>2, <3>1, <3>5
        <4>2. s # slot
          BY <1>2, <1>4, <3>2, <4>1, SlotsDiffer, SizesAreRingSizes DEF FillSlot, Words
        <4>3. Filled(k)
          BY <1>1, <4>1 DEF SubmitterOK
        <4>4. sqArray[s] = s /\ sqes[s] = batch[k]
          BY <3>1, <3>2, <4>3 DEF Filled
        <4> QED  BY <1>5, <3>3, <4>2, <4>4
      <3> QED  BY <3>4, <3>5
    <2> QED  BY <1>1, <2>1 DEF SubmitterOK
  <1>8. CompleterOK'
    BY <1>1, CompleterFrame DEF cqVars
  <1> QED  BY <1>6, <1>7, <1>8


\* What wholly filled a batch is exposed by one store.
LEMMA StoreStep ==
  ASSUME RingIndexInv, SubStoreTail
  PROVE  RingIndexInv'
  <1> USE DEF RingIndexInv
  <1>1. /\ spc = "fill" /\ spc' = "enter" /\ sqTail' = Wrap(tail + Len(batch))
        /\ idle' = idle \ Range(batch)
        /\ UNCHANGED <<sqHead, sqArray, sqes, cqVars, kernel, batch, tail, i, reapVars>>
    BY DEF SubStoreTail
  <1>2. /\ sqHead = tail /\ tail \in Words /\ Len(batch) \in Words /\ Len(batch) <= SqEntries
    <2>1. Len(batch) \in Nat /\ Len(batch) <= SqEntries
      BY DEF TypeOK, SubmitterOK
    <2> QED  BY <1>1, <2>1, SizeFacts DEF TypeOK, SubmitterOK, Words
  <1>3. sqTail' \in Words /\ Wrap(sqTail' - sqHead) = Len(batch)
    BY <1>1, <1>2, Distances
  <1>4. TypeOK'
    BY <1>1, <1>3 DEF TypeOK, cqVars, reapVars, Words
  <1>5. SubmitterOK'
    BY <1>1, <1>2, <1>3 DEF SubmitterOK
  <1>6. CompleterOK'
    BY <1>1, CompleterFrame DEF cqVars
  <1> QED  BY <1>4, <1>5, <1>6

LEMMA ReturnStep ==
  ASSUME RingIndexInv, SubReturn
  PROVE  RingIndexInv'
  <1> USE DEF RingIndexInv
  <1>1. /\ spc = "enter" /\ sqHead = sqTail /\ spc' = "load" /\ batch' = <<>> /\ tail' = 0 /\ i' = 0
        /\ UNCHANGED <<sqVars, cqVars, idle, kernel, reapVars>>
    BY DEF SubReturn, Consumed
  <1>2. batch' \in Seq(Ops) /\ Len(batch') = 0 /\ Range(batch') = {}
    <2>1. <<>> \in Seq(Ops) /\ Len(<<>>) = 0 /\ Range(<<>>) = {}
      BY DEF Range
    <2> QED  BY <1>1, <2>1
  <1>3. TypeOK'
    <2>1. Len(batch') <= SqEntries /\ i' \in 0 .. Len(batch') /\ Range(batch') \subseteq Ops
      BY <1>1, <1>2, SizeFacts
    <2>2. tail' \in 0 .. Word - 1
      BY <1>1, SizeFacts
    <2> QED  BY <1>1, <2>1, <2>2 DEF TypeOK, sqVars, cqVars, reapVars
  <1>4. SubmitterOK'
    BY <1>1, <1>2 DEF SubmitterOK, sqVars
  <1>5. CompleterOK'
    BY <1>1, CompleterFrame DEF cqVars
  <1> QED  BY <1>3, <1>4, <1>5

\* The kernel takes one.
LEMMA TakeStep ==
  ASSUME RingIndexInv, KernelTake
  PROVE  RingIndexInv'
  <1> USE DEF RingIndexInv
  <1>1. /\ spc = "enter" /\ sqHead # sqTail /\ sqHead' = Wrap(sqHead + 1)
        /\ kernel' = kernel \cup {sqes[sqArray[Slot(sqHead, SqEntries)]]}
        /\ UNCHANGED <<sqTail, sqArray, sqes, cqVars, idle, subVars, reapVars>>
    BY DEF KernelTake
  <1>2. sqHead \in Words /\ sqTail \in Words
    BY DEF TypeOK, Words
  <1>3. sqHead' \in Words /\ Wrap(sqTail - sqHead') = Wrap(sqTail - sqHead) - 1
    BY <1>1, <1>2, OneStep
  <1>4. sqes[sqArray[Slot(sqHead, SqEntries)]] \in Ops
    BY <1>2, SlotType DEF TypeOK
  <1>5. TypeOK'
    BY <1>1, <1>3, <1>4 DEF TypeOK, cqVars, subVars, reapVars, Words
  <1>6. SubmitterOK'
    <2>1. Wrap(sqTail - sqHead) \in Words
      BY <1>2, Distances
    <2>2. Wrap(sqTail - sqHead') <= SqEntries
      BY <1>3, <2>1, SizeFacts DEF SubmitterOK, Words
    <2> QED  BY <1>1, <2>2 DEF SubmitterOK, subVars
  <1>7. CompleterOK'
    BY <1>1, CompleterFrame DEF cqVars
  <1> QED  BY <1>5, <1>6, <1>7

\* The kernel answers one, if the CQ has room.
LEMMA PostStep ==
  ASSUME RingIndexInv, NEW op \in Ops, KernelPost(op)
  PROVE  RingIndexInv'
  <1> USE DEF RingIndexInv
  <1>1. /\ op \in kernel /\ Wrap(cqTail - cqHead) < CqEntries
        /\ cqes' = [cqes EXCEPT ![Slot(cqTail, CqEntries)] = op]
        /\ cqTail' = Wrap(cqTail + 1) /\ kernel' = kernel \ {op}
        /\ UNCHANGED <<sqVars, cqHead, idle, subVars, reapVars>>
    BY DEF KernelPost
  <1>2. {cqHead, cqTail, head, seen} \subseteq Words
    BY DEF TypeOK, Words
  <1>3. /\ Wrap(cqTail - cqHead) \in Words /\ Wrap(cqTail - head) \in Words
        /\ Wrap(cqTail - seen) \in Words /\ Wrap(head - cqHead) \in Words /\ Wrap(seen - head) \in Words
    BY <1>2, Distances
  <1>4. /\ cqTail' \in Words /\ Wrap(cqTail' - cqHead) = Wrap(cqTail - cqHead) + 1
        /\ Wrap(cqTail - head) < Word - 1 => Wrap(cqTail' - head) = Wrap(cqTail - head) + 1
        /\ Wrap(cqTail - seen) < Word - 1 => Wrap(cqTail' - seen) = Wrap(cqTail - seen) + 1
    <2>1. Wrap(cqTail - cqHead) < Word - 1
      BY <1>1, <1>3, SizeFacts DEF Words
    <2> QED  BY <1>1, <1>2, <2>1, OneStep
  <1>5. TypeOK'
    BY <1>1, <1>4, ZenonT(60) DEF TypeOK, sqVars, subVars, reapVars, Words
  <1>6. SubmitterOK'
    BY <1>1, SubmitterFrame
  <1>7. CompleterOK'
    <2>1. UNCHANGED <<cqHead, cpc, head, seen>>
      BY <1>1 DEF reapVars
    <2>2. Wrap(cqTail' - cqHead) <= CqEntries
      BY <1>1, <1>3, <1>4, SizeFacts DEF Words
    <2>3. ASSUME cpc = "copy"
          PROVE  /\ Wrap(head - cqHead) + Wrap(cqTail' - head) = Wrap(cqTail' - cqHead)
                 /\ Wrap(seen - head) + Wrap(cqTail' - seen) = Wrap(cqTail' - head)
      <3>1. /\ Wrap(head - cqHead) + Wrap(cqTail - head) = Wrap(cqTail - cqHead)
            /\ Wrap(seen - head) + Wrap(cqTail - seen) = Wrap(cqTail - head)
        BY <2>3 DEF CompleterOK
      <3>2. Wrap(cqTail - head) < Word - 1 /\ Wrap(cqTail - seen) < Word - 1
        BY <1>1, <1>3, <3>1, SizeFacts DEF Words
      <3> QED  BY <1>3, <1>4, <3>1, <3>2 DEF Words
    <2> QED  BY <2>1, <2>2, <2>3 DEF CompleterOK
  <1> QED  BY <1>5, <1>6, <1>7

\* reap sees a head and a tail, and gives all between them back before the kernel may
\* use their slots.
LEMMA ReapStep ==
  ASSUME RingIndexInv, Completer
  PROVE  RingIndexInv'
  <1> USE DEF RingIndexInv
  <1>1. UNCHANGED <<sqVars, cqTail, cqes, kernel, subVars>> /\ idle \subseteq idle'
    BY DEF Completer, ReapLoad, ReapCopy, ReapStoreHead, cqVars
  <1>2. {cqHead, cqTail, head, seen} \subseteq Words
    BY DEF TypeOK, Words
  <1>3. /\ Wrap(cqTail - cqHead) \in Words /\ Wrap(cqTail - head) \in Words
        /\ Wrap(cqTail - seen) \in Words /\ Wrap(head - cqHead) \in Words /\ Wrap(seen - head) \in Words
    BY <1>2, Distances
  <1>4. SubmitterOK'
    BY <1>1, SubmitterFrame
  <1>5. CASE ReapLoad
    <2>1. /\ head' = cqHead /\ seen' = cqTail /\ cpc' \in {"copy", "load"}
          /\ UNCHANGED <<cqHead, cqTail, idle>>
      BY <1>5 DEF ReapLoad, cqVars
    <2>2. Wrap(cqHead - cqHead) = 0 /\ Wrap(cqTail - cqTail) = 0
      BY <1>2, Distances
    <2>3. TypeOK'
      BY <1>1, <2>1 DEF TypeOK, sqVars, subVars
    <2>4. CompleterOK'
      BY <1>3, <2>1, <2>2 DEF CompleterOK, Words
    <2> QED  BY <1>4, <2>3, <2>4
  <1>6. CASE ReapCopy
    <2>1. /\ cpc = "copy" /\ head # seen /\ head' = Wrap(head + 1)
          /\ idle' = idle \cup {cqes[Slot(head, CqEntries)]}
          /\ UNCHANGED <<cqHead, cqTail, cpc, seen>>
      BY <1>6 DEF ReapCopy, More, cqVars
    <2>2. /\ Wrap(head - cqHead) + Wrap(cqTail - head) = Wrap(cqTail - cqHead)
          /\ Wrap(seen - head) + Wrap(cqTail - seen) = Wrap(cqTail - head)
          /\ Wrap(cqTail - cqHead) <= CqEntries
      BY <2>1 DEF CompleterOK
    <2>3. Wrap(seen - head) # 0
      BY <1>2, <2>1, Distances
    <2>4. Wrap(head - cqHead) < Word - 1 /\ Wrap(cqTail - head) # 0
      BY <1>3, <2>2, <2>3, SizeFacts DEF Words
    <2>5. head # cqTail
      BY <1>2, <2>4, Distances
    <2>6. /\ head' \in Words /\ Wrap(head' - cqHead) = Wrap(head - cqHead) + 1
          /\ Wrap(cqTail - head') = Wrap(cqTail - head) - 1
          /\ Wrap(seen - head') = Wrap(seen - head) - 1
      BY <1>2, <2>1, <2>4, <2>5, OneStep
    <2>7. TypeOK'
      <3>1. cqes[Slot(head, CqEntries)] \in Ops
        BY <1>2, SlotType DEF TypeOK
      <3> QED  BY <1>1, <2>1, <2>6, <3>1 DEF TypeOK, sqVars, subVars, Words
    <2>8. CompleterOK'
      BY <1>3, <2>1, <2>2, <2>6 DEF CompleterOK, Words
    <2> QED  BY <1>4, <2>7, <2>8
  <1>7. CASE ReapStoreHead
    <2>1. cpc = "copy" /\ cpc' = "load" /\ cqHead' = head /\ UNCHANGED <<cqTail, idle, head, seen>>
      BY <1>7 DEF ReapStoreHead
    <2>2. TypeOK'
      BY <1>1, <2>1 DEF TypeOK, sqVars, subVars
    <2>3. CompleterOK'
      <3>1. Wrap(head - cqHead) + Wrap(cqTail - head) = Wrap(cqTail - cqHead) /\ Wrap(cqTail - cqHead) <= CqEntries
        BY <2>1 DEF CompleterOK
      <3>2. Wrap(cqTail - head) <= CqEntries
        BY <1>3, <3>1, SizeFacts DEF Words
      <3> QED  BY <2>1, <3>2 DEF CompleterOK
    <2> QED  BY <1>4, <2>2, <2>3
  <1> QED  BY <1>5, <1>6, <1>7 DEF Completer

LEMMA IndexStep == RingIndexInv /\ [Next]_vars => RingIndexInv'
  <1> SUFFICES ASSUME RingIndexInv, [Next]_vars PROVE RingIndexInv'
    OBVIOUS
  <1>1. CASE UNCHANGED vars
    <2>1. TypeOK'
      BY <1>1 DEF RingIndexInv, TypeOK, vars, sqVars, cqVars, subVars, reapVars
    <2>2. SubmitterOK' /\ CompleterOK'
      BY <1>1, SubmitterFrame, CompleterFrame DEF RingIndexInv, vars, cqVars
    <2> QED  BY <2>1, <2>2 DEF RingIndexInv
  <1> QED
    BY <1>1, LoadStep, FillStep, StoreStep, ReturnStep, TakeStep, PostStep, ReapStep
    DEF Next, Submitter, Kernel

LEMMA IndexInvHolds == Spec => []RingIndexInv
  BY IndexInit, IndexStep, PTL DEF Spec

-----------------------------------------------------------------------------
(* The theorems. *)

\* The words and the slots stay in their ranges, whatever the sizes are.
THEOREM TypeCorrect == Spec => []TypeOK
  <1>1. RingIndexInv => TypeOK
    BY DEF RingIndexInv
  <1> QED  BY <1>1, IndexInvHolds, PTL

\* The SQ is empty whenever submitBatch looks for room, neither queue ever holds more
\* than its size, and reap never reads beyond what the kernel has posted.
THEOREM RoomIsAlwaysRight == Spec => []RoomIsRight
  <1>1. RingIndexInv => RoomIsRight
    <2> SUFFICES ASSUME RingIndexInv PROVE RoomIsRight
      OBVIOUS
    <2> USE DEF RingIndexInv
    <2>1. {sqHead, sqTail, cqHead, cqTail, head, seen} \subseteq Words
      BY DEF TypeOK, Words
    <2>2. spc = "load" => Available = SqEntries
      <3>1. spc = "load" => Wrap(sqTail - sqHead) = 0
        BY <2>1, Distances DEF SubmitterOK
      <3> QED  BY <3>1, SizeFacts DEF Available
    <2>3. Wrap(sqTail - sqHead) <= SqEntries /\ Wrap(cqTail - cqHead) <= CqEntries
      BY DEF SubmitterOK, CompleterOK
    <2>4. cpc = "copy" => Wrap(seen - head) <= Wrap(cqTail - cqHead)
      <3>1. /\ Wrap(cqTail - cqHead) \in Words /\ Wrap(cqTail - head) \in Words
            /\ Wrap(cqTail - seen) \in Words /\ Wrap(head - cqHead) \in Words /\ Wrap(seen - head) \in Words
        BY <2>1, Distances
      <3> QED  BY <3>1, SizeFacts DEF CompleterOK, Words
    <2> QED  BY <2>2, <2>3, <2>4 DEF RoomIsRight
  <1> QED  BY <1>1, IndexInvHolds, PTL


-----------------------------------------------------------------------------
(* The refinement: the two queues. *)

First == IF cpc = "copy" THEN head ELSE cqHead
SqEntry(k) == sqes[sqArray[Slot(Wrap(sqHead + k - 1), SqEntries)]]
CqEntry(k) == cqes[Slot(Wrap(First + k - 1), CqEntries)]
SQ == [k \in 1 .. Wrap(sqTail - sqHead) |-> SqEntry(k)]
CQ == [k \in 1 .. Wrap(cqTail - First) |-> CqEntry(k)]

\* The actions of the two queues, said of these.
LEMMA QueueActions ==
  /\ Queues!Init <=> idle = Ops /\ SQ = <<>> /\ kernel = {} /\ CQ = <<>>
  /\ UNCHANGED <<idle, SQ, kernel, CQ>> => UNCHANGED Queues!vars
  /\ (\E n \in 1 .. SqEntries - Len(SQ) : \E b \in [1 .. n -> idle] :
        IsInjective(b) /\ SQ' = SQ \o b /\ idle' = idle \ Range(b)) /\ UNCHANGED <<kernel, CQ>>
     => Queues!Next
  /\ SQ # <<>> /\ kernel' = kernel \cup {Head(SQ)} /\ SQ' = Tail(SQ) /\ UNCHANGED <<idle, CQ>>
     => Queues!Next
  /\ (\E op \in kernel : Len(CQ) < CqEntries /\ CQ' = Append(CQ, op) /\ kernel' = kernel \ {op})
     /\ UNCHANGED <<idle, SQ>> => Queues!Next
  /\ CQ # <<>> /\ idle' = idle \cup {Head(CQ)} /\ CQ' = Tail(CQ) /\ UNCHANGED <<kernel, SQ>>
     => Queues!Next
  <1> USE DEF SQ, CQ, SqEntry, CqEntry, First, Between
  <1>1. Queues!Init <=> idle = Ops /\ SQ = <<>> /\ kernel = {} /\ CQ = <<>>
    BY Zenon DEF Queues!Init
  <1>2. UNCHANGED <<idle, SQ, kernel, CQ>> => UNCHANGED Queues!vars
    BY Zenon DEF Queues!vars
  <1>3. (\E n \in 1 .. SqEntries - Len(SQ) : \E b \in [1 .. n -> idle] :
          IsInjective(b) /\ SQ' = SQ \o b /\ idle' = idle \ Range(b)) /\ UNCHANGED <<kernel, CQ>>
        => Queues!Next
    BY Zenon DEF Queues!Next, Queues!Publish, IsInjective, Range, Queues!IsInjective, Queues!Range
  <1>4. SQ # <<>> /\ kernel' = kernel \cup {Head(SQ)} /\ SQ' = Tail(SQ) /\ UNCHANGED <<idle, CQ>>
        => Queues!Next
    BY Zenon DEF Queues!Next, Queues!Take
  <1>5. (\E op \in kernel : Len(CQ) < CqEntries /\ CQ' = Append(CQ, op) /\ kernel' = kernel \ {op})
        /\ UNCHANGED <<idle, SQ>> => Queues!Next
    BY Zenon DEF Queues!Next, Queues!Answer
  <1>6. CQ # <<>> /\ idle' = idle \cup {Head(CQ)} /\ CQ' = Tail(CQ) /\ UNCHANGED <<kernel, SQ>>
        => Queues!Next
    BY Zenon DEF Queues!Next, Queues!Finish
  <1> QED  BY <1>1, <1>2, <1>3, <1>4, <1>5, <1>6


\* The queue from one word to another, of what each word refers to.
Window(from, to, of) == [k \in 1 .. Wrap(to - from) |-> of[Wrap(from + (k - 1))]]
SqSlots(entries, array) == [x \in Words |-> entries[array[Slot(x, SqEntries)]]]
CqSlots(entries) == [x \in Words |-> entries[Slot(x, CqEntries)]]

\* Words from a word on are words.
LEMMA WindowWords ==
  ASSUME NEW from \in Words, NEW n \in Words, NEW k \in 1 .. n
  PROVE  k - 1 \in Words /\ Wrap(from + (k - 1)) \in Words
  <1>1. k - 1 \in Words
    BY SizeFacts DEF Words
  <1> QED  BY <1>1, Distances

LEMMA WindowType ==
  ASSUME NEW from \in Words, NEW to \in Words, NEW of \in [Words -> Ops]
  PROVE  /\ Wrap(to - from) \in Nat /\ Window(from, to, of) \in Seq(Ops)
         /\ Len(Window(from, to, of)) = Wrap(to - from)
         /\ \A k \in 1 .. Wrap(to - from) : Window(from, to, of)[k] = of[Wrap(from + (k - 1))]
  <1>1. PICK n \in Words : n = Wrap(to - from)
    BY Distances
  <1>2. n \in Nat
    BY SizeFacts DEF Words
  <1>3. PICK seq : seq = [k \in 1 .. n |-> of[Wrap(from + (k - 1))]]
    OBVIOUS
  <1>4. \A k \in 1 .. n : of[Wrap(from + (k - 1))] \in Ops
    BY WindowWords
  <1>5. seq \in [1 .. n -> Ops]
    BY <1>3, <1>4
  <1>6. seq \in Seq(Ops) /\ Len(seq) = n
    BY <1>2, <1>5
  <1> QED  BY <1>1, <1>2, <1>3, <1>6 DEF Window

\* The entry that is so many words behind the first.
LEMMA WindowEntry ==
  ASSUME NEW from \in Words, NEW to \in Words, NEW of \in [Words -> Ops],
         NEW j \in Words, NEW k \in 1 .. Wrap(to - from), k = j + 1
  PROVE  Window(from, to, of)[k] = of[Wrap(from + j)]
  <1>1. Window(from, to, of)[k] = of[Wrap(from + (k - 1))]
    BY WindowType
  <1>2. k - 1 = j
    BY SizeFacts DEF Words
  <1> QED  BY <1>1, <1>2

\* Two queues of the same words and entries are one.
LEMMA WindowSame ==
  ASSUME NEW from \in Words, NEW to \in Words, NEW f \in [Words -> Ops], NEW g \in [Words -> Ops],
         \A j \in Words : j < Wrap(to - from) => f[Wrap(from + j)] = g[Wrap(from + j)]
  PROVE  Window(from, to, f) = Window(from, to, g)
  <1>1. Wrap(to - from) \in Words
    BY Distances
  <1>2. \A k \in 1 .. Wrap(to - from) : k - 1 \in Words /\ k - 1 < Wrap(to - from)
    BY <1>1, SizeFacts DEF Words
  <1> QED  BY <1>2 DEF Window

LEMMA WindowEmpty ==
  ASSUME NEW from \in Words, NEW of \in [Words -> Ops]
  PROVE  Window(from, from, of) = <<>>
  <1>1. Wrap(from - from) = 0
    BY Distances
  <1>2. Len(Window(from, from, of)) = 0 /\ Window(from, from, of) \in Seq(Ops)
    BY <1>1, WindowType
  <1> QED  BY <1>2, EmptySeq

\* One step of the head takes the first.
LEMMA WindowDrop ==
  ASSUME NEW from \in Words, NEW to \in Words, from # to, NEW of \in [Words -> Ops]
  PROVE  /\ Window(from, to, of) # <<>> /\ Head(Window(from, to, of)) = of[from]
         /\ Tail(Window(from, to, of)) = Window(Wrap(from + 1), to, of)
  <1>1. PICK seq, rest : seq = Window(from, to, of) /\ rest = Window(Wrap(from + 1), to, of)
    OBVIOUS
  <1>2. PICK n \in Words : n = Wrap(to - from)
    BY Distances
  <1>3. Wrap(from + 1) \in Words /\ Wrap(to - Wrap(from + 1)) = n - 1
    BY <1>2, OneStep
  <1>4. /\ seq \in Seq(Ops) /\ Len(seq) = n /\ rest \in Seq(Ops) /\ Len(rest) = n - 1
        /\ n \in Nat /\ n - 1 \in Nat
    BY <1>1, <1>2, <1>3, WindowType
  <1>5. seq # <<>>
    BY <1>4, EmptySeq
  <1>6. Head(seq) = of[from]
    <2>1. Wrap(from + 0) = from
      <3>1. Wrap(from - from) = 0 /\ Wrap(from + Wrap(from - from)) = from
        BY Distances
      <3> QED  BY <3>1
    <2>2. 0 \in Words /\ 1 \in 1 .. n /\ 1 = 0 + 1
      BY <1>2, <1>4, <1>5, EmptySeq, SizeFacts
    <2>3. seq[1] = of[Wrap(from + 0)]
      BY <1>1, <1>2, <2>2, WindowEntry
    <2> QED  BY <1>4, <1>5, <2>1, <2>3
  <1>7. Tail(seq) \in Seq(Ops) /\ Len(Tail(seq)) = n - 1
        /\ \A k \in 1 .. n - 1 : Tail(seq)[k] = seq[k + 1]
    BY <1>4, <1>5, HeadTailProperties
  <1>8. ASSUME NEW k \in 1 .. n - 1 PROVE rest[k] = seq[k + 1]
    <2>1. PICK j \in Words : k = j + 1 /\ j < Word - 1
      BY <1>4, SizeFacts DEF Words
    <2>2. rest[k] = of[Wrap(Wrap(from + 1) + j)]
      BY <1>1, <1>3, <2>1, WindowEntry
    <2>3. PICK m \in Words : m = j + 1 /\ k + 1 \in 1 .. n /\ k + 1 = m + 1
      BY <1>4, <2>1, SizeFacts DEF Words
    <2>4. seq[k + 1] = of[Wrap(from + (j + 1))]
      BY <1>1, <1>2, <2>3, WindowEntry
    <2>5. Wrap(Wrap(from + 1) + j) = Wrap(from + (j + 1))
      BY <2>1, OneStep
    <2> QED  BY <2>2, <2>4, <2>5
  <1>9. Tail(seq) = rest
    BY <1>4, <1>7, <1>8, SeqEqual
  <1> QED  BY <1>1, <1>5, <1>6, <1>9

\* One step of the tail adds one at the end, if what was there stays.
LEMMA WindowAdd ==
  ASSUME NEW from \in Words, NEW to \in Words, NEW f \in [Words -> Ops], NEW g \in [Words -> Ops],
         Wrap(to - from) < Word - 1,
         \A j \in Words : j < Wrap(to - from) => f[Wrap(from + j)] = g[Wrap(from + j)]
  PROVE  Window(from, Wrap(to + 1), g) = Append(Window(from, to, f), g[to])
  <1>1. PICK seq, more : seq = Window(from, to, f) /\ more = Window(from, Wrap(to + 1), g)
    OBVIOUS
  <1>2. PICK n \in Words : n = Wrap(to - from)
    BY Distances
  <1>3. Wrap(to + 1) \in Words /\ Wrap(Wrap(to + 1) - from) = n + 1
    BY <1>2, OneStep
  <1>4. /\ seq \in Seq(Ops) /\ Len(seq) = n /\ more \in Seq(Ops) /\ Len(more) = n + 1
        /\ n \in Nat /\ g[to] \in Ops
    BY <1>1, <1>2, <1>3, WindowType
  <1>5. /\ Append(seq, g[to]) \in Seq(Ops) /\ Len(Append(seq, g[to])) = n + 1
        /\ \A k \in 1 .. n : Append(seq, g[to])[k] = seq[k]
        /\ Append(seq, g[to])[n + 1] = g[to]
    BY <1>4, AppendProperties
  <1>6. \A k \in 1 .. n : more[k] = seq[k]
    <2> SUFFICES ASSUME NEW k \in 1 .. n PROVE more[k] = seq[k]
      OBVIOUS
    <2>1. PICK j \in Words : k = j + 1 /\ j < n
      BY <1>4, SizeFacts DEF Words
    <2>2. k \in 1 .. n + 1
      BY <1>4
    <2>3. more[k] = g[Wrap(from + j)]
      BY <1>1, <1>3, <2>1, <2>2, WindowEntry
    <2>4. seq[k] = f[Wrap(from + j)]
      BY <1>1, <1>2, <2>1, WindowEntry
    <2> QED  BY <1>2, <2>1, <2>3, <2>4
  <1>7. more[n + 1] = g[to]
    <2>1. n + 1 \in 1 .. n + 1
      BY <1>4
    <2>2. more[n + 1] = g[Wrap(from + n)]
      BY <1>1, <1>3, <2>1, WindowEntry
    <2>3. Wrap(from + n) = to
      BY <1>2, Distances
    <2> QED  BY <2>2, <2>3
  <1>8. \A k \in 1 .. n + 1 : more[k] = Append(seq, g[to])[k]
    <2>1. \A k \in 1 .. n + 1 : k \in 1 .. n \/ k = n + 1
      BY <1>4
    <2> QED  BY <1>5, <1>6, <1>7, <2>1
  <1>9. more = Append(seq, g[to])
    BY <1>4, <1>5, <1>8, SeqEqual
  <1> QED  BY <1>1, <1>9

\* What the words from one on refer to, as long as a sequence says.
LEMMA WindowFilled ==
  ASSUME NEW from \in Words, NEW b \in Seq(Ops), Len(b) \in Words, NEW of \in [Words -> Ops],
         \A k \in 1 .. Len(b) : of[Wrap(from + (k - 1))] = b[k]
  PROVE  Window(from, Wrap(from + Len(b)), of) = b
  <1>1. PICK seq : seq = Window(from, Wrap(from + Len(b)), of)
    OBVIOUS
  <1>2. Wrap(from + Len(b)) \in Words /\ Wrap(Wrap(from + Len(b)) - from) = Len(b)
    BY Distances
  <1>3. /\ seq \in Seq(Ops) /\ Len(seq) = Len(b)
        /\ \A k \in 1 .. Len(b) : seq[k] = of[Wrap(from + (k - 1))]
    BY <1>1, <1>2, WindowType, ZenonT(60)
  <1>4. seq = b
    BY <1>3, SeqEqual
  <1> QED  BY <1>1, <1>4


\* The queues are such windows.
LEMMA SqWindow ==
  ASSUME NEW from \in Words, NEW to \in Words,
         NEW entries \in [0 .. SqEntries - 1 -> Ops],
         NEW array \in [0 .. SqEntries - 1 -> 0 .. SqEntries - 1]
  PROVE  /\ SqSlots(entries, array) \in [Words -> Ops]
         /\ [k \in 1 .. Wrap(to - from) |-> entries[array[Slot(Wrap(from + k - 1), SqEntries)]]]
              = Window(from, to, SqSlots(entries, array))
  <1>1. \A x \in Words : entries[array[Slot(x, SqEntries)]] \in Ops
    BY SlotType
  <1>2. ASSUME NEW k \in 1 .. Wrap(to - from)
        PROVE  entries[array[Slot(Wrap(from + k - 1), SqEntries)]]
                 = SqSlots(entries, array)[Wrap(from + (k - 1))]
    <2>1. from + k - 1 = from + (k - 1)
      BY SizeFacts DEF Words
    <2>2. Wrap(from + (k - 1)) \in Words
      BY Distances, WindowWords
    <2>3. SqSlots(entries, array)[Wrap(from + (k - 1))]
            = entries[array[Slot(Wrap(from + (k - 1)), SqEntries)]]
      BY <2>2 DEF SqSlots
    <2> QED  BY <2>1, <2>3
  <1> QED  BY <1>1, <1>2 DEF Window, SqSlots

LEMMA CqWindow ==
  ASSUME NEW from \in Words, NEW to \in Words, NEW entries \in [0 .. CqEntries - 1 -> Ops]
  PROVE  /\ CqSlots(entries) \in [Words -> Ops]
         /\ [k \in 1 .. Wrap(to - from) |-> entries[Slot(Wrap(from + k - 1), CqEntries)]]
              = Window(from, to, CqSlots(entries))
  <1>1. \A x \in Words : entries[Slot(x, CqEntries)] \in Ops
    BY SlotType
  <1>2. ASSUME NEW k \in 1 .. Wrap(to - from)
        PROVE  entries[Slot(Wrap(from + k - 1), CqEntries)] = CqSlots(entries)[Wrap(from + (k - 1))]
    <2>1. from + k - 1 = from + (k - 1)
      BY SizeFacts DEF Words
    <2>2. Wrap(from + (k - 1)) \in Words
      BY Distances, WindowWords
    <2>3. CqSlots(entries)[Wrap(from + (k - 1))] = entries[Slot(Wrap(from + (k - 1)), CqEntries)]
      BY <2>2 DEF CqSlots
    <2> QED  BY <2>1, <2>3
  <1> QED  BY <1>1, <1>2 DEF Window, CqSlots

\* The queues of a state and of the next one.
LEMMA QueueWindows ==
  /\ TypeOK => /\ SQ = Window(sqHead, sqTail, SqSlots(sqes, sqArray))
               /\ SqSlots(sqes, sqArray) \in [Words -> Ops]
               /\ CQ = Window(First, cqTail, CqSlots(cqes)) /\ CqSlots(cqes) \in [Words -> Ops]
               /\ {sqHead, sqTail, cqHead, cqTail, First, tail} \subseteq Words
  /\ TypeOK' => /\ SQ' = Window(sqHead', sqTail', SqSlots(sqes', sqArray'))
                /\ SqSlots(sqes', sqArray') \in [Words -> Ops]
                /\ CQ' = Window(First', cqTail', CqSlots(cqes')) /\ CqSlots(cqes') \in [Words -> Ops]
                /\ {sqHead', sqTail', cqHead', cqTail', First', tail'} \subseteq Words
  <1>1. TypeOK => {sqHead, sqTail, cqHead, cqTail, First, tail} \subseteq Words
    BY DEF TypeOK, Words, First
  <1>2. TypeOK' => {sqHead', sqTail', cqHead', cqTail', First', tail'} \subseteq Words
    BY DEF TypeOK, Words, First
  <1>3. TypeOK => /\ SQ = Window(sqHead, sqTail, SqSlots(sqes, sqArray))
                  /\ SqSlots(sqes, sqArray) \in [Words -> Ops]
    <2> SUFFICES ASSUME TypeOK
                 PROVE  /\ SQ = Window(sqHead, sqTail, SqSlots(sqes, sqArray))
                        /\ SqSlots(sqes, sqArray) \in [Words -> Ops]
      OBVIOUS
    <2>1. /\ sqHead \in Words /\ sqTail \in Words /\ sqes \in [0 .. SqEntries - 1 -> Ops]
          /\ sqArray \in [0 .. SqEntries - 1 -> 0 .. SqEntries - 1]
      BY <1>1 DEF TypeOK
    <2> QED  BY <2>1, SqWindow, ZenonT(60) DEF SQ, SqEntry
  <1>4. TypeOK => CQ = Window(First, cqTail, CqSlots(cqes)) /\ CqSlots(cqes) \in [Words -> Ops]
    BY <1>1, CqWindow DEF CQ, CqEntry, TypeOK
  <1>5. TypeOK' => /\ SQ' = Window(sqHead', sqTail', SqSlots(sqes', sqArray'))
                   /\ SqSlots(sqes', sqArray') \in [Words -> Ops]
    <2> SUFFICES ASSUME TypeOK'
                 PROVE  /\ SQ' = Window(sqHead', sqTail', SqSlots(sqes', sqArray'))
                        /\ SqSlots(sqes', sqArray') \in [Words -> Ops]
      OBVIOUS
    <2>1. /\ sqHead' \in Words /\ sqTail' \in Words /\ sqes' \in [0 .. SqEntries - 1 -> Ops]
          /\ sqArray' \in [0 .. SqEntries - 1 -> 0 .. SqEntries - 1]
      BY <1>2 DEF TypeOK
    <2> QED  BY <2>1, SqWindow, ZenonT(60) DEF SQ, SqEntry
  <1>6. TypeOK' => CQ' = Window(First', cqTail', CqSlots(cqes')) /\ CqSlots(cqes') \in [Words -> Ops]
    BY <1>2, CqWindow DEF CQ, CqEntry, TypeOK
  <1> QED  BY <1>1, <1>2, <1>3, <1>4, <1>5, <1>6

\* Storing the tail publishes the batch.
LEMMA StorePublishes ==
  ASSUME RingIndexInv, RingIndexInv', SubStoreTail
  PROVE  Queues!Next
  <1> USE DEF RingIndexInv
  <1>1. /\ spc = "fill" /\ i = Len(batch) /\ sqTail' = Wrap(tail + Len(batch))
        /\ idle' = idle \ Range(batch)
        /\ UNCHANGED <<sqHead, sqArray, sqes, cqVars, kernel, batch, tail, i, reapVars>>
    BY DEF SubStoreTail
  <1>2. /\ sqHead = sqTail /\ tail = sqHead /\ batch \in Seq(Ops) /\ Len(batch) \in Nat
        /\ Len(batch) > 0 /\ Len(batch) <= SqEntries /\ IsInjective(batch) /\ Range(batch) \subseteq idle
        /\ \A k \in 1 .. Len(batch) : Filled(k)
    BY <1>1 DEF SubmitterOK, TypeOK
  <1>3. SQ = <<>>
    BY <1>2, QueueWindows, WindowEmpty
  <1>4. SQ' = batch
    <2>1. Len(batch) \in Words
      BY <1>2, SizeFacts DEF Words
    <2>2. \A k \in 1 .. Len(batch) : SqSlots(sqes, sqArray)[Wrap(sqHead + (k - 1))] = batch[k]
      <3> SUFFICES ASSUME NEW k \in 1 .. Len(batch)
                   PROVE  SqSlots(sqes, sqArray)[Wrap(sqHead + (k - 1))] = batch[k]
        OBVIOUS
      <3>1. Wrap(sqHead + (k - 1)) \in Words
        BY <2>1, QueueWindows, WindowWords
      <3>2. Filled(k)
        BY <1>2
      <3> QED  BY <1>2, <3>1, <3>2 DEF SqSlots, Filled
    <2>3. /\ SQ' = Window(sqHead, Wrap(sqHead + Len(batch)), SqSlots(sqes, sqArray))
          /\ SqSlots(sqes, sqArray) \in [Words -> Ops] /\ sqHead \in Words
      BY <1>1, <1>2, QueueWindows
    <2> QED  BY <1>2, <2>1, <2>2, <2>3, WindowFilled
  <1>5. SQ' = SQ \o batch
    BY <1>2, <1>3, <1>4, ConcatEmptySeq
  <1>6. Len(batch) \in 1 .. SqEntries - Len(SQ) /\ batch \in [1 .. Len(batch) -> idle]
    <2>1. Len(SQ) = 0
      BY <1>3
    <2>2. batch \in [1 .. Len(batch) -> Ops] /\ DOMAIN batch = 1 .. Len(batch)
      BY <1>2, LenProperties
    <2>3. \A k \in 1 .. Len(batch) : batch[k] \in idle
      BY <1>2, <2>2 DEF Range
    <2>4. batch \in [1 .. Len(batch) -> idle]
      BY <2>2, <2>3
    <2> QED  BY <1>2, <2>1, <2>4, SizeFacts
  <1>7. UNCHANGED <<kernel, CQ>>
    BY <1>1 DEF CQ, CqEntry, First, cqVars, reapVars
  <1> QED  BY <1>1, <1>2, <1>5, <1>6, <1>7, QueueActions

\* The kernel takes the first.
LEMMA TakeTakes ==
  ASSUME RingIndexInv, RingIndexInv', KernelTake
  PROVE  Queues!Next
  <1> USE DEF RingIndexInv
  <1>1. /\ sqHead # sqTail /\ sqHead' = Wrap(sqHead + 1)
        /\ kernel' = kernel \cup {sqes[sqArray[Slot(sqHead, SqEntries)]]}
        /\ UNCHANGED <<sqTail, sqArray, sqes, cqVars, idle, subVars, reapVars>>
    BY DEF KernelTake
  <1>2. SQ # <<>> /\ Head(SQ) = SqSlots(sqes, sqArray)[sqHead] /\ SQ' = Tail(SQ)
    BY <1>1, QueueWindows, WindowDrop
  <1>3. SqSlots(sqes, sqArray)[sqHead] = sqes[sqArray[Slot(sqHead, SqEntries)]]
    BY QueueWindows DEF SqSlots
  <1>4. UNCHANGED <<idle, CQ>>
    BY <1>1 DEF CQ, CqEntry, First, cqVars, reapVars
  <1> QED  BY <1>1, <1>2, <1>3, <1>4, QueueActions

\* The kernel answers at the end, and over no entry that reap has still to read.
LEMMA PostAnswers ==
  ASSUME RingIndexInv, RingIndexInv', NEW op \in Ops, KernelPost(op)
  PROVE  Queues!Next
  <1> USE DEF RingIndexInv
  <1>1. /\ op \in kernel /\ Wrap(cqTail - cqHead) < CqEntries
        /\ cqes' = [cqes EXCEPT ![Slot(cqTail, CqEntries)] = op]
        /\ cqTail' = Wrap(cqTail + 1) /\ kernel' = kernel \ {op}
        /\ UNCHANGED <<sqVars, cqHead, idle, subVars, reapVars>>
    BY DEF KernelPost
  <1>2. {First, cqTail, cqHead, head} \subseteq Words /\ First' = First
    BY <1>1, QueueWindows DEF First, reapVars, TypeOK, Words
  <1>3. Wrap(cqTail - First) \in Words /\ Wrap(cqTail - First) < CqEntries
    <2>1. /\ Wrap(cqTail - cqHead) \in Words /\ Wrap(cqTail - head) \in Words
          /\ Wrap(head - cqHead) \in Words /\ Wrap(cqTail - First) \in Words
      BY <1>2, Distances
    <2>2. CASE cpc = "copy"
      <3>1. Wrap(head - cqHead) + Wrap(cqTail - head) = Wrap(cqTail - cqHead) /\ First = head
        BY <2>2 DEF CompleterOK, First
      <3> QED  BY <1>1, <2>1, <3>1, SizeFacts DEF Words
    <2>3. CASE cpc # "copy"
      BY <1>1, <2>1, <2>3 DEF First
    <2> QED  BY <2>2, <2>3
  <1>4. \A j \in Words : j < Wrap(cqTail - First) =>
          CqSlots(cqes)[Wrap(First + j)] = CqSlots(cqes')[Wrap(First + j)]
    <2> SUFFICES ASSUME NEW j \in Words, j < Wrap(cqTail - First)
                 PROVE  CqSlots(cqes)[Wrap(First + j)] = CqSlots(cqes')[Wrap(First + j)]
      OBVIOUS
    <2>1. PICK n \in Words : n = Wrap(cqTail - First) /\ Wrap(First + n) = cqTail
      BY <1>2, Distances
    <2>2. j \in 0 .. CqEntries - 1 /\ n \in 0 .. CqEntries - 1 /\ j # n
      BY <1>3, <2>1, SizeFacts DEF Words
    <2>3. Slot(Wrap(First + j), CqEntries) # Slot(cqTail, CqEntries)
      BY <1>2, <2>1, <2>2, SlotsDiffer, SizesAreRingSizes DEF Words
    <2>4. Wrap(First + j) \in Words /\ Slot(Wrap(First + j), CqEntries) \in 0 .. CqEntries - 1
      BY <1>2, SlotAhead
    <2>5. cqes'[Slot(Wrap(First + j), CqEntries)] = cqes[Slot(Wrap(First + j), CqEntries)]
      BY <1>1, <2>3, <2>4 DEF TypeOK
    <2> QED  BY <2>4, <2>5 DEF CqSlots
  <1>5. CQ' = Append(CQ, CqSlots(cqes')[cqTail])
    <2>1. Wrap(cqTail - First) < Word - 1
      BY <1>3, SizeFacts DEF Words
    <2>2. PICK f \in [Words -> Ops], g \in [Words -> Ops] : f = CqSlots(cqes) /\ g = CqSlots(cqes')
      BY QueueWindows
    <2>3. \A j \in Words : j < Wrap(cqTail - First) => f[Wrap(First + j)] = g[Wrap(First + j)]
      BY <1>4, <2>2
    <2>4. Window(First, Wrap(cqTail + 1), g) = Append(Window(First, cqTail, f), g[cqTail])
      BY <1>2, <2>1, <2>3, WindowAdd
    <2> QED  BY <1>1, <1>2, <2>2, <2>4, QueueWindows
  <1>6. CqSlots(cqes')[cqTail] = op
    <2>1. Slot(cqTail, CqEntries) \in 0 .. CqEntries - 1
      BY <1>2, SlotType
    <2>2. cqes'[Slot(cqTail, CqEntries)] = op
      BY <1>1, <2>1 DEF TypeOK
    <2> QED  BY <1>2, <2>2 DEF CqSlots
  <1>7. Len(CQ) < CqEntries
    BY <1>2, <1>3, QueueWindows, WindowType
  <1>8. UNCHANGED <<idle, SQ>>
    BY <1>1 DEF SQ, SqEntry, sqVars
  <1> QED  BY <1>1, <1>5, <1>6, <1>7, <1>8, QueueActions

\* reap finishes the first.
LEMMA CopyFinishes ==
  ASSUME RingIndexInv, RingIndexInv', ReapCopy
  PROVE  Queues!Next
  <1> USE DEF RingIndexInv
  <1>1. /\ cpc = "copy" /\ head # seen /\ head' = Wrap(head + 1)
        /\ idle' = idle \cup {cqes[Slot(head, CqEntries)]}
        /\ UNCHANGED <<sqVars, cqVars, kernel, subVars, cpc, seen>>
    BY DEF ReapCopy, More
  <1>2. First = head /\ First' = Wrap(head + 1) /\ {head, seen, cqTail} \subseteq Words
    BY <1>1 DEF First, TypeOK, Words
  <1>3. head # cqTail
    <2>1. Wrap(seen - head) + Wrap(cqTail - seen) = Wrap(cqTail - head) /\ Wrap(seen - head) # 0
      BY <1>1, <1>2, Distances DEF CompleterOK
    <2>2. Wrap(seen - head) \in Words /\ Wrap(cqTail - seen) \in Words /\ Wrap(cqTail - head) \in Words
      BY <1>2, Distances
    <2>3. Wrap(cqTail - head) # 0
      BY <2>1, <2>2, SizeFacts DEF Words
    <2> QED  BY <1>2, <2>3, Distances
  <1>4. CQ # <<>> /\ Head(CQ) = CqSlots(cqes)[head] /\ CQ' = Tail(CQ)
    BY <1>1, <1>2, <1>3, QueueWindows, WindowDrop DEF cqVars
  <1>5. CqSlots(cqes)[head] = cqes[Slot(head, CqEntries)]
    BY <1>2 DEF CqSlots
  <1>6. UNCHANGED <<kernel, SQ>>
    BY <1>1 DEF SQ, SqEntry, sqVars
  <1> QED  BY <1>1, <1>4, <1>5, <1>6, QueueActions

\* The other steps change no queue.
LEMMA OthersStutter ==
  ASSUME RingIndexInv, RingIndexInv',
         SubLoad \/ SubFill \/ SubReturn \/ ReapLoad \/ ReapStoreHead \/ UNCHANGED vars
  PROVE  UNCHANGED Queues!vars
  <1> USE DEF RingIndexInv
  <1>1. UNCHANGED <<idle, kernel>>
    BY DEF SubLoad, SubFill, SubReturn, ReapLoad, ReapStoreHead, vars
  <1>2. UNCHANGED SQ
    <2>1. CASE SubFill
      <3>1. spc = "fill" /\ UNCHANGED <<sqHead, sqTail>>
        BY <2>1 DEF SubFill
      <3>2. sqHead = sqTail
        BY <3>1 DEF SubmitterOK
      <3>3. SQ = <<>> /\ SQ' = <<>>
        BY <3>1, <3>2, QueueWindows, WindowEmpty
      <3> QED  BY <3>3
    <2>2. CASE SubLoad \/ SubReturn \/ ReapLoad \/ ReapStoreHead \/ UNCHANGED vars
      <3>1. UNCHANGED sqVars
        BY <2>2 DEF SubLoad, SubReturn, ReapLoad, ReapStoreHead, vars
      <3> QED  BY <3>1 DEF SQ, SqEntry, sqVars
    <2> QED  BY <2>1, <2>2
  <1>3. UNCHANGED CQ
    <2>1. UNCHANGED <<cqTail, cqes>> /\ First' = First
      BY DEF SubLoad, SubFill, SubReturn, ReapLoad, ReapStoreHead, vars, cqVars, reapVars, First, More, TypeOK
    <2> QED  BY <2>1 DEF CQ, CqEntry
  <1> QED  BY <1>1, <1>2, <1>3, QueueActions

\* The words and the slots are two bounded queues, whatever their sizes and wherever
\* the words wrap: nothing that is still to be read is overwritten, nothing is read
\* twice, and the order is kept.
THEOREM IndexesAreQueues == Spec => AreQueues
  <1>1. Init => Queues!Init
    <2> SUFFICES ASSUME Init PROVE Queues!Init
      OBVIOUS
    <2>1. TypeOK /\ sqHead = 0 /\ sqTail = 0 /\ First = 0 /\ cqTail = 0 /\ idle = Ops /\ kernel = {}
      BY IndexInit DEF Init, RingIndexInv, First
    <2>2. SQ = <<>> /\ CQ = <<>>
      BY <2>1, QueueWindows, WindowEmpty, SizeFacts
    <2> QED  BY <2>1, <2>2, QueueActions
  <1>2. RingIndexInv /\ RingIndexInv' /\ [Next]_vars => [Queues!Next]_Queues!vars
    BY StorePublishes, TakeTakes, PostAnswers, CopyFinishes, OthersStutter
    DEF Next, Submitter, Kernel, Completer
  <1>3. Spec => Queues!Spec
    BY <1>1, <1>2, IndexInvHolds, PTL DEF Spec, Queues!Spec
  <1> QED  BY <1>3 DEF AreQueues
=============================================================================
