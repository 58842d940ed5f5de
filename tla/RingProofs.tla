----------------------------- MODULE RingProofs -----------------------------
(***************************************************************************)
(* Proofs about Ring: its types; who owns every buffer, operation and       *)
(* result; what Ring.outstanding counts; and when the ring is closed.       *)
(* They hold for every set of calls, every queue size and every fault       *)
(* below the ring; all but the types as long as the 2^64 operation IDs      *)
(* have not been used up.                                                   *)
(***************************************************************************)
EXTENDS Ring, SequenceTheorems, FiniteSetTheorems, TLAPS

-----------------------------------------------------------------------------
(* What the operations on a queue do to its elements. *)

\* The elements of a queue, and freedom from repetitions, by index.
LEMMA ByIndex ==
  ASSUME NEW S, NEW s \in Seq(S)
  PROVE  /\ Len(s) \in Nat
         /\ \A x : x \in Range(s) <=> \E i \in 1 .. Len(s) : x = s[i]
         /\ IsInjective(s) <=> \A i, j \in 1 .. Len(s) : s[i] = s[j] => i = j
         /\ Range(s) \subseteq S
  <1>1. Len(s) \in Nat /\ DOMAIN s = 1 .. Len(s) /\ \A i \in 1 .. Len(s) : s[i] \in S
    BY ElementOfSeq, LenProperties
  <1> QED  BY <1>1 DEF Range, IsInjective

\* Enqueueing adds one element, which keeps the queue free of repetitions.
LEMMA AppendFacts ==
  ASSUME NEW S, NEW s \in Seq(S), NEW x \in S
  PROVE  /\ Append(s, x) \in Seq(S) /\ Len(Append(s, x)) = Len(s) + 1
         /\ Range(Append(s, x)) = Range(s) \cup {x}
         /\ IsInjective(s) /\ x \notin Range(s) => IsInjective(Append(s, x))
  <1> DEFINE t == Append(s, x)
  <1>1. /\ t \in Seq(S) /\ Len(t) = Len(s) + 1
        /\ \A i \in 1 .. Len(s) : t[i] = s[i]
        /\ t[Len(s) + 1] = x
    BY AppendProperties
  <1> HIDE DEF t
  <1>2. Range(t) = Range(s) \cup {x}
    BY <1>1, ByIndex
  <1>3. IsInjective(s) /\ x \notin Range(s) => IsInjective(t)
    BY <1>1, ByIndex
  <1> QED  BY <1>1, <1>2, <1>3 DEF t

\* Dequeueing takes one element out.
LEMMA DequeueFacts ==
  ASSUME NEW S, NEW s \in Seq(S), s # <<>>
  PROVE  /\ Head(s) \in S /\ Head(s) \in Range(s)
         /\ Tail(s) \in Seq(S) /\ Len(Tail(s)) = Len(s) - 1
         /\ Range(Tail(s)) \subseteq Range(s)
         /\ Range(s) = {Head(s)} \cup Range(Tail(s))
         /\ IsInjective(s) => IsInjective(Tail(s)) /\ Head(s) \notin Range(Tail(s))
  <1> DEFINE t == Tail(s)  h == Head(s)
  <1>1. /\ h \in S /\ t \in Seq(S) /\ Len(t) = Len(s) - 1
        /\ \A i \in 1 .. Len(t) : t[i] = s[i + 1]
    BY HeadTailProperties
  <1>2. h = s[1] /\ Len(s) > 0
    BY EmptySeq, LenProperties
  <1> HIDE DEF t, h
  <1>3. h \in Range(s) /\ Range(t) \subseteq Range(s)
    BY <1>1, <1>2, ByIndex
  <1>4. Range(s) = {h} \cup Range(t)
    <2>1. \A i \in 1 .. Len(s) : i = 1 \/ (i - 1 \in 1 .. Len(t) /\ s[i] = t[i - 1])
      <3> TAKE i \in 1 .. Len(s)
      <3>1. CASE i # 1
        <4>1. i - 1 \in 1 .. Len(t) /\ (i - 1) + 1 = i
          BY <1>1, <3>1, LenProperties
        <4> QED  BY <1>1, <4>1
      <3> QED  BY <3>1
    <2>2. Range(s) \subseteq {h} \cup Range(t)
      BY <1>1, <1>2, <2>1, ByIndex
    <2> QED  BY <1>3, <2>2
  <1>5. ASSUME IsInjective(s)
        PROVE  IsInjective(t) /\ h \notin Range(t)
    <2>1. \A i \in 1 .. Len(t) : i + 1 \in 1 .. Len(s) /\ i + 1 # 1 /\ t[i] = s[i + 1]
      BY <1>1, <1>2, LenProperties
    <2>2. \A i, j \in 1 .. Len(s) : s[i] = s[j] => i = j
      BY <1>5, ByIndex
    <2>3. \A i, j \in 1 .. Len(t) : t[i] = t[j] => i = j
      BY <1>1, <2>1, <2>2
    <2>4. IsInjective(t)
      BY <1>1, <2>3, ByIndex
    <2>5. \A i \in 1 .. Len(t) : h # t[i]
      BY <1>2, <2>1, <2>2, LenProperties
    <2> QED  BY <1>1, <2>4, <2>5, ByIndex
  <1> QED  BY <1>1, <1>3, <1>5, <1>4 DEF t, h

\* Cutting a queue after its first n elements splits its elements.
LEMMA SplitFacts ==
  ASSUME NEW S, NEW s \in Seq(S), NEW n \in 0 .. Len(s)
  PROVE  LET front == SubSeq(s, 1, n)  rest == SubSeq(s, n + 1, Len(s)) IN
         /\ front \in Seq(S) /\ Len(front) = n
         /\ rest \in Seq(S) /\ Len(rest) = Len(s) - n
         /\ \A i \in 1 .. n : front[i] = s[i]
         /\ \A i \in 1 .. Len(rest) : rest[i] = s[i + n]
         /\ Range(s) = Range(front) \cup Range(rest)
         /\ Range(front) \subseteq Range(s) /\ Range(rest) \subseteq Range(s)
         /\ \A x \in Range(front) : \E i \in 1 .. n : x = s[i]
         /\ IsInjective(s) =>
              /\ IsInjective(front) /\ IsInjective(rest)
              /\ Range(front) \cap Range(rest) = {}
  <1> DEFINE f == SubSeq(s, 1, n)  r == SubSeq(s, n + 1, Len(s))
  <1>1. Len(s) \in Nat /\ n \in Nat /\ n <= Len(s) /\ \A i \in 1 .. Len(s) : s[i] \in S
    BY ElementOfSeq, LenProperties
  <1>2. f \in Seq(S) /\ Len(f) = n /\ \A i \in 1 .. n : f[i] = s[i]
    BY <1>1, SubSeqProperties
  <1>3. r \in Seq(S) /\ Len(r) = Len(s) - n /\ \A i \in 1 .. Len(r) : r[i] = s[i + n]
    <2>1. \A i \in n + 1 .. Len(s) : s[i] \in S
      BY <1>1
    <2>2. /\ r \in Seq(S) /\ Len(r) = IF n + 1 <= Len(s) THEN Len(s) - (n + 1) + 1 ELSE 0
          /\ \A i \in 1 .. Len(s) - (n + 1) + 1 : r[i] = s[n + 1 + i - 1]
      BY <1>1, <2>1, SubSeqProperties
    <2> HIDE DEF r
    <2> QED  BY <1>1, <2>2
  <1> HIDE DEF f, r
  <1>4. /\ Range(f) \subseteq Range(s) /\ Range(r) \subseteq Range(s)
        /\ \A x \in Range(f) : \E i \in 1 .. n : x = s[i]
    <2>1. \A x \in Range(f) : \E i \in 1 .. n : x = s[i]
      BY <1>2, ByIndex
    <2>2. \A i \in 1 .. Len(s) : s[i] \in Range(s)
      BY ByIndex
    <2>3. \A i \in 1 .. Len(r) : r[i] \in Range(s)
      BY <1>1, <1>3, <2>2
    <2>4. Range(r) \subseteq Range(s)
      BY <1>3, <2>3, ByIndex
    <2> QED  BY <1>1, <2>1, <2>2, <2>4
  <1>5. Range(s) = Range(f) \cup Range(r)
    <2>1. ASSUME NEW i \in 1 .. Len(s)
          PROVE  s[i] \in Range(f) \cup Range(r)
      <3>1. CASE i <= n
        <4>1. i \in 1 .. Len(f) /\ s[i] = f[i]
          BY <1>1, <1>2, <3>1
        <4> QED  BY <1>2, <4>1, ByIndex
      <3>2. CASE ~(i <= n)
        <4>1. i - n \in 1 .. Len(r) /\ (i - n) + n = i
          BY <1>1, <1>3, <3>2
        <4>2. s[i] = r[i - n]
          BY <1>3, <4>1
        <4> QED  BY <1>3, <4>1, <4>2, ByIndex
      <3> QED  BY <3>1, <3>2
    <2> QED  BY <1>4, <2>1, ByIndex
  <1>6. ASSUME IsInjective(s)
        PROVE  IsInjective(f) /\ IsInjective(r) /\ Range(f) \cap Range(r) = {}
    <2>1. \A i, j \in 1 .. Len(s) : s[i] = s[j] => i = j
      BY <1>6, ByIndex
    <2>2. \A i, j \in 1 .. n : f[i] = f[j] => i = j
      BY <1>1, <1>2, <2>1
    <2>3. IsInjective(f)
      BY <1>2, <2>2, ByIndex
    <2>4. \A i \in 1 .. Len(r) : r[i] = s[i + n] /\ i + n \in 1 .. Len(s) /\ i + n > n
      BY <1>1, <1>3
    <2>5. \A i, j \in 1 .. Len(r) : r[i] = r[j] => i = j
      BY <1>1, <1>3, <2>1, <2>4
    <2>6. IsInjective(r)
      BY <1>3, <2>5, ByIndex
    <2>7. \A i \in 1 .. n, j \in 1 .. Len(r) : f[i] # r[j]
      BY <1>1, <1>2, <1>3, <2>1, <2>4
    <2>8. Range(f) \cap Range(r) = {}
      <3>1. \A x \in Range(f) : \E i \in 1 .. n : x = f[i]
        BY <1>2, ByIndex
      <3>2. \A x \in Range(r) : \E j \in 1 .. Len(r) : x = r[j]
        BY <1>3, ByIndex
      <3> QED  BY <2>7, <3>1, <3>2
    <2> QED  BY <2>3, <2>6, <2>8
  <1> QED  BY <1>2, <1>3, <1>4, <1>6, <1>5 DEF f, r

\* Joining two queues joins their elements.
LEMMA ConcatFacts ==
  ASSUME NEW S, NEW s \in Seq(S), NEW t \in Seq(S)
  PROVE  /\ s \o t \in Seq(S) /\ Len(s \o t) = Len(s) + Len(t)
         /\ Range(s \o t) = Range(s) \cup Range(t)
         /\ IsInjective(s) /\ IsInjective(t) /\ Range(s) \cap Range(t) = {}
              => IsInjective(s \o t)
  <1> DEFINE u == s \o t
  <1>1. /\ u \in Seq(S) /\ Len(u) = Len(s) + Len(t)
        /\ \A i \in 1 .. Len(s) + Len(t) :
             u[i] = IF i <= Len(s) THEN s[i] ELSE t[i - Len(s)]
    BY ConcatProperties
  <1> HIDE DEF u
  <1>2. Len(s) \in Nat /\ Len(t) \in Nat
    BY LenProperties
  <1>3. Range(u) = Range(s) \cup Range(t)
    <2>1. Range(u) \subseteq Range(s) \cup Range(t)
      BY <1>1, <1>2, ByIndex
    <2>2. \A i \in 1 .. Len(s) : s[i] = u[i] /\ i \in 1 .. Len(u)
      BY <1>1, <1>2
    <2>3. \A i \in 1 .. Len(t) : t[i] = u[i + Len(s)] /\ i + Len(s) \in 1 .. Len(u)
      <3> TAKE i \in 1 .. Len(t)
      <3>1. i + Len(s) \in 1 .. Len(s) + Len(t) /\ ~(i + Len(s) <= Len(s)) /\ (i + Len(s)) - Len(s) = i
        BY <1>2
      <3> QED  BY <1>1, <3>1
    <2>4. \A i \in 1 .. Len(u) : u[i] \in Range(u)
      BY <1>1, ByIndex
    <2>5. Range(s) \subseteq Range(u)
      BY <2>2, <2>4, ByIndex
    <2>6. Range(t) \subseteq Range(u)
      <3>1. \A i \in 1 .. Len(t) : t[i] \in Range(u)
        BY <2>3, <2>4
      <3> QED  BY <3>1, ByIndex
    <2> QED  BY <2>1, <2>5, <2>6
  <1>4. ASSUME IsInjective(s), IsInjective(t), Range(s) \cap Range(t) = {}
        PROVE  IsInjective(u)
    <2>1. /\ \A i, j \in 1 .. Len(s) : s[i] = s[j] => i = j
          /\ \A i, j \in 1 .. Len(t) : t[i] = t[j] => i = j
          /\ \A i \in 1 .. Len(s), j \in 1 .. Len(t) : s[i] # t[j]
      BY <1>4, ByIndex
    <2>2. ASSUME NEW i \in 1 .. Len(u), NEW j \in 1 .. Len(u), u[i] = u[j]
          PROVE  i = j
      <3> DEFINE a == i - Len(s)  b == j - Len(s)
      <3>1. i \in Nat /\ j \in Nat /\ a \in Int /\ b \in Int
        BY <1>1, <1>2
      <3>2. /\ i <= Len(s) => i \in 1 .. Len(s) /\ u[i] = s[i]
            /\ ~(i <= Len(s)) => a \in 1 .. Len(t) /\ u[i] = t[a] /\ i = a + Len(s)
        BY <1>1, <1>2
      <3>3. /\ j <= Len(s) => j \in 1 .. Len(s) /\ u[j] = s[j]
            /\ ~(j <= Len(s)) => b \in 1 .. Len(t) /\ u[j] = t[b] /\ j = b + Len(s)
        BY <1>1, <1>2
      <3> HIDE DEF a, b
      <3> QED  BY <2>1, <2>2, <3>1, <3>2, <3>3
    <2> QED  BY <1>1, <2>2, ByIndex
  <1> QED  BY <1>1, <1>3, <1>4 DEF u

-----------------------------------------------------------------------------
(* Types. *)

\* The locals of the two loops: reap stays within the CQEs it saw, and the
\* submitter never holds more than the SQ has room for.
LoopsOK ==
  /\ limit <= Len(cq)
  /\ cpc \in {"finish", "deliver"} => reaped < limit
  /\ cpc \in {"reap", "check", "idle", "wait", "exited"} => reaped = 0
  /\ cpc = "deliver" <=> cur # None
  /\ spc = "account" => taken <= remaining
  /\ spc # "store" => batch = <<>>
  /\ Len(sq) + Len(batch) <= SqEntries

TypeInv == TypeOK /\ LoopsOK

\* The initial state has the types.
LEMMA TypeInit == Init => TypeInv
  <1> SUFFICES ASSUME Init PROVE TypeInv
    OBVIOUS
  <1> USE SizesAssumption, IdAssumption DEF Init
  <1>1. ReadTypes /\ OpTypes
    BY DEF ReadTypes, OpTypes
  <1>2. LockTypes
    <2>1. closed \in BOOLEAN
      BY Zenon
    <2> QED  BY <2>1 DEF LockTypes, Ids
  <1>3. ChanTypes
    <2>1. workCh \in BOOLEAN /\ stopped \in BOOLEAN /\ fatal \in BOOLEAN
      BY Zenon
    <2>2. submitCh \in Seq(Reads) /\ Len(submitCh) <= Entries
      OBVIOUS
    <2> QED  BY <2>1, <2>2 DEF ChanTypes
  <1>4. SubTypes /\ CompTypes
    BY DEF SubTypes, CompTypes
  <1>5. KernTypes /\ CloseTypes
    BY DEF KernTypes, CloseTypes
  <1>6. StatTypes
    BY DEF StatTypes
  <1>7. LoopsOK
    BY DEF LoopsOK
  <1> QED  BY <1>1, <1>2, <1>4, <1>5, <1>6, <1>7, <1>3 DEF TypeInv, TypeOK

\* A group of variables that does not change keeps its types.
LEMMA TypeFrame ==
  /\ ReadTypes /\ UNCHANGED readVars => ReadTypes'
  /\ OpTypes /\ UNCHANGED opVars => OpTypes'
  /\ LockTypes /\ UNCHANGED lockVars => LockTypes'
  /\ ChanTypes /\ UNCHANGED chanVars => ChanTypes'
  /\ SubTypes /\ UNCHANGED subVars => SubTypes'
  /\ CompTypes /\ UNCHANGED compVars => CompTypes'
  /\ KernTypes /\ UNCHANGED kernVars => KernTypes'
  /\ CloseTypes /\ UNCHANGED closeVars => CloseTypes'
  /\ StatTypes /\ UNCHANGED stats => StatTypes'
  <1>1. ReadTypes /\ UNCHANGED readVars => ReadTypes'
    BY DEF ReadTypes, readVars
  <1>2. OpTypes /\ UNCHANGED opVars => OpTypes'
    BY DEF OpTypes, opVars
  <1>3. LockTypes /\ UNCHANGED lockVars => LockTypes'
    BY DEF LockTypes, lockVars
  <1>4. ChanTypes /\ UNCHANGED chanVars => ChanTypes'
    BY DEF ChanTypes, chanVars
  <1>5. SubTypes /\ UNCHANGED subVars => SubTypes'
    BY DEF SubTypes, subVars
  <1>6. CompTypes /\ UNCHANGED compVars => CompTypes'
    BY DEF CompTypes, compVars
  <1>7. KernTypes /\ UNCHANGED kernVars => KernTypes'
    BY DEF KernTypes, kernVars
  <1>8. CloseTypes /\ UNCHANGED closeVars => CloseTypes'
    BY DEF CloseTypes, closeVars
  <1>9. StatTypes /\ UNCHANGED stats => StatTypes'
    BY DEF StatTypes
  <1> QED  BY <1>1, <1>2, <1>3, <1>4, <1>5, <1>6, <1>7, <1>8, <1>9

\* What the operators of the actions return.
LEMMA NewIDType ==
  ASSUME nextID \in 0 .. (IdMod - 1)
  PROVE  NewID \in 0 .. (IdMod - 1) /\ (NewID # 0 => NewID \in Ids)
  BY IdAssumption DEF NewID, Ids

LEMMA OutcomeType == \A res \in Results : Outcome[res] \in Range(Outcome)
  BY ResultsAssumption DEF Range

LEMMA BatchSizeType ==
  ASSUME TypeInv
  PROVE  /\ BatchSize \in 0 .. Len(pending)
         /\ Len(sq) + BatchSize <= SqEntries
  <1>1. Len(pending) \in Nat /\ Len(sq) \in Nat /\ Len(batch) \in Nat
    BY LenProperties DEF TypeInv, TypeOK, SubTypes, KernTypes
  <1>2. Len(sq) <= SqEntries
    BY <1>1, SizesAssumption DEF TypeInv, LoopsOK
  <1> QED  BY <1>1, <1>2, SizesAssumption DEF BatchSize

LEMMA NextCqeType ==
  ASSUME TypeInv, cpc = "finish"
  PROVE  /\ reaped + 1 \in 1 .. Len(cq) /\ NextCqe \in Cqe
         /\ NextCqe.id \in 0 .. (IdMod - 1) /\ NextCqe.res \in Results
  <1>1. reaped + 1 \in 1 .. Len(cq)
    BY LenProperties DEF TypeInv, TypeOK, CompTypes, KernTypes, LoopsOK
  <1>2. NextCqe \in Cqe
    BY <1>1, ElementOfSeq DEF TypeInv, TypeOK, KernTypes, NextCqe
  <1> QED  BY <1>1, <1>2 DEF Cqe

\* Every step keeps the types.
LEMMA TypeStep == TypeInv /\ [Next]_vars => TypeOK'
  <1>1. ASSUME TypeInv, NEW o \in Reads, ReadSkip(o) PROVE TypeOK'
    <2>1. ReadTypes'
      BY <1>1 DEF TypeInv, TypeOK, ReadTypes, ReadSkip, Refusals
    <2> QED  BY <1>1, <2>1, TypeFrame DEF TypeInv, TypeOK, ReadSkip
  <1>2. ASSUME TypeInv, NEW o \in Reads, ReadPin(o) PROVE TypeOK'
    <2>1. ReadTypes'
      BY <1>2 DEF TypeInv, TypeOK, ReadTypes, ReadPin
    <2>2. OpTypes'
      BY <1>2 DEF TypeInv, TypeOK, OpTypes, ReadPin
    <2>3. StatTypes'
      BY <1>2 DEF TypeInv, TypeOK, StatTypes, ReadPin, Counters
    <2> QED  BY <1>2, <2>1, <2>2, <2>3, TypeFrame DEF TypeInv, TypeOK, ReadPin
  <1>3. ASSUME TypeInv, NEW o \in Reads, ReadRefused(o) PROVE TypeOK'
    <2>1. ReadTypes'
      BY <1>3 DEF TypeInv, TypeOK, ReadTypes, ReadRefused, Refusals
    <2>2. OpTypes'
      BY <1>3 DEF TypeInv, TypeOK, OpTypes, ReadRefused
    <2>3. LockTypes'
      BY <1>3, NewIDType DEF TypeInv, TypeOK, LockTypes, ReadRefused
    <2>4. StatTypes'
      BY <1>3 DEF TypeInv, TypeOK, StatTypes, ReadRefused, Counters
    <2> QED  BY <1>3, <2>1, <2>2, <2>3, <2>4, TypeFrame DEF TypeInv, TypeOK, ReadRefused
  <1>4. ASSUME TypeInv, NEW o \in Reads, ReadAdmit(o) PROVE TypeOK'
    <2>1. ReadTypes'
      BY <1>4 DEF TypeInv, TypeOK, ReadTypes, ReadAdmit
    <2>2. OpTypes'
      BY <1>4, NewIDType DEF TypeInv, TypeOK, OpTypes, LockTypes, ReadAdmit
    <2>3. LockTypes'
      BY <1>4, NewIDType DEF TypeInv, TypeOK, LockTypes, ReadAdmit
    <2>4. StatTypes'
      BY <1>4 DEF TypeInv, TypeOK, StatTypes, ReadAdmit, Counters
    <2> QED  BY <1>4, <2>1, <2>2, <2>3, <2>4, TypeFrame DEF TypeInv, TypeOK, ReadAdmit
  <1>5. ASSUME TypeInv, NEW o \in Reads, ReadSend(o) PROVE TypeOK'
    <2>1. ReadTypes'
      BY <1>5 DEF TypeInv, TypeOK, ReadTypes, ReadSend
    <2>2. ChanTypes'
      <3>1. submitCh' \in Seq(Reads) /\ Len(submitCh') <= Entries
        BY <1>5, AppendFacts, LenProperties, SizesAssumption DEF TypeInv, TypeOK, ChanTypes, ReadSend
      <3> QED  BY <1>5, <3>1 DEF TypeInv, TypeOK, ChanTypes, ReadSend
    <2> QED  BY <1>5, <2>1, <2>2, TypeFrame DEF TypeInv, TypeOK, ReadSend
  <1>6. ASSUME TypeInv, NEW o \in Reads, ReadReturn(o) PROVE TypeOK'
    <2>1. ReadTypes'
      BY <1>6 DEF TypeInv, TypeOK, ReadTypes, OpTypes, ReadReturn
    <2>2. OpTypes'
      BY <1>6 DEF TypeInv, TypeOK, OpTypes, ReadReturn
    <2> QED  BY <1>6, <2>1, <2>2, TypeFrame DEF TypeInv, TypeOK, ReadReturn
  <1>7. ASSUME TypeInv, NEW o \in Reads, KernelComplete(o) PROVE TypeOK'
    <2>1. KernTypes'
      <3>1. PICK res \in Results :
               /\ served' = [served EXCEPT ![o] = res]
               /\ cq' = Append(cq, [id |-> opId[o], res |-> res])
        BY <1>7 DEF KernelComplete
      <3>2. [id |-> opId[o], res |-> res] \in Cqe
        BY <1>7 DEF TypeInv, TypeOK, OpTypes, Cqe
      <3>3. cq' \in Seq(Cqe) /\ Len(cq') <= CqEntries
        BY <1>7, <3>1, <3>2, AppendFacts, LenProperties, SizesAssumption
        DEF TypeInv, TypeOK, KernTypes, KernelComplete
      <3> QED  BY <1>7, <3>1, <3>3 DEF TypeInv, TypeOK, KernTypes, KernelComplete
    <2> QED  BY <1>7, <2>1, TypeFrame DEF TypeInv, TypeOK, KernelComplete
  <1>8. ASSUME TypeInv, NEW c \in Closers, CloseBegin(c) PROVE TypeOK'
    <2>1. CloseTypes'
      BY <1>8 DEF TypeInv, TypeOK, CloseTypes, CloseBegin
    <2> QED  BY <1>8, <2>1, TypeFrame DEF TypeInv, TypeOK, CloseBegin
  <1>9. ASSUME TypeInv, NEW c \in Closers, CloseDecide(c) PROVE TypeOK'
    <2>1. LockTypes'
      BY <1>9 DEF TypeInv, TypeOK, LockTypes, CloseDecide, Ids
    <2>2. CloseTypes'
      BY <1>9 DEF TypeInv, TypeOK, CloseTypes, CloseDecide
    <2> QED  BY <1>9, <2>1, <2>2, TypeFrame DEF TypeInv, TypeOK, CloseDecide
  <1>10. ASSUME TypeInv, NEW c \in Closers, CloseStop(c) PROVE TypeOK'
    <2>1. ChanTypes'
      BY <1>10 DEF TypeInv, TypeOK, ChanTypes, CloseStop
    <2>2. CloseTypes'
      BY <1>10 DEF TypeInv, TypeOK, CloseTypes, CloseStop
    <2> QED  BY <1>10, <2>1, <2>2, TypeFrame DEF TypeInv, TypeOK, CloseStop
  <1>11. ASSUME TypeInv, NEW c \in Closers, CloseJoin(c) PROVE TypeOK'
    <2>1. CloseTypes'
      BY <1>11 DEF TypeInv, TypeOK, CloseTypes, CloseJoin
    <2> QED  BY <1>11, <2>1, TypeFrame DEF TypeInv, TypeOK, CloseJoin
  <1>12. ASSUME TypeInv, SubReceive PROVE TypeOK'
    <2>1. ChanTypes'
      <3>1. submitCh' \in Seq(Reads) /\ Len(submitCh') <= Entries
        BY <1>12, DequeueFacts, LenProperties, SizesAssumption DEF TypeInv, TypeOK, ChanTypes, SubReceive
      <3> QED  BY <1>12, <3>1 DEF TypeInv, TypeOK, ChanTypes, SubReceive
    <2>2. SubTypes'
      BY <1>12, DequeueFacts DEF TypeInv, TypeOK, SubTypes, ChanTypes, SubReceive
    <2> QED  BY <1>12, <2>1, <2>2, TypeFrame DEF TypeInv, TypeOK, SubReceive
  <1>13. ASSUME TypeInv, SubStop PROVE TypeOK'
    <2>1. SubTypes'
      BY <1>13 DEF TypeInv, TypeOK, SubTypes, SubStop, AfterStop
    <2> QED  BY <1>13, <2>1, TypeFrame DEF TypeInv, TypeOK, SubStop
  <1>14. ASSUME TypeInv, SubGather PROVE TypeOK'
    <2>1. ChanTypes'
      <3>1. submitCh' \in Seq(Reads) /\ Len(submitCh') <= Entries
        BY <1>14, DequeueFacts, LenProperties, SizesAssumption DEF TypeInv, TypeOK, ChanTypes, SubGather
      <3> QED  BY <1>14, <3>1 DEF TypeInv, TypeOK, ChanTypes, SubGather
    <2>2. SubTypes'
      BY <1>14, DequeueFacts, AppendFacts DEF TypeInv, TypeOK, SubTypes, ChanTypes, SubGather
    <2> QED  BY <1>14, <2>1, <2>2, TypeFrame DEF TypeInv, TypeOK, SubGather
  <1>15. ASSUME TypeInv, SubPublish PROVE TypeOK'
    <2>1. OpTypes'
      BY <1>15 DEF TypeInv, TypeOK, OpTypes, SubPublish, BatchSize, Counted
    <2>2. LockTypes'
      BY <1>15, BatchSizeType DEF TypeInv, TypeOK, LockTypes, SubPublish, Counted, Ids
    <2>3. SubTypes'
      <3>1. /\ SubSeq(pending, 1, BatchSize) \in Seq(Reads)
            /\ SubSeq(pending, BatchSize + 1, Len(pending)) \in Seq(Reads)
        BY <1>15, BatchSizeType, SplitFacts DEF TypeInv, TypeOK, SubTypes
      <3> QED  BY <1>15, <3>1 DEF TypeInv, TypeOK, SubTypes, SubPublish
    <2> QED  BY <1>15, <2>1, <2>2, <2>3, TypeFrame DEF TypeInv, TypeOK, SubPublish
  <1>16. ASSUME TypeInv, SubStoreTail PROVE TypeOK'
    <2>1. SubTypes'
      BY <1>16, LenProperties DEF TypeInv, TypeOK, SubTypes, SubStoreTail
    <2>2. KernTypes'
      BY <1>16, ConcatFacts DEF TypeInv, TypeOK, KernTypes, SubTypes, SubStoreTail, Cqe
    <2>3. StatTypes'
      <3>1. stats["published"] + Len(batch) \in Nat
        <4>1. stats["published"] \in Nat /\ Len(batch) \in Nat
          BY <1>16, LenProperties DEF TypeInv, TypeOK, StatTypes, SubTypes, Counters
        <4> QED  BY <4>1
      <3>2. stats' = [stats EXCEPT !["published"] = @ + Len(batch)]
        BY <1>16 DEF SubStoreTail
      <3> QED  BY <1>16, <3>1, <3>2 DEF TypeInv, TypeOK, StatTypes
    <2> QED  BY <1>16, <2>1, <2>2, <2>3, TypeFrame DEF TypeInv, TypeOK, SubStoreTail
  <1>17. ASSUME TypeInv, SubEnter PROVE TypeOK'
    <2>1. SubTypes'
      BY <1>17 DEF TypeInv, TypeOK, SubTypes, SubEnter
    <2>2. KernTypes'
      <3>1. PICK k \in 1 .. Len(sq) :
              /\ inflight' = inflight \cup Range(SubSeq(sq, 1, k))
              /\ sq' = SubSeq(sq, k + 1, Len(sq))
        BY <1>17 DEF SubEnter
      <3>2. sq \in Seq(Reads) /\ k \in 0 .. Len(sq)
        BY <1>17, LenProperties DEF TypeInv, TypeOK, KernTypes
      <3>3. SubSeq(sq, 1, k) \in Seq(Reads) /\ SubSeq(sq, k + 1, Len(sq)) \in Seq(Reads)
        BY <3>2, SplitFacts
      <3>4. Range(SubSeq(sq, 1, k)) \subseteq Reads
        BY <3>3, ByIndex
      <3> QED  BY <1>17, <3>1, <3>3, <3>4 DEF TypeInv, TypeOK, KernTypes, SubEnter
    <2>3. StatTypes'
      <3>1. stats["requested"] + remaining \in Nat
        <4>1. stats["requested"] \in Nat
          BY <1>17 DEF TypeInv, TypeOK, StatTypes, Counters
        <4>2. remaining \in Nat
          BY <1>17 DEF TypeInv, TypeOK, SubTypes
        <4> QED  BY <4>1, <4>2
      <3>2. stats' = [stats EXCEPT !["requested"] = @ + remaining]
        BY <1>17 DEF SubEnter
      <3> QED  BY <1>17, <3>1, <3>2 DEF TypeInv, TypeOK, StatTypes
    <2> QED  BY <1>17, <2>1, <2>2, <2>3, TypeFrame DEF TypeInv, TypeOK, SubEnter
  <1>18. ASSUME TypeInv, SubEnterFails PROVE TypeOK'
    <2>1. SubTypes'
      BY <1>18 DEF TypeInv, TypeOK, SubTypes, SubEnterFails
    <2>2. StatTypes'
      <3>1. stats["requested"] \in Nat /\ remaining \in Nat
        BY <1>18 DEF TypeInv, TypeOK, StatTypes, SubTypes, Counters
      <3>2. stats["requested"] + remaining \in Nat
        BY <3>1
      <3>3. stats' = [stats EXCEPT !["requested"] = @ + remaining]
        BY <1>18 DEF SubEnterFails
      <3> QED  BY <1>18, <3>2, <3>3 DEF TypeInv, TypeOK, StatTypes
    <2> QED  BY <1>18, <2>1, <2>2, TypeFrame DEF TypeInv, TypeOK, SubEnterFails
  <1>19. ASSUME TypeInv, SubAccount PROVE TypeOK'
    <2>1. SubTypes'
      BY <1>19 DEF TypeInv, TypeOK, SubTypes, LoopsOK, SubAccount, EnterDone
    <2>2. StatTypes'
      <3>1. /\ stats["consumed"] \in Nat /\ stats["partials"] \in Nat
            /\ taken \in Nat /\ remaining \in Nat
        BY <1>19 DEF TypeInv, TypeOK, StatTypes, SubTypes, Counters
      <3>2. /\ stats["consumed"] + taken \in Nat
            /\ (IF taken < remaining THEN stats["partials"] + 1 ELSE stats["partials"]) \in Nat
        BY <3>1
      <3> DEFINE s1 == [stats EXCEPT !["consumed"] = @ + taken]
      <3>3. s1 \in [Counters -> Nat] /\ s1["partials"] = stats["partials"]
        BY <1>19, <3>2 DEF TypeInv, TypeOK, StatTypes, Counters
      <3>4. stats' = [s1 EXCEPT !["partials"] = IF taken < remaining THEN @ + 1 ELSE @]
        BY <1>19 DEF SubAccount
      <3> HIDE DEF s1
      <3> QED  BY <3>2, <3>3, <3>4 DEF StatTypes
    <2> QED  BY <1>19, <2>1, <2>2, TypeFrame DEF TypeInv, TypeOK, SubAccount
  <1>20. ASSUME TypeInv, SubNotify PROVE TypeOK'
    <2>1. ChanTypes'
      BY <1>20 DEF TypeInv, TypeOK, ChanTypes, SubNotify
    <2>2. SubTypes'
      BY <1>20 DEF TypeInv, TypeOK, SubTypes, SubNotify
    <2> QED  BY <1>20, <2>1, <2>2, TypeFrame DEF TypeInv, TypeOK, SubNotify
  <1>21. ASSUME TypeInv, CompReap PROVE TypeOK'
    <2>1. CompTypes'
      BY <1>21, LenProperties, SizesAssumption DEF TypeInv, TypeOK, CompTypes, KernTypes, CompReap
    <2> QED  BY <1>21, <2>1, TypeFrame DEF TypeInv, TypeOK, CompReap
  <1>22. ASSUME TypeInv, CompFinish PROVE TypeOK'
    <2>1. OpTypes'
      BY <1>22 DEF TypeInv, TypeOK, OpTypes, CompFinish, NextCqe, Known
    <2>2. LockTypes'
      <3>1. PICK id \in Ids : id = NextCqe.id
        BY <1>22 DEF CompFinish, Known
      <3>2. UNCHANGED <<nextID, closed>> /\ outstanding' \in Nat
        BY <1>22 DEF TypeInv, TypeOK, LockTypes, CompFinish
      <3>3. ops' \in [Ids -> Reads \cup {None}]
        BY <1>22, <3>1 DEF TypeInv, TypeOK, LockTypes, CompFinish
      <3>4. PICK h \in Seq(Ids) : h = history
        BY <1>22 DEF TypeInv, TypeOK, LockTypes
      <3>5. history' = h \/ history' = Append(h, id)
        BY <1>22, <3>1, <3>4 DEF CompFinish
      <3>6. Append(h, id) \in Seq(Ids)
        BY AppendProperties
      <3>7. history' \in Seq(Ids)
        BY <3>5, <3>6
      <3>8. nextID' \in 0 .. (IdMod - 1) /\ closed' \in BOOLEAN
        BY <1>22, <3>2 DEF TypeInv, TypeOK, LockTypes
      <3> QED  BY <3>2, <3>3, <3>7, <3>8 DEF LockTypes
    <2>3. CompTypes'
      BY <1>22, NextCqeType DEF TypeInv, TypeOK, CompTypes, LockTypes, CompFinish, Known
    <2> QED  BY <1>22, <2>1, <2>2, <2>3, TypeFrame DEF TypeInv, TypeOK, CompFinish
  <1>23. ASSUME TypeInv, CompUnknown PROVE TypeOK'
    <2>1. CompTypes'
      BY <1>23 DEF TypeInv, TypeOK, CompTypes, CompUnknown, NextCqe, Known
    <2>2. StatTypes'
      BY <1>23 DEF TypeInv, TypeOK, StatTypes, CompUnknown, NextCqe, Known, Counters
    <2> QED  BY <1>23, <2>1, <2>2, TypeFrame DEF TypeInv, TypeOK, CompUnknown
  <1>24. ASSUME TypeInv, CompDeliver PROVE TypeOK'
    <2>1. OpTypes'
      BY <1>24, OutcomeType DEF TypeInv, TypeOK, OpTypes, CompTypes, LoopsOK, CompDeliver
    <2>2. CompTypes'
      BY <1>24, SizesAssumption DEF TypeInv, TypeOK, CompTypes, LoopsOK, CompDeliver
    <2>3. StatTypes'
      BY <1>24 DEF TypeInv, TypeOK, StatTypes, CompDeliver, Counters
    <2> QED  BY <1>24, <2>1, <2>2, <2>3, TypeFrame DEF TypeInv, TypeOK, CompDeliver
  <1>25. ASSUME TypeInv, CompStoreHead PROVE TypeOK'
    <2>1. CompTypes'
      BY <1>25, SizesAssumption DEF TypeInv, TypeOK, CompTypes, CompStoreHead, Undrained
    <2>2. KernTypes'
      <3>1. limit \in 0 .. Len(cq)
        BY <1>25, LenProperties DEF TypeInv, TypeOK, KernTypes, CompTypes, LoopsOK
      <3>2. Undrained \in Seq(Cqe) /\ Len(Undrained) = Len(cq) - limit
        BY <1>25, <3>1, SplitFacts DEF TypeInv, TypeOK, KernTypes, Undrained
      <3>3. Len(Undrained) <= CqEntries
        BY <1>25, <3>1, <3>2, SizesAssumption DEF TypeInv, TypeOK, KernTypes
      <3> QED  BY <1>25, <3>2, <3>3 DEF TypeInv, TypeOK, KernTypes, CompStoreHead
    <2>3. StatTypes'
      <3>1. stats["drained"] \in Nat /\ limit \in Nat
        BY <1>25, SizesAssumption DEF TypeInv, TypeOK, StatTypes, CompTypes, Counters
      <3>2. stats["drained"] + limit \in Nat
        BY <3>1
      <3>3. stats' = [stats EXCEPT !["drained"] = @ + limit]
        BY <1>25 DEF CompStoreHead
      <3> QED  BY <1>25, <3>2, <3>3 DEF TypeInv, TypeOK, StatTypes
    <2> QED  BY <1>25, <2>1, <2>2, <2>3, TypeFrame DEF TypeInv, TypeOK, CompStoreHead
  <1>26. ASSUME TypeInv, CompCheck PROVE TypeOK'
    <2>1. CompTypes'
      BY <1>26 DEF TypeInv, TypeOK, CompTypes, CompCheck
    <2> QED  BY <1>26, <2>1, TypeFrame DEF TypeInv, TypeOK, CompCheck
  <1>27. ASSUME TypeInv, CompIdle PROVE TypeOK'
    <2>1. ChanTypes'
      BY <1>27 DEF TypeInv, TypeOK, ChanTypes, CompIdle
    <2>2. CompTypes'
      BY <1>27 DEF TypeInv, TypeOK, CompTypes, CompIdle
    <2> QED  BY <1>27, <2>1, <2>2, TypeFrame DEF TypeInv, TypeOK, CompIdle
  <1>28. ASSUME TypeInv, CompWait PROVE TypeOK'
    <2>1. ChanTypes'
      BY <1>28 DEF TypeInv, TypeOK, ChanTypes, CompWait
    <2>2. CompTypes'
      BY <1>28 DEF TypeInv, TypeOK, CompTypes, CompWait
    <2> QED  BY <1>28, <2>1, <2>2, TypeFrame DEF TypeInv, TypeOK, CompWait
  <1>29. ASSUME TypeInv, KernelSpurious PROVE TypeOK'
    <2>1. KernTypes'
      <3>1. PICK q \in Cqe : cq' = Append(cq, q)
        <4>1. CASE \E o \in Reads : /\ served[o] # None
                                   /\ cq' = Append(cq, [id |-> opId[o], res |-> served[o]])
          BY <1>29, <4>1 DEF TypeInv, TypeOK, KernTypes, OpTypes, Cqe
        <4>2. CASE \E res \in Results : cq' = Append(cq, [id |-> 0, res |-> res])
          <5>1. 0 \in 0 .. (IdMod - 1)
            BY IdAssumption
          <5> QED  BY <4>2, <5>1 DEF Cqe
        <4> QED  BY <1>29, <4>1, <4>2 DEF KernelSpurious
      <3>2. cq' \in Seq(Cqe) /\ Len(cq') <= CqEntries
        BY <1>29, <3>1, AppendFacts, LenProperties, SizesAssumption
        DEF TypeInv, TypeOK, KernTypes, KernelSpurious
      <3> QED  BY <1>29, <3>2 DEF TypeInv, TypeOK, KernTypes, KernelSpurious
    <2> QED  BY <1>29, <2>1, TypeFrame DEF TypeInv, TypeOK, KernelSpurious
  <1>30. ASSUME TypeInv, UNCHANGED vars PROVE TypeOK'
    BY <1>30, TypeFrame DEF TypeInv, TypeOK, vars
  <1> QED
    BY <1>1, <1>2, <1>3, <1>4, <1>5, <1>6, <1>7, <1>8, <1>9, <1>10, <1>11, <1>12, <1>13, <1>14, <1>15, <1>16, <1>17, <1>18, <1>19, <1>20, <1>21, <1>22, <1>23, <1>24, <1>25, <1>26, <1>27, <1>28, <1>29, <1>30
    DEF Next, ReadAt, Close, Submitter, Completer, Finished

\* Every step keeps the locals of the two loops within what they stand for.
LEMMA LoopsStep == TypeInv /\ [Next]_vars => LoopsOK'
  <1> DEFINE Frame == UNCHANGED <<subVars, compVars, sq, cq>>
  <1>1. ASSUME TypeInv, Frame PROVE LoopsOK'
    BY <1>1 DEF TypeInv, LoopsOK, subVars, compVars
  <1>2. ASSUME NEW o \in Reads, ReadAt(o) PROVE Frame
    BY <1>2 DEF ReadAt, ReadSkip, ReadPin, ReadRefused, ReadAdmit, ReadSend, ReadReturn, kernVars
  <1>3. ASSUME NEW c \in Closers, Close(c) PROVE Frame
    BY <1>3 DEF Close, CloseBegin, CloseDecide, CloseStop, CloseJoin, kernVars
  <1>4. ASSUME UNCHANGED vars PROVE Frame
    BY <1>4 DEF vars, kernVars
  <1>5. ASSUME TypeInv, UNCHANGED <<subVars, compVars, sq>>,
               NEW q \in Cqe, cq' = Append(cq, q)
        PROVE  LoopsOK'
    <2>1. cq \in Seq(Cqe) /\ limit \in Nat /\ Len(cq) \in Nat
      BY <1>5, LenProperties DEF TypeInv, TypeOK, KernTypes, CompTypes
    <2>2. Len(cq') = Len(cq) + 1
      BY <1>5, <2>1, AppendFacts
    <2>3. limit' <= Len(cq')
      BY <1>5, <2>1, <2>2 DEF TypeInv, LoopsOK, compVars
    <2> QED  BY <1>5, <2>3 DEF TypeInv, LoopsOK, subVars, compVars
  <1>6. ASSUME TypeInv, NEW o \in Reads, KernelComplete(o) PROVE LoopsOK'
    <2>1. \E q \in Cqe : cq' = Append(cq, q)
      BY <1>6 DEF TypeInv, TypeOK, OpTypes, KernelComplete, Cqe
    <2> QED  BY <1>5, <1>6, <2>1 DEF KernelComplete
  <1>7. ASSUME TypeInv, KernelSpurious PROVE LoopsOK'
    <2>1. 0 \in 0 .. (IdMod - 1)
      BY IdAssumption
    <2>2. \E q \in Cqe : cq' = Append(cq, q)
      BY <1>7, <2>1 DEF TypeInv, TypeOK, OpTypes, KernTypes, KernelSpurious, Cqe
    <2> QED  BY <1>5, <1>7, <2>2 DEF KernelSpurious
  <1>8. ASSUME TypeInv, SubReceive \/ SubStop \/ SubGather \/ SubEnterFails \/ SubNotify PROVE LoopsOK'
    BY <1>8 DEF TypeInv, LoopsOK, SubReceive, SubStop, AfterStop, SubGather, SubEnterFails,
                SubNotify, compVars, kernVars
  <1>9. ASSUME TypeInv, SubPublish PROVE LoopsOK'
    <2>1. /\ spc' = "store" => Len(batch') = BatchSize
          /\ spc' # "store" => batch' = batch /\ batch = <<>>
          /\ spc' # "account"
      <3>1. Len(SubSeq(pending, 1, BatchSize)) = BatchSize
        BY <1>9, BatchSizeType, SplitFacts DEF TypeInv, TypeOK, SubTypes
      <3> QED  BY <1>9, <3>1 DEF TypeInv, LoopsOK, SubPublish
    <2>2. UNCHANGED <<sq, cq, compVars>>
      BY <1>9 DEF SubPublish, kernVars
    <2>3. Len(sq') + Len(batch') <= SqEntries
      BY <1>9, <2>1, <2>2, BatchSizeType DEF TypeInv, LoopsOK
    <2> QED  BY <1>9, <2>1, <2>2, <2>3 DEF TypeInv, LoopsOK, compVars
  <1>10. ASSUME TypeInv, SubStoreTail PROVE LoopsOK'
    <2>1. Len(sq') = Len(sq) + Len(batch) /\ batch' = <<>> /\ Len(sq) \in Nat /\ Len(batch) \in Nat
      BY <1>10, ConcatFacts, LenProperties DEF TypeInv, TypeOK, SubTypes, KernTypes, SubStoreTail
    <2>2. spc' = "enter" /\ UNCHANGED <<cq, compVars>>
      BY <1>10 DEF SubStoreTail
    <2>3. Len(sq') + Len(batch') <= SqEntries
      BY <1>10, <2>1 DEF TypeInv, LoopsOK
    <2> QED  BY <1>10, <2>1, <2>2, <2>3 DEF TypeInv, LoopsOK, compVars
  <1>11. ASSUME TypeInv, SubEnter PROVE LoopsOK'
    <2>1. PICK k \in 1 .. Len(sq) : k <= remaining /\ sq' = SubSeq(sq, k + 1, Len(sq)) /\ taken' = k
      BY <1>11 DEF SubEnter
    <2>2. Len(sq') = Len(sq) - k /\ Len(sq) \in Nat
      BY <2>1, <1>11, SplitFacts, LenProperties DEF TypeInv, TypeOK, KernTypes
    <2>3. spc' = "account" /\ batch = <<>> /\ UNCHANGED <<batch, remaining, cq, compVars>>
      BY <1>11 DEF TypeInv, LoopsOK, SubEnter
    <2>4. Len(sq') + Len(batch') <= SqEntries
      BY <1>11, <2>1, <2>2, <2>3, SizesAssumption DEF TypeInv, LoopsOK
    <2> QED  BY <1>11, <2>1, <2>3, <2>4 DEF TypeInv, LoopsOK, compVars
  <1>12. ASSUME TypeInv, SubAccount PROVE LoopsOK'
    BY <1>12 DEF TypeInv, LoopsOK, SubAccount, EnterDone, compVars, kernVars
  <1>13. ASSUME TypeInv, CompReap PROVE LoopsOK'
    <2>1. Len(cq) \in Nat /\ (cq = <<>> <=> Len(cq) = 0)
      BY <1>13, LenProperties, EmptySeq DEF TypeInv, TypeOK, KernTypes
    <2> QED  BY <1>13, <2>1 DEF TypeInv, LoopsOK, CompReap, subVars, kernVars
  <1>14. ASSUME TypeInv, CompFinish PROVE LoopsOK'
    <2>1. cpc' = "deliver" => cur' # None
      <3>1. cpc' = "deliver" => cur' = [op |-> ops[NextCqe.id], res |-> NextCqe.res]
        BY <1>14 DEF CompFinish
      <3>2. [op |-> ops[NextCqe.id], res |-> NextCqe.res] \in [op : Reads, res : Results]
        BY <1>14, NextCqeType DEF TypeInv, TypeOK, LockTypes, CompFinish, Known
      <3> QED  BY <3>1, <3>2, NoneAssumption
    <2>2. cpc' # "deliver" => cpc' = "panic" /\ cur' = cur
      BY <1>14 DEF CompFinish
    <2> QED  BY <1>14, <2>1, <2>2 DEF TypeInv, LoopsOK, CompFinish, subVars, kernVars
  <1>15. ASSUME TypeInv, CompUnknown PROVE LoopsOK'
    BY <1>15 DEF TypeInv, LoopsOK, CompUnknown, subVars, kernVars
  <1>16. ASSUME TypeInv, CompDeliver PROVE LoopsOK'
    <2>1. reaped < limit /\ reaped \in Nat /\ limit \in Nat
      BY <1>16, SizesAssumption DEF TypeInv, TypeOK, CompTypes, LoopsOK, CompDeliver
    <2>2. cpc' = "finish" => reaped' < limit'
      BY <1>16, <2>1 DEF CompDeliver
    <2> QED  BY <1>16, <2>2 DEF TypeInv, LoopsOK, CompDeliver, subVars, kernVars
  <1>17. ASSUME TypeInv, CompStoreHead PROVE LoopsOK'
    <2>1. cq' \in Seq(Cqe)
      BY <1>17, TypeStep DEF Next, Completer, TypeOK, KernTypes
    <2>2. limit' <= Len(cq')
      BY <1>17, <2>1, LenProperties DEF CompStoreHead
    <2> QED  BY <1>17, <2>2 DEF TypeInv, LoopsOK, CompStoreHead, subVars
  <1>18. ASSUME TypeInv, CompCheck \/ CompIdle \/ CompWait PROVE LoopsOK'
    BY <1>18 DEF TypeInv, LoopsOK, CompCheck, CompIdle, CompWait, subVars, kernVars
  <1> QED
    BY <1>1, <1>2, <1>3, <1>4, <1>6, <1>7, <1>8, <1>9, <1>10, <1>11, <1>12, <1>13, <1>14,
       <1>15, <1>16, <1>17, <1>18
    DEF Next, Submitter, Completer, Finished

\* TypeOK holds in every reachable state, whatever the kernel does.
THEOREM TypeCorrect == Spec => []TypeOK
  <1>1. Init => TypeInv
    BY TypeInit
  <1>2. TypeInv /\ [Next]_vars => TypeInv'
    BY TypeStep, LoopsStep DEF TypeInv
  <1>3. TypeInv => TypeOK
    BY DEF TypeInv
  <1> QED  BY <1>1, <1>2, <1>3, PTL DEF Spec

-----------------------------------------------------------------------------
(* The invariant.  KernelBuffersStayPinned alone is not inductive: a CQE     *)
(* takes whatever operation its ID names out of the table, so one has to     *)
(* know whose IDs the CQEs carry, that IDs are not shared, and that no       *)
(* operation is in two places on its way to the kernel.                      *)

\* Only a call that has returned has a result.
ResultsOK == \A o \in Reads : ret[o] # None => rpc[o] = "returned"

\* A call that has not been admitted has no ID and owns its buffer; one that is
\* about to send has its buffer pinned and unread; one that is released has
\* been answered.
CallsOK ==
  \A o \in Reads :
    /\ rpc[o] \in {"start", "admit"} =>
         opId[o] = 0 /\ served[o] = None /\ opState[o] \in {"none", "pinnedLocal"}
    /\ rpc[o] = "admit" => pinned[o]
    /\ rpc[o] = "send" =>
         opId[o] \in Ids /\ served[o] = None /\ opState[o] = "queued" /\ pinned[o]
    /\ done[o] # None => opState[o] = "released"

\* The operation between Ring.mu and its delivery is terminal.
CurOK == cur # None => opState[cur.op] = "terminal"

\* IDs are given out in order, once, and the table files operations by them.
IdsOK ==
  /\ \A o \in Reads : opId[o] <= nextID
  /\ \A o, p \in Reads : opId[o] = opId[p] /\ opId[o] # 0 => o = p
  /\ \A i \in Ids : ops[i] # None => opId[ops[i]] = i

\* An operation on its way to the SQ is queued, pinned, unread, in one place.
ToPublish == Range(submitCh) \cup Range(pending)
Held(o) == rpc[o] = "wait" /\ opId[o] \in Ids /\ served[o] = None /\ pinned[o]
QueuesOK ==
  /\ \A o \in ToPublish : Held(o) /\ opState[o] = "queued"
  /\ IsInjective(submitCh) /\ IsInjective(pending)
  /\ Range(submitCh) \cap Range(pending) = {}

\* A published operation the kernel has not answered is pinned and in the
\* table, and in one place.
InRing == Range(batch) \cup Range(sq) \cup inflight
Filed(o) == ops[opId[o]] = o
RingOK ==
  /\ \A o \in InRing : Held(o) /\ opState[o] = "published" /\ Filed(o)
  /\ IsInjective(batch) /\ IsInjective(sq)
  /\ Range(batch) \cap Range(sq) = {}
  /\ Range(batch) \cap inflight = {} /\ Range(sq) \cap inflight = {}

\* The CQEs carry the IDs of answered operations.
CqesOK ==
  \A i \in 1 .. Len(cq) :
    /\ cq[i].id <= nextID
    /\ \A o \in Reads : opId[o] = cq[i].id /\ opId[o] # 0 => served[o] # None

Owned == CallsOK /\ CurOK /\ IdsOK /\ QueuesOK /\ RingOK /\ CqesOK

OwnershipInv == TypeInv /\ ResultsOK /\ (NoOverflow => Owned)
-----------------------------------------------------------------------------
(* What does not change what the invariant speaks of keeps it. *)

\* The operations on their way are operations.
LEMMA PlacesType ==
  ASSUME TypeInv
  PROVE  /\ ToPublish \subseteq Reads /\ InRing \subseteq Reads
         /\ submitCh \in Seq(Reads) /\ pending \in Seq(Reads)
         /\ batch \in Seq(Reads) /\ sq \in Seq(Reads)
  <1>1. /\ submitCh \in Seq(Reads) /\ pending \in Seq(Reads)
        /\ batch \in Seq(Reads) /\ sq \in Seq(Reads) /\ inflight \subseteq Reads
    BY DEF TypeInv, TypeOK, ChanTypes, SubTypes, KernTypes
  <1> QED  BY <1>1, ByIndex DEF ToPublish, InRing

LEMMA OwnedFrame ==
  /\ CallsOK /\ UNCHANGED <<rpc, opVars, served>> => CallsOK'
  /\ CurOK /\ UNCHANGED <<cur, opState>> => CurOK'
  /\ IdsOK /\ UNCHANGED <<opId, ops, nextID>> => IdsOK'
  /\ QueuesOK /\ UNCHANGED <<submitCh, pending, rpc, opId, opState, pinned, served>> => QueuesOK'
  /\ RingOK /\ UNCHANGED <<batch, sq, inflight, rpc, opState, pinned, served, opId, ops>> => RingOK'
  /\ CqesOK /\ UNCHANGED <<cq, opId, nextID, served>> => CqesOK'
  <1>1. CallsOK /\ UNCHANGED <<rpc, opVars, served>> => CallsOK'
    BY DEF CallsOK, opVars
  <1>2. CurOK /\ UNCHANGED <<cur, opState>> => CurOK'
    BY DEF CurOK
  <1>3. IdsOK /\ UNCHANGED <<opId, ops, nextID>> => IdsOK'
    BY DEF IdsOK
  <1>4. QueuesOK /\ UNCHANGED <<submitCh, pending, rpc, opId, opState, pinned, served>> => QueuesOK'
    BY DEF QueuesOK, ToPublish, Held
  <1>5. RingOK /\ UNCHANGED <<batch, sq, inflight, rpc, opState, pinned, served, opId, ops>> => RingOK'
    BY DEF RingOK, InRing, Held, Filed
  <1>6. CqesOK /\ UNCHANGED <<cq, opId, nextID, served>> => CqesOK'
    BY DEF CqesOK
  <1> QED  BY <1>1, <1>2, <1>3, <1>4, <1>5, <1>6

\* A step of an operation that is not on its way leaves the queues and the ring
\* in order.
LEMMA Bystander ==
  ASSUME TypeInv, Owned,
         NEW o \in Reads, o \notin ToPublish, o \notin InRing,
         \A p \in Reads \ {o} :
           /\ rpc'[p] = rpc[p] /\ opState'[p] = opState[p]
           /\ pinned'[p] = pinned[p] /\ opId'[p] = opId[p],
         \A i \in Ids : ops[i] # None /\ ops[i] # o => ops'[i] = ops[i],
         UNCHANGED <<pending, batch, sq, inflight, served>>
  PROVE  RingOK' /\ (UNCHANGED submitCh => QueuesOK')
  <1>1. ASSUME UNCHANGED submitCh PROVE QueuesOK'
    <2>1. ToPublish' = ToPublish
      BY <1>1 DEF ToPublish
    <2>2. \A p \in ToPublish : Held(p)' /\ opState'[p] = "queued"
      BY PlacesType DEF Owned, QueuesOK, Held
    <2> QED  BY <1>1, <2>1, <2>2 DEF Owned, QueuesOK
  <1>2. RingOK'
    <2>1. InRing' = InRing
      BY DEF InRing
    <2>2. \A p \in InRing : Held(p)' /\ opState'[p] = "published"
      BY PlacesType DEF Owned, RingOK, Held
    <2>3. \A p \in InRing : Filed(p)'
      BY PlacesType, NoneAssumption DEF Owned, RingOK, Held, Filed
    <2> QED  BY <2>1, <2>2, <2>3 DEF Owned, RingOK
  <1> QED  BY <1>1, <1>2

\* A call that is not waiting has its operation nowhere on the way.
LEMMA NotOnTheWay ==
  ASSUME Owned, NEW o \in Reads, rpc[o] # "wait"
  PROVE  o \notin ToPublish /\ o \notin InRing
  BY DEF Owned, QueuesOK, RingOK, Held

\* A CQE that carries the ID of an answered operation keeps the CQ in order.
LEMMA CqesAppend ==
  ASSUME TypeInv, Owned, NEW q \in Cqe, cq' = Append(cq, q), UNCHANGED <<opId, nextID>>,
         \A p \in Reads : served[p] # None => served'[p] # None,
         q.id <= nextID,
         \A p \in Reads : opId[p] = q.id /\ opId[p] # 0 => served'[p] # None
  PROVE  CqesOK'
  <1>1. cq \in Seq(Cqe) /\ Len(cq) \in Nat
    BY LenProperties DEF TypeInv, TypeOK, KernTypes
  <1>2. /\ Len(cq') = Len(cq) + 1 /\ cq'[Len(cq) + 1] = q
        /\ \A i \in 1 .. Len(cq) : cq'[i] = cq[i]
    BY <1>1, AppendProperties
  <1>3. ASSUME NEW i \in 1 .. Len(cq')
        PROVE  /\ cq'[i].id <= nextID
               /\ \A p \in Reads : opId[p] = cq'[i].id /\ opId[p] # 0 => served'[p] # None
    <2>1. CASE i \in 1 .. Len(cq)
      BY <1>2, <2>1 DEF Owned, CqesOK
    <2>2. CASE i = Len(cq) + 1
      BY <1>2, <2>2
    <2> QED  BY <1>1, <1>2, <2>1, <2>2
  <1> QED  BY <1>3 DEF CqesOK

\* A new ID is the next number, which no operation and no place of the table has.
LEMMA NewIDIsFresh ==
  ASSUME TypeInv, Owned, NewID # 0
  PROVE  /\ NewID \in Ids /\ NewID = nextID + 1 /\ nextID \in Nat
         /\ \A p \in Reads : opId[p] \in Nat /\ opId[p] <= nextID /\ opId[p] # NewID
         /\ ops[NewID] = None
         /\ \A i \in Ids : ops[i] # None => ops[i] \in Reads /\ opId[ops[i]] = i /\ i # NewID
  <1>1. NewID \in Ids /\ NewID = nextID + 1 /\ nextID \in Nat
    <2>1. nextID \in 0 .. (IdMod - 1) /\ IdMod \in Nat
      BY IdAssumption DEF TypeInv, TypeOK, LockTypes
    <2>2. NewID = (nextID + 1) % IdMod
      BY DEF NewID
    <2>3. CASE nextID + 1 = IdMod
      <3>1. (nextID + 1) % IdMod = 0
        BY <2>1, <2>3, IdAssumption
      <3> QED  BY <2>2, <3>1
    <2>4. CASE nextID + 1 # IdMod
      <3>1. (nextID + 1) % IdMod = nextID + 1
        BY <2>1, <2>4
      <3> QED  BY <2>1, <2>2, <2>4, <3>1 DEF Ids
    <2> QED  BY <2>3, <2>4
  <1>2. \A p \in Reads : opId[p] \in Nat /\ opId[p] <= nextID /\ opId[p] # NewID
    BY <1>1, IdAssumption DEF TypeInv, TypeOK, OpTypes, Owned, IdsOK
  <1>3. \A i \in Ids : ops[i] # None => ops[i] \in Reads /\ opId[ops[i]] = i /\ i # NewID
    BY <1>2 DEF TypeInv, TypeOK, LockTypes, Owned, IdsOK
  <1> QED  BY <1>1, <1>2, <1>3

-----------------------------------------------------------------------------
(* One lemma for each action that touches what the invariant speaks of. *)

LEMMA OwnedReadSkip ==
  ASSUME TypeInv, Owned, NEW o \in Reads, ReadSkip(o)
  PROVE  Owned'
  <1>1. /\ rpc[o] = "start" /\ rpc' = [rpc EXCEPT ![o] = "returned"]
        /\ UNCHANGED <<opVars, lockVars, chanVars, subVars, compVars, kernVars>>
    BY DEF ReadSkip
  <1>2. CallsOK'
    BY <1>1 DEF TypeInv, TypeOK, ReadTypes, Owned, CallsOK, opVars, kernVars
  <1>3. RingOK' /\ QueuesOK'
    BY <1>1, Bystander, NotOnTheWay
    DEF TypeInv, TypeOK, ReadTypes, opVars, lockVars, chanVars, subVars, kernVars
  <1> QED
    BY <1>1, <1>2, <1>3, OwnedFrame DEF Owned, opVars, lockVars, compVars, kernVars

LEMMA OwnedReadPin ==
  ASSUME TypeInv, Owned, NEW o \in Reads, ReadPin(o)
  PROVE  Owned'
  <1>1. /\ rpc[o] = "start" /\ rpc' = [rpc EXCEPT ![o] = "admit"]
        /\ opState' = [opState EXCEPT ![o] = "pinnedLocal"]
        /\ pinned' = [pinned EXCEPT ![o] = TRUE]
        /\ UNCHANGED <<opId, done, lockVars, chanVars, subVars, compVars, kernVars>>
    BY DEF ReadPin
  <1>2. CallsOK'
    BY <1>1 DEF TypeInv, TypeOK, ReadTypes, OpTypes, Owned, CallsOK, kernVars
  <1>3. RingOK' /\ QueuesOK'
    BY <1>1, Bystander, NotOnTheWay
    DEF TypeInv, TypeOK, ReadTypes, OpTypes, lockVars, chanVars, subVars, kernVars
  <1>4. CurOK'
    BY <1>1 DEF TypeInv, TypeOK, CompTypes, OpTypes, Owned, CallsOK, CurOK, compVars
  <1> QED
    BY <1>1, <1>2, <1>3, <1>4, OwnedFrame DEF Owned, lockVars, kernVars

LEMMA OwnedReadRefused ==
  ASSUME TypeInv, Owned, NEW o \in Reads, ReadRefused(o), NoOverflow'
  PROVE  Owned'
  <1>1. /\ rpc[o] = "admit" /\ rpc' = [rpc EXCEPT ![o] = "returned"]
        /\ opState' = [opState EXCEPT ![o] = "released"]
        /\ pinned' = [pinned EXCEPT ![o] = FALSE]
        /\ UNCHANGED <<opId, done, ops, chanVars, subVars, compVars, kernVars>>
    BY DEF ReadRefused
  <1>2. UNCHANGED nextID
    BY DEF ReadRefused, NoOverflow, TypeInv, TypeOK, ReadTypes
  <1>3. CallsOK'
    BY <1>1 DEF TypeInv, TypeOK, ReadTypes, OpTypes, Owned, CallsOK, kernVars
  <1>4. RingOK' /\ QueuesOK'
    BY <1>1, Bystander, NotOnTheWay
    DEF TypeInv, TypeOK, ReadTypes, OpTypes, chanVars, subVars, kernVars
  <1>5. CurOK'
    BY <1>1 DEF TypeInv, TypeOK, CompTypes, OpTypes, Owned, CallsOK, CurOK, compVars
  <1> QED
    BY <1>1, <1>2, <1>3, <1>4, <1>5, OwnedFrame DEF Owned, kernVars

LEMMA OwnedReadAdmit ==
  ASSUME TypeInv, Owned, NEW o \in Reads, ReadAdmit(o)
  PROVE  Owned'
  <1>1. /\ rpc[o] = "admit" /\ rpc' = [rpc EXCEPT ![o] = "send"]
        /\ NewID # 0 /\ nextID' = NewID
        /\ opId' = [opId EXCEPT ![o] = NewID]
        /\ ops' = [ops EXCEPT ![NewID] = o]
        /\ opState' = [opState EXCEPT ![o] = "queued"]
        /\ UNCHANGED <<pinned, done, chanVars, subVars, compVars, kernVars>>
    BY DEF ReadAdmit
  <1>2. NewID \in Ids /\ NewID = nextID + 1 /\ nextID \in Nat
    BY <1>1, NewIDIsFresh
  <1>3. \A p \in Reads : opId[p] \in Nat /\ opId[p] <= nextID /\ opId[p] # NewID
    BY <1>1, NewIDIsFresh
  <1>4. \A i \in Ids : ops[i] # None => ops[i] \in Reads /\ opId[ops[i]] = i /\ i # NewID
    BY <1>1, NewIDIsFresh
  <1>5. CallsOK'
    <2>1. \A p \in Reads :
            /\ rpc'[p] = IF p = o THEN "send" ELSE rpc[p]
            /\ opId'[p] = IF p = o THEN NewID ELSE opId[p]
            /\ opState'[p] = IF p = o THEN "queued" ELSE opState[p]
      BY <1>1 DEF TypeInv, TypeOK, ReadTypes, OpTypes
    <2>2. served[o] = None /\ pinned[o] /\ done[o] = None
      BY <1>1 DEF Owned, CallsOK
    <2> QED  BY <1>1, <1>2, <2>1, <2>2 DEF Owned, CallsOK, kernVars
  <1>6. IdsOK'
    <2>1. /\ \A p \in Reads : opId'[p] = IF p = o THEN NewID ELSE opId[p]
          /\ \A i \in Ids : ops'[i] = IF i = NewID THEN o ELSE ops[i]
      BY <1>1 DEF TypeInv, TypeOK, OpTypes, LockTypes
    <2>2. \A p \in Reads : opId'[p] <= nextID'
      BY <1>1, <1>2, <1>3, <2>1
    <2>3. \A p, q \in Reads : opId'[p] = opId'[q] /\ opId'[p] # 0 => p = q
      BY <1>3, <2>1 DEF Owned, IdsOK
    <2>4. ASSUME NEW i \in Ids, ops'[i] # None PROVE opId'[ops'[i]] = i
      <3>1. CASE i = NewID
        BY <2>1, <3>1
      <3>2. CASE i # NewID
        <4>1. ops'[i] = ops[i] /\ ops[i] \in Reads /\ opId[ops[i]] = i
          BY <1>4, <2>1, <2>4, <3>2
        <4>2. ops[i] # o
          <5>1. i # 0
            BY DEF Ids
          <5>2. opId[o] = 0
            BY <1>1 DEF Owned, CallsOK
          <5> QED  BY <4>1, <5>1, <5>2
        <4> QED  BY <2>1, <4>1, <4>2
      <3> QED  BY <3>1, <3>2
    <2> QED  BY <2>2, <2>3, <2>4 DEF IdsOK
  <1>7. RingOK' /\ QueuesOK'
    <2>1. \A i \in Ids : ops[i] # None => ops'[i] = ops[i]
      BY <1>1, <1>4 DEF TypeInv, TypeOK, LockTypes
    <2> QED
      BY <1>1, <2>1, Bystander, NotOnTheWay
      DEF TypeInv, TypeOK, ReadTypes, OpTypes, chanVars, subVars, kernVars
  <1>8. CurOK'
    BY <1>1 DEF TypeInv, TypeOK, CompTypes, OpTypes, Owned, CallsOK, CurOK, compVars
  <1>9. CqesOK'
    <2>1. UNCHANGED <<cq, served>>
      BY <1>1 DEF kernVars
    <2>2. cq \in Seq(Cqe)
      BY DEF TypeInv, TypeOK, KernTypes
    <2>3. ASSUME NEW i \in 1 .. Len(cq)
          PROVE  /\ cq[i].id <= nextID'
                 /\ \A p \in Reads : opId'[p] = cq[i].id /\ opId'[p] # 0 => served[p] # None
      <3>1. cq[i] \in Cqe
        BY <2>2, ElementOfSeq
      <3>2. cq[i].id \in Nat /\ cq[i].id <= nextID
        BY <3>1, IdAssumption DEF Cqe, Owned, CqesOK
      <3>3. cq[i].id # NewID /\ cq[i].id <= nextID'
        BY <1>1, <1>2, <3>2
      <3>4. \A p \in Reads \ {o} : opId'[p] = opId[p]
        BY <1>1 DEF TypeInv, TypeOK, OpTypes
      <3>5. opId'[o] = NewID
        BY <1>1 DEF TypeInv, TypeOK, OpTypes
      <3> QED  BY <3>3, <3>4, <3>5 DEF Owned, CqesOK
    <2> QED  BY <2>1, <2>3 DEF CqesOK
  <1> QED
    BY <1>5, <1>6, <1>7, <1>8, <1>9 DEF Owned

LEMMA OwnedReadSend ==
  ASSUME TypeInv, Owned, NEW o \in Reads, ReadSend(o)
  PROVE  Owned'
  <1>1. /\ rpc[o] = "send" /\ rpc' = [rpc EXCEPT ![o] = "wait"]
        /\ submitCh' = Append(submitCh, o)
        /\ UNCHANGED <<opVars, lockVars, subVars, compVars, kernVars>>
    BY DEF ReadSend
  <1>2. opId[o] \in Ids /\ served[o] = None /\ opState[o] = "queued" /\ pinned[o]
    BY <1>1 DEF Owned, CallsOK
  <1>3. CallsOK'
    BY <1>1 DEF TypeInv, TypeOK, ReadTypes, Owned, CallsOK, opVars, kernVars
  <1>4. RingOK'
    BY <1>1, Bystander, NotOnTheWay
    DEF TypeInv, TypeOK, ReadTypes, opVars, lockVars, subVars, kernVars
  <1>5. QueuesOK'
    <2>1. o \notin ToPublish
      BY <1>1, NotOnTheWay
    <2>2. Range(submitCh') = Range(submitCh) \cup {o} /\ IsInjective(submitCh')
      BY <1>1, <2>1, AppendFacts, PlacesType DEF Owned, QueuesOK, ToPublish
    <2>3. ToPublish' = ToPublish \cup {o}
      BY <1>1, <2>2 DEF ToPublish, subVars
    <2>4. \A p \in ToPublish \cup {o} : Held(p)' /\ opState'[p] = "queued"
      BY <1>1, <1>2, PlacesType
      DEF TypeInv, TypeOK, ReadTypes, Owned, QueuesOK, Held, opVars, kernVars
    <2> QED
      BY <1>1, <2>1, <2>2, <2>3, <2>4 DEF Owned, QueuesOK, ToPublish, subVars
  <1> QED
    BY <1>1, <1>3, <1>4, <1>5, OwnedFrame DEF Owned, opVars, lockVars, compVars, kernVars

LEMMA OwnedReadReturn ==
  ASSUME TypeInv, Owned, NEW o \in Reads, ReadReturn(o)
  PROVE  Owned'
  <1>1. /\ rpc[o] = "wait" /\ rpc' = [rpc EXCEPT ![o] = "returned"]
        /\ done[o] # None /\ done' = [done EXCEPT ![o] = None]
        /\ UNCHANGED <<opState, opId, pinned, lockVars, chanVars, subVars, compVars, kernVars>>
    BY DEF ReadReturn, Completed
  <1>2. o \notin ToPublish /\ o \notin InRing
    BY <1>1 DEF Owned, CallsOK, QueuesOK, RingOK
  <1>3. CallsOK'
    BY <1>1 DEF TypeInv, TypeOK, ReadTypes, OpTypes, Owned, CallsOK, kernVars
  <1>4. RingOK' /\ QueuesOK'
    BY <1>1, <1>2, Bystander
    DEF TypeInv, TypeOK, ReadTypes, lockVars, chanVars, subVars, kernVars
  <1> QED
    BY <1>1, <1>3, <1>4, OwnedFrame DEF Owned, lockVars, compVars, kernVars
LEMMA OwnedSubReceive ==
  ASSUME TypeInv, Owned, SubReceive
  PROVE  Owned'
  <1>1. /\ submitCh # <<>> /\ pending' = <<Head(submitCh)>> /\ submitCh' = Tail(submitCh)
        /\ UNCHANGED <<batch, readVars, opVars, lockVars, compVars, kernVars>>
    BY DEF SubReceive
  <1>2. QueuesOK'
    <2>1. /\ Head(submitCh) \in Range(submitCh) /\ Range(submitCh') \subseteq Range(submitCh)
          /\ IsInjective(submitCh') /\ Head(submitCh) \notin Range(submitCh')
      BY <1>1, DequeueFacts, PlacesType DEF Owned, QueuesOK
    <2>2. Range(pending') = {Head(submitCh)} /\ IsInjective(pending')
      <3>1. Head(submitCh) \in Reads
        BY <1>1, DequeueFacts, PlacesType
      <3>2. pending' \in Seq(Reads) /\ Len(pending') = 1 /\ pending'[1] = Head(submitCh)
        BY <1>1, <3>1
      <3> QED  BY <3>2, ByIndex
    <2>3. ToPublish' \subseteq ToPublish
      BY <2>1, <2>2 DEF ToPublish
    <2>4. \A p \in ToPublish : Held(p)' /\ opState'[p] = "queued"
      BY <1>1 DEF Owned, QueuesOK, Held, readVars, opVars, kernVars
    <2> QED  BY <2>1, <2>2, <2>3, <2>4 DEF QueuesOK
  <1> QED
    BY <1>1, <1>2, OwnedFrame DEF Owned, readVars, opVars, lockVars, compVars, kernVars

LEMMA OwnedSubGather ==
  ASSUME TypeInv, Owned, SubGather
  PROVE  Owned'
  <1>1. /\ submitCh # <<>> /\ pending' = Append(pending, Head(submitCh))
        /\ submitCh' = Tail(submitCh)
        /\ UNCHANGED <<batch, readVars, opVars, lockVars, compVars, kernVars>>
    BY DEF SubGather
  <1>2. QueuesOK'
    <2>1. /\ Head(submitCh) \in Range(submitCh) /\ Range(submitCh') \subseteq Range(submitCh)
          /\ IsInjective(submitCh') /\ Head(submitCh) \notin Range(submitCh')
          /\ Head(submitCh) \in Reads
      BY <1>1, DequeueFacts, PlacesType DEF Owned, QueuesOK
    <2>2. Head(submitCh) \notin Range(pending)
      BY <2>1 DEF Owned, QueuesOK
    <2>3. Range(pending') = Range(pending) \cup {Head(submitCh)} /\ IsInjective(pending')
      BY <1>1, <2>1, <2>2, AppendFacts, PlacesType DEF Owned, QueuesOK
    <2>4. ToPublish' \subseteq ToPublish
      BY <2>1, <2>3 DEF ToPublish
    <2>5. \A p \in ToPublish : Held(p)' /\ opState'[p] = "queued"
      BY <1>1 DEF Owned, QueuesOK, Held, readVars, opVars, kernVars
    <2>6. Range(submitCh') \cap Range(pending') = {}
      BY <2>1, <2>3 DEF Owned, QueuesOK
    <2> QED  BY <2>1, <2>3, <2>4, <2>5, <2>6 DEF QueuesOK
  <1> QED
    BY <1>1, <1>2, OwnedFrame DEF Owned, readVars, opVars, lockVars, compVars, kernVars

LEMMA OwnedSubPublish ==
  ASSUME TypeInv, Owned, SubPublish
  PROVE  Owned'
  <1> DEFINE head == SubSeq(pending, 1, BatchSize)
             rest == SubSeq(pending, BatchSize + 1, Len(pending))
  <1>1. /\ spc = "gather" /\ batch = <<>>
        /\ UNCHANGED <<readVars, opId, pinned, done, ops, nextID, chanVars, compVars, kernVars>>
    BY DEF SubPublish, TypeInv, LoopsOK
  <1>2. CASE spc' # "store"
    <2>1. UNCHANGED <<batch, pending, opState>>
      BY <1>2 DEF SubPublish
    <2> QED
      BY <1>1, <2>1, OwnedFrame DEF Owned, readVars, opVars, chanVars, compVars, kernVars
  <1>3. CASE spc' = "store"
    <2>1. /\ BatchValid /\ batch' = head /\ pending' = rest
          /\ opState' = [o \in Reads |-> IF o \in Range(head) THEN "published" ELSE opState[o]]
      BY <1>3 DEF SubPublish
    <2>2. /\ Range(head) \subseteq Range(pending) /\ Range(rest) \subseteq Range(pending)
          /\ IsInjective(head) /\ IsInjective(rest) /\ Range(head) \cap Range(rest) = {}
          /\ \A p \in Range(head) : \E i \in 1 .. BatchSize : p = pending[i]
      BY BatchSizeType, PlacesType, SplitFacts DEF Owned, QueuesOK
    <2>3. \A p \in Range(head) : Publishable(p)
      BY <2>1, <2>2 DEF BatchValid
    <2> HIDE DEF head, rest
    <2>4. Range(head) \subseteq ToPublish /\ Range(rest) \subseteq ToPublish
      BY <2>2 DEF ToPublish
    <2>5. \A p \in Reads : opState'[p] = IF p \in Range(head) THEN "published" ELSE opState[p]
      BY <2>1
    <2>6. Range(head) \cap InRing = {}
      BY <2>4 DEF Owned, QueuesOK, RingOK
    <2>7. CallsOK'
      <3>1. ASSUME NEW p \in Range(head)
            PROVE  rpc[p] = "wait" /\ done[p] = None
        BY <2>4, PlacesType DEF Owned, CallsOK, QueuesOK, Held
      <3> QED
        BY <1>1, <2>5, <3>1 DEF Owned, CallsOK, readVars, kernVars
    <2>8. CurOK'
      <3>1. ASSUME cur # None PROVE cur.op \notin Range(head) /\ cur.op \in Reads
        BY <2>4, <3>1 DEF TypeInv, TypeOK, CompTypes, Owned, CurOK, QueuesOK
      <3> QED  BY <1>1, <2>5, <3>1 DEF Owned, CurOK, compVars
    <2>9. QueuesOK'
      <3>1. ToPublish' = Range(submitCh) \cup Range(rest)
        BY <1>1, <2>1 DEF ToPublish, chanVars
      <3>2. Range(submitCh) \cap Range(head) = {} /\ Range(submitCh) \cap Range(rest) = {}
        BY <2>2 DEF Owned, QueuesOK
      <3>3. ToPublish' \subseteq ToPublish /\ ToPublish' \cap Range(head) = {}
        BY <2>2, <2>4, <3>1, <3>2 DEF ToPublish
      <3>4. \A p \in ToPublish' : Held(p)' /\ opState'[p] = "queued"
        BY <1>1, <2>5, <3>3, PlacesType DEF Owned, QueuesOK, Held, readVars, kernVars
      <3> QED
        BY <1>1, <2>1, <2>2, <3>2, <3>4 DEF Owned, QueuesOK, chanVars
    <2>10. RingOK'
      <3>1. InRing' = Range(head) \cup Range(sq) \cup inflight
        BY <1>1, <2>1 DEF InRing, kernVars
      <3>2. ASSUME NEW p \in Range(head)
            PROVE  Held(p)' /\ opState'[p] = "published" /\ Filed(p)'
        <4>1. p \in Reads /\ Held(p) 
          BY <2>4, PlacesType DEF Owned, QueuesOK
        <4>2. ops[opId[p]] = p
          BY <2>3 DEF Publishable
        <4> QED
          BY <1>1, <2>5, <4>1, <4>2 DEF Held, Filed, readVars, kernVars
      <3>3. ASSUME NEW p \in Range(sq) \cup inflight
            PROVE  Held(p)' /\ opState'[p] = "published" /\ Filed(p)'
        <4>1. p \in InRing /\ p \in Reads
          BY PlacesType DEF InRing
        <4> QED
          BY <1>1, <2>5, <4>1 DEF Owned, RingOK, Held, Filed, readVars, kernVars
      <3> QED
        BY <1>1, <2>1, <2>2, <2>6, <3>1, <3>2, <3>3 DEF Owned, RingOK, InRing, kernVars
    <2> QED
      BY <1>1, <2>7, <2>8, <2>9, <2>10, OwnedFrame DEF Owned, kernVars
  <1> QED  BY <1>2, <1>3

LEMMA OwnedSubStoreTail ==
  ASSUME TypeInv, Owned, SubStoreTail
  PROVE  Owned'
  <1>1. /\ sq' = sq \o batch /\ batch' = <<>>
        /\ UNCHANGED <<pending, readVars, opVars, lockVars, chanVars, compVars, inflight, cq, served>>
    BY DEF SubStoreTail
  <1>2. RingOK'
    <2>1. Range(sq') = Range(sq) \cup Range(batch) /\ IsInjective(sq')
      BY <1>1, PlacesType, ConcatFacts DEF Owned, RingOK
    <2>2. Range(batch') = {} /\ IsInjective(batch')
      BY <1>1 DEF Range, IsInjective
    <2>3. InRing' = InRing
      BY <1>1, <2>1, <2>2 DEF InRing
    <2>4. \A p \in InRing : Held(p)' /\ opState'[p] = "published" /\ Filed(p)'
      BY <1>1 DEF Owned, RingOK, Held, Filed, readVars, opVars, lockVars
    <2> QED
      BY <1>1, <2>1, <2>2, <2>3, <2>4 DEF Owned, RingOK
  <1> QED
    BY <1>1, <1>2, OwnedFrame DEF Owned, readVars, opVars, lockVars, chanVars, compVars

LEMMA OwnedSubEnter ==
  ASSUME TypeInv, Owned, SubEnter
  PROVE  Owned'
  <1>1. /\ UNCHANGED <<pending, batch, readVars, opVars, lockVars, chanVars, compVars, cq, served>>
        /\ \E k \in 1 .. Len(sq) :
             /\ inflight' = inflight \cup Range(SubSeq(sq, 1, k))
             /\ sq' = SubSeq(sq, k + 1, Len(sq))
    BY DEF SubEnter
  <1>2. RingOK'
    <2>1. PICK k \in 1 .. Len(sq) :
             /\ inflight' = inflight \cup Range(SubSeq(sq, 1, k))
             /\ sq' = SubSeq(sq, k + 1, Len(sq))
      BY <1>1
    <2> DEFINE front == Range(SubSeq(sq, 1, k))
    <2>2. /\ front \subseteq Range(sq) /\ Range(sq') \subseteq Range(sq)
          /\ IsInjective(sq') /\ front \cap Range(sq') = {}
      <3>1. k \in 0 .. Len(sq)
        OBVIOUS
      <3> QED  BY <2>1, <3>1, PlacesType, SplitFacts DEF Owned, RingOK
    <2> HIDE DEF front
    <2>3. inflight' = inflight \cup front
      BY <2>1 DEF front
    <2>4. InRing' \subseteq InRing
      BY <1>1, <2>2, <2>3 DEF InRing
    <2>5. \A p \in InRing : Held(p)' /\ opState'[p] = "published" /\ Filed(p)'
      BY <1>1 DEF Owned, RingOK, Held, Filed, readVars, opVars, lockVars
    <2>6. /\ Range(batch') \cap Range(sq') = {}
          /\ Range(batch') \cap inflight' = {} /\ Range(sq') \cap inflight' = {}
      BY <1>1, <2>2, <2>3 DEF Owned, RingOK
    <2> QED
      BY <1>1, <2>2, <2>4, <2>5, <2>6 DEF Owned, RingOK
  <1> QED
    BY <1>1, <1>2, OwnedFrame DEF Owned, readVars, opVars, lockVars, chanVars, compVars
LEMMA OwnedKernelComplete ==
  ASSUME TypeInv, Owned, NEW o \in Reads, KernelComplete(o)
  PROVE  Owned'
  <1>1. PICK res \in Results :
           /\ o \in inflight /\ inflight' = inflight \ {o}
           /\ served' = [served EXCEPT ![o] = res]
           /\ cq' = Append(cq, [id |-> opId[o], res |-> res])
           /\ UNCHANGED <<sq, readVars, opVars, lockVars, chanVars, subVars, compVars>>
    BY DEF KernelComplete
  <1>2. /\ rpc[o] = "wait" /\ opState[o] = "published" /\ opId[o] \in Ids /\ res # None
        /\ \A p \in Reads : served'[p] = IF p = o THEN res ELSE served[p]
    BY <1>1, NoneAssumption DEF TypeInv, TypeOK, KernTypes, Owned, RingOK, InRing, Held
  <1>3. CallsOK'
    BY <1>1, <1>2 DEF Owned, CallsOK, readVars, opVars
  <1>4. QueuesOK'
    <2>1. ToPublish' = ToPublish
      BY <1>1 DEF ToPublish, chanVars, subVars
    <2>2. \A p \in ToPublish : Held(p)' /\ opState'[p] = "queued"
      BY <1>1, <1>2, PlacesType DEF Owned, QueuesOK, Held, readVars, opVars
    <2> QED  BY <1>1, <2>1, <2>2 DEF Owned, QueuesOK, chanVars, subVars
  <1>5. RingOK'
    <2>1. InRing' \subseteq InRing /\ o \notin InRing'
      BY <1>1 DEF Owned, RingOK, InRing, subVars
    <2>2. \A p \in InRing \ {o} : Held(p)' /\ opState'[p] = "published" /\ Filed(p)'
      BY <1>1, <1>2, PlacesType DEF Owned, RingOK, Held, Filed, readVars, opVars, lockVars
    <2> QED  BY <1>1, <2>1, <2>2 DEF Owned, RingOK, subVars
  <1>6. CqesOK'
    <2>1. \A p \in Reads : served[p] # None => served'[p] # None
      BY <1>2
    <2>2. \A p \in Reads : opId[p] = opId[o] => served'[p] # None
      BY <1>2 DEF Owned, IdsOK, Ids
    <2>3. opId[o] <= nextID
      BY DEF Owned, IdsOK
    <2>4. [id |-> opId[o], res |-> res] \in Cqe
      BY DEF TypeInv, TypeOK, OpTypes, Cqe
    <2> QED  BY <1>1, <2>1, <2>2, <2>3, <2>4, CqesAppend DEF opVars, lockVars
  <1> QED
    BY <1>1, <1>3, <1>4, <1>5, <1>6, OwnedFrame DEF Owned, readVars, opVars, lockVars, compVars

LEMMA OwnedKernelSpurious ==
  ASSUME TypeInv, Owned, KernelSpurious
  PROVE  Owned'
  <1>1. UNCHANGED <<sq, inflight, served, readVars, opVars, lockVars, chanVars, subVars, compVars>>
    BY DEF KernelSpurious
  <1>2. CqesOK'
    <2>1. CASE \E o \in Reads : /\ served[o] # None
                                /\ cq' = Append(cq, [id |-> opId[o], res |-> served[o]])
      <3>1. PICK o \in Reads : /\ served[o] # None
                               /\ cq' = Append(cq, [id |-> opId[o], res |-> served[o]])
        BY <2>1
      <3>2. [id |-> opId[o], res |-> served[o]] \in Cqe
        BY <3>1 DEF TypeInv, TypeOK, OpTypes, KernTypes, Cqe
      <3>3. opId[o] <= nextID /\ \A p \in Reads : opId[p] = opId[o] /\ opId[p] # 0 => served[p] # None
        BY <3>1 DEF Owned, IdsOK
      <3> QED  BY <1>1, <3>1, <3>2, <3>3, CqesAppend DEF opVars, lockVars
    <2>2. CASE \E res \in Results : cq' = Append(cq, [id |-> 0, res |-> res])
      <3>1. PICK res \in Results : cq' = Append(cq, [id |-> 0, res |-> res])
        BY <2>2
      <3>2. [id |-> 0, res |-> res] \in Cqe /\ 0 <= nextID
        BY IdAssumption DEF TypeInv, TypeOK, LockTypes, Cqe
      <3> QED  BY <1>1, <3>1, <3>2, CqesAppend DEF opVars, lockVars
    <2> QED  BY <2>1, <2>2 DEF KernelSpurious
  <1> QED
    BY <1>1, <1>2, OwnedFrame DEF Owned, readVars, opVars, lockVars, chanVars, subVars, compVars

LEMMA OwnedCompFinish ==
  ASSUME TypeInv, Owned, CompFinish
  PROVE  Owned'
  <1> DEFINE id == NextCqe.id  op == ops[id]
  <1>1. UNCHANGED <<readVars, opId, pinned, done, nextID, chanVars, subVars, kernVars>>
    BY DEF CompFinish
  <1>2. CASE cpc' # "deliver"
    <2>1. UNCHANGED <<ops, opState, cur>>
      BY <1>2 DEF CompFinish
    <2> QED
      BY <1>1, <2>1, OwnedFrame DEF Owned, readVars, opVars, chanVars, subVars, kernVars
  <1>3. CASE cpc' = "deliver"
    <2>1. /\ cpc = "finish" /\ id \in Ids /\ op # None /\ opState[op] = "published"
          /\ ops' = [ops EXCEPT ![id] = None]
          /\ opState' = [opState EXCEPT ![op] = "terminal"]
          /\ cur' = [op |-> op, res |-> NextCqe.res]
      BY <1>3 DEF CompFinish, Known
    <2>2. op \in Reads /\ opId[op] = id /\ id # 0
      BY <2>1 DEF TypeInv, TypeOK, LockTypes, Owned, IdsOK, Ids
    <2>3. served[op] # None
      <3>1. reaped + 1 \in 1 .. Len(cq) /\ id = cq[reaped + 1].id
        BY <2>1, NextCqeType DEF NextCqe
      <3> QED  BY <2>2, <3>1 DEF Owned, CqesOK
    <2> HIDE DEF id, op
    <2>4. op \notin ToPublish /\ op \notin InRing
      BY <2>3 DEF Owned, QueuesOK, RingOK, Held
    <2>5. /\ \A p \in Reads : opState'[p] = IF p = op THEN "terminal" ELSE opState[p]
          /\ \A i \in Ids : ops'[i] = IF i = id THEN None ELSE ops[i]
      BY <2>1 DEF TypeInv, TypeOK, OpTypes, LockTypes
    <2>6. CallsOK'
      BY <1>1, <2>1, <2>2, <2>5 DEF Owned, CallsOK, readVars, kernVars
    <2>7. CurOK'
      BY <2>1, <2>2, <2>5 DEF CurOK
    <2>8. IdsOK'
      BY <1>1, <2>5 DEF Owned, IdsOK
    <2>9. RingOK' /\ QueuesOK'
      <3>1. \A i \in Ids : ops[i] # None /\ ops[i] # op => ops'[i] = ops[i]
        BY <2>5 DEF op
      <3> QED
        BY <1>1, <2>2, <2>4, <2>5, <3>1, Bystander DEF readVars, chanVars, subVars, kernVars
    <2> QED
      BY <1>1, <2>6, <2>7, <2>8, <2>9, OwnedFrame DEF Owned, kernVars
  <1> QED  BY <1>2, <1>3

LEMMA OwnedCompDeliver ==
  ASSUME TypeInv, Owned, CompDeliver
  PROVE  Owned'
  <1> DEFINE op == cur.op
  <1>1. /\ pinned' = [pinned EXCEPT ![op] = FALSE]
        /\ opState' = [opState EXCEPT ![op] = "released"]
        /\ done' = [done EXCEPT ![op] = Outcome[cur.res]]
        /\ cur' = None
        /\ UNCHANGED <<readVars, opId, lockVars, chanVars, subVars, kernVars>>
    BY DEF CompDeliver
  <1>2. op \in Reads /\ opState[op] = "terminal"
    BY DEF TypeInv, TypeOK, CompTypes, LoopsOK, CompDeliver, Owned, CurOK
  <1> HIDE DEF op
  <1>3. /\ \A p \in Reads : opState'[p] = IF p = op THEN "released" ELSE opState[p]
        /\ \A p \in Reads : pinned'[p] = IF p = op THEN FALSE ELSE pinned[p]
        /\ \A p \in Reads : p # op => done'[p] = done[p]
    BY <1>1 DEF TypeInv, TypeOK, OpTypes
  <1>4. CallsOK'
    BY <1>1, <1>2, <1>3 DEF Owned, CallsOK, readVars, kernVars
  <1>5. RingOK' /\ QueuesOK'
    <2>1. op \notin ToPublish /\ op \notin InRing
      BY <1>2 DEF Owned, QueuesOK, RingOK
    <2> QED
      BY <1>1, <1>2, <1>3, <2>1, Bystander DEF readVars, lockVars, chanVars, subVars, kernVars
  <1>6. CurOK'
    BY <1>1 DEF CurOK
  <1> QED
    BY <1>1, <1>4, <1>5, <1>6, OwnedFrame DEF Owned, lockVars, kernVars

LEMMA OwnedCompStoreHead ==
  ASSUME TypeInv, Owned, CompStoreHead
  PROVE  Owned'
  <1>1. /\ cq' = SubSeq(cq, limit + 1, Len(cq))
        /\ UNCHANGED <<cur, readVars, opVars, lockVars, chanVars, subVars, sq, inflight, served>>
    BY DEF CompStoreHead, Undrained
  <1>2. limit \in 0 .. Len(cq) /\ cq \in Seq(Cqe) /\ Len(cq) \in Nat
    BY LenProperties DEF TypeInv, TypeOK, KernTypes, CompTypes, LoopsOK
  <1>3. \A i \in 1 .. Len(cq') : i + limit \in 1 .. Len(cq) /\ cq'[i] = cq[i + limit]
    <2>1. Len(cq') = Len(cq) - limit /\ \A i \in 1 .. Len(cq') : cq'[i] = cq[i + limit]
      BY <1>1, <1>2, SplitFacts
    <2> QED  BY <1>2, <2>1
  <1>4. CqesOK'
    BY <1>1, <1>3 DEF Owned, CqesOK, opVars, lockVars
  <1> QED
    BY <1>1, <1>4, OwnedFrame DEF Owned, readVars, opVars, lockVars, chanVars, subVars

-----------------------------------------------------------------------------
(* The theorem. *)

\* The invariant holds initially.
LEMMA OwnershipInit == Init => OwnershipInv
  <1> SUFFICES ASSUME Init PROVE OwnershipInv
    OBVIOUS
  <1>1. ResultsOK
    BY DEF Init, ResultsOK
  <1>2. CallsOK /\ CurOK
    BY DEF Init, CallsOK, CurOK
  <1>3. IdsOK /\ CqesOK
    BY DEF Init, IdsOK, CqesOK
  <1>4. ToPublish = {} /\ InRing = {}
    BY DEF Init, ToPublish, InRing, Range
  <1>5. IsInjective(<<>>)
    BY DEF IsInjective
  <1>6. QueuesOK /\ RingOK
    BY <1>4, <1>5 DEF Init, QueuesOK, RingOK, ToPublish, InRing
  <1> QED
    BY <1>1, <1>2, <1>3, <1>6, TypeInit DEF OwnershipInv, Owned

\* A result is given once, when the call returns, and stays.
LEMMA ResultsStep ==
  TypeInv /\ ResultsOK /\ [Next]_vars => ResultsOK' /\ (NoOverflow' => NoOverflow)
  <1> DEFINE Kept == ResultsOK' /\ (NoOverflow' => NoOverflow)
  <1>1. ASSUME ResultsOK, UNCHANGED readVars PROVE Kept
    BY <1>1 DEF ResultsOK, NoOverflow, readVars
  <1>2. ASSUME TypeInv, ResultsOK, NEW o \in Reads, ReadAt(o) PROVE Kept
    <2>1. rpc[o] # "returned"
      BY <1>2 DEF ReadAt, ReadSkip, ReadPin, ReadRefused, ReadAdmit, ReadSend, ReadReturn
    <2>2. \A p \in Reads \ {o} : ret'[p] = ret[p] /\ rpc'[p] = rpc[p]
      BY <1>2 DEF TypeInv, TypeOK, ReadTypes, ReadAt, ReadSkip, ReadPin, ReadRefused,
                  ReadAdmit, ReadSend, ReadReturn
    <2>3. ret'[o] = ret[o] \/ rpc'[o] = "returned"
      BY <1>2 DEF TypeInv, TypeOK, ReadTypes, ReadAt, ReadSkip, ReadPin, ReadRefused,
                  ReadAdmit, ReadSend, ReadReturn
    <2>4. ret[o] = None
      BY <1>2, <2>1 DEF ResultsOK
    <2>5. ResultsOK'
      BY <1>2, <2>2, <2>3, <2>4 DEF ResultsOK
    <2>6. NoOverflow' => NoOverflow
      BY <2>2, <2>4, NoneAssumption DEF NoOverflow, Refusals
    <2> QED  BY <2>5, <2>6
  <1>3. ASSUME NEW c \in Closers, Close(c) PROVE UNCHANGED readVars
    BY <1>3 DEF Close, CloseBegin, CloseDecide, CloseStop, CloseJoin
  <1>4. ASSUME Submitter PROVE UNCHANGED readVars
    BY <1>4 DEF Submitter, SubReceive, SubStop, SubGather, SubPublish, SubStoreTail, SubEnter,
                SubEnterFails, SubAccount, SubNotify
  <1>5. ASSUME Completer PROVE UNCHANGED readVars
    BY <1>5 DEF Completer, CompReap, CompFinish, CompUnknown, CompDeliver, CompStoreHead,
                CompCheck, CompIdle, CompWait
  <1>6. ASSUME KernelSpurious \/ \E o \in Reads : KernelComplete(o) PROVE UNCHANGED readVars
    BY <1>6 DEF KernelSpurious, KernelComplete
  <1> QED
    BY <1>1, <1>2, <1>3, <1>4, <1>5, <1>6 DEF Next, Finished, vars

\* Every step without an overflow keeps the buffers owned.
LEMMA OwnedStep == TypeInv /\ Owned /\ NoOverflow' /\ [Next]_vars => Owned'
  <1>1. ASSUME TypeInv, Owned, NoOverflow', NEW o \in Reads, ReadAt(o) PROVE Owned'
    BY <1>1, OwnedReadSkip, OwnedReadPin, OwnedReadRefused, OwnedReadAdmit, OwnedReadSend,
       OwnedReadReturn DEF ReadAt
  <1> DEFINE Frame == UNCHANGED <<readVars, opVars, ops, nextID, submitCh, pending, batch, cur, kernVars>>
  <1>2. ASSUME Owned, Frame PROVE Owned'
    BY <1>2, OwnedFrame DEF Owned, readVars, opVars, kernVars
  <1>3. ASSUME NEW c \in Closers, Close(c) PROVE Frame
    BY <1>3 DEF Close, CloseBegin, CloseDecide, CloseStop, CloseJoin, lockVars, chanVars, subVars,
                compVars
  <1>4. ASSUME SubStop \/ SubEnterFails \/ SubAccount \/ SubNotify PROVE Frame
    BY <1>4 DEF SubStop, SubEnterFails, SubAccount, SubNotify, lockVars, chanVars, compVars
  <1>5. ASSUME CompReap \/ CompUnknown \/ CompCheck \/ CompIdle \/ CompWait PROVE Frame
    BY <1>5 DEF CompReap, CompUnknown, CompCheck, CompIdle, CompWait, lockVars, chanVars, subVars
  <1>6. ASSUME UNCHANGED vars PROVE Frame
    BY <1>6 DEF vars, lockVars, chanVars, subVars, compVars
  <1>7. ASSUME TypeInv, Owned, Submitter PROVE Owned'
    BY <1>2, <1>4, <1>7, OwnedSubReceive, OwnedSubGather, OwnedSubPublish, OwnedSubStoreTail,
       OwnedSubEnter DEF Submitter
  <1>8. ASSUME TypeInv, Owned, Completer PROVE Owned'
    BY <1>2, <1>5, <1>8, OwnedCompFinish, OwnedCompDeliver, OwnedCompStoreHead DEF Completer
  <1> QED
    BY <1>1, <1>2, <1>3, <1>6, <1>7, <1>8, OwnedKernelComplete, OwnedKernelSpurious
    DEF Next, Finished

\* Until 2^64 - 1 operations have been admitted, the kernel only writes to
\* pinned buffers of reads that the table holds and whose caller waits.
THEOREM BuffersStayPinned == Spec => [](NoOverflow => KernelBuffersStayPinned)
  <1>1. Init => OwnershipInv
    BY OwnershipInit
  <1>2. OwnershipInv /\ [Next]_vars => OwnershipInv'
    BY TypeStep, LoopsStep, ResultsStep, OwnedStep DEF OwnershipInv, TypeInv
  <1>3. OwnershipInv => (NoOverflow => KernelBuffersStayPinned)
    BY DEF OwnershipInv, Owned, RingOK, InRing, Held, Filed, KernelBuffersStayPinned, KernelOwned
  <1> QED  BY <1>1, <1>2, <1>3, PTL DEF Spec

-----------------------------------------------------------------------------
(* The submitter: a batch is consumed whole before the next is looked for.   *)

\* What submitLoop holds between its steps, and what it has left in the SQ.
SubmitterOK ==
  /\ spc \in {"idle", "exited"} => pending = <<>>
  /\ spc = "gather" => pending # <<>>
  /\ spc \in {"idle", "gather", "store", "notify", "exited"} => sq = <<>>
  /\ spc = "store" => batch # <<>>
  /\ spc = "enter" => Len(sq) = remaining /\ remaining > 0
  /\ spc = "account" => Len(sq) + taken = remaining
  /\ spc # "space"

\* With something pending and an empty SQ there is a batch.
LEMMA BatchNotEmpty ==
  ASSUME TypeInv, SubmitterOK, spc = "gather"
  PROVE  BatchSize > 0 /\ SubSeq(pending, 1, BatchSize) # <<>>
  <1>1. pending \in Seq(Reads) /\ pending # <<>> /\ sq = <<>>
    BY DEF TypeInv, TypeOK, SubTypes, SubmitterOK
  <1>2. Len(pending) \in Nat /\ Len(pending) > 0 /\ Len(sq) = 0
    BY <1>1, EmptySeq, LenProperties
  <1>3. BatchSize > 0
    BY <1>2, SizesAssumption DEF BatchSize
  <1>4. Len(SubSeq(pending, 1, BatchSize)) = BatchSize
    BY <1>1, BatchSizeType, SplitFacts
  <1>5. BatchSize # 0 /\ Len(<<>>) = 0
    BY <1>3
  <1> QED  BY <1>3, <1>4, <1>5

\* Every step keeps it: the kernel consumes what is left before the loop goes on.
LEMMA SubmitterStep == TypeInv /\ SubmitterOK /\ [Next]_vars => SubmitterOK'
  <1> SUFFICES ASSUME TypeInv, SubmitterOK, [Next]_vars PROVE SubmitterOK'
    OBVIOUS
  <1>1. ASSUME UNCHANGED <<subVars, sq>> PROVE SubmitterOK'
    BY <1>1 DEF SubmitterOK, subVars
  <1>2. CASE SubReceive
    BY <1>2 DEF SubReceive, SubmitterOK, kernVars
  <1>3. CASE SubStop
    BY <1>3 DEF SubStop, AfterStop, SubmitterOK, kernVars
  <1>4. CASE SubGather
    <2>1. Append(pending, Head(submitCh)) # <<>>
      BY <1>4, DequeueFacts, AppendFacts, LenProperties, EmptySeq
      DEF SubGather, TypeInv, TypeOK, SubTypes, ChanTypes
    <2> QED  BY <1>4, <2>1 DEF SubGather, SubmitterOK, kernVars
  <1>5. CASE SubPublish
    <2>1. spc = "gather" /\ sq' = sq /\ spc' \in {"store", "panic"}
      BY <1>5, BatchNotEmpty DEF SubPublish, kernVars
    <2>2. spc' = "store" => batch' # <<>>
      BY <1>5, BatchNotEmpty DEF SubPublish
    <2> QED  BY <2>1, <2>2 DEF SubmitterOK
  <1>6. CASE SubStoreTail
    <2>1. batch \in Seq(Reads) /\ batch # <<>> /\ sq = <<>> /\ sq' = sq \o batch
          /\ remaining' = Len(batch) /\ spc' = "enter"
      BY <1>6 DEF SubStoreTail, SubmitterOK, TypeInv, TypeOK, SubTypes
    <2>2. Len(sq') = Len(batch) /\ Len(batch) > 0
      BY <2>1, ConcatFacts, EmptySeq, LenProperties
    <2> QED  BY <2>1, <2>2 DEF SubmitterOK
  <1>7. CASE SubEnter
    <2>1. PICK k \in 1 .. Len(sq) : k <= remaining /\ sq' = SubSeq(sq, k + 1, Len(sq)) /\ taken' = k
      BY <1>7 DEF SubEnter
    <2>2. sq \in Seq(Reads) /\ Len(sq) \in Nat
      BY LenProperties DEF TypeInv, TypeOK, KernTypes
    <2>3. Len(sq') = Len(sq) - k
      BY <2>1, <2>2, SplitFacts
    <2>4. spc' = "account" /\ remaining' = remaining /\ Len(sq) = remaining
      BY <1>7 DEF SubEnter, SubmitterOK
    <2> QED  BY <2>1, <2>2, <2>3, <2>4 DEF SubmitterOK
  <1>8. CASE SubEnterFails
    BY <1>8 DEF SubEnterFails, SubmitterOK
  <1>9. CASE SubAccount
    <2>1. sq \in Seq(Reads) /\ Len(sq) \in Nat /\ taken \in Nat /\ remaining \in Nat
      BY LenProperties DEF TypeInv, TypeOK, KernTypes, SubTypes
    <2>2. Len(sq) + taken = remaining /\ remaining' = remaining - taken /\ sq' = sq
          /\ spc' = IF taken = remaining THEN "notify" ELSE "enter"
      BY <1>9 DEF SubAccount, EnterDone, SubmitterOK, kernVars
    <2>3. taken = remaining => sq = <<>>
      BY <2>1, <2>2, EmptySeq
    <2> QED  BY <2>1, <2>2, <2>3 DEF SubmitterOK
  <1>10. CASE SubNotify
    BY <1>10 DEF SubNotify, SubmitterOK, kernVars
  <1>11. CASE \E o \in Reads : ReadAt(o) \/ KernelComplete(o)
    BY <1>1, <1>11 DEF ReadAt, ReadSkip, ReadPin, ReadRefused, ReadAdmit, ReadSend, ReadReturn,
                       KernelComplete, kernVars
  <1>12. CASE \E c \in Closers : Close(c)
    BY <1>1, <1>12 DEF Close, CloseBegin, CloseDecide, CloseStop, CloseJoin, kernVars
  <1>13. CASE Completer
    BY <1>1, <1>13 DEF Completer, CompReap, CompFinish, CompUnknown, CompDeliver, CompStoreHead,
                       CompCheck, CompIdle, CompWait, kernVars
  <1>14. CASE KernelSpurious \/ UNCHANGED vars
    BY <1>1, <1>14 DEF KernelSpurious, vars, kernVars
  <1> QED
    BY <1>2, <1>3, <1>4, <1>5, <1>6, <1>7, <1>8, <1>9, <1>10, <1>11, <1>12, <1>13, <1>14
    DEF Next, Submitter, Finished

-----------------------------------------------------------------------------
(* The life of an operation: where its caller is, who will unpin its buffer  *)
(* and where it is queued, in each state.                                    *)

InTable(o) == opId[o] \in Ids /\ ops[opId[o]] = o

Life(o) ==
  /\ opState[o] = "none" => rpc[o] \in {"start", "returned"}
  /\ opState[o] = "pinnedLocal" => rpc[o] = "admit"
  /\ opState[o] = "queued" =>
       InTable(o) /\ (rpc[o] = "send" \/ (rpc[o] = "wait" /\ o \in ToPublish))
  /\ opState[o] = "published" =>
       InTable(o) /\ rpc[o] = "wait" /\ (o \in InRing \/ served[o] # None)
  /\ opState[o] = "terminal" => rpc[o] = "wait" /\ cur # None /\ cur.op = o
  /\ opState[o] \in {"none", "released"} => ~pinned[o]
  /\ served[o] # None => opState[o] \in {"published", "terminal", "released"}

\* The table holds the queued and the published, and no others.
LifeOK ==
  /\ \A o \in Reads : Life(o)
  /\ \A i \in Ids : ops[i] # None => opState[ops[i]] \in {"queued", "published"}

\* The step of one operation leaves the others where they are.
LEMMA OthersLiveOn ==
  ASSUME LifeOK, NEW o \in Reads,
         \A p \in Reads \ {o} :
           /\ rpc'[p] = rpc[p] /\ opState'[p] = opState[p] /\ opId'[p] = opId[p]
           /\ pinned'[p] = pinned[p] /\ served'[p] = served[p],
         \A i \in Ids : ops[i] # None /\ ops[i] # o => ops'[i] = ops[i],
         ToPublish \ {o} \subseteq ToPublish', InRing \ {o} \subseteq InRing',
         cur' = cur \/ cur = None \/ cur.op = o
  PROVE  \A p \in Reads \ {o} : Life(p)'
  BY NoneAssumption DEF LifeOK, Life, InTable

\* What changes no operation, and loses none on its way, keeps their lives.
LEMMA LifeFrame ==
  ASSUME LifeOK, UNCHANGED <<rpc, opState, opId, pinned, ops, cur, served>>,
         ToPublish \subseteq ToPublish', InRing \subseteq InRing'
  PROVE  LifeOK'
  BY DEF LifeOK, Life, InTable

\* A step of a call.
LEMMA LifeReadAt ==
  ASSUME TypeInv, Owned, LifeOK, NEW o \in Reads, ReadAt(o)
  PROVE  LifeOK'
  <1>1. UNCHANGED <<cur, served, batch, sq, inflight, pending>> /\ InRing' = InRing
    BY DEF ReadAt, ReadSkip, ReadPin, ReadRefused, ReadAdmit, ReadSend, ReadReturn, subVars,
           compVars, kernVars, InRing
  <1> DEFINE Others == \A p \in Reads \ {o} :
                         /\ rpc'[p] = rpc[p] /\ opState'[p] = opState[p] /\ opId'[p] = opId[p]
                         /\ pinned'[p] = pinned[p]
             NotFiled == \A i \in Ids : ops[i] # o
  <1>2. Others
    BY DEF TypeInv, TypeOK, ReadTypes, OpTypes, ReadAt, ReadSkip, ReadPin, ReadRefused, ReadAdmit,
           ReadSend, ReadReturn, opVars
  <1>3. rpc[o] \in {"start", "admit"} => NotFiled
    <2>1. o # None
      BY NoneAssumption
    <2> QED  BY <2>1 DEF Owned, CallsOK, LifeOK
  <1>4. ASSUME UNCHANGED <<ops, submitCh>>, NotFiled, Life(o)' PROVE LifeOK'
    <2>1. ToPublish' = ToPublish
      BY <1>1, <1>4 DEF ToPublish
    <2>2. \A p \in Reads \ {o} : Life(p)'
      BY <1>1, <1>2, <1>4, <2>1, OthersLiveOn
    <2>3. \A i \in Ids : ops'[i] # None => ops'[i] \in Reads \ {o}
      BY <1>4 DEF TypeInv, TypeOK, LockTypes
    <2> QED  BY <1>2, <1>4, <2>2, <2>3 DEF LifeOK
  <1>5. CASE ReadSkip(o)
    <2>1. /\ rpc[o] = "start" /\ rpc'[o] = "returned"
          /\ UNCHANGED <<opState, opId, pinned, ops, submitCh>>
      BY <1>5 DEF ReadSkip, TypeInv, TypeOK, ReadTypes, opVars, lockVars, chanVars
    <2>2. opState[o] = "none" /\ served[o] = None
      BY <2>1 DEF Owned, CallsOK, LifeOK, Life
    <2>3. Life(o)'
      BY <1>1, <2>1, <2>2 DEF LifeOK, Life
    <2> QED  BY <1>3, <1>4, <2>1, <2>3
  <1>6. CASE ReadPin(o)
    <2>1. /\ rpc[o] = "start" /\ rpc'[o] = "admit" /\ opState'[o] = "pinnedLocal"
          /\ UNCHANGED <<ops, submitCh>>
      BY <1>6 DEF ReadPin, TypeInv, TypeOK, ReadTypes, OpTypes, lockVars, chanVars
    <2>2. served[o] = None
      BY <2>1 DEF Owned, CallsOK
    <2>3. Life(o)'
      BY <1>1, <2>1, <2>2 DEF Life
    <2> QED  BY <1>3, <1>4, <2>1, <2>3
  <1>7. CASE ReadRefused(o)
    <2>1. /\ rpc[o] = "admit" /\ opState'[o] = "released" /\ pinned'[o] = FALSE
          /\ UNCHANGED <<ops, submitCh>>
      BY <1>7 DEF ReadRefused, TypeInv, TypeOK, ReadTypes, OpTypes, chanVars
    <2>2. Life(o)'
      BY <2>1 DEF Life
    <2> QED  BY <1>3, <1>4, <2>1, <2>2
  <1>8. CASE ReadAdmit(o)
    <2>1. /\ rpc[o] = "admit" /\ rpc'[o] = "send" /\ opState'[o] = "queued"
          /\ NewID # 0 /\ opId'[o] = NewID /\ ops' = [ops EXCEPT ![NewID] = o]
          /\ UNCHANGED submitCh
      BY <1>8 DEF ReadAdmit, TypeInv, TypeOK, ReadTypes, OpTypes, chanVars
    <2>2. NewID \in Ids /\ ops[NewID] = None
      BY <2>1, NewIDIsFresh
    <2>3. ops'[NewID] = o /\ \A i \in Ids \ {NewID} : ops'[i] = ops[i]
      BY <2>1, <2>2 DEF TypeInv, TypeOK, LockTypes
    <2>4. ToPublish' = ToPublish
      BY <1>1, <2>1 DEF ToPublish
    <2>5. \A i \in Ids : ops[i] # None => ops'[i] = ops[i]
      BY <2>2, <2>3
    <2>6. \A p \in Reads \ {o} : Life(p)'
      BY <1>1, <1>2, <2>4, <2>5, OthersLiveOn
    <2>7. served[o] = None
      BY <2>1 DEF Owned, CallsOK
    <2>8. Life(o)'
      BY <1>1, <2>1, <2>2, <2>3, <2>7 DEF Life, InTable
    <2>9. \A i \in Ids \ {NewID} : ops'[i] # None => ops'[i] \in Reads \ {o}
      BY <1>3, <2>1, <2>3 DEF TypeInv, TypeOK, LockTypes
    <2>10. \A i \in Ids : ops'[i] # None => opState'[ops'[i]] \in {"queued", "published"}
      BY <1>2, <2>1, <2>3, <2>9 DEF LifeOK
    <2> QED  BY <2>6, <2>8, <2>10 DEF LifeOK
  <1>9. CASE ReadSend(o)
    <2>1. /\ rpc[o] = "send" /\ rpc'[o] = "wait" /\ submitCh' = Append(submitCh, o)
          /\ UNCHANGED <<opState, opId, pinned, ops>>
      BY <1>9 DEF ReadSend, TypeInv, TypeOK, ReadTypes, opVars, lockVars
    <2>2. ToPublish' = ToPublish \cup {o}
      BY <1>1, <2>1, PlacesType, AppendFacts DEF ToPublish
    <2>3. \A p \in Reads \ {o} : Life(p)'
      BY <1>1, <1>2, <2>1, <2>2, OthersLiveOn
    <2>4. opState[o] = "queued" /\ served[o] = None
      BY <2>1 DEF Owned, CallsOK
    <2>5. Life(o)'
      BY <1>1, <2>1, <2>2, <2>4 DEF LifeOK, Life, InTable
    <2> QED  BY <2>1, <2>3, <2>5 DEF LifeOK
  <1>10. CASE ReadReturn(o)
    <2>1. /\ rpc[o] = "wait" /\ rpc'[o] = "returned" /\ done[o] # None
          /\ UNCHANGED <<opState, opId, pinned, ops, submitCh>>
      BY <1>10 DEF ReadReturn, Completed, TypeInv, TypeOK, ReadTypes, lockVars, chanVars
    <2>2. opState[o] = "released"
      BY <2>1 DEF Owned, CallsOK
    <2>3. Life(o)'
      BY <1>1, <2>1, <2>2 DEF LifeOK, Life
    <2>4. NotFiled
      BY <2>2, NoneAssumption DEF LifeOK
    <2> QED  BY <1>4, <2>1, <2>3, <2>4
  <1> QED
    BY <1>5, <1>6, <1>7, <1>8, <1>9, <1>10 DEF ReadAt

\* The kernel answers.
LEMMA LifeKernelComplete ==
  ASSUME TypeInv, Owned, LifeOK, NEW o \in Reads, KernelComplete(o)
  PROVE  LifeOK'
  <1>1. PICK res \in Results :
           /\ o \in inflight /\ inflight' = inflight \ {o}
           /\ served' = [served EXCEPT ![o] = res]
           /\ UNCHANGED <<sq, readVars, opVars, lockVars, chanVars, subVars, compVars>>
    BY DEF KernelComplete
  <1>2. /\ res # None /\ served'[o] = res /\ \A p \in Reads \ {o} : served'[p] = served[p]
        /\ opState[o] = "published"
    BY <1>1, NoneAssumption DEF TypeInv, TypeOK, KernTypes, Owned, RingOK, InRing
  <1>3. ToPublish' = ToPublish /\ InRing \ {o} \subseteq InRing'
    BY <1>1 DEF ToPublish, InRing, chanVars, subVars
  <1>4. \A p \in Reads \ {o} : Life(p)'
    BY <1>1, <1>2, <1>3, OthersLiveOn DEF readVars, opVars, lockVars, compVars
  <1>5. Life(o)'
    BY <1>1, <1>2 DEF LifeOK, Life, InTable, readVars, opVars, lockVars
  <1> QED
    BY <1>1, <1>4, <1>5 DEF LifeOK, opVars, lockVars

\* A batch is published.
LEMMA LifeSubPublish ==
  ASSUME TypeInv, Owned, LifeOK, SubPublish
  PROVE  LifeOK'
  <1> DEFINE head == SubSeq(pending, 1, BatchSize)
             rest == SubSeq(pending, BatchSize + 1, Len(pending))
  <1>1. /\ spc = "gather" /\ batch = <<>>
        /\ UNCHANGED <<readVars, opId, pinned, done, ops, nextID, chanVars, compVars, kernVars>>
    BY DEF SubPublish, TypeInv, LoopsOK
  <1>2. CASE spc' # "store"
    <2>1. UNCHANGED <<batch, pending, opState>>
      BY <1>2 DEF SubPublish
    <2> QED
      BY <1>1, <2>1, LifeFrame DEF ToPublish, InRing, readVars, chanVars, compVars, kernVars
  <1>3. CASE spc' = "store"
    <2>1. /\ batch' = head /\ pending' = rest
          /\ opState' = [o \in Reads |-> IF o \in Range(head) THEN "published" ELSE opState[o]]
      BY <1>3 DEF SubPublish
    <2>2. Range(pending) = Range(head) \cup Range(rest)
      BY BatchSizeType, PlacesType, SplitFacts
    <2> HIDE DEF head, rest
    <2>3. ToPublish' = Range(submitCh) \cup Range(rest) /\ InRing' = Range(head) \cup InRing
      BY <1>1, <2>1 DEF ToPublish, InRing, chanVars, kernVars, Range
    <2>4. ASSUME NEW p \in Reads, p \in Range(head) PROVE Life(p)'
      <3>1. p \in ToPublish /\ opState'[p] = "published" /\ p \in InRing'
        BY <2>1, <2>2, <2>3, <2>4 DEF ToPublish
      <3>2. opState[p] = "queued" /\ rpc[p] = "wait"
        BY <3>1 DEF Owned, QueuesOK, Held
      <3>3. InTable(p)
        BY <3>2 DEF LifeOK, Life
      <3> QED  BY <1>1, <3>1, <3>2, <3>3 DEF Life, InTable, readVars
    <2>5. ASSUME NEW p \in Reads, p \notin Range(head) PROVE Life(p)'
      <3>1. opState'[p] = opState[p] /\ (p \in ToPublish => p \in ToPublish') /\ (p \in InRing => p \in InRing')
        BY <2>1, <2>2, <2>3, <2>5 DEF ToPublish
      <3>2. Life(p)
        BY DEF LifeOK
      <3> QED  BY <1>1, <3>1, <3>2 DEF Life, InTable, readVars, kernVars, compVars
    <2>6. \A i \in Ids : ops'[i] # None => opState'[ops'[i]] \in {"queued", "published"}
      BY <1>1, <2>1 DEF LifeOK, TypeInv, TypeOK, LockTypes
    <2> QED  BY <2>4, <2>5, <2>6 DEF LifeOK
  <1> QED  BY <1>2, <1>3

\* The submitter's other steps move operations on their way, and lose none.
LEMMA LifeSubmitter ==
  ASSUME TypeInv, Owned, SubmitterOK, LifeOK, Submitter
  PROVE  LifeOK'
  <1>1. ~SubPublish => UNCHANGED <<rpc, opState, opId, pinned, ops, cur, served>>
    BY DEF Submitter, SubReceive, SubStop, SubGather, SubStoreTail, SubEnter, SubEnterFails,
           SubAccount, SubNotify, readVars, opVars, lockVars, compVars, kernVars
  <1>2. CASE SubReceive
    <2>1. /\ submitCh # <<>> /\ pending' = <<Head(submitCh)>> /\ submitCh' = Tail(submitCh)
          /\ pending = <<>> /\ UNCHANGED <<batch, kernVars>>
      BY <1>2 DEF SubReceive, SubmitterOK
    <2>2. Range(submitCh) = {Head(submitCh)} \cup Range(submitCh') /\ Head(submitCh) \in Reads
      BY <2>1, PlacesType, DequeueFacts
    <2>3. Range(pending) = {} /\ Range(pending') = {Head(submitCh)}
      <3>1. pending' \in Seq(Reads) /\ Len(pending') = 1 /\ pending'[1] = Head(submitCh)
        BY <2>1, <2>2
      <3> QED  BY <2>1, <3>1, ByIndex DEF Range
    <2>4. ToPublish' = ToPublish /\ InRing' = InRing
      BY <2>1, <2>2, <2>3 DEF ToPublish, InRing, kernVars
    <2> QED  BY <1>1, <1>2, <2>4, LifeFrame DEF SubReceive, SubPublish
  <1>3. CASE SubGather
    <2>1. /\ submitCh # <<>> /\ pending' = Append(pending, Head(submitCh))
          /\ submitCh' = Tail(submitCh) /\ UNCHANGED <<batch, kernVars>> /\ spc' = spc
      BY <1>3 DEF SubGather
    <2>2. Range(submitCh) = {Head(submitCh)} \cup Range(submitCh') /\ Head(submitCh) \in Reads
      BY <2>1, PlacesType, DequeueFacts
    <2>3. Range(pending') = Range(pending) \cup {Head(submitCh)}
      BY <2>1, <2>2, PlacesType, AppendFacts
    <2>4. ToPublish' = ToPublish /\ InRing' = InRing
      BY <2>1, <2>2, <2>3 DEF ToPublish, InRing, kernVars
    <2>5. UNCHANGED <<rpc, opState, opId, pinned, ops, cur, served>>
      BY <1>3 DEF SubGather, readVars, opVars, lockVars, compVars, kernVars
    <2> QED  BY <2>4, <2>5, LifeFrame
  <1>4. CASE SubPublish
    BY <1>4, LifeSubPublish
  <1>5. CASE SubStoreTail
    <2>1. /\ sq' = sq \o batch /\ batch' = <<>> /\ UNCHANGED <<inflight, submitCh, pending>>
      BY <1>5 DEF SubStoreTail, chanVars
    <2>2. Range(sq') = Range(sq) \cup Range(batch) /\ Range(batch') = {}
      <3>1. Range(<<>>) = {}
        BY DEF Range
      <3> QED  BY <2>1, <3>1, PlacesType, ConcatFacts
    <2>3. ToPublish' = ToPublish /\ InRing' = InRing
      BY <2>1, <2>2 DEF ToPublish, InRing
    <2>4. UNCHANGED <<rpc, opState, opId, pinned, ops, cur, served>>
      BY <1>5 DEF SubStoreTail, readVars, opVars, lockVars, compVars
    <2> QED  BY <2>3, <2>4, LifeFrame
  <1>6. CASE SubEnter
    <2>1. PICK k \in 1 .. Len(sq) :
             /\ inflight' = inflight \cup Range(SubSeq(sq, 1, k))
             /\ sq' = SubSeq(sq, k + 1, Len(sq))
      BY <1>6 DEF SubEnter
    <2>2. k \in 0 .. Len(sq)
      BY <2>1
    <2>3. Range(sq) = Range(SubSeq(sq, 1, k)) \cup Range(sq')
      BY <2>1, <2>2, PlacesType, SplitFacts
    <2>4. UNCHANGED <<batch, submitCh, pending>>
      BY <1>6 DEF SubEnter, chanVars
    <2>5. ToPublish' = ToPublish /\ InRing' = InRing
      BY <2>1, <2>3, <2>4 DEF ToPublish, InRing
    <2>6. UNCHANGED <<rpc, opState, opId, pinned, ops, cur, served>>
      BY <1>6 DEF SubEnter, readVars, opVars, lockVars, compVars
    <2> QED  BY <2>5, <2>6, LifeFrame
  <1>7. CASE SubStop \/ SubEnterFails \/ SubAccount \/ SubNotify
    <2>1. UNCHANGED <<submitCh, pending, batch, sq, inflight, rpc, opState, opId, pinned, ops, cur, served>>
      BY <1>7 DEF SubStop, SubEnterFails, SubAccount, SubNotify, readVars, opVars, lockVars,
                  chanVars, compVars, kernVars
    <2> QED  BY <2>1, LifeFrame DEF ToPublish, InRing
  <1> QED
    BY <1>2, <1>3, <1>4, <1>5, <1>6, <1>7 DEF Submitter

\* The completer takes an operation out of the table, then releases it.
LEMMA LifeCompleter ==
  ASSUME TypeInv, Owned, LifeOK, Completer
  PROVE  LifeOK'
  <1>1. ToPublish' = ToPublish /\ InRing' = InRing /\ UNCHANGED <<rpc, opId, served>>
    BY DEF Completer, CompReap, CompFinish, CompUnknown, CompDeliver, CompStoreHead, CompCheck,
           CompIdle, CompWait, ToPublish, InRing, readVars, opVars, chanVars, subVars, kernVars
  <1>2. CASE CompFinish /\ cpc' = "deliver"
    <2>1. PICK id \in Ids, op \in Reads :
            /\ id = NextCqe.id /\ op = ops[id] /\ cpc = "finish" /\ opState[op] = "published"
            /\ ops' = [ops EXCEPT ![id] = None]
            /\ opState' = [opState EXCEPT ![op] = "terminal"]
            /\ cur' = [op |-> op, res |-> NextCqe.res] /\ pinned' = pinned
      BY <1>2 DEF CompFinish, Known, TypeInv, TypeOK, LockTypes
    <2>2. cur = None /\ op # None
      BY <2>1, NoneAssumption DEF TypeInv, LoopsOK
    <2>3. cur' # None /\ cur'.op = op
      <3>1. cur' \in [op : Reads, res : Results]
        BY <2>1, NextCqeType
      <3> QED  BY <2>1, <3>1, NoneAssumption
    <2>4. /\ opState'[op] = "terminal" /\ \A p \in Reads \ {op} : opState'[p] = opState[p]
          /\ ops'[id] = None /\ \A i \in Ids \ {id} : ops'[i] = ops[i]
      BY <2>1 DEF TypeInv, TypeOK, OpTypes, LockTypes
    <2>5. \A i \in Ids : ops[i] # None /\ ops[i] # op => ops'[i] = ops[i]
      BY <2>1, <2>4
    <2>6. \A p \in Reads \ {op} : Life(p)'
      BY <1>1, <2>1, <2>2, <2>4, <2>5, OthersLiveOn
    <2>7. Life(op)'
      BY <1>1, <2>1, <2>3, <2>4 DEF LifeOK, Life
    <2>8. \A i \in Ids : ops'[i] # None => ops'[i] \in Reads \ {op} /\ ops'[i] = ops[i]
      BY <2>1, <2>2, <2>4 DEF TypeInv, TypeOK, LockTypes, Owned, IdsOK
    <2> QED  BY <2>4, <2>6, <2>7, <2>8 DEF LifeOK
  <1>3. CASE CompDeliver
    <2>1. PICK op \in Reads :
            /\ op = cur.op /\ opState[op] = "terminal"
            /\ pinned' = [pinned EXCEPT ![op] = FALSE]
            /\ opState' = [opState EXCEPT ![op] = "released"]
            /\ UNCHANGED ops
      BY <1>3 DEF CompDeliver, TypeInv, TypeOK, CompTypes, LoopsOK, Owned, CurOK, lockVars
    <2>2. /\ opState'[op] = "released" /\ \A p \in Reads \ {op} : opState'[p] = opState[p]
          /\ ~pinned'[op] /\ \A p \in Reads \ {op} : pinned'[p] = pinned[p]
      BY <2>1 DEF TypeInv, TypeOK, OpTypes
    <2>3. \A p \in Reads \ {op} : Life(p)'
      BY <1>1, <2>1, <2>2, OthersLiveOn
    <2>4. Life(op)'
      BY <2>2 DEF Life
    <2>5. \A i \in Ids : ops[i] # None => ops[i] \in Reads \ {op}
      BY <2>1 DEF TypeInv, TypeOK, LockTypes, LifeOK
    <2> QED  BY <2>1, <2>2, <2>3, <2>4, <2>5 DEF LifeOK
  <1>4. CASE ~(CompFinish /\ cpc' = "deliver") /\ ~CompDeliver
    <2>1. UNCHANGED <<opState, pinned, ops, cur>>
      BY <1>4 DEF Completer, CompReap, CompFinish, CompUnknown, CompStoreHead, CompCheck, CompIdle,
                  CompWait, opVars, lockVars
    <2> QED  BY <1>1, <2>1, LifeFrame
  <1> QED  BY <1>2, <1>3, <1>4

\* Every step keeps the lives of the operations.
LEMMA LifeStep == TypeInv /\ Owned /\ SubmitterOK /\ LifeOK /\ [Next]_vars => LifeOK'
  <1> DEFINE Frame == /\ UNCHANGED <<rpc, opState, opId, pinned, ops, cur, served>>
                      /\ UNCHANGED <<submitCh, pending, batch, sq, inflight>>
  <1>1. ASSUME LifeOK, Frame PROVE LifeOK'
    BY <1>1, LifeFrame DEF ToPublish, InRing
  <1>2. ASSUME NEW c \in Closers, Close(c) PROVE Frame
    BY <1>2 DEF Close, CloseBegin, CloseDecide, CloseStop, CloseJoin, readVars, opVars, lockVars,
                subVars, compVars, kernVars, chanVars
  <1>3. ASSUME KernelSpurious \/ UNCHANGED vars PROVE Frame
    BY <1>3 DEF KernelSpurious, vars, readVars, opVars, lockVars, chanVars, subVars, compVars, kernVars
  <1> QED
    BY <1>1, <1>2, <1>3, LifeReadAt, LifeKernelComplete, LifeSubmitter, LifeCompleter
    DEF Next, Finished

-----------------------------------------------------------------------------
(* Answers: what a CQE, the completer or a call carries is what the kernel   *)
(* read for the operation.                                                   *)

Answered(o) == served[o] # None

AnswersOK ==
  /\ \A i \in 1 .. Len(cq), o \in Reads : opId[o] = cq[i].id /\ opId[o] # 0 => cq[i].res = served[o]
  /\ cur # None => Answered(cur.op) /\ cur.res = served[cur.op]
  /\ \A o \in Reads : done[o] # None => Answered(o) /\ done[o] = Outcome[served[o]]
  /\ \A o \in Reads : ret[o] \notin Refusals \cup {None} => Answered(o) /\ ret[o] = Outcome[served[o]]

\* A step of a call.
LEMMA AnswersReadAt ==
  ASSUME TypeInv, Owned, AnswersOK, NEW o \in Reads, ReadAt(o)
  PROVE  AnswersOK'
  <1>1. UNCHANGED <<cq, served, cur>>
    BY DEF ReadAt, ReadSkip, ReadPin, ReadRefused, ReadAdmit, ReadSend, ReadReturn, compVars, kernVars
  <1>2. CASE ReadAdmit(o)
    <2>1. opId' = [opId EXCEPT ![o] = NewID] /\ NewID # 0 /\ UNCHANGED <<done, ret>>
      BY <1>2 DEF ReadAdmit
    <2>2. ASSUME NEW i \in 1 .. Len(cq), NEW p \in Reads, opId'[p] = cq[i].id, opId'[p] # 0
          PROVE  cq[i].res = served[p]
      <3>1. NewID = nextID + 1 /\ nextID \in Nat
        BY <2>1, NewIDIsFresh
      <3>2. cq[i].id \in Nat /\ cq[i].id <= nextID
        <4>1. cq[i] \in Cqe
          BY ElementOfSeq DEF TypeInv, TypeOK, KernTypes
        <4> QED  BY <4>1, IdAssumption DEF Cqe, Owned, CqesOK
      <3>3. p # o /\ opId'[p] = opId[p]
        BY <2>1, <2>2, <3>1, <3>2 DEF TypeInv, TypeOK, OpTypes
      <3> QED  BY <2>2, <3>3 DEF AnswersOK
    <2> QED  BY <1>1, <2>1, <2>2 DEF AnswersOK, Answered
  <1>3. CASE ReadReturn(o)
    <2>1. /\ done[o] # None /\ UNCHANGED opId
          /\ \A p \in Reads : ret'[p] = IF p = o THEN done[o] ELSE ret[p]
          /\ \A p \in Reads : done'[p] = IF p = o THEN None ELSE done[p]
      BY <1>3 DEF ReadReturn, Completed, TypeInv, TypeOK, ReadTypes, OpTypes
    <2> QED  BY <1>1, <2>1 DEF AnswersOK, Answered
  <1>4. CASE ~ReadAdmit(o) /\ ~ReadReturn(o)
    <2>1. UNCHANGED <<opId, done>>
      BY <1>4 DEF ReadAt, ReadSkip, ReadPin, ReadRefused, ReadSend, opVars
    <2>2. \A p \in Reads : ret'[p] = ret[p] \/ ret'[p] \in Refusals
      BY <1>4 DEF ReadAt, ReadSkip, ReadPin, ReadRefused, ReadSend, Refusals, TypeInv, TypeOK, ReadTypes
    <2> QED  BY <1>1, <2>1, <2>2 DEF AnswersOK, Answered
  <1> QED  BY <1>2, <1>3, <1>4

\* A CQE that carries what was read for its operation keeps the CQ truthful.
LEMMA AnswersAppend ==
  ASSUME TypeInv, AnswersOK, NEW q \in Cqe, cq' = Append(cq, q), UNCHANGED <<opId, cur, done, ret>>,
         \A p \in Reads : Answered(p) => served'[p] = served[p],
         \A i \in 1 .. Len(cq), p \in Reads : opId[p] = cq[i].id /\ opId[p] # 0 => Answered(p),
         \A p \in Reads : opId[p] = q.id /\ opId[p] # 0 => q.res = served'[p]
  PROVE  AnswersOK'
  <1>1. cq \in Seq(Cqe) /\ Len(cq) \in Nat
    BY LenProperties DEF TypeInv, TypeOK, KernTypes
  <1>2. /\ Len(cq') = Len(cq) + 1 /\ cq'[Len(cq) + 1] = q
        /\ \A i \in 1 .. Len(cq) : cq'[i] = cq[i]
    BY <1>1, AppendProperties
  <1>3. ASSUME NEW i \in 1 .. Len(cq'), NEW p \in Reads, opId[p] = cq'[i].id, opId[p] # 0
        PROVE  cq'[i].res = served'[p]
    <2>1. CASE i \in 1 .. Len(cq)
      BY <1>2, <1>3, <2>1 DEF AnswersOK
    <2>2. CASE i = Len(cq) + 1
      BY <1>2, <1>3, <2>2
    <2> QED  BY <1>1, <1>2, <2>1, <2>2
  <1>4. cur # None => cur.op \in Reads
    BY DEF TypeInv, TypeOK, CompTypes
  <1> QED  BY <1>3, <1>4 DEF AnswersOK, Answered

\* The kernel answers once, and repeats itself word for word.
LEMMA AnswersKernel ==
  ASSUME TypeInv, Owned, AnswersOK, KernelSpurious \/ \E o \in Reads : KernelComplete(o)
  PROVE  AnswersOK'
  <1>1. /\ UNCHANGED <<opId, cur, done, ret>>
        /\ \A i \in 1 .. Len(cq), p \in Reads : opId[p] = cq[i].id /\ opId[p] # 0 => Answered(p)
    BY DEF KernelSpurious, KernelComplete, opVars, compVars, readVars, Owned, CqesOK, Answered
  <1>2. ASSUME NEW o \in Reads, KernelComplete(o) PROVE AnswersOK'
    <2>1. PICK res \in Results :
             /\ o \in inflight /\ served' = [served EXCEPT ![o] = res]
             /\ cq' = Append(cq, [id |-> opId[o], res |-> res])
      BY <1>2 DEF KernelComplete
    <2>2. ~Answered(o) /\ \A p \in Reads : served'[p] = IF p = o THEN res ELSE served[p]
      BY <2>1 DEF TypeInv, TypeOK, KernTypes, Owned, RingOK, InRing, Held, Answered
    <2>3. \A p \in Reads : opId[p] = opId[o] /\ opId[p] # 0 => p = o
      BY DEF Owned, IdsOK
    <2>4. [id |-> opId[o], res |-> res] \in Cqe
      BY DEF TypeInv, TypeOK, OpTypes, Cqe
    <2> QED  BY <1>1, <2>1, <2>2, <2>3, <2>4, AnswersAppend
  <1>3. CASE KernelSpurious
    <2>1. UNCHANGED served
      BY <1>3 DEF KernelSpurious
    <2>2. CASE \E o \in Reads : /\ served[o] # None
                                /\ cq' = Append(cq, [id |-> opId[o], res |-> served[o]])
      <3>1. PICK o \in Reads : /\ served[o] # None
                               /\ cq' = Append(cq, [id |-> opId[o], res |-> served[o]])
        BY <2>2
      <3>2. [id |-> opId[o], res |-> served[o]] \in Cqe
        BY <3>1 DEF TypeInv, TypeOK, OpTypes, KernTypes, Cqe
      <3>3. \A p \in Reads : opId[p] = opId[o] /\ opId[p] # 0 => p = o
        BY DEF Owned, IdsOK
      <3> QED  BY <1>1, <2>1, <3>1, <3>2, <3>3, AnswersAppend
    <2>3. CASE \E res \in Results : cq' = Append(cq, [id |-> 0, res |-> res])
      <3>1. PICK res \in Results : cq' = Append(cq, [id |-> 0, res |-> res])
        BY <2>3
      <3>2. [id |-> 0, res |-> res] \in Cqe
        BY IdAssumption DEF Cqe
      <3> QED  BY <1>1, <2>1, <3>1, <3>2, AnswersAppend
    <2> QED  BY <1>3, <2>2, <2>3 DEF KernelSpurious
  <1> QED  BY <1>2, <1>3

\* The completer hands on what the CQE carries.
LEMMA AnswersCompleter ==
  ASSUME TypeInv, Owned, AnswersOK, Completer
  PROVE  AnswersOK'
  <1>1. UNCHANGED <<opId, served, ret>>
    BY DEF Completer, CompReap, CompFinish, CompUnknown, CompDeliver, CompStoreHead, CompCheck,
           CompIdle, CompWait, readVars, opVars, kernVars
  <1>2. CASE CompFinish /\ cpc' = "deliver"
    <2>1. PICK id \in Ids, op \in Reads :
            /\ id = NextCqe.id /\ op = ops[id] /\ opId[op] = id /\ cpc = "finish"
            /\ cur' = [op |-> op, res |-> NextCqe.res] /\ UNCHANGED <<done, cq>>
      BY <1>2 DEF CompFinish, Known, TypeInv, TypeOK, LockTypes, Owned, IdsOK, kernVars
    <2>2. reaped + 1 \in 1 .. Len(cq) /\ cq[reaped + 1].id = opId[op] /\ opId[op] # 0
      BY <2>1, NextCqeType DEF NextCqe, Ids
    <2>3. Answered(op) /\ NextCqe.res = served[op]
      BY <2>2 DEF Owned, CqesOK, AnswersOK, Answered, NextCqe
    <2>4. cur'.op = op /\ cur'.res = served[op]
      BY <2>1, <2>3
    <2> QED  BY <1>1, <2>1, <2>3, <2>4 DEF AnswersOK, Answered
  <1>3. CASE CompDeliver
    <2>1. PICK op \in Reads :
            /\ op = cur.op /\ cur # None /\ cur' = None /\ UNCHANGED cq
            /\ done' = [done EXCEPT ![op] = Outcome[cur.res]]
      BY <1>3 DEF CompDeliver, TypeInv, TypeOK, CompTypes, LoopsOK, kernVars
    <2>2. \A p \in Reads : done'[p] = IF p = op THEN Outcome[served[op]] ELSE done[p]
      BY <2>1 DEF TypeInv, TypeOK, OpTypes, AnswersOK
    <2> QED  BY <1>1, <2>1, <2>2 DEF AnswersOK, Answered
  <1>4. CASE CompStoreHead
    <2>1. /\ cq' = SubSeq(cq, limit + 1, Len(cq)) /\ UNCHANGED <<cur, done>>
      BY <1>4 DEF CompStoreHead, Undrained, opVars
    <2>2. limit \in 0 .. Len(cq) /\ cq \in Seq(Cqe) /\ Len(cq) \in Nat
      BY LenProperties DEF TypeInv, TypeOK, KernTypes, CompTypes, LoopsOK
    <2>3. \A i \in 1 .. Len(cq') : i + limit \in 1 .. Len(cq) /\ cq'[i] = cq[i + limit]
      <3>1. Len(cq') = Len(cq) - limit /\ \A i \in 1 .. Len(cq') : cq'[i] = cq[i + limit]
        BY <2>1, <2>2, SplitFacts
      <3> QED  BY <2>2, <3>1
    <2> QED  BY <1>1, <2>1, <2>3, ZenonT(60) DEF AnswersOK, Answered
  <1>5. CASE ~(CompFinish /\ cpc' = "deliver") /\ ~CompDeliver /\ ~CompStoreHead
    <2>1. UNCHANGED <<cq, cur, done>>
      BY <1>5 DEF Completer, CompReap, CompFinish, CompUnknown, CompCheck, CompIdle, CompWait,
                  opVars, kernVars
    <2> QED  BY <1>1, <2>1 DEF AnswersOK, Answered
  <1> QED  BY <1>2, <1>3, <1>4, <1>5

LEMMA AnswersStep == TypeInv /\ Owned /\ AnswersOK /\ [Next]_vars => AnswersOK'
  <1> DEFINE Frame == UNCHANGED <<cq, opId, served, cur, done, ret>>
  <1>1. ASSUME AnswersOK, Frame PROVE AnswersOK'
    BY <1>1 DEF AnswersOK, Answered
  <1>2. ASSUME NEW c \in Closers, Close(c) PROVE Frame
    BY <1>2 DEF Close, CloseBegin, CloseDecide, CloseStop, CloseJoin, readVars, opVars, compVars, kernVars
  <1>3. ASSUME Submitter PROVE Frame
    BY <1>3 DEF Submitter, SubReceive, SubStop, SubGather, SubPublish, SubStoreTail, SubEnter,
                SubEnterFails, SubAccount, SubNotify, readVars, opVars, compVars, kernVars
  <1>4. ASSUME UNCHANGED vars PROVE Frame
    BY <1>4 DEF vars, readVars, opVars, compVars, kernVars
  <1> QED
    BY <1>1, <1>2, <1>3, <1>4, AnswersReadAt, AnswersKernel, AnswersCompleter DEF Next, Finished

-----------------------------------------------------------------------------
(* Ring.outstanding counts the published operations of the table. *)

Live == {i \in Ids : ops[i] # None /\ opState[ops[i]] = "published"}

\* As many different things as they are numbered.
LEMMA Numbered ==
  ASSUME NEW n \in Nat, NEW T, NEW f \in [1 .. n -> T],
         \A i, j \in 1 .. n : f[i] = f[j] => i = j,
         \A x \in T : \E i \in 1 .. n : f[i] = x
  PROVE  IsFiniteSet(T) /\ Cardinality(T) = n
  <1>1. f \in Bijection(1 .. n, T)
    BY DEF Bijection, Injection, Surjection, IsInjective
  <1>2. ExistsBijection(1 .. n, T)
    BY <1>1 DEF ExistsBijection
  <1> QED  BY <1>2, FS_NatBijection, FS_CountingElements

LEMMA LiveType == IsFiniteSet(Live) /\ Cardinality(Live) \in Nat
  <1>1. IsFiniteSet(Ids)
    <2>1. IdMod - 1 \in Int
      BY IdAssumption
    <2> QED  BY <2>1, FS_Interval DEF Ids
  <1>2. IsFiniteSet(Live)
    BY <1>1, FS_Subset DEF Live
  <1> QED  BY <1>2, FS_CardinalityType

\* A step of a call moves no published operation.
LEMMA CountReadAt ==
  ASSUME TypeInv, Owned, LifeOK, NEW o \in Reads, ReadAt(o)
  PROVE  Live' = Live /\ outstanding' = outstanding
  <1>1. o # None /\ outstanding' = outstanding
    BY NoneAssumption DEF ReadAt, ReadSkip, ReadPin, ReadRefused, ReadAdmit, ReadSend, ReadReturn, lockVars
  <1>2. CASE ReadAdmit(o)
    <2>1. /\ rpc[o] = "admit" /\ NewID # 0 /\ ops' = [ops EXCEPT ![NewID] = o]
          /\ opState' = [opState EXCEPT ![o] = "queued"]
      BY <1>2 DEF ReadAdmit
    <2>2. NewID \in Ids /\ ops[NewID] = None /\ \A i \in Ids : ops[i] # o
      BY <1>1, <2>1, NewIDIsFresh DEF Owned, CallsOK, LifeOK
    <2>3. /\ ops'[NewID] = o /\ opState'[o] = "queued"
          /\ \A i \in Ids \ {NewID} : ops'[i] = ops[i]
          /\ \A i \in Ids : ops[i] # None => opState'[ops[i]] = opState[ops[i]]
      BY <2>1, <2>2 DEF TypeInv, TypeOK, OpTypes, LockTypes
    <2>4. \A i \in Ids : i \in Live' <=> i \in Live
      BY <2>2, <2>3 DEF Live
    <2>5. Live \subseteq Ids /\ Live' \subseteq Ids
      BY DEF Live
    <2> QED  BY <1>1, <2>4, <2>5
  <1>3. CASE ReadPin(o) \/ ReadRefused(o)
    <2>1. /\ rpc[o] \in {"start", "admit"} /\ UNCHANGED ops
          /\ \A p \in Reads \ {o} : opState'[p] = opState[p]
      BY <1>3 DEF ReadPin, ReadRefused, TypeInv, TypeOK, OpTypes, lockVars
    <2>2. \A i \in Ids : ops[i] # None => ops[i] \in Reads \ {o}
      BY <1>1, <2>1 DEF Owned, CallsOK, LifeOK, TypeInv, TypeOK, LockTypes
    <2> QED  BY <1>1, <2>1, <2>2 DEF Live
  <1>4. CASE ~ReadAdmit(o) /\ ~ReadPin(o) /\ ~ReadRefused(o)
    <2>1. UNCHANGED <<ops, opState>>
      BY <1>4 DEF ReadAt, ReadSkip, ReadSend, ReadReturn, opVars, lockVars
    <2> QED  BY <1>1, <2>1 DEF Live
  <1> QED  BY <1>2, <1>3, <1>4

\* submitBatch counts its whole batch.
LEMMA CountSubPublish ==
  ASSUME TypeInv, Owned, LifeOK, SubPublish, spc' = "store"
  PROVE  outstanding' = outstanding + BatchSize /\ Cardinality(Live') = Cardinality(Live) + BatchSize
  <1> DEFINE n == BatchSize
             head == SubSeq(pending, 1, n)
             new == {opId[pending[i]] : i \in 1 .. n}
  <1>1. /\ outstanding' = outstanding + n /\ UNCHANGED <<ops, opId>>
        /\ opState' = [o \in Reads |-> IF o \in Range(head) THEN "published" ELSE opState[o]]
    BY DEF SubPublish, Counted
  <1>2. n \in Nat /\ 1 .. n \subseteq 1 .. Len(pending)
    BY BatchSizeType, PlacesType, LenProperties
  <1>3. Range(head) = {pending[i] : i \in 1 .. n}
    <2>1. n \in 0 .. Len(pending) /\ pending \in Seq(Reads)
      BY BatchSizeType, PlacesType
    <2>2. head \in Seq(Reads) /\ Len(head) = n /\ \A i \in 1 .. n : head[i] = pending[i]
      BY <2>1, SplitFacts
    <2> HIDE DEF head
    <2> QED  BY <2>2, ByIndex
  <1>4. \A i \in 1 .. n : /\ pending[i] \in Reads /\ pending[i] \in ToPublish
                          /\ opId[pending[i]] \in Ids /\ opState[pending[i]] = "queued"
    <2>1. \A i \in 1 .. Len(pending) : pending[i] \in Range(pending)
      BY PlacesType, ByIndex
    <2> QED  BY <1>2, <2>1, PlacesType DEF ToPublish, Owned, QueuesOK, Held
  <1>5. IsFiniteSet(new) /\ Cardinality(new) = n
    <2> DEFINE f == [i \in 1 .. n |-> opId[pending[i]]]
    <2>1. \A i, j \in 1 .. n : opId[pending[i]] = opId[pending[j]] => i = j
      <3>1. \A i, j \in 1 .. Len(pending) : pending[i] = pending[j] => i = j
        BY PlacesType, ByIndex DEF Owned, QueuesOK
      <3> QED  BY <1>2, <1>4, <3>1 DEF Owned, IdsOK, Ids
    <2>2. /\ f \in [1 .. n -> new] /\ \A i, j \in 1 .. n : f[i] = f[j] => i = j
          /\ \A x \in new : \E i \in 1 .. n : f[i] = x
      BY <2>1
    <2> HIDE DEF f, new, n
    <2> QED  BY <1>2, <2>2, Numbered
  <1> HIDE DEF n, head
  <1>6. Live' = Live \cup new
    <2>1. ASSUME NEW i \in Ids, i \in Live' PROVE i \in Live \cup new
      <3>1. ops[i] # None /\ ops[i] \in Reads /\ opState'[ops[i]] = "published" /\ opId[ops[i]] = i
        BY <1>1, <2>1 DEF Live, TypeInv, TypeOK, LockTypes, Owned, IdsOK
      <3>2. CASE ops[i] \in Range(head)
        <4>1. PICK k \in 1 .. n : ops[i] = pending[k]
          BY <1>3, <3>2
        <4> QED  BY <3>1, <4>1
      <3>3. CASE ops[i] \notin Range(head)
        BY <1>1, <3>1, <3>3 DEF Live
      <3> QED  BY <3>2, <3>3
    <2>2. ASSUME NEW i \in Live PROVE i \in Live'
      <3>1. i \in Ids /\ ops[i] # None /\ ops[i] \in Reads /\ opState[ops[i]] = "published"
        BY DEF Live, TypeInv, TypeOK, LockTypes
      <3> QED  BY <1>1, <3>1 DEF Live
    <2>3. ASSUME NEW k \in 1 .. n PROVE opId[pending[k]] \in Live'
      <3>1. ops[opId[pending[k]]] = pending[k]
        BY <1>4 DEF LifeOK, Life, InTable
      <3>2. opState'[pending[k]] = "published" /\ pending[k] # None
        BY <1>1, <1>3, <1>4, NoneAssumption
      <3> QED  BY <1>1, <1>4, <3>1, <3>2 DEF Live
    <2>4. Live' \subseteq Ids
      BY DEF Live
    <2> QED  BY <2>1, <2>2, <2>3, <2>4
  <1>7. Live \cap new = {}
    <2>1. ASSUME NEW k \in 1 .. n PROVE opId[pending[k]] \notin Live
      <3>1. ops[opId[pending[k]]] = pending[k]
        BY <1>4 DEF LifeOK, Life, InTable
      <3> QED  BY <1>4, <3>1 DEF Live
    <2> QED  BY <2>1
  <1> HIDE DEF new
  <1>8. Cardinality(Live') = Cardinality(Live) + n
    <2>1. Cardinality(Live \cup new) = Cardinality(Live) + Cardinality(new) - Cardinality({})
      BY <1>5, <1>7, LiveType, FS_Union
    <2> QED  BY <1>2, <1>5, <1>6, <2>1, LiveType, FS_EmptySet
  <1> QED  BY <1>1, <1>8 DEF n

\* finish takes one operation out of the table and the count.
LEMMA CountCompleter ==
  ASSUME TypeInv, Owned, LifeOK, Completer
  PROVE  \/ Live' = Live /\ outstanding' = outstanding
         \/ \E i \in Live : Live' = Live \ {i} /\ outstanding' = outstanding - 1
  <1>1. CASE CompFinish /\ cpc' = "deliver"
    <2>1. PICK id \in Ids, op \in Reads :
            /\ op = ops[id] /\ opState[op] = "published" /\ opId[op] = id
            /\ ops' = [ops EXCEPT ![id] = None] /\ outstanding' = outstanding - 1
            /\ opState' = [opState EXCEPT ![op] = "terminal"]
      BY <1>1 DEF CompFinish, Known, TypeInv, TypeOK, LockTypes, Owned, IdsOK
    <2>2. /\ ops'[id] = None /\ \A i \in Ids \ {id} : ops'[i] = ops[i]
          /\ \A p \in Reads \ {op} : opState'[p] = opState[p]
      BY <2>1 DEF TypeInv, TypeOK, LockTypes, OpTypes
    <2>3. \A i \in Ids \ {id} : ops[i] # None => ops[i] \in Reads \ {op}
      BY <2>1 DEF TypeInv, TypeOK, LockTypes, Owned, IdsOK
    <2>4. id \in Live
      BY <2>1, NoneAssumption DEF Live
    <2>5. Live' = Live \ {id}
      <3>1. \A i \in Ids \ {id} : i \in Live' <=> i \in Live
        BY <2>2, <2>3 DEF Live
      <3>2. id \notin Live'
        BY <2>2 DEF Live
      <3>3. Live \subseteq Ids /\ Live' \subseteq Ids
        BY DEF Live
      <3> QED  BY <3>1, <3>2, <3>3
    <2> QED  BY <2>1, <2>4, <2>5
  <1>2. CASE CompDeliver
    <2>1. PICK op \in Reads :
            /\ opState[op] = "terminal" /\ opState' = [opState EXCEPT ![op] = "released"]
            /\ UNCHANGED <<ops, outstanding>>
      BY <1>2 DEF CompDeliver, TypeInv, TypeOK, CompTypes, LoopsOK, Owned, CurOK, lockVars
    <2>2. \A i \in Ids : ops[i] # None => opState'[ops[i]] = opState[ops[i]]
      BY <2>1 DEF LifeOK, TypeInv, TypeOK, LockTypes, OpTypes
    <2> QED  BY <2>1, <2>2 DEF Live
  <1>3. CASE ~(CompFinish /\ cpc' = "deliver") /\ ~CompDeliver
    <2>1. UNCHANGED <<ops, opState, outstanding>>
      BY <1>3 DEF Completer, CompReap, CompFinish, CompUnknown, CompStoreHead, CompCheck, CompIdle,
                  CompWait, opVars, lockVars
    <2> QED  BY <2>1 DEF Live
  <1> QED  BY <1>1, <1>2, <1>3

LEMMA CountStep ==
  TypeInv /\ Owned /\ LifeOK /\ OutstandingIsExact /\ [Next]_vars => OutstandingIsExact'
  <1> SUFFICES ASSUME TypeInv, Owned, LifeOK, OutstandingIsExact, [Next]_vars
               PROVE  OutstandingIsExact'
    OBVIOUS
  <1>1. outstanding = Cardinality(Live)
    BY DEF OutstandingIsExact, Live
  <1>2. ASSUME Live' = Live, outstanding' = outstanding PROVE outstanding' = Cardinality(Live')
    BY <1>1, <1>2
  <1>3. ASSUME Completer PROVE outstanding' = Cardinality(Live')
    <2>1. ASSUME NEW i \in Live, Live' = Live \ {i}, outstanding' = outstanding - 1
          PROVE  outstanding' = Cardinality(Live')
      <3>1. Cardinality(Live \ {i}) = Cardinality(Live) - 1
        BY LiveType, FS_RemoveElement
      <3> QED  BY <1>1, <2>1, <3>1
    <2> QED  BY <1>2, <1>3, <2>1, CountCompleter
  <1>4. ASSUME SubPublish, spc' = "store" PROVE outstanding' = Cardinality(Live')
    BY <1>1, <1>4, CountSubPublish
  <1>5. ASSUME NEW o \in Reads, ReadAt(o) PROVE outstanding' = Cardinality(Live')
    BY <1>2, <1>5, CountReadAt
  <1> DEFINE Frame == UNCHANGED <<ops, opState, outstanding>>
  <1>6. ASSUME Frame PROVE outstanding' = Cardinality(Live')
    BY <1>2, <1>6 DEF Live
  <1>7. ASSUME Submitter, ~(SubPublish /\ spc' = "store") PROVE Frame
    BY <1>7 DEF Submitter, SubReceive, SubStop, SubGather, SubPublish, SubStoreTail, SubEnter,
                SubEnterFails, SubAccount, SubNotify, opVars, lockVars
  <1>8. ASSUME KernelSpurious \/ UNCHANGED vars \/ (\E c \in Closers : Close(c))
               \/ \E o \in Reads : KernelComplete(o)
        PROVE  Frame
    BY <1>8 DEF KernelSpurious, KernelComplete, vars, Close, CloseBegin, CloseDecide, CloseStop,
                CloseJoin, opVars, lockVars
  <1>9. outstanding' = Cardinality(Live')
    BY <1>3, <1>4, <1>5, <1>6, <1>7, <1>8 DEF Next, Finished
  <1> QED  BY <1>9 DEF OutstandingIsExact, Live

-----------------------------------------------------------------------------
(* Close and the completer's end. *)

\* A closed ring has no operation left, and nobody is told to stop before.
DrainedOK ==
  /\ closed => outstanding = 0 /\ \A i \in Ids : ops[i] = None
  /\ stopped => closed

\* One Close at a time decides, stops and joins; a later one finds its work done.
CloserOK ==
  /\ \A c \in Closers :
       /\ clpc[c] \in {"decide", "stop", "join"} => closeMu = c
       /\ clpc[c] = "decide" => ~closed
       /\ clpc[c] \in {"stop", "join"} => closed
       /\ closeRet[c] = "nil" => ~mapped
  /\ ~mapped => closed /\ spc = "exited" /\ cpc = "exited"
  /\ closed /\ closeMu = None => ~mapped

\* The completer waits for something, and leaves only a closed ring or, failed,
\* one with an operation nobody will complete.
CompleterOK ==
  /\ cpc = "wait" => outstanding > 0
  /\ fatal => cpc = "exited" /\ outstanding > 0
  /\ cpc = "exited" => closed \/ fatal

CloseOK == DrainedOK /\ CloserOK /\ CompleterOK

\* Nothing is on its way to a closed ring.
LEMMA ClosedMeansEmpty ==
  ASSUME TypeInv, Owned, LifeOK, CloseOK, closed
  PROVE  ToPublish = {} /\ InRing = {} /\ \A o \in Reads : opState[o] \notin {"queued", "published"}
  <1>1. \A o \in Reads : opState[o] \notin {"queued", "published"}
    BY NoneAssumption DEF LifeOK, Life, InTable, CloseOK, DrainedOK
  <1> QED  BY <1>1, PlacesType DEF Owned, QueuesOK, RingOK

LEMMA CloseReadAt ==
  ASSUME CloseOK, NEW o \in Reads, ReadAt(o)
  PROVE  CloseOK'
  <1>1. /\ UNCHANGED <<outstanding, closed, stopped, clpc, closeMu, closeRet, mapped, spc, cpc, fatal>>
        /\ closed => UNCHANGED ops
    BY DEF ReadAt, ReadSkip, ReadPin, ReadRefused, ReadAdmit, ReadSend, ReadReturn, lockVars, chanVars,
           subVars, compVars, closeVars
  <1> QED  BY <1>1 DEF CloseOK, DrainedOK, CloserOK, CompleterOK

\* A batch is only published while the ring is open.
LEMMA CloseSubmitter ==
  ASSUME TypeInv, Owned, LifeOK, SubmitterOK, CloseOK, Submitter
  PROVE  CloseOK'
  <1>1. UNCHANGED <<ops, closed, stopped, clpc, closeMu, closeRet, mapped, cpc, fatal>> /\ spc # "exited"
    BY DEF Submitter, SubReceive, SubStop, SubGather, SubPublish, SubStoreTail, SubEnter,
           SubEnterFails, SubAccount, SubNotify, lockVars, chanVars, compVars, closeVars
  <1>2. outstanding' = outstanding \/ (~closed /\ outstanding' = outstanding + BatchSize)
    <2>1. CASE SubPublish
      <3>1. ~closed
        <4>1. pending \in Seq(Reads) /\ pending # <<>>
          BY <2>1, PlacesType DEF SubPublish, SubmitterOK
        <4>2. Head(pending) \in ToPublish
          BY <4>1, DequeueFacts DEF ToPublish
        <4> QED  BY <4>2, ClosedMeansEmpty
      <3> QED  BY <2>1, <3>1 DEF SubPublish, Counted
    <2>2. CASE ~SubPublish
      BY <2>2 DEF Submitter, SubReceive, SubStop, SubGather, SubStoreTail, SubEnter, SubEnterFails,
                  SubAccount, SubNotify, lockVars
    <2> QED  BY <2>1, <2>2
  <1>3. outstanding \in Nat /\ outstanding + BatchSize \in Nat /\ outstanding + BatchSize >= outstanding
    BY BatchSizeType, PlacesType, LenProperties DEF TypeInv, TypeOK, LockTypes
  <1> QED  BY <1>1, <1>2, <1>3 DEF CloseOK, DrainedOK, CloserOK, CompleterOK

\* A completer that decreases the count is at work, on an open ring.
LEMMA CloseCompleter ==
  ASSUME TypeInv, CloseOK, Completer
  PROVE  CloseOK'
  <1>1. UNCHANGED <<closed, stopped, clpc, closeMu, closeRet, mapped, spc>> /\ cpc # "exited"
    BY DEF Completer, CompReap, CompFinish, CompUnknown, CompDeliver, CompStoreHead, CompCheck,
           CompIdle, CompWait, lockVars, chanVars, subVars, closeVars
  <1>2. mapped /\ ~fatal
    BY <1>1 DEF CloseOK, CloserOK, CompleterOK
  <1>3. CASE CompFinish
    <2>1. ~closed /\ cpc' \in {"deliver", "panic"} /\ UNCHANGED fatal
      BY <1>3 DEF CompFinish, Known, CloseOK, DrainedOK, chanVars
    <2> QED  BY <1>1, <1>2, <2>1 DEF CloseOK, DrainedOK, CloserOK, CompleterOK
  <1>4. CASE CompCheck
    <2>1. UNCHANGED <<ops, outstanding, fatal>> /\ outstanding \in Nat
      BY <1>4 DEF CompCheck, lockVars, chanVars, TypeInv, TypeOK, LockTypes
    <2>2. (cpc' = "exited" => closed) /\ (cpc' = "wait" => outstanding > 0)
      BY <1>4 DEF CompCheck, MustWait
    <2> QED  BY <1>1, <1>2, <2>1, <2>2 DEF CloseOK, DrainedOK, CloserOK, CompleterOK
  <1>5. CASE CompIdle \/ CompWait
    <2>1. UNCHANGED <<ops, outstanding>> /\ cpc' \in {"reap", "exited"}
      BY <1>5 DEF CompIdle, CompWait, lockVars
    <2>2. /\ cpc' = "exited" => closed \/ fatal'
          /\ fatal' => cpc' = "exited" /\ outstanding > 0
      BY <1>2, <1>5 DEF CompIdle, CompWait, CloseOK, DrainedOK, CompleterOK
    <2> QED  BY <1>1, <1>2, <2>1, <2>2 DEF CloseOK, DrainedOK, CloserOK, CompleterOK
  <1>6. CASE CompReap \/ CompUnknown \/ CompDeliver \/ CompStoreHead
    <2>1. UNCHANGED <<ops, outstanding, fatal>> /\ cpc' \notin {"wait", "exited"}
      BY <1>6 DEF CompReap, CompUnknown, CompDeliver, CompStoreHead, lockVars, chanVars
    <2> QED  BY <1>1, <1>2, <2>1 DEF CloseOK, DrainedOK, CloserOK, CompleterOK
  <1> QED  BY <1>3, <1>4, <1>5, <1>6 DEF Completer

\* The steps of Close.
LEMMA CloseClose ==
  ASSUME TypeInv, CloseOK, NEW c \in Closers, Close(c)
  PROVE  CloseOK'
  <1>1. /\ UNCHANGED <<ops, outstanding, spc, cpc, fatal>>
        /\ \A d \in Closers \ {c} : clpc'[d] = clpc[d] /\ closeRet'[d] = closeRet[d]
        /\ c # None
    BY NoneAssumption DEF Close, CloseBegin, CloseDecide, CloseStop, CloseJoin, lockVars, chanVars,
       subVars, compVars, TypeInv, TypeOK, CloseTypes
  <1>2. CASE CloseBegin(c)
    <2>1. /\ closeMu = None /\ UNCHANGED <<mapped, closed, stopped>>
          /\ \/ /\ closeMu' = None /\ clpc'[c] = "done"
                /\ closeRet'[c] = IF closed THEN "nil" ELSE "fatal"
             \/ /\ ~closed /\ closeMu' = c /\ clpc'[c] = "decide" /\ closeRet'[c] = closeRet[c]
      BY <1>2 DEF CloseBegin, lockVars, chanVars, TypeInv, TypeOK, CloseTypes
    <2>2. \A d \in Closers : clpc[d] \notin {"decide", "stop", "join"}
      BY <2>1, NoneAssumption DEF CloseOK, CloserOK
    <2> QED  BY <1>1, <2>1, <2>2 DEF CloseOK, DrainedOK, CloserOK, CompleterOK
  <1>3. CASE CloseDecide(c)
    <2>1. /\ clpc[c] = "decide" /\ UNCHANGED <<mapped, stopped>>
          /\ \/ /\ closeMu' = None /\ clpc'[c] = "done" /\ closeRet'[c] = "busy" /\ UNCHANGED closed
             \/ /\ closeMu' = closeMu /\ clpc'[c] = "stop" /\ closeRet'[c] = closeRet[c]
                /\ Drained /\ closed'
      BY <1>3 DEF CloseDecide, chanVars, TypeInv, TypeOK, CloseTypes
    <2>2. \A d \in Closers \ {c} : clpc[d] \notin {"decide", "stop", "join"}
      BY <2>1 DEF CloseOK, CloserOK
    <2>3. ~closed /\ closeMu = c /\ mapped
      BY <2>1 DEF CloseOK, CloserOK
    <2> QED  BY <1>1, <2>1, <2>2, <2>3 DEF CloseOK, DrainedOK, CloserOK, CompleterOK, Drained
  <1>4. CASE CloseStop(c)
    <2>1. /\ clpc[c] = "stop" /\ clpc'[c] = "join" /\ stopped' /\ UNCHANGED <<closed, closeRet, closeMu, mapped>>
      BY <1>4 DEF CloseStop, lockVars, TypeInv, TypeOK, CloseTypes
    <2> QED  BY <1>1, <2>1 DEF CloseOK, DrainedOK, CloserOK, CompleterOK
  <1>5. CASE CloseJoin(c)
    <2>1. /\ clpc[c] = "join" /\ spc = "exited" /\ cpc = "exited" /\ ~mapped'
          /\ clpc'[c] = "done" /\ UNCHANGED <<closed, stopped>>
      BY <1>5 DEF CloseJoin, LoopsJoined, lockVars, chanVars, TypeInv, TypeOK, CloseTypes
    <2>2. \A d \in Closers \ {c} : clpc[d] \notin {"decide", "stop", "join"}
      BY <2>1 DEF CloseOK, CloserOK
    <2> QED  BY <1>1, <2>1, <2>2 DEF CloseOK, DrainedOK, CloserOK, CompleterOK
  <1> QED  BY <1>2, <1>3, <1>4, <1>5 DEF Close

LEMMA CloseStep ==
  TypeInv /\ Owned /\ LifeOK /\ SubmitterOK /\ CloseOK /\ [Next]_vars => CloseOK'
  <1> DEFINE Frame == UNCHANGED <<ops, outstanding, closed, stopped, clpc, closeMu, closeRet, mapped,
                                  spc, cpc, fatal>>
  <1>1. ASSUME CloseOK, Frame PROVE CloseOK'
    BY <1>1 DEF CloseOK, DrainedOK, CloserOK, CompleterOK
  <1>2. ASSUME KernelSpurious \/ UNCHANGED vars \/ \E o \in Reads : KernelComplete(o) PROVE Frame
    BY <1>2 DEF KernelSpurious, KernelComplete, vars, lockVars, chanVars, subVars, compVars, closeVars
  <1> QED
    BY <1>1, <1>2, CloseReadAt, CloseSubmitter, CloseCompleter, CloseClose DEF Next, Finished

-----------------------------------------------------------------------------
(* The theorems. *)

\* For every fault below the ring.
LifeInv ==
  /\ TypeInv /\ ResultsOK /\ SubmitterOK
  /\ NoOverflow => Owned /\ LifeOK /\ AnswersOK /\ OutstandingIsExact /\ CloseOK

LEMMA LifeInit == Init => LifeInv
  <1> SUFFICES ASSUME Init PROVE LifeInv
    OBVIOUS
  <1>1. TypeInv /\ ResultsOK /\ Owned
    BY OwnershipInit, NoneAssumption DEF OwnershipInv, NoOverflow, Refusals, Init
  <1>2. SubmitterOK
    BY DEF Init, SubmitterOK
  <1>3. LifeOK /\ AnswersOK
    <2>1. Len(<<>>) = 0 /\ \A i \in 1 .. 0 : FALSE
      OBVIOUS
    <2>2. LifeOK
      BY DEF Init, LifeOK, Life
    <2>3. AnswersOK
      BY <2>1 DEF Init, AnswersOK, Answered
    <2> QED  BY <2>2, <2>3
  <1>4. OutstandingIsExact
    <2>1. Live = {}
      BY DEF Init, Live
    <2> QED  BY <2>1, FS_EmptySet DEF Init, OutstandingIsExact, Live
  <1>5. CloseOK
    <2>1. ~closed /\ ~stopped /\ ~fatal /\ mapped /\ cpc = "reap"
      BY Zenon DEF Init
    <2>2. \A c \in Closers : clpc[c] = "start" /\ closeRet[c] = None
      BY DEF Init
    <2>3. \A c \in Closers : closeRet[c] # "nil"
      <3>1. Outcome["full"] = "nil" /\ "full" \in DOMAIN Outcome
        BY DEF Outcome
      <3> QED  BY <2>2, <3>1, NoneAssumption DEF Range
    <2> QED  BY <2>1, <2>2, <2>3 DEF CloseOK, DrainedOK, CloserOK, CompleterOK
  <1> QED  BY <1>1, <1>2, <1>3, <1>4, <1>5 DEF LifeInv

LEMMA LifeInvStep == LifeInv /\ [Next]_vars => LifeInv'
  BY TypeStep, LoopsStep, ResultsStep, OwnedStep, SubmitterStep, LifeStep, AnswersStep, CountStep,
     CloseStep DEF LifeInv, TypeInv

\* Every pin has an owner that will drop it, whatever goes wrong below the ring:
\* no runtime.Pinner is leaked on any path of ReadAt, submitBatch and finish.
THEOREM EveryPinHasAnOwner == Spec => [](NoOverflow => PinsHaveOwner)
  <1>1. LifeInv => (NoOverflow => PinsHaveOwner)
    <2> SUFFICES ASSUME TypeInv, LifeOK, NEW o \in Reads, pinned[o]
                 PROVE  \/ rpc[o] = "admit"
                        \/ opId[o] \in Ids /\ ops[opId[o]] = o
                        \/ cur # None /\ cur.op = o
      BY DEF LifeInv, PinsHaveOwner
    <2>1. opState[o] \in {"none", "pinnedLocal", "queued", "published", "terminal", "released"}
      BY DEF TypeInv, TypeOK, OpTypes
    <2>2. Life(o)
      BY DEF LifeOK
    <2> QED  BY <2>1, <2>2 DEF Life, InTable
  <1> QED  BY <1>1, LifeInit, LifeInvStep, PTL DEF Spec

\* A call returns what the kernel read for its operation, even when the kernel
\* repeats CQEs or makes some up.
THEOREM CallsReturnTheirResult == Spec => [](NoOverflow => ReturnsItsOwnResult)
  <1>1. LifeInv => (NoOverflow => ReturnsItsOwnResult)
    <2> SUFFICES ASSUME TypeInv, AnswersOK, NEW o \in Reads
                 PROVE  /\ ret[o] = "nil" => served[o] = "full"
                        /\ ret[o] = "EOF" => served[o] = "short"
                        /\ ret[o] = "error" => served[o] = "errno"
      BY DEF LifeInv, ReturnsItsOwnResult
    <2>1. \A res \in Results : res \in {"full", "short", "errno"}
      BY ResultsAssumption DEF Outcome
    <2>2. {"nil", "EOF", "error"} \cap Refusals = {}
      BY DEF Refusals
    <2>3. None \notin {"nil", "EOF", "error"}
      <3>1. Outcome["full"] = "nil" /\ Outcome["short"] = "EOF" /\ Outcome["errno"] = "error"
        BY DEF Outcome
      <3>2. {"nil", "EOF", "error"} \subseteq Range(Outcome)
        BY <3>1 DEF Range, Outcome
      <3> QED  BY <3>2, NoneAssumption
    <2>4. ret[o] \in {"nil", "EOF", "error"} => served[o] \in Results /\ ret[o] = Outcome[served[o]]
      BY <2>2, <2>3 DEF AnswersOK, Answered, TypeInv, TypeOK, KernTypes
    <2> QED  BY <2>1, <2>4 DEF Outcome
  <1> QED  BY <1>1, LifeInit, LifeInvStep, PTL DEF Spec

\* Ring.outstanding is the number of published operations in the table.
THEOREM CountIsExact == Spec => [](NoOverflow => OutstandingIsExact)
  <1>1. LifeInv => (NoOverflow => OutstandingIsExact)
    BY DEF LifeInv
  <1> QED  BY <1>1, LifeInit, LifeInvStep, PTL DEF Spec

\* A failed completer leaves an operation behind, so the ring stays open.
THEOREM FatalMeansOpen == Spec => [](NoOverflow => FatalKeepsRingOpen)
  <1>1. LifeInv => (NoOverflow => FatalKeepsRingOpen)
    BY DEF LifeInv, FatalKeepsRingOpen, CloseOK, DrainedOK, CloserOK, CompleterOK, TypeInv, TypeOK, LockTypes
  <1> QED  BY <1>1, LifeInit, LifeInvStep, PTL DEF Spec
=============================================================================
