------------------------------ MODULE RingIndex ------------------------------
(***************************************************************************)
(* The shared memory of the rings: slots, and heads and tails that are      *)
(* words that wrap.  submitBatch fills SQ slots through the index array and *)
(* stores the tail; the kernel moves the SQ's head and the CQ's tail; reap  *)
(* copies the CQEs it saw, slot by slot, and stores the head.               *)
(***************************************************************************)
EXTENDS Integers, Sequences, FiniteSets, Functions

CONSTANTS
  Ops,                   \* the operations
  SqEntries, CqEntries,  \* the sizes of the rings, powers of 2
  Word                   \* 2^32: heads and tails are modulo this

ASSUME SizesAssumption ==
  /\ {SqEntries, CqEntries, Word} \subseteq Nat \ {0}
  /\ SqEntries < Word /\ Word % SqEntries = 0
  /\ CqEntries < Word /\ Word % CqEntries = 0
  /\ IsFiniteSet(Ops) /\ Ops # {}

VARIABLES
  sqHead, sqTail, sqArray, sqes,  \* the SQ
  cqHead, cqTail, cqes,           \* the CQ
  idle, kernel,                   \* operations not submitted, or with the kernel
  spc, batch, tail, i,            \* submitBatch
  cpc, head, seen                 \* reap: head, and the tail it saw

sqVars == <<sqHead, sqTail, sqArray, sqes>>
cqVars == <<cqHead, cqTail, cqes>>
subVars == <<spc, batch, tail, i>>
reapVars == <<cpc, head, seen>>
vars == <<sqVars, cqVars, idle, kernel, subVars, reapVars>>

Unwrapped(x) == x
Wrap(x) == x % Word

\* The index of a slot: the word masked with the size less 1.
Slot(x, size) == x % size

Init ==
  /\ sqHead = 0 /\ sqTail = 0 /\ sqArray = [s \in 0 .. SqEntries - 1 |-> 0]
  /\ cqHead = 0 /\ cqTail = 0
  /\ sqes \in [0 .. SqEntries - 1 -> {CHOOSE op \in Ops : TRUE}]
  /\ cqes \in [0 .. CqEntries - 1 -> {CHOOSE op \in Ops : TRUE}]
  /\ idle = Ops /\ kernel = {}
  /\ spc = "load" /\ batch = <<>> /\ tail = 0 /\ i = 0
  /\ cpc = "load" /\ head = 0 /\ seen = 0

-----------------------------------------------------------------------------
(* The submitter: submitBatch. *)

Available == SqEntries - Wrap(sqTail - sqHead)

\* The prefix of the pending operations that fits.
SubLoad ==
  /\ spc = "load" /\ Available > 0
  /\ \E n \in 1 .. Cardinality(idle) : \E pending \in [1 .. n -> idle] :
       /\ IsInjective(pending)
       /\ batch' = SubSeq(pending, 1, IF n > Available THEN Available ELSE n)
  /\ tail' = sqTail /\ i' = 0 /\ spc' = "fill"
  /\ UNCHANGED <<sqVars, cqVars, idle, kernel, reapVars>>

SlotFromZero == Slot(i, SqEntries)
FillSlot == Slot(Wrap(tail + i), SqEntries)

SubFill ==
  /\ spc = "fill" /\ i < Len(batch)
  /\ sqes' = [sqes EXCEPT ![FillSlot] = batch[i + 1]]
  /\ sqArray' = [sqArray EXCEPT ![FillSlot] = FillSlot]
  /\ i' = i + 1
  /\ UNCHANGED <<sqHead, sqTail, cqVars, idle, kernel, spc, batch, tail, reapVars>>

SubStoreTail ==
  /\ spc = "fill" /\ i = Len(batch)
  /\ sqTail' = Wrap(tail + Len(batch)) /\ spc' = "enter"
  /\ idle' = idle \ Range(batch)
  /\ UNCHANGED <<sqHead, sqArray, sqes, cqVars, kernel, batch, tail, i, reapVars>>

\* enterSubmit returns when the kernel has consumed the batch.
PartlyConsumed == sqHead # tail
Consumed == sqHead = sqTail

SubReturn ==
  /\ spc = "enter" /\ Consumed
  /\ spc' = "load" /\ batch' = <<>> /\ tail' = 0 /\ i' = 0
  /\ UNCHANGED <<sqVars, cqVars, idle, kernel, reapVars>>

-----------------------------------------------------------------------------
(* The kernel. *)

KernelTake ==
  /\ spc = "enter" /\ sqHead # sqTail
  /\ kernel' = kernel \cup {sqes[sqArray[Slot(sqHead, SqEntries)]]}
  /\ sqHead' = Wrap(sqHead + 1)
  /\ UNCHANGED <<sqTail, sqArray, sqes, cqVars, idle, subVars, reapVars>>

KernelPost(op) ==
  /\ op \in kernel /\ Wrap(cqTail - cqHead) < CqEntries
  /\ cqes' = [cqes EXCEPT ![Slot(cqTail, CqEntries)] = op]
  /\ cqTail' = Wrap(cqTail + 1) /\ kernel' = kernel \ {op}
  /\ UNCHANGED <<sqVars, cqHead, idle, subVars, reapVars>>

-----------------------------------------------------------------------------
(* The completer: reap. *)

ReapLoad ==
  /\ cpc = "load" /\ head' = cqHead /\ seen' = cqTail
  /\ cpc' = IF cqHead # cqTail THEN "copy" ELSE "load"
  /\ UNCHANGED <<sqVars, cqVars, idle, kernel, subVars>>

MoreBelowSeen == head < seen
More == head # seen

ReapCopy ==
  /\ cpc = "copy" /\ More
  /\ idle' = idle \cup {cqes[Slot(head, CqEntries)]}
  /\ head' = Wrap(head + 1)
  /\ UNCHANGED <<sqVars, cqVars, kernel, subVars, cpc, seen>>

ReapStoreHead ==
  /\ cpc = "copy" /\ ~More
  /\ cqHead' = head /\ cpc' = "load"
  /\ UNCHANGED <<sqVars, cqTail, cqes, idle, kernel, subVars, head, seen>>

Submitter == SubLoad \/ SubFill \/ SubStoreTail \/ SubReturn
Completer == ReapLoad \/ ReapCopy \/ ReapStoreHead
Kernel == KernelTake \/ \E op \in Ops : KernelPost(op)

Next == Submitter \/ Kernel \/ Completer

\* The loops run.  The kernel keeps answers that find the CQ full in their
\* order, so that it posts each of them at last: strong fairness.
Fairness == WF_vars(SubFill \/ SubStoreTail \/ SubReturn) /\ WF_vars(Completer)
            /\ WF_vars(KernelTake)
            /\ \A op \in Ops : SF_vars(KernelPost(op))

Spec == Init /\ [][Next]_vars
FairSpec == Spec /\ Fairness

-----------------------------------------------------------------------------
(* Properties. *)

\* The types: the words, the slots, and the locals.
TypeOK ==
  /\ {sqHead, sqTail, cqHead, cqTail, tail, head, seen} \subseteq 0 .. Word - 1
  /\ sqArray \in [0 .. SqEntries - 1 -> 0 .. SqEntries - 1]
  /\ sqes \in [0 .. SqEntries - 1 -> Ops] /\ cqes \in [0 .. CqEntries - 1 -> Ops]
  /\ idle \subseteq Ops /\ kernel \subseteq Ops
  /\ spc \in {"load", "fill", "enter"} /\ cpc \in {"load", "copy"}
  /\ Range(batch) \subseteq Ops /\ Len(batch) <= SqEntries /\ i \in 0 .. Len(batch)

\* The queue from one index to another.
Between(from, to, size, entry(_)) ==
  [k \in 1 .. Wrap(to - from) |-> entry(Slot(Wrap(from + k - 1), size))]

\* CQEs that reap has copied are no longer in the queue, though their slots are.
Queues == INSTANCE SharedQueues WITH
  sq <- Between(sqHead, sqTail, SqEntries, LAMBDA s : sqes[sqArray[s]]),
  cq <- Between(IF cpc = "copy" THEN head ELSE cqHead, cqTail, CqEntries, LAMBDA s : cqes[s])

\* The words and slots are two bounded queues, wherever the words wrap: no slot
\* is overwritten that is still to be read, none is read twice, order is kept.
AreQueues == Queues!Spec

\* The SQ is empty whenever submitBatch looks for room, so that waitForSQSpace
\* never waits, and the CQ never holds more than its size.
RoomIsRight ==
  /\ spc = "load" => Available = SqEntries
  /\ Wrap(sqTail - sqHead) <= SqEntries /\ Wrap(cqTail - cqHead) <= CqEntries
  /\ cpc = "copy" => Wrap(seen - head) <= Wrap(cqTail - cqHead)

\* Every operation that is submitted is finished, across any wrap.
AllFinish == \A op \in Ops : op \notin idle ~> op \in idle
=============================================================================
