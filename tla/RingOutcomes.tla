---------------------------- MODULE RingOutcomes ----------------------------
(***************************************************************************)
(* Proofs about what the ring shows as a whole: that Close leaves           *)
(* nothing, is refused only over reads, and every operation is in one       *)
(* place; what the counters say after Close; what the retirement window     *)
(* holds; and that Ring implements ReadService. They hold for every set     *)
(* of calls, every queue size and, where nothing else is said, every        *)
(* fault below the ring, as long as the operation IDs have not been used    *)
(* up.                                                                      *)
(***************************************************************************)
EXTENDS RingProofs, RingService

-----------------------------------------------------------------------------
(* The CQEs still to be finished, with a kernel that answers each SQE once:  *)
(* one for every published operation that was answered, and no others.      *)

\* From the first CQE whose operation is still in the table.
Unfinished == (IF cpc = "deliver" THEN reaped + 2 ELSE reaped + 1) .. Len(cq)

UnfinishedOK ==
  /\ \A i \in Unfinished : \E o \in Reads : opId[o] = cq[i].id /\ opState[o] = "published"
  /\ \A i, j \in Unfinished : cq[i].id = cq[j].id => i = j
  /\ \A o \in Reads : opState[o] = "published" /\ Answered(o) =>
       \E i \in Unfinished : cq[i].id = opId[o]
  /\ cpc = "deliver" => cq[reaped + 1].id = opId[cur.op]
  /\ reaped <= limit /\ (cpc = "head" => reaped = limit)

\* A step that neither publishes nor answers nor completes keeps it.
LEMMA UnfinishedFrame ==
  ASSUME UnfinishedOK, UNCHANGED <<cq, reaped, limit, cur, served>>,
         cpc' = cpc \/ (cpc \notin {"deliver", "head"} /\ cpc' \notin {"deliver", "head"}),
         \A p \in Reads : opState[p] = "published" <=> opState'[p] = "published",
         \A p \in Reads : opState[p] \in {"published", "terminal"} => opId'[p] = opId[p],
         cpc = "deliver" => cur.op \in Reads /\ opState[cur.op] = "terminal"
  PROVE  UnfinishedOK'
  <1>1. Unfinished' = Unfinished /\ (cpc' = "deliver" <=> cpc = "deliver") /\ (cpc' = "head" <=> cpc = "head")
    BY DEF Unfinished
  <1>2. \A i \in Unfinished : \E o \in Reads : opId'[o] = cq[i].id /\ opState'[o] = "published"
    BY DEF UnfinishedOK
  <1>3. \A o \in Reads : opState'[o] = "published" /\ Answered(o) =>
          \E i \in Unfinished : cq[i].id = opId'[o]
    BY DEF UnfinishedOK
  <1> QED  BY <1>1, <1>2, <1>3 DEF UnfinishedOK, Answered

LEMMA CurIsTerminal ==
  ASSUME TypeInv, Owned, cpc = "deliver"
  PROVE  cur.op \in Reads /\ opState[cur.op] = "terminal"
  BY DEF TypeInv, TypeOK, CompTypes, LoopsOK, Owned, CurOK

LEMMA UnfinishedReadAt ==
  ASSUME TypeInv, Owned, UnfinishedOK, NEW o \in Reads, ReadAt(o)
  PROVE  UnfinishedOK'
  <1>1. UNCHANGED <<cq, reaped, limit, cur, served, cpc>>
    BY DEF ReadAt, ReadSkip, ReadPin, ReadRefused, ReadAdmit, ReadSend, ReadReturn, compVars, kernVars
  <1>2. CASE rpc[o] \in {"start", "admit"}
    <2>1. opState[o] \in {"none", "pinnedLocal"}
      BY <1>2 DEF Owned, CallsOK
    <2>2. /\ \A p \in Reads \ {o} : opState'[p] = opState[p] /\ opId'[p] = opId[p]
          /\ opState'[o] # "published"
      BY <1>2, <2>1 DEF ReadAt, ReadSkip, ReadPin, ReadRefused, ReadAdmit, ReadSend, ReadReturn, opVars,
                        TypeInv, TypeOK, OpTypes
    <2> QED  BY <1>1, <2>1, <2>2, CurIsTerminal, UnfinishedFrame
  <1>3. CASE rpc[o] \notin {"start", "admit"}
    <2>1. UNCHANGED <<opState, opId>>
      BY <1>3 DEF ReadAt, ReadSkip, ReadPin, ReadRefused, ReadAdmit, ReadSend, ReadReturn, opVars
    <2> QED  BY <1>1, <2>1, CurIsTerminal, UnfinishedFrame
  <1> QED  BY <1>2, <1>3

LEMMA UnfinishedSubmitter ==
  ASSUME TypeInv, Owned, UnfinishedOK, Submitter
  PROVE  UnfinishedOK'
  <1>1. UNCHANGED <<opId, cq, reaped, limit, cur, served, cpc>>
    BY DEF Submitter, SubReceive, SubStop, SubGather, SubPublish, SubStoreTail, SubEnter,
           SubEnterFails, SubAccount, SubNotify, opVars, compVars, kernVars
  <1>2. CASE UNCHANGED opState
    BY <1>1, <1>2, CurIsTerminal, UnfinishedFrame
  <1>3. CASE SubPublish /\ spc' = "store"
    <2> DEFINE head == SubSeq(pending, 1, BatchSize)
    <2>1. opState' = [p \in Reads |-> IF p \in Range(head) THEN "published" ELSE opState[p]]
      BY <1>3 DEF SubPublish
    <2>2. Range(head) \subseteq Range(pending)
      BY BatchSizeType, PlacesType, SplitFacts
    <2> HIDE DEF head
    <2>3. \A p \in Range(head) : p \in Reads /\ opState[p] = "queued" /\ ~Answered(p)
      BY <2>2, PlacesType DEF ToPublish, Owned, QueuesOK, Held, Answered
    <2>4. \A p \in Reads : opState[p] = "published" => opState'[p] = "published"
      BY <2>1
    <2>5. \A p \in Reads : opState'[p] = "published" /\ Answered(p) => opState[p] = "published"
      BY <2>1, <2>3
    <2>6. Unfinished' = Unfinished
      BY <1>1 DEF Unfinished
    <2>7. \A p \in Reads : Answered(p)' <=> Answered(p)
      BY <1>1 DEF Answered
    <2> QED  BY <1>1, <2>4, <2>5, <2>6, <2>7 DEF UnfinishedOK
  <1> QED
    BY <1>2, <1>3 DEF Submitter, SubReceive, SubStop, SubGather, SubPublish, SubStoreTail, SubEnter,
                      SubEnterFails, SubAccount, SubNotify, opVars

LEMMA UnfinishedKernel ==
  ASSUME TypeInv, Owned, UnfinishedOK, NEW o \in Reads, KernelComplete(o)
  PROVE  UnfinishedOK'
  <1>1. PICK res \in Results :
           /\ o \in inflight /\ served' = [served EXCEPT ![o] = res]
           /\ cq' = Append(cq, [id |-> opId[o], res |-> res])
           /\ UNCHANGED <<opId, opState, reaped, limit, cur, cpc>>
    BY DEF KernelComplete, opVars, compVars
  <1>2. /\ ~Answered(o) /\ opState[o] = "published" /\ opId[o] # 0
        /\ \A p \in Reads \ {o} : Answered(p)' <=> Answered(p)
    BY <1>1 DEF TypeInv, TypeOK, KernTypes, Owned, RingOK, InRing, Held, Answered, Ids
  <1>3. cq \in Seq(Cqe) /\ Len(cq) \in Nat /\ [id |-> opId[o], res |-> res] \in Cqe
    BY LenProperties DEF TypeInv, TypeOK, KernTypes, OpTypes, Cqe
  <1>4. /\ Len(cq') = Len(cq) + 1 /\ cq'[Len(cq) + 1].id = opId[o]
        /\ \A i \in 1 .. Len(cq) : cq'[i] = cq[i]
    BY <1>1, <1>3, AppendProperties
  <1>5. reaped \in Nat /\ (cpc = "deliver" => reaped + 1 \in 1 .. Len(cq)) /\ reaped <= Len(cq)
    BY <1>3 DEF TypeInv, TypeOK, CompTypes, LoopsOK, UnfinishedOK
  <1>6. Unfinished' = Unfinished \cup {Len(cq) + 1} /\ Unfinished \subseteq 1 .. Len(cq)
    BY <1>1, <1>3, <1>4, <1>5 DEF Unfinished
  <1>7. \A i \in Unfinished : cq[i].id # opId[o]
    BY <1>2, <1>6 DEF Owned, CqesOK, Answered
  <1>8. \A p \in Reads : opState[p] = "published" /\ Answered(p)' => \E i \in Unfinished' : cq'[i].id = opId[p]
    <2>1. ASSUME NEW p \in Reads, p # o, opState[p] = "published", Answered(p)
          PROVE  \E i \in Unfinished' : cq'[i].id = opId[p]
      <3>1. PICK i \in Unfinished : cq[i].id = opId[p]
        BY <2>1 DEF UnfinishedOK
      <3> QED  BY <1>4, <1>6, <3>1
    <2> QED  BY <1>2, <1>4, <1>6, <2>1
  <1>9. \A i \in Unfinished' : \E p \in Reads : opId[p] = cq'[i].id /\ opState[p] = "published"
    BY <1>2, <1>4, <1>6 DEF UnfinishedOK
  <1>10. \A i, j \in Unfinished' : cq'[i].id = cq'[j].id => i = j
    <2>1. \A i \in Unfinished : cq'[i].id = cq[i].id
      BY <1>4, <1>6
    <2> QED  BY <1>4, <1>6, <1>7, <2>1 DEF UnfinishedOK
  <1>11. cpc = "deliver" => cq'[reaped + 1].id = opId[cur.op]
    BY <1>4, <1>5 DEF UnfinishedOK
  <1>12. reaped <= limit /\ (cpc = "head" => reaped = limit)
    BY DEF UnfinishedOK
  <1> QED  BY <1>1, <1>8, <1>9, <1>10, <1>11, <1>12 DEF UnfinishedOK

LEMMA UnfinishedCompleter ==
  ASSUME TypeInv, Owned, UnfinishedOK, Completer
  PROVE  UnfinishedOK'
  <1>1. UNCHANGED <<opId, served>> /\ \A p \in Reads : Answered(p)' <=> Answered(p)
    BY DEF Completer, CompReap, CompFinish, CompUnknown, CompDeliver, CompStoreHead, CompCheck,
           CompIdle, CompWait, opVars, kernVars, Answered
  <1>2. reaped \in Nat /\ limit \in Nat /\ Len(cq) \in Nat /\ limit <= Len(cq) /\ cq \in Seq(Cqe)
    BY LenProperties DEF TypeInv, TypeOK, CompTypes, KernTypes, LoopsOK
  <1>3. CASE CompFinish /\ cpc' = "deliver"
    <2>1. PICK id \in Ids, op \in Reads :
            /\ op = ops[id] /\ opState[op] = "published" /\ opId[op] = id
            /\ cpc = "finish" /\ id = cq[reaped + 1].id /\ reaped + 1 \in 1 .. Len(cq)
            /\ cur' = [op |-> op, res |-> NextCqe.res]
            /\ opState' = [opState EXCEPT ![op] = "terminal"]
            /\ UNCHANGED <<cq, reaped, limit>>
      BY <1>3, NextCqeType DEF CompFinish, Known, NextCqe, TypeInv, TypeOK, LockTypes, Owned, IdsOK, kernVars
    <2>2. opState'[op] = "terminal" /\ \A p \in Reads \ {op} : opState'[p] = opState[p]
      BY <2>1 DEF TypeInv, TypeOK, OpTypes
    <2>3. Unfinished = Unfinished' \cup {reaped + 1} /\ reaped + 1 \notin Unfinished'
      BY <1>2, <1>3, <2>1 DEF Unfinished
    <2>4. \A i \in Unfinished' : cq[i].id # id
      BY <2>1, <2>3 DEF UnfinishedOK
    <2>5. \A i \in Unfinished' : \E p \in Reads : opId[p] = cq[i].id /\ opState'[p] = "published"
      <3> TAKE i \in Unfinished'
      <3>1. PICK p \in Reads : opId[p] = cq[i].id /\ opState[p] = "published"
        BY <2>3 DEF UnfinishedOK
      <3> QED  BY <2>1, <2>2, <2>4, <3>1
    <2>6. ASSUME NEW p \in Reads, opState'[p] = "published", Answered(p)
          PROVE  \E i \in Unfinished' : cq[i].id = opId[p]
      <3>1. p # op /\ opState[p] = "published"
        BY <2>2, <2>6
      <3>2. PICK i \in Unfinished : cq[i].id = opId[p]
        BY <2>6, <3>1 DEF UnfinishedOK
      <3>3. i # reaped + 1
        BY <2>1, <3>1, <3>2 DEF Owned, IdsOK, Ids
      <3> QED  BY <2>3, <3>2, <3>3
    <2>7. \A i, j \in Unfinished' : cq[i].id = cq[j].id => i = j
      BY <2>3 DEF UnfinishedOK
    <2>8. cur'.op = op
      BY <2>1
    <2> QED  BY <1>1, <1>3, <2>1, <2>5, <2>6, <2>7, <2>8 DEF UnfinishedOK
  <1>4. CASE CompDeliver
    <2>1. PICK op \in Reads :
            /\ cpc = "deliver" /\ reaped < limit
            /\ opState[op] = "terminal" /\ opState' = [opState EXCEPT ![op] = "released"]
            /\ reaped' = reaped + 1 /\ cpc' = IF reaped + 1 = limit THEN "head" ELSE "finish"
            /\ UNCHANGED <<cq, limit>>
      BY <1>4, CurIsTerminal DEF CompDeliver, kernVars, TypeInv, LoopsOK
    <2>2. \A p \in Reads : opState'[p] = "published" <=> opState[p] = "published"
      BY <2>1 DEF TypeInv, TypeOK, OpTypes
    <2>3. Unfinished' = Unfinished
      BY <1>2, <2>1 DEF Unfinished
    <2>4. reaped' <= limit'
      BY <1>2, <2>1
    <2> QED  BY <1>1, <2>1, <2>2, <2>3, <2>4 DEF UnfinishedOK
  <1>5. CASE CompStoreHead
    <2>1. /\ cpc = "head" /\ cpc' = "reap" /\ limit' = 0 /\ reaped' = 0 /\ UNCHANGED opState
          /\ cq' = SubSeq(cq, limit + 1, Len(cq))
      BY <1>5 DEF CompStoreHead, Undrained, opVars
    <2>2. Len(cq') = Len(cq) - limit /\ \A i \in 1 .. Len(cq') : cq'[i] = cq[i + limit]
      BY <1>2, <2>1, SplitFacts
    <2>3. reaped = limit
      BY <2>1 DEF UnfinishedOK
    <2>4. Unfinished' = 1 .. Len(cq) - limit /\ Unfinished = limit + 1 .. Len(cq)
      BY <1>2, <2>1, <2>2, <2>3 DEF Unfinished
    <2>5. \A i \in Unfinished' : i + limit \in Unfinished /\ cq'[i] = cq[i + limit]
      BY <1>2, <2>2, <2>4
    <2>6. \A i \in Unfinished : i - limit \in Unfinished' /\ cq'[i - limit] = cq[i]
      <3> TAKE i \in Unfinished
      <3>1. i - limit \in Unfinished' /\ (i - limit) + limit = i
        BY <1>2, <2>4
      <3> QED  BY <2>5, <3>1
    <2>7. \A i \in Unfinished' : \E p \in Reads : opId[p] = cq'[i].id /\ opState[p] = "published"
      BY <2>5 DEF UnfinishedOK
    <2>8. \A p \in Reads : opState[p] = "published" /\ Answered(p) => \E i \in Unfinished' : cq'[i].id = opId[p]
      BY <2>6 DEF UnfinishedOK
    <2>9. \A i, j \in Unfinished' : cq'[i].id = cq'[j].id => i = j
      <3> TAKE i, j \in Unfinished'
      <3> HAVE cq'[i].id = cq'[j].id
      <3>1. i + limit = j + limit
        BY <2>5 DEF UnfinishedOK
      <3> QED  BY <1>2, <2>4, <3>1
    <2>10. reaped' <= limit' /\ cpc' \notin {"deliver", "head"}
      BY <2>1
    <2> QED  BY <1>1, <2>1, <2>7, <2>8, <2>9, <2>10 DEF UnfinishedOK
  <1>6. CASE CompReap \/ CompCheck \/ CompIdle \/ CompWait \/ CompUnknown
             \/ (CompFinish /\ cpc' # "deliver")
    <2>1. /\ UNCHANGED <<opState, cq, reaped, cur>> /\ cpc \notin {"deliver", "head"}
          /\ cpc' \notin {"deliver", "head"}
      BY <1>6 DEF CompReap, CompFinish, CompUnknown, CompCheck, CompIdle, CompWait, opVars, kernVars
    <2>2. Unfinished' = Unfinished
      BY <2>1 DEF Unfinished
    <2>3. reaped' <= limit'
      <3>1. CASE CompReap
        BY <1>2, <3>1 DEF CompReap, TypeInv, LoopsOK
      <3>2. CASE ~CompReap
        BY <1>6, <3>2 DEF CompFinish, CompUnknown, CompCheck, CompIdle, CompWait, UnfinishedOK
      <3> QED  BY <3>1, <3>2
    <2> QED  BY <1>1, <2>1, <2>2, <2>3 DEF UnfinishedOK
  <1> QED  BY <1>3, <1>4, <1>5, <1>6 DEF Completer

LEMMA UnfinishedStep ==
  ASSUME "spurious" \notin Faults
  PROVE  TypeInv /\ Owned /\ UnfinishedOK /\ [Next]_vars => UnfinishedOK'
  <1> DEFINE Frame == UNCHANGED <<cq, reaped, limit, cur, served, cpc, opState, opId>>
  <1>1. ASSUME UnfinishedOK, Frame PROVE UnfinishedOK'
    <2>1. Unfinished' = Unfinished
      BY <1>1 DEF Unfinished
    <2> QED  BY <1>1, <2>1 DEF UnfinishedOK, Answered
  <1>2. ASSUME UNCHANGED vars \/ \E c \in Closers : Close(c) PROVE Frame
    BY <1>2 DEF vars, Close, CloseBegin, CloseDecide, CloseStop, CloseJoin, opVars, compVars, kernVars
  <1> QED
    BY <1>1, <1>2, UnfinishedReadAt, UnfinishedSubmitter, UnfinishedKernel, UnfinishedCompleter
    DEF Next, Finished, KernelSpurious

-----------------------------------------------------------------------------
(* One place for every operation, and no panic, with a kernel that answers   *)
(* each SQE once and never refuses an enter.                                 *)

AliveOK == Alive /\ spc # "space"

\* What is in a queue without repetitions occurs in it once.
LEMMA OccursOnce ==
  ASSUME NEW n \in Nat, NEW s, DOMAIN s = 1 .. n, NEW x,
         \A i, j \in 1 .. n : s[i] = x /\ s[j] = x => i = j
  PROVE  Occurrences(s, x) = IF \E i \in 1 .. n : s[i] = x THEN 1 ELSE 0
  <1> DEFINE T == {i \in DOMAIN s : s[i] = x}
  <1>1. CASE \E i \in 1 .. n : s[i] = x
    <2>1. PICK i \in 1 .. n : s[i] = x
      BY <1>1
    <2>2. T = {i}
      BY <2>1
    <2> QED  BY <1>1, <2>2, FS_Singleton DEF Occurrences
  <1>2. CASE ~ \E i \in 1 .. n : s[i] = x
    <2>1. T = {}
      BY <1>2
    <2> QED  BY <1>2, <2>1, FS_EmptySet DEF Occurrences
  <1> QED  BY <1>1, <1>2

LEMMA OccursInSeq ==
  ASSUME NEW S, NEW s \in Seq(S), IsInjective(s), NEW x
  PROVE  Occurrences(s, x) = IF x \in Range(s) THEN 1 ELSE 0
  <1>1. DOMAIN s = 1 .. Len(s) /\ Len(s) \in Nat
    BY LenProperties
  <1>2. /\ \A i, j \in 1 .. Len(s) : s[i] = x /\ s[j] = x => i = j
        /\ x \in Range(s) <=> \E i \in 1 .. Len(s) : s[i] = x
    BY ByIndex
  <1> QED  BY <1>1, <1>2, OccursOnce

\* A CQE that finish has not begun with names one published operation.
LEMMA NextIsLive ==
  ASSUME TypeInv, Owned, LifeOK, OutstandingIsExact, UnfinishedOK, cpc = "finish"
  PROVE  Known(NextCqe.id) /\ opState[ops[NextCqe.id]] = "published" /\ outstanding > 0
  <1>1. reaped + 1 \in Unfinished
    BY NextCqeType, LenProperties DEF Unfinished, TypeInv, TypeOK, KernTypes, CompTypes
  <1>2. PICK o \in Reads : opId[o] = NextCqe.id /\ opState[o] = "published"
    BY <1>1 DEF UnfinishedOK, NextCqe
  <1>3. NextCqe.id \in Ids /\ ops[NextCqe.id] = o /\ o # None
    BY <1>2, NoneAssumption DEF LifeOK, Life, InTable
  <1>4. NextCqe.id \in Live
    BY <1>2, <1>3 DEF Live
  <1>5. outstanding = Cardinality(Live) /\ Cardinality(Live) # 0
    BY <1>4, LiveType, FS_EmptySet DEF OutstandingIsExact, Live
  <1> QED  BY <1>2, <1>3, <1>5, LiveType DEF Known

\* The submitter publishes what its checks accept.
LEMMA BatchIsValid ==
  ASSUME TypeInv, Owned, LifeOK
  PROVE  BatchValid
  <1>1. \A i \in 1 .. Len(pending) : pending[i] \in ToPublish /\ pending[i] \in Reads
    BY PlacesType, ByIndex DEF ToPublish
  <1>2. 1 .. BatchSize \subseteq 1 .. Len(pending)
    BY BatchSizeType, PlacesType, LenProperties
  <1> QED
    BY <1>1, <1>2 DEF Owned, QueuesOK, LifeOK, Life, InTable, BatchValid, Publishable

LEMMA AliveStep ==
  ASSUME "enterErr" \notin Faults
  PROVE  TypeInv /\ Owned /\ LifeOK /\ SubmitterOK /\ OutstandingIsExact /\ UnfinishedOK
         /\ AliveOK /\ [Next]_vars => AliveOK'
  <1> SUFFICES ASSUME TypeInv, Owned, LifeOK, SubmitterOK, OutstandingIsExact, UnfinishedOK,
                      AliveOK, [Next]_vars
               PROVE  AliveOK'
    OBVIOUS
  <1>1. CASE Submitter
    <2>1. UNCHANGED cpc
      BY <1>1 DEF Submitter, SubReceive, SubStop, SubGather, SubPublish, SubStoreTail, SubEnter,
                  SubEnterFails, SubAccount, SubNotify, compVars
    <2>2. CASE SubPublish
      <3>1. spc' = "store"
        BY <2>2, BatchNotEmpty, BatchIsValid DEF SubPublish
      <3> QED  BY <2>1, <3>1 DEF AliveOK, Alive
    <2>3. CASE ~SubPublish
      <3>1. spc' \notin {"space", "panic"}
        BY <1>1, <2>3 DEF Submitter, SubReceive, SubStop, AfterStop, SubGather, SubStoreTail, SubEnter,
                          SubEnterFails, SubAccount, SubNotify
      <3> QED  BY <2>1, <3>1 DEF AliveOK, Alive
    <2> QED  BY <2>2, <2>3
  <1>2. CASE Completer
    <2>1. UNCHANGED spc
      BY <1>2 DEF Completer, CompReap, CompFinish, CompUnknown, CompDeliver, CompStoreHead, CompCheck,
                  CompIdle, CompWait, subVars
    <2>2. cpc' # "panic"
      BY <1>2, NextIsLive DEF Completer, CompReap, CompFinish, CompUnknown, CompDeliver, CompStoreHead,
                              CompCheck, CompIdle, CompWait
    <2> QED  BY <2>1, <2>2 DEF AliveOK, Alive
  <1>3. CASE ~Submitter /\ ~Completer
    <2>1. UNCHANGED <<spc, cpc>>
      BY <1>3 DEF Next, Finished, KernelSpurious, KernelComplete, vars, Close, CloseBegin, CloseDecide,
                  CloseStop, CloseJoin, ReadAt, ReadSkip, ReadPin, ReadRefused, ReadAdmit, ReadSend,
                  ReadReturn, subVars, compVars
    <2> QED  BY <2>1 DEF AliveOK, Alive
  <1> QED  BY <1>1, <1>2, <1>3

\* On its way to the SQ.
LEMMA WaitsOnce ==
  ASSUME TypeInv, Owned, LifeOK, NEW o \in Reads
  PROVE  Waiting(o) = IF opState[o] = "queued" THEN 1 ELSE 0
  <1>1. /\ Occurrences(submitCh, o) = IF o \in Range(submitCh) THEN 1 ELSE 0
        /\ Occurrences(pending, o) = IF o \in Range(pending) THEN 1 ELSE 0
    BY PlacesType, OccursInSeq DEF Owned, QueuesOK
  <1>2. ~(o \in Range(submitCh) /\ o \in Range(pending))
    BY DEF Owned, QueuesOK
  <1>3. /\ opState[o] = "queued" => rpc[o] = "send" \/ o \in ToPublish
        /\ rpc[o] = "send" => opState[o] = "queued"
        /\ o \in ToPublish => opState[o] = "queued" /\ rpc[o] = "wait"
    BY DEF LifeOK, Life, Owned, CallsOK, QueuesOK, Held
  <1> QED  BY <1>1, <1>2, <1>3 DEF Waiting, ToPublish

\* The CQEs that carry the ID of an operation and have not been delivered.
LEMMA UnfinishedOnce ==
  ASSUME TypeInv, Owned, LifeOK, UnfinishedOK, NEW o \in Reads, opId[o] # 0,
         ~(cpc = "deliver" /\ cur.op = o)
  PROVE  Occurrences(UnfinishedIDs, opId[o]) =
           IF opState[o] = "published" /\ Answered(o) THEN 1 ELSE 0
  <1> DEFINE n == Len(cq) - reaped
  <1>1. reaped \in Nat /\ Len(cq) \in Nat /\ n \in Nat
    BY LenProperties DEF TypeInv, TypeOK, CompTypes, KernTypes, LoopsOK, UnfinishedOK
  <1>2. DOMAIN UnfinishedIDs = 1 .. n /\ \A i \in 1 .. n : UnfinishedIDs[i] = cq[i + reaped].id
    BY DEF UnfinishedIDs
  <1>3. \A i \in 1 .. n : UnfinishedIDs[i] = opId[o] => i + reaped \in Unfinished
    <2> TAKE i \in 1 .. n
    <2> HAVE UnfinishedIDs[i] = opId[o]
    <2>1. CASE cpc = "deliver" /\ i = 1
      <3>1. opId[cur.op] = opId[o] /\ cur.op \in Reads
        BY <1>1, <1>2, <2>1, CurIsTerminal DEF UnfinishedOK
      <3> QED  BY <2>1, <3>1 DEF Owned, IdsOK
    <2>2. CASE ~(cpc = "deliver" /\ i = 1)
      BY <1>1, <2>2 DEF Unfinished
    <2> QED  BY <2>1, <2>2
  <1>4. \A i, j \in 1 .. n : UnfinishedIDs[i] = opId[o] /\ UnfinishedIDs[j] = opId[o] => i = j
    <2> TAKE i, j \in 1 .. n
    <2> HAVE UnfinishedIDs[i] = opId[o] /\ UnfinishedIDs[j] = opId[o]
    <2>1. i + reaped = j + reaped
      BY <1>2, <1>3 DEF UnfinishedOK
    <2> QED  BY <1>1, <2>1
  <1>5. ASSUME NEW i \in 1 .. n, UnfinishedIDs[i] = opId[o]
        PROVE  opState[o] = "published" /\ Answered(o)
    <2>1. i + reaped \in Unfinished /\ cq[i + reaped].id = opId[o] /\ i + reaped \in 1 .. Len(cq)
      BY <1>1, <1>2, <1>3, <1>5
    <2>2. opState[o] = "published"
      BY <2>1 DEF UnfinishedOK, Owned, IdsOK
    <2> QED  BY <2>1, <2>2 DEF Owned, CqesOK, Answered
  <1>6. ASSUME opState[o] = "published", Answered(o)
        PROVE  \E i \in 1 .. n : UnfinishedIDs[i] = opId[o]
    <2>1. PICK i \in Unfinished : cq[i].id = opId[o]
      BY <1>6 DEF UnfinishedOK
    <2>2. i - reaped \in 1 .. n /\ (i - reaped) + reaped = i
      BY <1>1 DEF Unfinished
    <2> QED  BY <1>2, <2>1, <2>2
  <1> HIDE DEF n
  <1>7. PICK s, x : s = UnfinishedIDs /\ x = opId[o]
    OBVIOUS
  <1>8. n \in Nat /\ DOMAIN s = 1 .. n /\ \A i, j \in 1 .. n : s[i] = x /\ s[j] = x => i = j
    BY <1>1, <1>2, <1>4, <1>7
  <1>9. Occurrences(s, x) = IF \E i \in 1 .. n : s[i] = x THEN 1 ELSE 0
    BY <1>8, OccursOnce
  <1> QED  BY <1>5, <1>6, <1>7, <1>9

\* Between the batch and the delivery.
LEMMA ExposedOnce ==
  ASSUME TypeInv, Owned, LifeOK, UnfinishedOK, NEW o \in Reads, opId[o] # 0
  PROVE  Exposed(o) = IF opState[o] = "published" THEN 1 ELSE 0
  <1>1. /\ Occurrences(batch, o) = IF o \in Range(batch) THEN 1 ELSE 0
        /\ Occurrences(sq, o) = IF o \in Range(sq) THEN 1 ELSE 0
    BY PlacesType, OccursInSeq DEF Owned, RingOK
  <1>2. /\ ~(o \in Range(batch) /\ o \in Range(sq))
        /\ ~(o \in Range(batch) /\ o \in inflight) /\ ~(o \in Range(sq) /\ o \in inflight)
    BY DEF Owned, RingOK
  <1>3. /\ o \in InRing => opState[o] = "published" /\ ~Answered(o)
        /\ opState[o] = "published" => o \in InRing \/ Answered(o)
    BY DEF Owned, RingOK, Held, LifeOK, Life, Answered
  <1>4. CASE cpc = "deliver" /\ cur.op = o
    <2>1. opState[o] # "published"
      BY <1>4, CurIsTerminal
    <2> QED  BY <1>1, <1>3, <1>4, <2>1 DEF Exposed, InRing
  <1>5. CASE ~(cpc = "deliver" /\ cur.op = o)
    BY <1>1, <1>2, <1>3, <1>5, UnfinishedOnce DEF Exposed, InRing
  <1> QED  BY <1>4, <1>5

LEMMA UnfinishedInit == Init => UnfinishedOK /\ AliveOK
  <1> SUFFICES ASSUME Init PROVE UnfinishedOK /\ AliveOK
    OBVIOUS
  <1>1. AliveOK
    BY DEF Init, AliveOK, Alive
  <1>2. UnfinishedOK
    <2>1. cpc = "reap" /\ reaped = 0 /\ Len(cq) = 0
      BY DEF Init
    <2>2. Unfinished = {}
      <3>1. Unfinished = 1 .. 0
        BY <2>1 DEF Unfinished
      <3> QED  BY <3>1
    <2>3. cpc = "reap" /\ reaped = 0 /\ limit = 0 /\ \A o \in Reads : opState[o] = "none"
      BY DEF Init
    <2> QED  BY <2>2, <2>3 DEF UnfinishedOK
  <1> QED  BY <1>1, <1>2

\* With a kernel that answers each SQE once, Close leaves both loops ended,
\* every queue empty and no buffer with the kernel.
THEOREM CloseIsComplete ==
  "spurious" \notin Faults => (Spec => [](NoOverflow => CloseLeavesNothing))
  <1> SUFFICES ASSUME "spurious" \notin Faults PROVE Spec => [](NoOverflow => CloseLeavesNothing)
    OBVIOUS
  <1> DEFINE Inv == LifeInv /\ (NoOverflow => UnfinishedOK)
  <1>1. Init => Inv
    BY LifeInit, UnfinishedInit
  <1>2. Inv /\ [Next]_vars => Inv'
    BY LifeInvStep, ResultsStep, UnfinishedStep DEF LifeInv
  <1>3. Inv => (NoOverflow => CloseLeavesNothing)
    <2> SUFFICES ASSUME TypeInv, Owned, LifeOK, SubmitterOK, CloseOK, UnfinishedOK,
                        ~mapped \/ \E c \in Closers : closeRet[c] = "nil"
                 PROVE  /\ ~mapped /\ spc = "exited" /\ cpc = "exited"
                        /\ submitCh = <<>> /\ pending = <<>> /\ KernelOwned = {} /\ cq = <<>>
                        /\ \A i \in Ids : ops[i] = None
      BY DEF LifeInv, CloseLeavesNothing
    <2>1. ~mapped /\ closed /\ spc = "exited" /\ cpc = "exited" /\ \A i \in Ids : ops[i] = None
      BY DEF CloseOK, CloserOK, DrainedOK
    <2>2. ToPublish = {} /\ InRing = {} /\ \A o \in Reads : opState[o] # "published"
      BY <2>1, ClosedMeansEmpty
    <2>3. submitCh = <<>> /\ pending = <<>>
      BY <2>1, <2>2, PlacesType, DequeueFacts DEF ToPublish
    <2>4. cq = <<>>
      <3>1. Unfinished = 1 .. Len(cq) /\ cq \in Seq(Cqe) /\ Len(cq) \in Nat
        BY <2>1, LenProperties DEF Unfinished, TypeInv, TypeOK, KernTypes, LoopsOK
      <3>2. Len(cq) = 0
        BY <2>2, <3>1 DEF UnfinishedOK
      <3> QED  BY <3>1, <3>2, EmptySeq
    <2> QED  BY <2>1, <2>2, <2>3, <2>4 DEF InRing, KernelOwned
  <1> HIDE DEF Inv
  <1> QED  BY <1>1, <1>2, <1>3, PTL DEF Spec

\* Nothing outlives the call it was made for that would keep Close from succeeding:
\* what the table holds and what is outstanding is all of calls still in ReadAt.
LEMMA BusyOverReads ==
  ASSUME LifeInv, NoOverflow, ~Drained
  PROVE  \E o \in Reads : rpc[o] \in {"send", "wait"}
<1>1. TypeInv /\ LifeOK /\ OutstandingIsExact
  BY DEF LifeInv
<1>2. PICK i \in Ids : ops[i] # None
  <2>1. CASE outstanding = 0
    BY <2>1 DEF Drained
  <2>2. CASE outstanding # 0
    <3>1. {i \in Ids : ops[i] # None /\ opState[ops[i]] = "published"} # {}
      BY <1>1, <2>2, FS_EmptySet DEF OutstandingIsExact
    <3> QED  BY <3>1
  <2> QED  BY <2>1, <2>2
<1>3. PICK o \in Reads : o = ops[i]
  BY <1>1, <1>2 DEF TypeInv, TypeOK, LockTypes
<1>4. opState[o] \in {"queued", "published"}
  BY <1>1, <1>2, <1>3 DEF LifeOK
<1> QED  BY <1>1, <1>3, <1>4 DEF LifeOK, Life

\* Close is refused only over a call that has not returned: whoever closes the ring
\* after the last read need not wait, try again, or look at the counters first.
THEOREM CloseIsNeverEarly == Spec /\ []NoOverflow => CloseRefusedOnlyOverReads
<1> DEFINE Overread == \A c \in Closers : closeRet[c] # "busy" /\ closeRet'[c] = "busy" =>
                         \E o \in Reads : rpc[o] \in {"send", "wait"}
<1>1. Spec => []LifeInv
  BY LifeInit, LifeInvStep, PTL DEF Spec
<1>2. ASSUME LifeInv, NoOverflow, [Next]_vars PROVE Overread
  <2> SUFFICES ASSUME NEW c \in Closers, closeRet[c] # "busy", closeRet'[c] = "busy"
               PROVE  \E o \in Reads : rpc[o] \in {"send", "wait"}
    OBVIOUS
  <2>1. closeRet' # closeRet
    OBVIOUS
  <2>2. PICK d \in Closers : Close(d)
    BY <1>2, <2>1 DEF Next, Finished, vars, closeVars, Submitter, SubReceive, SubStop, SubGather,
       SubPublish, SubStoreTail, SubEnter, SubEnterFails, SubAccount, SubNotify, Completer, CompReap,
       CompFinish, CompUnknown, CompDeliver, CompStoreHead, CompCheck, CompIdle, CompWait, ReadAt,
       ReadSkip, ReadPin, ReadRefused, ReadAdmit, ReadSend, ReadReturn, KernelComplete, KernelSpurious
  <2>3. CloseDecide(d) /\ ~Drained
    <3>1. closeRet' = closeRet \/ \E x : closeRet' = [closeRet EXCEPT ![d] = x]
      BY <2>2 DEF Close, CloseBegin, CloseDecide, CloseStop, CloseJoin
    <3>2. closeRet \in [Closers -> {None, "nil", "fatal", "busy"}]
      BY <1>2 DEF LifeInv, TypeInv, TypeOK, CloseTypes
    <3>3. c = d
      BY <3>1, <3>2
    <3>4. CASE CloseBegin(d)
      <4>1. closeRet' = closeRet \/ \E x \in {"nil", "fatal"} : closeRet' = [closeRet EXCEPT ![d] = x]
        BY <3>4 DEF CloseBegin
      <4> QED  BY <3>2, <3>3, <4>1
    <3>5. CASE CloseJoin(d)
      BY <3>2, <3>3, <3>5 DEF CloseJoin
    <3> QED  BY <2>1, <2>2, <3>4, <3>5 DEF Close, CloseDecide, CloseStop
  <2> QED  BY <1>2, <2>3, BusyOverReads
<1>3. LifeInv /\ NoOverflow /\ [Next]_vars => [Overread]_vars
  BY <1>2
<1> QED  BY <1>1, <1>3, PTL DEF Spec, CloseRefusedOnlyOverReads

\* With such a kernel, and no failing enter, every operation is in one place
\* between ReadAt and its delivery, and none of the code's panics is reached.
THEOREM NothingLostOrDoubled ==
  Faults \cap {"spurious", "enterErr"} = {} =>
    (Spec => [](NoOverflow => EveryOperationInOnePlace))
  <1> SUFFICES ASSUME Faults \cap {"spurious", "enterErr"} = {}
               PROVE  Spec => [](NoOverflow => EveryOperationInOnePlace)
    OBVIOUS
  <1>1. "spurious" \notin Faults /\ "enterErr" \notin Faults
    OBVIOUS
  <1> DEFINE Inv == LifeInv /\ (NoOverflow => UnfinishedOK /\ AliveOK)
  <1>2. Init => Inv
    BY LifeInit, UnfinishedInit
  <1>3. Inv /\ [Next]_vars => Inv'
    BY <1>1, LifeInvStep, ResultsStep, UnfinishedStep, AliveStep DEF LifeInv
  <1>4. Inv => (NoOverflow => EveryOperationInOnePlace)
    BY WaitsOnce, ExposedOnce DEF LifeInv, AliveOK, EveryOperationInOnePlace
  <1> HIDE DEF Inv
  <1> QED  BY <1>2, <1>3, <1>4, PTL DEF Spec

-----------------------------------------------------------------------------
(* The flow of the operations through the counters. *)

Admitting == {o \in Reads : rpc[o] = "admit"}
Sending == {o \in Reads : rpc[o] = "send"}

\* A created operation is being admitted, was cleaned or was admitted, and its
\* pin is dropped by the cleaning or by its completion.
CallAccounts ==
  /\ IsFiniteSet(Admitting) /\ IsFiniteSet(Sending)
  /\ stats["created"] = stats["admitted"] + stats["cleaned"] + Cardinality(Admitting)
  /\ stats["pins"] = stats["created"]
  /\ stats["unpins"] = stats["cleaned"] + stats["completed"]

\* An admitted operation is on its way to the SQ or was published.
QueueAccounts ==
  stats["admitted"] = Cardinality(Sending) + Len(submitCh) + Len(pending) + Len(batch) + stats["published"]

\* A published operation is in the SQ or consumed; it is outstanding, at its
\* delivery, or completed.
Delivering == IF cpc = "deliver" THEN 1 ELSE 0
Taken == IF spc = "account" THEN taken ELSE 0
SqFlow == stats["published"] = stats["consumed"] + Len(sq) + Taken
TableFlow == stats["published"] + Len(batch) = outstanding + stats["completed"] + Delivering
CqFlow == stats["completed"] = stats["drained"] + reaped /\ (cpc = "head" => reaped = limit)
RingFlow == SqFlow /\ TableFlow /\ CqFlow

\* What was asked of the kernel and not taken was counted as a partial submit.
Owed == stats["consumed"] + (IF spc = "account" THEN remaining ELSE 0)
PartialAccounts ==
  spc # "panic" => \/ stats["partials"] = 0 /\ stats["requested"] = Owed
                   \/ stats["partials"] > 0 /\ stats["requested"] > Owed

AccountsOK == CallAccounts /\ QueueAccounts /\ RingFlow /\ PartialAccounts

NumberTypes ==
  /\ Len(submitCh) \in Nat /\ Len(pending) \in Nat /\ Len(batch) \in Nat /\ Len(sq) \in Nat
  /\ Len(cq) \in Nat /\ outstanding \in Nat /\ taken \in Nat /\ remaining \in Nat
  /\ reaped \in Nat /\ limit \in Nat
  /\ stats["created"] \in Nat /\ stats["admitted"] \in Nat /\ stats["cleaned"] \in Nat
  /\ stats["pins"] \in Nat /\ stats["unpins"] \in Nat /\ stats["published"] \in Nat
  /\ stats["requested"] \in Nat /\ stats["consumed"] \in Nat /\ stats["partials"] \in Nat
  /\ stats["completed"] \in Nat /\ stats["drained"] \in Nat

LEMMA Numbers == TypeInv => NumberTypes
  <1> SUFFICES ASSUME TypeInv PROVE NumberTypes
    OBVIOUS
  <1>1. \A k \in Counters : stats[k] \in Nat
    BY DEF TypeInv, TypeOK, StatTypes
  <1>2. /\ Len(submitCh) \in Nat /\ Len(pending) \in Nat /\ Len(batch) \in Nat /\ Len(sq) \in Nat
        /\ Len(cq) \in Nat
    BY LenProperties DEF TypeInv, TypeOK, ChanTypes, SubTypes, KernTypes
  <1>3. /\ outstanding \in Nat /\ taken \in Nat /\ remaining \in Nat
        /\ reaped \in Nat /\ limit \in Nat
    BY SizesAssumption DEF TypeInv, TypeOK, LockTypes, SubTypes, CompTypes
  <1> QED  BY <1>1, <1>2, <1>3 DEF Counters, NumberTypes

\* A call that moves on leaves one group and may enter the other.
Moves(o, x) == rpc' = [rpc EXCEPT ![o] = x] /\ x # rpc[o]

LEMMA CallMoves ==
  ASSUME TypeInv, IsFiniteSet(Admitting), IsFiniteSet(Sending), NEW o \in Reads, NEW x, Moves(o, x)
  PROVE  /\ IsFiniteSet(Admitting') /\ IsFiniteSet(Sending')
         /\ Cardinality(Admitting) \in Nat /\ Cardinality(Sending) \in Nat
         /\ Cardinality(Admitting') = Cardinality(Admitting) + (IF x = "admit" THEN 1 ELSE 0)
                                        - (IF rpc[o] = "admit" THEN 1 ELSE 0)
         /\ Cardinality(Sending') = Cardinality(Sending) + (IF x = "send" THEN 1 ELSE 0)
                                      - (IF rpc[o] = "send" THEN 1 ELSE 0)
  <1>1. (\A p \in Reads : rpc'[p] = IF p = o THEN x ELSE rpc[p]) /\ x # rpc[o]
    BY DEF Moves, TypeInv, TypeOK, ReadTypes
  <1>2. /\ Admitting' = IF x = "admit" THEN Admitting \cup {o} ELSE Admitting \ {o}
        /\ Sending' = IF x = "send" THEN Sending \cup {o} ELSE Sending \ {o}
    BY <1>1 DEF Admitting, Sending
  <1>3. (o \in Admitting <=> rpc[o] = "admit") /\ (o \in Sending <=> rpc[o] = "send")
    BY DEF Admitting, Sending
  <1>4. Cardinality(Admitting) \in Nat /\ Cardinality(Sending) \in Nat
    BY FS_CardinalityType
  <1>5. /\ IsFiniteSet(Admitting \cup {o}) /\ IsFiniteSet(Admitting \ {o})
        /\ Cardinality(Admitting \cup {o}) =
             IF o \in Admitting THEN Cardinality(Admitting) ELSE Cardinality(Admitting) + 1
        /\ Cardinality(Admitting \ {o}) =
             IF o \in Admitting THEN Cardinality(Admitting) - 1 ELSE Cardinality(Admitting)
    BY FS_AddElement, FS_RemoveElement
  <1>6. /\ IsFiniteSet(Sending \cup {o}) /\ IsFiniteSet(Sending \ {o})
        /\ Cardinality(Sending \cup {o}) =
             IF o \in Sending THEN Cardinality(Sending) ELSE Cardinality(Sending) + 1
        /\ Cardinality(Sending \ {o}) =
             IF o \in Sending THEN Cardinality(Sending) - 1 ELSE Cardinality(Sending)
    BY FS_AddElement, FS_RemoveElement
  <1> HIDE DEF Admitting, Sending
  <1>7. CASE x = "admit"
    BY <1>1, <1>2, <1>3, <1>4, <1>5, <1>6, <1>7
  <1>8. CASE x = "send"
    BY <1>1, <1>2, <1>3, <1>4, <1>5, <1>6, <1>8
  <1>9. CASE x \notin {"admit", "send"}
    BY <1>1, <1>2, <1>3, <1>4, <1>5, <1>6, <1>9
  <1> QED  BY <1>7, <1>8, <1>9

\* A step of a call.
LEMMA AccountsReadAt ==
  ASSUME TypeInv, AccountsOK, NEW o \in Reads, ReadAt(o)
  PROVE  AccountsOK'
  <1>1. /\ Len(submitCh) \in Nat /\ Len(pending) \in Nat /\ Len(batch) \in Nat /\ Len(sq) \in Nat
        /\ Len(cq) \in Nat /\ outstanding \in Nat /\ taken \in Nat /\ remaining \in Nat
        /\ reaped \in Nat /\ limit \in Nat
        /\ stats["created"] \in Nat /\ stats["admitted"] \in Nat /\ stats["cleaned"] \in Nat
        /\ stats["pins"] \in Nat /\ stats["unpins"] \in Nat /\ stats["published"] \in Nat
        /\ stats["requested"] \in Nat /\ stats["consumed"] \in Nat /\ stats["partials"] \in Nat
        /\ stats["completed"] \in Nat /\ stats["drained"] \in Nat
    BY Numbers DEF NumberTypes
  <1>2. UNCHANGED <<pending, batch, outstanding, sq, cpc, spc, taken, remaining, reaped, limit>>
    BY DEF ReadAt, ReadSkip, ReadPin, ReadRefused, ReadAdmit, ReadSend, ReadReturn, lockVars,
           subVars, compVars, kernVars
  <1>3. IsFiniteSet(Admitting) /\ IsFiniteSet(Sending)
    BY DEF AccountsOK, CallAccounts
  <1>4. CASE ReadSkip(o) \/ ReadReturn(o)
    <2>1. /\ Moves(o, "returned") /\ rpc[o] \in {"start", "wait"}
          /\ UNCHANGED <<stats, submitCh>>
      BY <1>4 DEF Moves, ReadSkip, ReadReturn, chanVars
    <2>2. /\ IsFiniteSet(Admitting') /\ IsFiniteSet(Sending')
          /\ Cardinality(Admitting') = Cardinality(Admitting) /\ Cardinality(Sending') = Cardinality(Sending)
      BY <1>3, <2>1, CallMoves
    <2>3. CallAccounts'
      BY <1>2, <2>1, <2>2
      DEF AccountsOK, CallAccounts
    <2>4. QueueAccounts'
      BY <1>2, <2>1, <2>2
      DEF AccountsOK, QueueAccounts
    <2>5. RingFlow'
      BY <1>2, <2>1, <2>2
      DEF AccountsOK, RingFlow, SqFlow, TableFlow, CqFlow, Delivering, Taken
    <2>6. PartialAccounts'
      BY <1>2, <2>1, <2>2
      DEF AccountsOK, PartialAccounts, Owed
    <2> QED  BY <2>3, <2>4, <2>5, <2>6 DEF AccountsOK
  <1>5. CASE ReadPin(o)
    <2>1. /\ Moves(o, "admit") /\ rpc[o] = "start" /\ UNCHANGED submitCh
      BY <1>5 DEF Moves, ReadPin, chanVars
    <2>2. \A c \in Counters : stats'[c] = IF c \in {"created", "pins"} THEN stats[c] + 1 ELSE stats[c]
      BY <1>5 DEF ReadPin, TypeInv, TypeOK, StatTypes
    <2>3. /\ stats'["created"] = stats["created"] + 1 /\ stats'["pins"] = stats["pins"] + 1
          /\ stats'["admitted"] = stats["admitted"] /\ stats'["cleaned"] = stats["cleaned"]
          /\ stats'["unpins"] = stats["unpins"] /\ stats'["published"] = stats["published"]
          /\ stats'["requested"] = stats["requested"] /\ stats'["consumed"] = stats["consumed"]
          /\ stats'["partials"] = stats["partials"] /\ stats'["completed"] = stats["completed"]
          /\ stats'["drained"] = stats["drained"]
      BY <2>2 DEF Counters
    <2>4. /\ IsFiniteSet(Admitting') /\ IsFiniteSet(Sending') /\ Cardinality(Admitting) \in Nat
          /\ Cardinality(Admitting') = Cardinality(Admitting) + 1 /\ Cardinality(Sending') = Cardinality(Sending)
      BY <1>3, <2>1, CallMoves
    <2>5. CallAccounts'
      <3>1. (IsFiniteSet(Admitting) /\ IsFiniteSet(Sending))'
        BY <1>2, <2>1, <2>4, <1>1, <2>3
        DEF AccountsOK, CallAccounts
      <3>2. (stats["created"] = stats["admitted"] + stats["cleaned"] + Cardinality(Admitting))'
        <4>1. stats["created"] = stats["admitted"] + stats["cleaned"] + Cardinality(Admitting)
          BY DEF AccountsOK, CallAccounts
        <4>2. stats["created"] \in Nat /\ stats["admitted"] \in Nat /\ stats["cleaned"] \in Nat /\ Cardinality(Admitting) \in Nat
          BY <1>1, <2>4
        <4>3. stats'["created"] = stats["created"] + 1 /\ stats'["admitted"] = stats["admitted"] /\ stats'["cleaned"] = stats["cleaned"]
          BY <2>3
        <4>4. (Cardinality(Admitting))' = Cardinality(Admitting) + 1
          BY <2>4
        <4> QED  BY <4>1, <4>2, <4>3, <4>4
      <3>3. (stats["pins"] = stats["created"])'
        BY <1>2, <2>1, <2>4, <1>1, <2>3
        DEF AccountsOK, CallAccounts
      <3>4. (stats["unpins"] = stats["cleaned"] + stats["completed"])'
        BY <1>2, <2>1, <2>4, <1>1, <2>3
        DEF AccountsOK, CallAccounts
      <3> QED  BY <3>1, <3>2, <3>3, <3>4 DEF CallAccounts
    <2>6. QueueAccounts'
      BY <1>2, <2>1, <2>4, <1>1, <2>3
      DEF AccountsOK, QueueAccounts
    <2>7. RingFlow'
      BY <1>2, <2>1, <2>4, <1>1, <2>3
      DEF AccountsOK, RingFlow, SqFlow, TableFlow, CqFlow, Delivering, Taken
    <2>8. PartialAccounts'
      BY <1>2, <2>1, <2>4, <1>1, <2>3
      DEF AccountsOK, PartialAccounts, Owed
    <2> QED  BY <2>5, <2>6, <2>7, <2>8 DEF AccountsOK
  <1>6. CASE ReadRefused(o)
    <2>1. /\ Moves(o, "returned") /\ rpc[o] = "admit" /\ UNCHANGED submitCh
      BY <1>6 DEF Moves, ReadRefused, chanVars
    <2>2. \A c \in Counters : stats'[c] = IF c \in {"cleaned", "unpins"} THEN stats[c] + 1 ELSE stats[c]
      BY <1>6 DEF ReadRefused, TypeInv, TypeOK, StatTypes
    <2>3. /\ stats'["cleaned"] = stats["cleaned"] + 1 /\ stats'["unpins"] = stats["unpins"] + 1
          /\ stats'["created"] = stats["created"] /\ stats'["admitted"] = stats["admitted"]
          /\ stats'["pins"] = stats["pins"] /\ stats'["published"] = stats["published"]
          /\ stats'["requested"] = stats["requested"] /\ stats'["consumed"] = stats["consumed"]
          /\ stats'["partials"] = stats["partials"] /\ stats'["completed"] = stats["completed"]
          /\ stats'["drained"] = stats["drained"]
      BY <2>2 DEF Counters
    <2>4. /\ IsFiniteSet(Admitting') /\ IsFiniteSet(Sending') /\ Cardinality(Admitting) \in Nat
          /\ Cardinality(Admitting') = Cardinality(Admitting) - 1 /\ Cardinality(Sending') = Cardinality(Sending)
      BY <1>3, <2>1, CallMoves
    <2>5. CallAccounts'
      <3>1. (IsFiniteSet(Admitting) /\ IsFiniteSet(Sending))'
        BY <1>2, <2>1, <2>4, <1>1, <2>3
        DEF AccountsOK, CallAccounts
      <3>2. (stats["created"] = stats["admitted"] + stats["cleaned"] + Cardinality(Admitting))'
        <4>1. stats["created"] = stats["admitted"] + stats["cleaned"] + Cardinality(Admitting)
          BY DEF AccountsOK, CallAccounts
        <4>2. stats["created"] \in Nat /\ stats["admitted"] \in Nat /\ stats["cleaned"] \in Nat /\ Cardinality(Admitting) \in Nat
          BY <1>1, <2>4
        <4>3. stats'["cleaned"] = stats["cleaned"] + 1 /\ stats'["admitted"] = stats["admitted"] /\ stats'["created"] = stats["created"]
          BY <2>3
        <4>4. (Cardinality(Admitting))' = Cardinality(Admitting) - 1
          BY <2>4
        <4> QED  BY <4>1, <4>2, <4>3, <4>4
      <3>3. (stats["pins"] = stats["created"])'
        BY <1>2, <2>1, <2>4, <1>1, <2>3
        DEF AccountsOK, CallAccounts
      <3>4. (stats["unpins"] = stats["cleaned"] + stats["completed"])'
        <4>1. stats["unpins"] = stats["cleaned"] + stats["completed"]
          BY DEF AccountsOK, CallAccounts
        <4>2. stats["unpins"] \in Nat /\ stats["cleaned"] \in Nat /\ stats["completed"] \in Nat
          BY <1>1
        <4>3. stats'["unpins"] = stats["unpins"] + 1 /\ stats'["cleaned"] = stats["cleaned"] + 1 /\ stats'["completed"] = stats["completed"]
          BY <2>3
        <4> QED  BY <4>1, <4>2, <4>3
      <3> QED  BY <3>1, <3>2, <3>3, <3>4 DEF CallAccounts
    <2>6. QueueAccounts'
      BY <1>2, <2>1, <2>4, <1>1, <2>3
      DEF AccountsOK, QueueAccounts
    <2>7. RingFlow'
      BY <1>2, <2>1, <2>4, <1>1, <2>3
      DEF AccountsOK, RingFlow, SqFlow, TableFlow, CqFlow, Delivering, Taken
    <2>8. PartialAccounts'
      BY <1>2, <2>1, <2>4, <1>1, <2>3
      DEF AccountsOK, PartialAccounts, Owed
    <2> QED  BY <2>5, <2>6, <2>7, <2>8 DEF AccountsOK
  <1>7. CASE ReadAdmit(o)
    <2>1. /\ Moves(o, "send") /\ rpc[o] = "admit" /\ UNCHANGED submitCh
      BY <1>7 DEF Moves, ReadAdmit, chanVars
    <2>2. \A c \in Counters : stats'[c] = IF c = "admitted" THEN stats[c] + 1 ELSE stats[c]
      BY <1>7 DEF ReadAdmit, TypeInv, TypeOK, StatTypes
    <2>3. /\ stats'["admitted"] = stats["admitted"] + 1
          /\ stats'["created"] = stats["created"] /\ stats'["cleaned"] = stats["cleaned"]
          /\ stats'["pins"] = stats["pins"] /\ stats'["unpins"] = stats["unpins"]
          /\ stats'["published"] = stats["published"] /\ stats'["requested"] = stats["requested"]
          /\ stats'["consumed"] = stats["consumed"] /\ stats'["partials"] = stats["partials"]
          /\ stats'["completed"] = stats["completed"] /\ stats'["drained"] = stats["drained"]
      BY <2>2 DEF Counters
    <2>4. /\ IsFiniteSet(Admitting') /\ IsFiniteSet(Sending')
          /\ Cardinality(Admitting) \in Nat /\ Cardinality(Sending) \in Nat
          /\ Cardinality(Admitting') = Cardinality(Admitting) - 1
          /\ Cardinality(Sending') = Cardinality(Sending) + 1
      BY <1>3, <2>1, CallMoves
    <2>5. CallAccounts'
      <3>1. (IsFiniteSet(Admitting) /\ IsFiniteSet(Sending))'
        BY <1>2, <2>1, <2>4, <1>1, <2>3
        DEF AccountsOK, CallAccounts
      <3>2. (stats["created"] = stats["admitted"] + stats["cleaned"] + Cardinality(Admitting))'
        <4>1. stats["created"] = stats["admitted"] + stats["cleaned"] + Cardinality(Admitting)
          BY DEF AccountsOK, CallAccounts
        <4>2. stats["created"] \in Nat /\ stats["admitted"] \in Nat /\ stats["cleaned"] \in Nat /\ Cardinality(Admitting) \in Nat
          BY <1>1, <2>4
        <4>3. stats'["admitted"] = stats["admitted"] + 1 /\ stats'["cleaned"] = stats["cleaned"] /\ stats'["created"] = stats["created"]
          BY <2>3
        <4>4. (Cardinality(Admitting))' = Cardinality(Admitting) - 1
          BY <2>4
        <4> QED  BY <4>1, <4>2, <4>3, <4>4
      <3>3. (stats["pins"] = stats["created"])'
        BY <1>2, <2>1, <2>4, <1>1, <2>3
        DEF AccountsOK, CallAccounts
      <3>4. (stats["unpins"] = stats["cleaned"] + stats["completed"])'
        BY <1>2, <2>1, <2>4, <1>1, <2>3
        DEF AccountsOK, CallAccounts
      <3> QED  BY <3>1, <3>2, <3>3, <3>4 DEF CallAccounts
    <2>6. QueueAccounts'
      <3>1. stats["admitted"] = Cardinality(Sending) + Len(submitCh) + Len(pending) + Len(batch) + stats["published"]
        BY DEF AccountsOK, QueueAccounts
      <3>2. stats["admitted"] \in Nat /\ stats["published"] \in Nat /\ Cardinality(Sending) \in Nat /\ Len(submitCh) \in Nat /\ Len(pending) \in Nat /\ Len(batch) \in Nat
        BY <1>1, <2>4
      <3>3. stats'["admitted"] = stats["admitted"] + 1 /\ stats'["published"] = stats["published"]
        BY <2>3
      <3>4. (Cardinality(Sending))' = Cardinality(Sending) + 1
        BY <2>4
      <3>5. UNCHANGED <<Len(submitCh), Len(pending), Len(batch)>>
        BY <1>2, <2>1
      <3> QED  BY <3>1, <3>2, <3>3, <3>4, <3>5, SMTT(30) DEF QueueAccounts
    <2>7. RingFlow'
      <3>1. SqFlow'
        BY <1>2, <2>1, <2>3 DEF AccountsOK, RingFlow, SqFlow, Taken
      <3>2. TableFlow'
        BY <1>2, <2>1, <2>3 DEF AccountsOK, RingFlow, TableFlow, Delivering
      <3>3. CqFlow'
        BY <1>2, <2>1, <2>3 DEF AccountsOK, RingFlow, CqFlow
      <3> QED  BY <3>1, <3>2, <3>3 DEF RingFlow
    <2>8. PartialAccounts'
      BY <1>2, <2>1, <2>4, <1>1, <2>3
      DEF AccountsOK, PartialAccounts, Owed
    <2> QED  BY <2>5, <2>6, <2>7, <2>8 DEF AccountsOK
  <1>8. CASE ReadSend(o)
    <2>1. /\ Moves(o, "wait") /\ rpc[o] = "send" /\ UNCHANGED stats
          /\ submitCh' = Append(submitCh, o)
      BY <1>8 DEF Moves, ReadSend
    <2>2. /\ IsFiniteSet(Admitting') /\ IsFiniteSet(Sending') /\ Cardinality(Sending) \in Nat
          /\ Cardinality(Admitting') = Cardinality(Admitting)
          /\ Cardinality(Sending') = Cardinality(Sending) - 1
      BY <1>3, <2>1, CallMoves
    <2>3. Len(submitCh') = Len(submitCh) + 1
      BY <2>1, PlacesType, AppendFacts
    <2>4. CallAccounts'
      BY <1>2, <2>1, <2>2, <2>3, <1>1
      DEF AccountsOK, CallAccounts
    <2>5. QueueAccounts'
      BY <1>2, <2>1, <2>2, <2>3, <1>1
      DEF AccountsOK, QueueAccounts
    <2>6. RingFlow'
      BY <1>2, <2>1, <2>2, <2>3, <1>1
      DEF AccountsOK, RingFlow, SqFlow, TableFlow, CqFlow, Delivering, Taken
    <2>7. PartialAccounts'
      BY <1>2, <2>1, <2>2, <2>3, <1>1
      DEF AccountsOK, PartialAccounts, Owed
    <2> QED  BY <2>4, <2>5, <2>6, <2>7 DEF AccountsOK
  <1> QED  BY <1>4, <1>5, <1>6, <1>7, <1>8 DEF ReadAt

\* A step of the submitter.
LEMMA AccountsSubmitter ==
  ASSUME TypeInv, SubmitterOK, AccountsOK, Submitter
  PROVE  AccountsOK'
  <1>1. /\ Len(submitCh) \in Nat /\ Len(pending) \in Nat /\ Len(batch) \in Nat /\ Len(sq) \in Nat
        /\ Len(cq) \in Nat /\ outstanding \in Nat /\ taken \in Nat /\ remaining \in Nat
        /\ reaped \in Nat /\ limit \in Nat
        /\ stats["created"] \in Nat /\ stats["admitted"] \in Nat /\ stats["cleaned"] \in Nat
        /\ stats["pins"] \in Nat /\ stats["unpins"] \in Nat /\ stats["published"] \in Nat
        /\ stats["requested"] \in Nat /\ stats["consumed"] \in Nat /\ stats["partials"] \in Nat
        /\ stats["completed"] \in Nat /\ stats["drained"] \in Nat
    BY Numbers DEF NumberTypes
  <1>2. UNCHANGED <<rpc, cpc, reaped, limit>>
    BY DEF Submitter, SubReceive, SubStop, SubGather, SubPublish, SubStoreTail, SubEnter,
           SubEnterFails, SubAccount, SubNotify, readVars, compVars
  <1>3. Admitting' = Admitting /\ Sending' = Sending
    BY <1>2 DEF Admitting, Sending
  <1>4. IsFiniteSet(Admitting) /\ IsFiniteSet(Sending) /\ Cardinality(Admitting) \in Nat
        /\ Cardinality(Sending) \in Nat
    BY FS_CardinalityType DEF AccountsOK, CallAccounts
  <1>5. CASE SubReceive \/ SubGather
    <2>1. /\ submitCh # <<>> /\ submitCh' = Tail(submitCh) /\ spc' = "gather" /\ spc # "account" /\ spc # "panic"
          /\ pending' = Append(pending, Head(submitCh)) \/ (pending = <<>> /\ pending' = <<Head(submitCh)>>)
          /\ UNCHANGED <<batch, outstanding, sq, stats>>
      BY <1>5 DEF SubReceive, SubGather, SubmitterOK, lockVars, kernVars
    <2>2. Head(submitCh) \in Reads /\ Len(submitCh') = Len(submitCh) - 1
      BY <2>1, PlacesType, DequeueFacts
    <2>3. Len(pending') = Len(pending) + 1
      <3>1. CASE pending' = Append(pending, Head(submitCh))
        BY <2>2, <3>1, PlacesType, AppendFacts
      <3>2. CASE pending = <<>> /\ pending' = <<Head(submitCh)>>
        BY <3>2
      <3> QED  BY <2>1, <3>1, <3>2
    <2>4. CallAccounts'
      BY <1>3, <2>1, <2>2, <2>3, <1>2, <1>4, <1>1
      DEF AccountsOK, CallAccounts
    <2>5. QueueAccounts'
      BY <1>3, <2>1, <2>2, <2>3, <1>2, <1>4, <1>1
      DEF AccountsOK, QueueAccounts
    <2>6. RingFlow'
      BY <1>3, <2>1, <2>2, <2>3, <1>2, <1>4, <1>1
      DEF AccountsOK, RingFlow, SqFlow, TableFlow, CqFlow, Delivering, Taken
    <2>7. PartialAccounts'
      BY <1>3, <2>1, <2>2, <2>3, <1>2, <1>4, <1>1
      DEF AccountsOK, PartialAccounts, Owed
    <2> QED  BY <2>4, <2>5, <2>6, <2>7 DEF AccountsOK
  <1>6. CASE SubPublish
    <2>1. /\ spc = "gather" /\ spc' # "account" /\ batch = <<>> /\ UNCHANGED <<submitCh, sq, stats>>
      BY <1>6 DEF SubPublish, chanVars, kernVars, TypeInv, LoopsOK
    <2>2. CASE spc' # "store"
      <3>1. UNCHANGED <<batch, pending, outstanding>>
        BY <1>6, <2>2 DEF SubPublish
      <3>2. CallAccounts'
        BY <1>2, <1>3, <2>1, <3>1
        DEF AccountsOK, CallAccounts
      <3>3. QueueAccounts'
        BY <1>2, <1>3, <2>1, <3>1
        DEF AccountsOK, QueueAccounts
      <3>4. RingFlow'
        BY <1>2, <1>3, <2>1, <3>1
        DEF AccountsOK, RingFlow, SqFlow, TableFlow, CqFlow, Delivering, Taken
      <3>5. PartialAccounts'
        BY <1>2, <1>3, <2>1, <3>1
        DEF AccountsOK, PartialAccounts, Owed
      <3> QED  BY <3>2, <3>3, <3>4, <3>5 DEF AccountsOK
    <2>3. CASE spc' = "store"
      <3>1. /\ Len(batch') = BatchSize /\ Len(pending') = Len(pending) - BatchSize
            /\ outstanding' = outstanding + BatchSize
        BY <1>6, <2>3, BatchSizeType, PlacesType, SplitFacts DEF SubPublish, Counted
      <3>2. BatchSize \in Nat /\ Len(batch) = 0
        BY <2>1, BatchSizeType, <1>1
      <3>3. CallAccounts'
        BY <1>2, <1>3, <1>4, <2>1, <2>3, <3>1, <3>2, <1>1
        DEF AccountsOK, CallAccounts
      <3>4. QueueAccounts'
        BY <1>2, <1>3, <1>4, <2>1, <2>3, <3>1, <3>2, <1>1
        DEF AccountsOK, QueueAccounts
      <3>5. RingFlow'
        <4>1. SqFlow'
          BY <1>2, <1>3, <1>4, <2>1, <2>3, <3>1, <3>2, <1>1
          DEF AccountsOK, RingFlow, SqFlow, Taken
        <4>2. TableFlow'
          <5>1. stats["published"] + Len(batch) = outstanding + stats["completed"] + Delivering
            BY DEF AccountsOK, RingFlow, TableFlow
          <5>2. stats["published"] \in Nat /\ stats["completed"] \in Nat /\ outstanding \in Nat /\ BatchSize \in Nat /\ Delivering \in Nat /\ Len(batch) = 0
            BY <1>1, <3>2 DEF Delivering
          <5>3. UNCHANGED <<stats["published"], stats["completed"], Delivering>>
            BY <1>2, <2>1 DEF Delivering
          <5>4. Len(batch') = BatchSize /\ outstanding' = outstanding + BatchSize
            BY <3>1
          <5> QED  BY <5>1, <5>2, <5>3, <5>4 DEF TableFlow
        <4>3. CqFlow'
          BY <1>2, <1>3, <1>4, <2>1, <2>3, <3>1, <3>2, <1>1
          DEF AccountsOK, RingFlow, CqFlow
        <4> QED  BY <4>1, <4>2, <4>3 DEF RingFlow
      <3>6. PartialAccounts'
        BY <1>2, <1>3, <1>4, <2>1, <2>3, <3>1, <3>2, <1>1
        DEF AccountsOK, PartialAccounts, Owed
      <3> QED  BY <3>3, <3>4, <3>5, <3>6 DEF AccountsOK
    <2> QED  BY <2>2, <2>3
  <1>7. CASE SubStoreTail
    <2>1. /\ sq' = sq \o batch /\ batch' = <<>> /\ spc = "store" /\ spc' = "enter"
          /\ UNCHANGED <<submitCh, pending, outstanding>>
      BY <1>7 DEF SubStoreTail, chanVars, lockVars
    <2>2. \A c \in Counters : stats'[c] = IF c = "published" THEN stats[c] + Len(batch) ELSE stats[c]
      BY <1>7 DEF SubStoreTail, TypeInv, TypeOK, StatTypes
    <2>3. /\ stats'["published"] = stats["published"] + Len(batch)
          /\ stats'["created"] = stats["created"] /\ stats'["admitted"] = stats["admitted"]
          /\ stats'["cleaned"] = stats["cleaned"] /\ stats'["pins"] = stats["pins"]
          /\ stats'["unpins"] = stats["unpins"] /\ stats'["requested"] = stats["requested"]
          /\ stats'["consumed"] = stats["consumed"] /\ stats'["partials"] = stats["partials"]
          /\ stats'["completed"] = stats["completed"] /\ stats'["drained"] = stats["drained"]
      BY <2>2 DEF Counters
    <2>4. Len(sq') = Len(sq) + Len(batch) /\ Len(batch') = 0
      BY <2>1, PlacesType, ConcatFacts
    <2>5. CallAccounts'
      BY <1>2, <1>3, <1>4, <2>1, <2>4, <1>1, <2>3
      DEF AccountsOK, CallAccounts
    <2>6. QueueAccounts'
      <3>1. stats["admitted"] = Cardinality(Sending) + Len(submitCh) + Len(pending) + Len(batch) + stats["published"]
        BY DEF AccountsOK, QueueAccounts
      <3>2. stats["admitted"] \in Nat /\ stats["published"] \in Nat /\ Cardinality(Sending) \in Nat /\ Len(submitCh) \in Nat /\ Len(pending) \in Nat /\ Len(batch) \in Nat
        BY <1>1, <1>4
      <3>3. stats'["admitted"] = stats["admitted"] /\ stats'["published"] = stats["published"] + Len(batch) /\ Len(batch') = 0
        BY <2>3, <2>4
      <3>4. UNCHANGED <<Len(submitCh), Len(pending), Cardinality(Sending)>>
        BY <1>2, <1>3, <2>1
      <3> QED  BY <3>1, <3>2, <3>3, <3>4 DEF QueueAccounts
    <2>7. RingFlow'
      <3>1. SqFlow'
        <4>1. stats["published"] = stats["consumed"] + Len(sq) + Taken /\ Taken = 0
          BY <2>1 DEF AccountsOK, RingFlow, SqFlow, Taken
        <4>2. /\ stats'["published"] = stats["published"] + Len(batch)
              /\ stats'["consumed"] = stats["consumed"]
          BY <2>3
        <4>3. Len(sq') = Len(sq) + Len(batch) /\ Taken' = 0
          BY <2>1, <2>4 DEF Taken
        <4>4. stats["consumed"] \in Nat /\ Len(sq) \in Nat /\ Len(batch) \in Nat
          BY <1>1
        <4> QED  BY <4>1, <4>2, <4>3, <4>4 DEF SqFlow
      <3>2. TableFlow'
        <4>1. stats["published"] + Len(batch) = outstanding + stats["completed"] + Delivering
          BY DEF AccountsOK, RingFlow, TableFlow
        <4>2. stats["published"] \in Nat /\ stats["completed"] \in Nat /\ outstanding \in Nat /\ Len(batch) \in Nat /\ Delivering \in Nat
          BY <1>1 DEF Delivering
        <4>3. stats'["published"] = stats["published"] + Len(batch) /\ stats'["completed"] = stats["completed"] /\ Len(batch') = 0
          BY <2>3, <2>4
        <4>4. UNCHANGED <<outstanding, Delivering>>
          BY <1>2, <2>1 DEF Delivering
        <4> QED  BY <4>1, <4>2, <4>3, <4>4 DEF TableFlow
      <3>3. CqFlow'
        BY <1>2, <1>3, <1>4, <2>1, <2>4, <1>1, <2>3
        DEF AccountsOK, RingFlow, CqFlow
      <3> QED  BY <3>1, <3>2, <3>3 DEF RingFlow
    <2>8. PartialAccounts'
      BY <1>2, <1>3, <1>4, <2>1, <2>4, <1>1, <2>3
      DEF AccountsOK, PartialAccounts, Owed
    <2> QED  BY <2>5, <2>6, <2>7, <2>8 DEF AccountsOK
  <1>8. CASE SubEnter
    <2>1. PICK k \in 1 .. Len(sq) : sq' = SubSeq(sq, k + 1, Len(sq)) /\ taken' = k
      BY <1>8 DEF SubEnter
    <2>2. /\ spc = "enter" /\ spc' = "account" /\ UNCHANGED <<submitCh, pending, batch, outstanding, remaining>>
      BY <1>8 DEF SubEnter, chanVars, lockVars
    <2>3. \A c \in Counters : stats'[c] = IF c = "requested" THEN stats[c] + remaining ELSE stats[c]
      BY <1>8 DEF SubEnter, TypeInv, TypeOK, StatTypes
    <2>4. /\ stats'["requested"] = stats["requested"] + remaining
          /\ stats'["created"] = stats["created"] /\ stats'["admitted"] = stats["admitted"]
          /\ stats'["cleaned"] = stats["cleaned"] /\ stats'["pins"] = stats["pins"]
          /\ stats'["unpins"] = stats["unpins"] /\ stats'["published"] = stats["published"]
          /\ stats'["consumed"] = stats["consumed"] /\ stats'["partials"] = stats["partials"]
          /\ stats'["completed"] = stats["completed"] /\ stats'["drained"] = stats["drained"]
      BY <2>3 DEF Counters
    <2>5. Len(sq') = Len(sq) - k
      <3>1. sq \in Seq(Reads) /\ k \in 0 .. Len(sq)
        BY <1>1, PlacesType
      <3>2. Len(SubSeq(sq, k + 1, Len(sq))) = Len(sq) - k
        BY <3>1, SplitFacts
      <3> QED  BY <2>1, <3>2
    <2>6. CallAccounts'
      BY <1>2, <1>3, <1>4, <2>1, <2>2, <2>5, <1>1, <2>4
      DEF AccountsOK, CallAccounts
    <2>7. QueueAccounts'
      BY <1>2, <1>3, <1>4, <2>1, <2>2, <2>5, <1>1, <2>4
      DEF AccountsOK, QueueAccounts
    <2>8. RingFlow'
      <3>1. SqFlow'
        <4>1. stats["published"] = stats["consumed"] + Len(sq) + Taken
          BY DEF AccountsOK, RingFlow, SqFlow
        <4>2. stats["published"] \in Nat /\ stats["consumed"] \in Nat /\ Len(sq) \in Nat /\ k \in Nat /\ Taken = 0
          BY <1>1, <2>1, <2>2 DEF Taken
        <4>3. stats'["published"] = stats["published"] /\ stats'["consumed"] = stats["consumed"]
          BY <2>4
        <4>4. Len(sq') = Len(sq) - k /\ Taken' = k
          BY <2>1, <2>2, <2>5 DEF Taken
        <4> QED  BY <4>1, <4>2, <4>3, <4>4 DEF SqFlow
      <3>2. TableFlow'
        BY <1>2, <1>3, <1>4, <2>1, <2>2, <2>5, <1>1, <2>4
        DEF AccountsOK, RingFlow, TableFlow, Delivering
      <3>3. CqFlow'
        BY <1>2, <1>3, <1>4, <2>1, <2>2, <2>5, <1>1, <2>4
        DEF AccountsOK, RingFlow, CqFlow
      <3> QED  BY <3>1, <3>2, <3>3 DEF RingFlow
    <2>9. PartialAccounts'
      <3>1. \/ stats["partials"] = 0 /\ stats["requested"] = stats["consumed"]
            \/ stats["partials"] > 0 /\ stats["requested"] > stats["consumed"]
        <4>1. Owed = stats["consumed"] + 0 /\ stats["consumed"] \in Nat /\ spc # "panic"
          BY <1>1, <2>2 DEF Owed
        <4>2. Owed = stats["consumed"]
          BY <4>1
        <4> QED  BY <4>1, <4>2 DEF AccountsOK, PartialAccounts
      <3>2. Owed' = stats["consumed"] + remaining
        BY <2>4, <2>2 DEF Owed
      <3>3. /\ stats["partials"] \in Nat /\ stats["requested"] \in Nat /\ stats["consumed"] \in Nat
            /\ remaining \in Nat
        BY <1>1
      <3>4. stats'["requested"] = stats["requested"] + remaining /\ stats'["partials"] = stats["partials"]
        BY <2>4
      <3> QED  BY <3>1, <3>2, <3>3, <3>4 DEF PartialAccounts
    <2> QED  BY <2>6, <2>7, <2>8, <2>9 DEF AccountsOK
  <1>9. CASE SubEnterFails
    <2>1. /\ spc = "enter" /\ spc' = "panic" /\ UNCHANGED <<submitCh, pending, batch, outstanding, sq>>
      BY <1>9 DEF SubEnterFails, chanVars, lockVars, kernVars
    <2>2. \A c \in Counters : stats'[c] = IF c = "requested" THEN stats[c] + remaining ELSE stats[c]
      BY <1>9 DEF SubEnterFails, TypeInv, TypeOK, StatTypes
    <2>3. /\ stats'["requested"] = stats["requested"] + remaining
          /\ stats'["created"] = stats["created"] /\ stats'["admitted"] = stats["admitted"]
          /\ stats'["cleaned"] = stats["cleaned"] /\ stats'["pins"] = stats["pins"]
          /\ stats'["unpins"] = stats["unpins"] /\ stats'["published"] = stats["published"]
          /\ stats'["consumed"] = stats["consumed"] /\ stats'["partials"] = stats["partials"]
          /\ stats'["completed"] = stats["completed"] /\ stats'["drained"] = stats["drained"]
      BY <2>2 DEF Counters
    <2>4. CallAccounts'
      BY <1>2, <1>3, <1>4, <2>1, <1>1, <2>3
      DEF AccountsOK, CallAccounts
    <2>5. QueueAccounts'
      BY <1>2, <1>3, <1>4, <2>1, <1>1, <2>3
      DEF AccountsOK, QueueAccounts
    <2>6. RingFlow'
      BY <1>2, <1>3, <1>4, <2>1, <1>1, <2>3
      DEF AccountsOK, RingFlow, SqFlow, TableFlow, CqFlow, Delivering, Taken
    <2>7. PartialAccounts'
      BY <1>2, <1>3, <1>4, <2>1, <1>1, <2>3
      DEF AccountsOK, PartialAccounts, Owed
    <2> QED  BY <2>4, <2>5, <2>6, <2>7 DEF AccountsOK
  <1>10. CASE SubAccount
    <2>1. /\ spc = "account" /\ spc' \in {"notify", "enter"} /\ remaining' = remaining - taken
          /\ UNCHANGED <<submitCh, pending, batch, outstanding, sq>>
      BY <1>10 DEF SubAccount, chanVars, lockVars, kernVars
    <2>2. taken <= remaining
      BY <2>1 DEF TypeInv, LoopsOK
    <2>3. \A k \in Counters \ {"consumed", "partials"} : stats'[k] = stats[k]
      BY <1>10 DEF SubAccount, TypeInv, TypeOK, StatTypes
    <2>4. /\ stats'["consumed"] = stats["consumed"] + taken
          /\ stats'["partials"] = IF taken < remaining THEN stats["partials"] + 1 ELSE stats["partials"]
      BY <1>10 DEF SubAccount, TypeInv, TypeOK, StatTypes, Counters
    <2>5. /\ stats'["created"] = stats["created"]
          /\ stats'["admitted"] = stats["admitted"]
          /\ stats'["cleaned"] = stats["cleaned"]
          /\ stats'["pins"] = stats["pins"]
          /\ stats'["unpins"] = stats["unpins"]
          /\ stats'["published"] = stats["published"]
          /\ stats'["requested"] = stats["requested"]
          /\ stats'["completed"] = stats["completed"]
          /\ stats'["drained"] = stats["drained"]
      BY <2>3 DEF Counters
    <2>6. CallAccounts'
      BY <1>2, <1>3, <1>4, <2>1, <2>2, <2>4, <2>5, <1>1
      DEF AccountsOK, CallAccounts
    <2>7. QueueAccounts'
      BY <1>2, <1>3, <1>4, <2>1, <2>2, <2>4, <2>5, <1>1
      DEF AccountsOK, QueueAccounts
    <2>8. RingFlow'
      <3>1. SqFlow'
        <4>1. stats["published"] = stats["consumed"] + Len(sq) + Taken
          BY DEF AccountsOK, RingFlow, SqFlow
        <4>2. stats["published"] \in Nat /\ stats["consumed"] \in Nat /\ Len(sq) \in Nat /\ taken \in Nat /\ Taken = taken
          BY <1>1, <2>1 DEF Taken
        <4>3. stats'["published"] = stats["published"] /\ stats'["consumed"] = stats["consumed"] + taken
          BY <2>4, <2>5
        <4>4. Len(sq') = Len(sq) /\ Taken' = 0
          BY <2>1 DEF Taken
        <4> QED  BY <4>1, <4>2, <4>3, <4>4 DEF SqFlow
      <3>2. TableFlow'
        BY <1>2, <1>3, <1>4, <2>1, <2>2, <2>4, <2>5, <1>1
        DEF AccountsOK, RingFlow, TableFlow, Delivering
      <3>3. CqFlow'
        BY <1>2, <1>3, <1>4, <2>1, <2>2, <2>4, <2>5, <1>1
        DEF AccountsOK, RingFlow, CqFlow
      <3> QED  BY <3>1, <3>2, <3>3 DEF RingFlow
    <2>9. PartialAccounts'
      <3>1. \/ stats["partials"] = 0 /\ stats["requested"] = stats["consumed"] + remaining
            \/ stats["partials"] > 0 /\ stats["requested"] > stats["consumed"] + remaining
        BY <2>1 DEF AccountsOK, PartialAccounts, Owed
      <3>2. Owed' = stats["consumed"] + taken
        <4>1. Owed' = stats'["consumed"] + 0
          BY <2>1 DEF Owed
        <4>2. stats["consumed"] \in Nat /\ taken \in Nat
          BY <1>1
        <4> QED  BY <2>4, <4>1, <4>2
      <3>3. /\ stats["partials"] \in Nat /\ stats["requested"] \in Nat /\ stats["consumed"] \in Nat
            /\ remaining \in Nat /\ taken \in Nat /\ taken <= remaining
        BY <1>1, <2>2
      <3>4. stats'["requested"] = stats["requested"]
        BY <2>5
      <3>5. CASE taken < remaining
        BY <2>4, <3>1, <3>2, <3>3, <3>4, <3>5 DEF PartialAccounts
      <3>6. CASE taken = remaining
        BY <2>4, <3>1, <3>2, <3>3, <3>4, <3>6 DEF PartialAccounts
      <3> QED  BY <3>3, <3>5, <3>6
    <2> QED  BY <2>6, <2>7, <2>8, <2>9 DEF AccountsOK
  <1>11. CASE SubStop \/ SubNotify
    <2>1. /\ spc \notin {"account", "panic"} /\ spc' \notin {"account", "panic"}
          /\ UNCHANGED <<submitCh, pending, batch, outstanding, sq, stats>>
      BY <1>11 DEF SubStop, SubNotify, AfterStop, chanVars, lockVars, kernVars
    <2>2. CallAccounts'
      BY <1>2, <1>3, <2>1
      DEF AccountsOK, CallAccounts
    <2>3. QueueAccounts'
      BY <1>2, <1>3, <2>1
      DEF AccountsOK, QueueAccounts
    <2>4. RingFlow'
      BY <1>2, <1>3, <2>1
      DEF AccountsOK, RingFlow, SqFlow, TableFlow, CqFlow, Delivering, Taken
    <2>5. PartialAccounts'
      BY <1>2, <1>3, <2>1
      DEF AccountsOK, PartialAccounts, Owed
    <2> QED  BY <2>2, <2>3, <2>4, <2>5 DEF AccountsOK
  <1> QED  BY <1>5, <1>6, <1>7, <1>8, <1>9, <1>10, <1>11 DEF Submitter

\* A step of the completer.
LEMMA AccountsCompleter ==
  ASSUME TypeInv, AccountsOK, Completer
  PROVE  AccountsOK'
  <1>1. /\ Len(submitCh) \in Nat /\ Len(pending) \in Nat /\ Len(batch) \in Nat /\ Len(sq) \in Nat
        /\ Len(cq) \in Nat /\ outstanding \in Nat /\ taken \in Nat /\ remaining \in Nat
        /\ reaped \in Nat /\ limit \in Nat
        /\ stats["created"] \in Nat /\ stats["admitted"] \in Nat /\ stats["cleaned"] \in Nat
        /\ stats["pins"] \in Nat /\ stats["unpins"] \in Nat /\ stats["published"] \in Nat
        /\ stats["requested"] \in Nat /\ stats["consumed"] \in Nat /\ stats["partials"] \in Nat
        /\ stats["completed"] \in Nat /\ stats["drained"] \in Nat
    BY Numbers DEF NumberTypes
  <1>2. UNCHANGED <<rpc, submitCh, pending, batch, spc, taken, remaining, sq>>
    BY DEF Completer, CompReap, CompFinish, CompUnknown, CompDeliver, CompStoreHead, CompCheck,
           CompIdle, CompWait, readVars, chanVars, subVars, kernVars
  <1>3. Admitting' = Admitting /\ Sending' = Sending
    BY <1>2 DEF Admitting, Sending
  <1>4. CASE CompFinish /\ cpc' = "deliver"
    <2>1. /\ cpc = "finish" /\ outstanding' = outstanding - 1 /\ UNCHANGED <<reaped, limit, stats>>
      BY <1>4 DEF CompFinish
    <2>2. CallAccounts'
      BY <1>2, <1>3, <1>4, <2>1, <1>1
      DEF AccountsOK, CallAccounts
    <2>3. QueueAccounts'
      BY <1>2, <1>3, <1>4, <2>1, <1>1
      DEF AccountsOK, QueueAccounts
    <2>4. RingFlow'
      <3>1. SqFlow'
        BY <1>2, <1>3, <1>4, <2>1, <1>1
        DEF AccountsOK, RingFlow, SqFlow, Taken
      <3>2. TableFlow'
        <4>1. stats["published"] + Len(batch) = outstanding + stats["completed"] + Delivering
          BY DEF AccountsOK, RingFlow, TableFlow
        <4>2. stats["published"] \in Nat /\ stats["completed"] \in Nat /\ outstanding \in Nat /\ Len(batch) \in Nat /\ Delivering = 0
          BY <1>1, <2>1 DEF Delivering
        <4>3. UNCHANGED <<stats["published"], stats["completed"], Len(batch)>>
          BY <1>2, <2>1
        <4>4. outstanding' = outstanding - 1 /\ Delivering' = 1
          BY <1>4, <2>1 DEF Delivering
        <4> QED  BY <4>1, <4>2, <4>3, <4>4, SMTT(30) DEF TableFlow
      <3>3. CqFlow'
        BY <1>4, <2>1 DEF AccountsOK, RingFlow, CqFlow
      <3> QED  BY <3>1, <3>2, <3>3 DEF RingFlow
    <2>5. PartialAccounts'
      BY <1>2, <1>3, <1>4, <2>1, <1>1
      DEF AccountsOK, PartialAccounts, Owed
    <2> QED  BY <2>2, <2>3, <2>4, <2>5 DEF AccountsOK
  <1>5. CASE CompDeliver
    <2>1. /\ cpc = "deliver" /\ cpc' = (IF reaped + 1 = limit THEN "head" ELSE "finish")
          /\ reaped' = reaped + 1 /\ UNCHANGED <<limit, outstanding>>
      BY <1>5 DEF CompDeliver, lockVars
    <2>2. \A c \in Counters : stats'[c] = IF c \in {"completed", "unpins"} THEN stats[c] + 1 ELSE stats[c]
      BY <1>5 DEF CompDeliver, TypeInv, TypeOK, StatTypes
    <2>3. /\ stats'["completed"] = stats["completed"] + 1 /\ stats'["unpins"] = stats["unpins"] + 1
          /\ stats'["created"] = stats["created"] /\ stats'["admitted"] = stats["admitted"]
          /\ stats'["cleaned"] = stats["cleaned"] /\ stats'["pins"] = stats["pins"]
          /\ stats'["published"] = stats["published"] /\ stats'["requested"] = stats["requested"]
          /\ stats'["consumed"] = stats["consumed"] /\ stats'["partials"] = stats["partials"]
          /\ stats'["drained"] = stats["drained"]
      BY <2>2 DEF Counters
    <2>4. CallAccounts'
      <3>1. (IsFiniteSet(Admitting) /\ IsFiniteSet(Sending))'
        BY <1>2, <1>3, <2>1, <1>1, <2>3
        DEF AccountsOK, CallAccounts
      <3>2. (stats["created"] = stats["admitted"] + stats["cleaned"] + Cardinality(Admitting))'
        BY <1>2, <1>3, <2>1, <1>1, <2>3
        DEF AccountsOK, CallAccounts
      <3>3. (stats["pins"] = stats["created"])'
        BY <1>2, <1>3, <2>1, <1>1, <2>3
        DEF AccountsOK, CallAccounts
      <3>4. (stats["unpins"] = stats["cleaned"] + stats["completed"])'
        <4>1. stats["unpins"] = stats["cleaned"] + stats["completed"]
          BY DEF AccountsOK, CallAccounts
        <4>2. stats["unpins"] \in Nat /\ stats["cleaned"] \in Nat /\ stats["completed"] \in Nat
          BY <1>1
        <4>3. /\ stats'["unpins"] = stats["unpins"] + 1 /\ stats'["completed"] = stats["completed"] + 1
              /\ stats'["cleaned"] = stats["cleaned"]
          BY <2>3
        <4> QED  BY <4>1, <4>2, <4>3
      <3> QED  BY <3>1, <3>2, <3>3, <3>4 DEF CallAccounts
    <2>5. QueueAccounts'
      BY <1>2, <1>3, <2>1, <1>1, <2>3
      DEF AccountsOK, QueueAccounts
    <2>6. RingFlow'
      <3>1. SqFlow'
        BY <1>2, <1>3, <2>1, <1>1, <2>3
        DEF AccountsOK, RingFlow, SqFlow, Taken
      <3>2. TableFlow'
        <4>1. stats["published"] + Len(batch) = outstanding + stats["completed"] + Delivering
          BY DEF AccountsOK, RingFlow, TableFlow
        <4>2. stats["published"] \in Nat /\ stats["completed"] \in Nat /\ outstanding \in Nat /\ Len(batch) \in Nat /\ Delivering = 1
          BY <1>1, <2>1 DEF Delivering
        <4>3. stats'["published"] = stats["published"] /\ stats'["completed"] = stats["completed"] + 1
          BY <2>3
        <4>4. UNCHANGED <<outstanding, Len(batch)>> /\ Delivering' = 0
          BY <1>2, <2>1 DEF Delivering
        <4> QED  BY <4>1, <4>2, <4>3, <4>4 DEF TableFlow
      <3>3. CqFlow'
        <4>1. stats["completed"] = stats["drained"] + reaped
          BY DEF AccountsOK, RingFlow, CqFlow
        <4>2. stats["completed"] \in Nat /\ stats["drained"] \in Nat /\ reaped \in Nat
          BY <1>1
        <4>3. stats'["drained"] = stats["drained"] /\ stats'["completed"] = stats["completed"] + 1
          BY <2>3
        <4>4. reaped' = reaped + 1 /\ (cpc' = "head" => reaped' = limit')
          BY <2>1
        <4> QED  BY <4>1, <4>2, <4>3, <4>4 DEF CqFlow
      <3> QED  BY <3>1, <3>2, <3>3 DEF RingFlow
    <2>7. PartialAccounts'
      BY <1>2, <1>3, <2>1, <1>1, <2>3
      DEF AccountsOK, PartialAccounts, Owed
    <2> QED  BY <2>4, <2>5, <2>6, <2>7 DEF AccountsOK
  <1>6. CASE CompStoreHead
    <2>1. /\ cpc = "head" /\ cpc' = "reap" /\ reaped' = 0 /\ UNCHANGED outstanding
      BY <1>6 DEF CompStoreHead, lockVars
    <2>2. \A c \in Counters : stats'[c] = IF c = "drained" THEN stats[c] + limit ELSE stats[c]
      BY <1>6 DEF CompStoreHead, TypeInv, TypeOK, StatTypes
    <2>3. /\ stats'["drained"] = stats["drained"] + limit
          /\ stats'["created"] = stats["created"] /\ stats'["admitted"] = stats["admitted"]
          /\ stats'["cleaned"] = stats["cleaned"] /\ stats'["pins"] = stats["pins"]
          /\ stats'["unpins"] = stats["unpins"] /\ stats'["published"] = stats["published"]
          /\ stats'["requested"] = stats["requested"] /\ stats'["consumed"] = stats["consumed"]
          /\ stats'["partials"] = stats["partials"] /\ stats'["completed"] = stats["completed"]
      BY <2>2 DEF Counters
    <2>4. CallAccounts'
      BY <1>2, <1>3, <2>1, <1>1, <2>3
      DEF AccountsOK, CallAccounts
    <2>5. QueueAccounts'
      BY <1>2, <1>3, <2>1, <1>1, <2>3
      DEF AccountsOK, QueueAccounts
    <2>6. RingFlow'
      <3>1. SqFlow'
        BY <1>2, <1>3, <2>1, <1>1, <2>3
        DEF AccountsOK, RingFlow, SqFlow, Taken
      <3>2. TableFlow'
        BY <1>2, <1>3, <2>1, <1>1, <2>3
        DEF AccountsOK, RingFlow, TableFlow, Delivering
      <3>3. CqFlow'
        <4>1. stats["completed"] = stats["drained"] + limit
          BY <2>1 DEF AccountsOK, RingFlow, CqFlow
        <4>2. stats'["drained"] = stats["drained"] + limit /\ stats'["completed"] = stats["completed"]
          BY <2>3
        <4>3. stats["drained"] \in Nat /\ limit \in Nat
          BY <1>1
        <4> QED  BY <2>1, <4>1, <4>2, <4>3 DEF CqFlow
      <3> QED  BY <3>1, <3>2, <3>3 DEF RingFlow
    <2>7. PartialAccounts'
      BY <1>2, <1>3, <2>1, <1>1, <2>3
      DEF AccountsOK, PartialAccounts, Owed
    <2> QED  BY <2>4, <2>5, <2>6, <2>7 DEF AccountsOK
  <1>7. CASE CompUnknown
    <2>1. cpc = "finish" /\ cpc' = "panic" /\ UNCHANGED <<outstanding, reaped, limit>>
      BY <1>7 DEF CompUnknown, lockVars
    <2>2. \A k \in Counters \ {"duplicates", "unknown"} : stats'[k] = stats[k]
      BY <1>7 DEF CompUnknown, TypeInv, TypeOK, StatTypes
    <2>3. /\ stats'["created"] = stats["created"] /\ stats'["admitted"] = stats["admitted"]
          /\ stats'["cleaned"] = stats["cleaned"] /\ stats'["pins"] = stats["pins"]
          /\ stats'["unpins"] = stats["unpins"] /\ stats'["published"] = stats["published"]
          /\ stats'["requested"] = stats["requested"] /\ stats'["consumed"] = stats["consumed"]
          /\ stats'["partials"] = stats["partials"] /\ stats'["completed"] = stats["completed"]
          /\ stats'["drained"] = stats["drained"]
      BY <2>2 DEF Counters
    <2>4. CallAccounts'
      BY <1>2, <1>3, <2>3, <2>1, <1>1
      DEF AccountsOK, CallAccounts
    <2>5. QueueAccounts'
      BY <1>2, <1>3, <2>3, <2>1, <1>1
      DEF AccountsOK, QueueAccounts
    <2>6. RingFlow'
      BY <1>2, <1>3, <2>3, <2>1, <1>1
      DEF AccountsOK, RingFlow, SqFlow, TableFlow, CqFlow, Delivering, Taken
    <2>7. PartialAccounts'
      BY <1>2, <1>3, <2>3, <2>1, <1>1
      DEF AccountsOK, PartialAccounts, Owed
    <2> QED  BY <2>4, <2>5, <2>6, <2>7 DEF AccountsOK
  <1>8. CASE CompReap \/ CompCheck \/ CompIdle \/ CompWait \/ (CompFinish /\ cpc' # "deliver")
    <2>1. /\ cpc \notin {"deliver", "head"} /\ cpc' \notin {"deliver", "head"}
          /\ UNCHANGED <<outstanding, reaped, stats>>
      BY <1>8 DEF CompReap, CompFinish, CompCheck, CompIdle, CompWait, lockVars
    <2>2. CallAccounts'
      BY <1>2, <1>3, <2>1
      DEF AccountsOK, CallAccounts
    <2>3. QueueAccounts'
      BY <1>2, <1>3, <2>1
      DEF AccountsOK, QueueAccounts
    <2>4. RingFlow'
      BY <1>2, <1>3, <2>1
      DEF AccountsOK, RingFlow, SqFlow, TableFlow, CqFlow, Delivering, Taken
    <2>5. PartialAccounts'
      BY <1>2, <1>3, <2>1
      DEF AccountsOK, PartialAccounts, Owed
    <2> QED  BY <2>2, <2>3, <2>4, <2>5 DEF AccountsOK
  <1> QED  BY <1>4, <1>5, <1>6, <1>7, <1>8 DEF Completer

LEMMA AccountsStep == TypeInv /\ SubmitterOK /\ AccountsOK /\ [Next]_vars => AccountsOK'
  <1> DEFINE Frame == UNCHANGED <<rpc, submitCh, pending, batch, outstanding, sq, cpc, spc, taken,
                                  remaining, reaped, limit, stats>>
  <1>1. ASSUME AccountsOK, Frame PROVE AccountsOK'
    <2>1. Admitting' = Admitting /\ Sending' = Sending
      BY <1>1 DEF Admitting, Sending
    <2>2. CallAccounts'
      BY <1>1, <2>1
      DEF AccountsOK, CallAccounts
    <2>3. QueueAccounts'
      BY <1>1, <2>1
      DEF AccountsOK, QueueAccounts
    <2>4. RingFlow'
      BY <1>1, <2>1
      DEF AccountsOK, RingFlow, SqFlow, TableFlow, CqFlow, Delivering, Taken
    <2>5. PartialAccounts'
      BY <1>1, <2>1
      DEF AccountsOK, PartialAccounts, Owed
    <2> QED  BY <2>2, <2>3, <2>4, <2>5 DEF AccountsOK
  <1>2. ASSUME KernelSpurious \/ UNCHANGED vars \/ (\E c \in Closers : Close(c))
               \/ \E o \in Reads : KernelComplete(o)
        PROVE  Frame
    BY <1>2 DEF KernelSpurious, KernelComplete, vars, Close, CloseBegin, CloseDecide, CloseStop,
                CloseJoin, readVars, lockVars, chanVars, subVars, compVars, kernVars
  <1> QED
    BY <1>1, <1>2, AccountsReadAt, AccountsSubmitter, AccountsCompleter DEF Next, Finished

LEMMA AccountsInit == Init => AccountsOK
  <1> SUFFICES ASSUME Init PROVE AccountsOK
    OBVIOUS
  <1>1. /\ submitCh = <<>> /\ pending = <<>> /\ batch = <<>> /\ sq = <<>> /\ outstanding = 0
        /\ spc = "idle" /\ cpc = "reap" /\ reaped = 0 /\ \A o \in Reads : rpc[o] = "start"
    BY DEF Init
  <1>2. /\ stats["created"] = 0 /\ stats["admitted"] = 0 /\ stats["cleaned"] = 0 /\ stats["pins"] = 0
        /\ stats["unpins"] = 0 /\ stats["published"] = 0 /\ stats["requested"] = 0 /\ stats["consumed"] = 0
        /\ stats["partials"] = 0 /\ stats["completed"] = 0 /\ stats["drained"] = 0
    BY DEF Init, Counters
  <1>3. Admitting = {} /\ Sending = {}
    BY <1>1 DEF Admitting, Sending
  <1>4. /\ IsFiniteSet(Admitting) /\ IsFiniteSet(Sending)
        /\ Cardinality(Admitting) = 0 /\ Cardinality(Sending) = 0
    BY <1>3, FS_EmptySet
  <1>5. CallAccounts /\ PartialAccounts
    BY <1>1, <1>2, <1>4 DEF CallAccounts, PartialAccounts, Owed
  <1>6. Len(submitCh) = 0 /\ Len(pending) = 0 /\ Len(batch) = 0 /\ Len(sq) = 0 /\ Taken = 0 /\ Delivering = 0
    BY <1>1 DEF Taken, Delivering
  <1>7. QueueAccounts /\ RingFlow
    BY <1>1, <1>2, <1>4, <1>6 DEF QueueAccounts, RingFlow, SqFlow, TableFlow, CqFlow
  <1> QED  BY <1>5, <1>7 DEF AccountsOK

AccountsInv == LifeInv /\ AccountsOK

\* After a Close that returned nil the counters reconcile as the tests and the
\* harness demand, once no ReadAt is under way: whatever the kernel did, since
\* a kernel that lost or made up a CQE never lets Close return nil.
THEOREM CountersReconcile == Spec => [](NoOverflow => CountersReconcileAfterClose)
  <1>1. Init => AccountsInv
    BY LifeInit, AccountsInit DEF AccountsInv
  <1>2. AccountsInv /\ [Next]_vars => AccountsInv'
    BY LifeInvStep, AccountsStep DEF AccountsInv, LifeInv
  <1>3. AccountsInv => (NoOverflow => CountersReconcileAfterClose)
    <2> SUFFICES ASSUME TypeInv, Owned, LifeOK, SubmitterOK, CloseOK, AccountsOK,
                        NEW c \in Closers, closeRet[c] = "nil",
                        \A o \in Reads : rpc[o] \in {"start", "returned"}
                 PROVE  /\ stats["created"] = stats["admitted"] + stats["cleaned"]
                        /\ stats["pins"] = stats["unpins"]
                        /\ stats["published"] = stats["admitted"]
                        /\ stats["consumed"] = stats["published"]
                        /\ stats["completed"] = stats["published"]
                        /\ stats["drained"] = stats["completed"]
                        /\ (stats["partials"] = 0) = (stats["requested"] = stats["consumed"])
      BY DEF AccountsInv, LifeInv, CountersReconcileAfterClose
    <2>1. closed /\ spc = "exited" /\ cpc = "exited" /\ outstanding = 0 /\ reaped = 0
      BY DEF CloseOK, CloserOK, DrainedOK, TypeInv, LoopsOK
    <2>2. ToPublish = {}
      BY <2>1, ClosedMeansEmpty
    <2>3. submitCh = <<>> /\ pending = <<>> /\ batch = <<>> /\ sq = <<>>
      BY <2>1, <2>2, PlacesType, DequeueFacts DEF ToPublish, TypeInv, LoopsOK, SubmitterOK
    <2>4. Len(submitCh) = 0 /\ Len(pending) = 0 /\ Len(batch) = 0 /\ Len(sq) = 0 /\ Taken = 0 /\ Delivering = 0
      BY <2>1, <2>3 DEF Taken, Delivering
    <2>5. Admitting = {} /\ Sending = {}
      BY DEF Admitting, Sending
    <2>6. Cardinality(Admitting) = 0 /\ Cardinality(Sending) = 0
      BY <2>5, FS_EmptySet
    <2>7. /\ stats["created"] \in Nat /\ stats["admitted"] \in Nat /\ stats["cleaned"] \in Nat
          /\ stats["pins"] \in Nat /\ stats["unpins"] \in Nat /\ stats["published"] \in Nat
          /\ stats["requested"] \in Nat /\ stats["consumed"] \in Nat /\ stats["partials"] \in Nat
          /\ stats["completed"] \in Nat /\ stats["drained"] \in Nat
      BY Numbers DEF NumberTypes
    <2>8. /\ stats["created"] = stats["admitted"] + stats["cleaned"]
          /\ stats["pins"] = stats["created"] /\ stats["unpins"] = stats["cleaned"] + stats["completed"]
      BY <2>6, <2>7 DEF AccountsOK, CallAccounts
    <2>9. stats["admitted"] = stats["published"]
      BY <2>4, <2>6, <2>7 DEF AccountsOK, QueueAccounts
    <2>10. /\ stats["published"] = stats["consumed"] /\ stats["published"] = stats["completed"]
           /\ stats["completed"] = stats["drained"]
      BY <2>1, <2>4, <2>7 DEF AccountsOK, RingFlow, SqFlow, TableFlow, CqFlow
    <2>11. \/ stats["partials"] = 0 /\ stats["requested"] = stats["consumed"]
           \/ stats["partials"] > 0 /\ stats["requested"] > stats["consumed"]
      BY <2>1, <2>7 DEF AccountsOK, PartialAccounts, Owed
    <2>12. stats["pins"] = stats["unpins"]
      BY <2>7, <2>8, <2>9, <2>10
    <2>13. (stats["partials"] = 0) = (stats["requested"] = stats["consumed"])
      BY <2>7, <2>11
    <2> QED  BY <2>8, <2>9, <2>10, <2>12, <2>13
  <1> HIDE DEF AccountsInv
  <1> QED  BY <1>1, <1>2, <1>3, PTL DEF Spec

-----------------------------------------------------------------------------
(* The retirement window: what appending and evicting by the cursor keep.    *)

\* How the map, the slice and its cursor keep the last cap members of a sequence: from
\* the cursor to the end of the slice the older ones, before it the newer ones.
WindowSet(w, h, cap) ==
  /\ w.set = Recent(h, cap) /\ IsFiniteSet(w.set)
  /\ Cardinality(w.set) = IF Len(h) < cap THEN Len(h) ELSE cap
WindowSlice(w, h, cap) ==
  /\ Len(h) <= cap => w.ids = h /\ w.next = 1
  /\ Len(h) >= cap =>
       /\ Len(w.ids) = cap /\ w.next \in 1 .. cap
       /\ \A j \in w.next .. cap : w.ids[j] = h[(Len(h) - cap) + (j - w.next) + 1]
       /\ \A j \in 1 .. w.next - 1 : w.ids[j] = h[(Len(h) - w.next) + 1 + j]

\* No member twice; and not a member.
Once(h) == \A i, j \in 1 .. Len(h) : h[i] = h[j] => i = j
Unseen(id, h) == \A i \in 1 .. Len(h) : h[i] # id

\* The last members of a longer sequence: one more of them, or one in the place of
\* the oldest.
LEMMA RecentIsOld ==
  ASSUME NEW S, NEW h \in Seq(S), NEW id \in S, NEW cap \in Nat \ {0},
         Once(h), Unseen(id, h)
  PROVE  id \notin Recent(h, cap)
<1>1. PICK k \in Nat : k = Len(h)
  BY LenProperties
<1>2. Forgotten(h, cap) \in Nat
  BY <1>1 DEF Forgotten
<1>3. \A i \in Forgotten(h, cap) + 1 .. k : i \in 1 .. k
  BY <1>1, <1>2
<1> QED  BY <1>1, <1>3 DEF Recent, Unseen

LEMMA RecentGrows ==
  ASSUME NEW S, NEW h \in Seq(S), NEW id \in S, NEW cap \in Nat \ {0},
         Once(h), Unseen(id, h), Len(h) < cap
  PROVE  Recent(Append(h, id), cap) = Recent(h, cap) \cup {id}
<1>1. PICK k \in Nat : k = Len(h)
  BY LenProperties
<1>2. PICK g : g = Append(h, id)
  OBVIOUS
<1>3. Len(g) = k + 1 /\ g[k + 1] = id /\ \A i \in 1 .. k : g[i] = h[i]
  BY <1>1, <1>2, AppendProperties
<1>4. Recent(h, cap) = {h[i] : i \in 1 .. k}
  BY <1>1 DEF Recent, Forgotten
<1>5. Recent(g, cap) = {g[i] : i \in 1 .. k + 1}
  BY <1>1, <1>3 DEF Recent, Forgotten
<1>6. 1 .. k + 1 = (1 .. k) \cup {k + 1}
  BY <1>1
<1> QED  BY <1>2, <1>3, <1>4, <1>5, <1>6

LEMMA RecentSlides ==
  ASSUME NEW S, NEW h \in Seq(S), NEW id \in S, NEW cap \in Nat \ {0},
         Once(h), Unseen(id, h), Len(h) >= cap,
         NEW old, old = h[Len(h) - cap + 1]
  PROVE  old \in Recent(h, cap) /\ Recent(Append(h, id), cap) = (Recent(h, cap) \ {old}) \cup {id}
<1>1. PICK k \in Nat : k = Len(h)
  BY LenProperties
<1>2. PICK g : g = Append(h, id)
  OBVIOUS
<1>3. Len(g) = k + 1 /\ g[k + 1] = id /\ \A i \in 1 .. k : g[i] = h[i]
  BY <1>1, <1>2, AppendProperties
<1>4. PICK f \in Nat : f = k - cap
  <2>1. k - cap \in Nat
    BY <1>1
  <2> QED  BY <2>1
<1>5. old = h[f + 1] /\ Recent(h, cap) = {h[i] : i \in f + 1 .. k}
  BY <1>1, <1>4 DEF Recent, Forgotten
<1>6. Recent(g, cap) = {g[i] : i \in f + 2 .. k + 1}
  <2>1. Forgotten(g, cap) + 1 = f + 2
    BY <1>1, <1>3, <1>4 DEF Forgotten
  <2> QED  BY <1>3, <2>1 DEF Recent
<1>7. f + 1 \in f + 1 .. k /\ f + 1 .. k = (f + 2 .. k) \cup {f + 1} /\ f + 1 \notin f + 2 .. k
  BY <1>1, <1>4
<1>8. f + 2 .. k + 1 = (f + 2 .. k) \cup {k + 1}
  BY <1>1, <1>4
<1>9. \A i \in f + 2 .. k : i \in 1 .. k /\ g[i] = h[i]
  BY <1>3, <1>4
<1>10. \A i \in f + 2 .. k : h[i] # h[f + 1]
  <2>1. f + 1 \in 1 .. k
    BY <1>1, <1>4
  <2> QED  BY <1>1, <1>7, <1>9, <2>1 DEF Once
<1>11. PICK rest : rest = {h[i] : i \in f + 2 .. k}
  OBVIOUS
<1>12. Recent(h, cap) = rest \cup {old}
  BY <1>5, <1>7, <1>11
<1>13. Recent(g, cap) = rest \cup {id}
  <2>1. {g[i] : i \in f + 2 .. k + 1} = {g[i] : i \in f + 2 .. k} \cup {g[k + 1]}
    BY <1>8
  <2>2. {g[i] : i \in f + 2 .. k} = rest
    BY <1>9, <1>11
  <2> QED  BY <1>3, <1>6, <2>1, <2>2
<1>14. old \notin rest
  BY <1>5, <1>10, <1>11
<1> QED  BY <1>2, <1>12, <1>13, <1>14

\* The cursor finds the oldest, and evicting it keeps the window.
LEMMA RetireKeepsSet ==
  ASSUME NEW S, NEW h \in Seq(S), NEW id \in S, NEW cap \in Nat \ {0},
         NEW w \in [ids : Seq(S), next : Nat, set : SUBSET S],
         Once(h), Unseen(id, h),
         WindowSet(w, h, cap), WindowSlice(w, h, cap)
  PROVE  WindowSet(Retire(w, id, cap), Append(h, id), cap)
<1>1. PICK k \in Nat : k = Len(h)
  BY LenProperties
<1>2. PICK g : g = Append(h, id)
  OBVIOUS
<1>3. Len(g) = k + 1
  BY <1>1, <1>2, AppendProperties
<1>4. /\ w.set = Recent(h, cap) /\ IsFiniteSet(w.set)
      /\ Cardinality(w.set) = IF k < cap THEN k ELSE cap
  BY <1>1 DEF WindowSet
<1>5. CASE k < cap
  <2>1. Retire(w, id, cap) = [w EXCEPT !.ids = Append(w.ids, id), !.set = w.set \cup {id}]
    BY <1>4, <1>5 DEF Retire, HasRoom
  <2>2. Retire(w, id, cap).set = w.set \cup {id}
    BY <2>1
  <2>3. id \notin w.set /\ Recent(g, cap) = w.set \cup {id}
    <3>1. Len(h) < cap /\ w.set = Recent(h, cap)
      BY <1>1, <1>4, <1>5
    <3> QED  BY <1>2, <3>1, RecentIsOld, RecentGrows
  <2>4. IsFiniteSet(w.set \cup {id}) /\ Cardinality(w.set \cup {id}) = k + 1
    BY <1>4, <1>5, <2>3, FS_AddElement
  <2> QED  BY <1>2, <1>3, <1>5, <2>2, <2>3, <2>4 DEF WindowSet
<1>6. CASE k >= cap
  <2>1. Retire(w, id, cap).set = (w.set \ {Oldest(w)}) \cup {id}
    BY <1>4, <1>6 DEF Retire, HasRoom
  <2>2. Oldest(w) = h[k - cap + 1]
    <3>1. w.next \in 1 .. cap /\ w.ids[w.next] = h[(k - cap) + (w.next - w.next) + 1]
      <4>1. /\ w.next \in 1 .. cap
            /\ \A j \in w.next .. cap : w.ids[j] = h[(k - cap) + (j - w.next) + 1]
        BY <1>1, <1>6 DEF WindowSlice
      <4>2. w.next \in w.next .. cap
        BY <4>1
      <4> QED  BY <4>1, <4>2
    <3>2. (k - cap) + (w.next - w.next) + 1 = k - cap + 1
      BY <1>1, <3>1
    <3> QED  BY <3>1, <3>2 DEF Oldest
  <2>3. PICK old : old = Oldest(w)
    OBVIOUS
  <2>4. /\ id \notin w.set /\ old \in w.set /\ Recent(g, cap) = (w.set \ {old}) \cup {id}
    <3>1. Len(h) >= cap /\ old = h[Len(h) - cap + 1] /\ w.set = Recent(h, cap)
      BY <1>1, <1>4, <1>6, <2>2, <2>3
    <3>2. id \notin Recent(h, cap)
      BY RecentIsOld
    <3>3. old \in Recent(h, cap) /\ Recent(Append(h, id), cap) = (Recent(h, cap) \ {old}) \cup {id}
      BY <3>1, RecentSlides
    <3> QED  BY <1>2, <3>1, <3>2, <3>3
  <2>5. IsFiniteSet(w.set \ {old}) /\ Cardinality(w.set \ {old}) = cap - 1
    <3>1. IsFiniteSet(w.set) /\ Cardinality(w.set) = cap
      BY <1>4, <1>6
    <3> QED  BY <2>4, <3>1, FS_RemoveElement
  <2>6. IsFiniteSet((w.set \ {old}) \cup {id}) /\ Cardinality((w.set \ {old}) \cup {id}) = cap
    <3>1. PICK kept : kept = w.set \ {old}
      OBVIOUS
    <3>2. id \notin kept /\ IsFiniteSet(kept) /\ Cardinality(kept) = cap - 1
      BY <2>4, <2>5, <3>1
    <3>3. IsFiniteSet(kept \cup {id}) /\ Cardinality(kept \cup {id}) = Cardinality(kept) + 1
      BY <3>2, FS_AddElement
    <3>4. cap - 1 + 1 = cap
      OBVIOUS
    <3> QED  BY <3>1, <3>2, <3>3, <3>4
  <2>7. Retire(w, id, cap).set = Recent(g, cap)
    BY <2>1, <2>3, <2>4
  <2>8. ~(Len(g) < cap)
    BY <1>3, <1>6
  <2> QED  BY <1>2, <2>1, <2>3, <2>6, <2>7, <2>8 DEF WindowSet
<1> QED  BY <1>1, <1>5, <1>6

\* The cursor goes round the slice once the map is full.
LEMMA RetireKeepsSlice ==
  ASSUME NEW S, NEW h \in Seq(S), NEW id \in S, NEW cap \in Nat \ {0},
         NEW w \in [ids : Seq(S), next : Nat, set : SUBSET S],
         WindowSet(w, h, cap), WindowSlice(w, h, cap)
  PROVE  /\ WindowSlice(Retire(w, id, cap), Append(h, id), cap)
         /\ Retire(w, id, cap) \in [ids : Seq(S), next : Nat, set : SUBSET S]
<1>1. PICK k \in Nat : k = Len(h)
  BY LenProperties
<1>2. PICK g : g = Append(h, id)
  OBVIOUS
<1>3. Len(g) = k + 1 /\ g[k + 1] = id /\ \A i \in 1 .. k : g[i] = h[i]
  BY <1>1, <1>2, AppendProperties
<1>4. Cardinality(w.set) = IF k < cap THEN k ELSE cap
  BY <1>1 DEF WindowSet
<1>5. PICK v : v = Retire(w, id, cap)
  OBVIOUS
<1>6. CASE k < cap
  <2>1. v = [w EXCEPT !.ids = Append(w.ids, id), !.set = w.set \cup {id}]
    BY <1>4, <1>5, <1>6 DEF Retire, HasRoom
  <2>2. w.ids = h /\ w.next = 1
    BY <1>1, <1>6 DEF WindowSlice
  <2>3. v.ids = g /\ v.next = 1 /\ v.set = w.set \cup {id}
    BY <1>2, <2>1, <2>2
  <2>4. \A j \in 1 .. cap : k + 1 >= cap => (k + 1 - cap) + (j - 1) + 1 = j
    BY <1>6
  <2>5. WindowSlice(v, g, cap)
    BY <1>3, <1>6, <2>3, <2>4 DEF WindowSlice
  <2>6. v \in [ids : Seq(S), next : Nat, set : SUBSET S]
    BY <2>1, AppendProperties
  <2> QED  BY <1>2, <1>5, <2>5, <2>6
<1>7. CASE k >= cap
  <2>1. /\ Len(w.ids) = cap /\ w.next \in 1 .. cap
        /\ \A j \in w.next .. cap : w.ids[j] = h[(k - cap) + (j - w.next) + 1]
        /\ \A j \in 1 .. w.next - 1 : w.ids[j] = h[(k - w.next) + 1 + j]
    BY <1>1, <1>7 DEF WindowSlice
  <2>2. v = [ids  |-> [w.ids EXCEPT ![w.next] = id],
             next |-> (w.next % Len(w.ids)) + 1,
             set  |-> (w.set \ {Oldest(w)}) \cup {id}]
    BY <1>4, <1>5, <1>7 DEF Retire, HasRoom
  <2>3. PICK n \in 1 .. cap : n = w.next
    BY <2>1
  <2>4. v.next = IF n = cap THEN 1 ELSE n + 1
    <3>1. n % cap = IF n = cap THEN 0 ELSE n
      BY <2>3
    <3> QED  BY <2>1, <2>2, <2>3, <3>1
  <2>5. /\ v.ids \in Seq(S) /\ Len(v.ids) = cap /\ v.ids[n] = id
        /\ \A j \in 1 .. cap : j # n => v.ids[j] = w.ids[j]
    <3>1. w.ids \in Seq(S)
      OBVIOUS
    <3> QED  BY <2>1, <2>2, <2>3, <3>1, ExceptSeq
  <2>6. v.set \in SUBSET S
    BY <2>2
  <2>7. CASE n = cap
    <3>1. v.next = 1
      BY <2>4, <2>7
    <3>2. ASSUME NEW j \in 1 .. cap PROVE v.ids[j] = g[(k + 1 - cap) + (j - 1) + 1]
      <4>1. CASE j = n
        <5>1. (k + 1 - cap) + (j - 1) + 1 = k + 1
          BY <2>7, <4>1
        <5> QED  BY <1>3, <2>5, <4>1, <5>1
      <4>2. CASE j # n
        <5>1. j \in 1 .. n - 1 /\ (k - n) + 1 + j = (k + 1 - cap) + (j - 1) + 1
              /\ (k - n) + 1 + j \in 1 .. k
          BY <1>7, <2>7, <4>2
        <5> QED  BY <1>3, <2>1, <2>3, <2>5, <4>2, <5>1
      <4> QED  BY <4>1, <4>2
    <3>3. WindowSlice(v, g, cap)
      BY <1>3, <1>7, <2>5, <3>1, <3>2 DEF WindowSlice
    <3> QED  BY <1>2, <1>5, <2>2, <2>5, <2>6, <3>1, <3>3
  <2>8. CASE n # cap
    <3>1. v.next = n + 1 /\ n + 1 \in 1 .. cap
      BY <2>4, <2>8
    <3>2. ASSUME NEW j \in n + 1 .. cap PROVE v.ids[j] = g[(k + 1 - cap) + (j - (n + 1)) + 1]
      <4>1. j \in n .. cap /\ j \in 1 .. cap /\ j # n /\ (k - cap) + (j - n) + 1 = (k + 1 - cap) + (j - (n + 1)) + 1
            /\ (k - cap) + (j - n) + 1 \in 1 .. k
        BY <1>7
      <4> QED  BY <1>3, <2>1, <2>3, <2>5, <4>1
    <3>3. ASSUME NEW j \in 1 .. (n + 1) - 1 PROVE v.ids[j] = g[(k + 1 - (n + 1)) + 1 + j]
      <4>1. CASE j = n
        <5>1. (k + 1 - (n + 1)) + 1 + j = k + 1
          BY <4>1
        <5> QED  BY <1>3, <2>5, <4>1, <5>1
      <4>2. CASE j # n
        <5>1. j \in 1 .. n - 1 /\ j \in 1 .. cap /\ (k - n) + 1 + j = (k + 1 - (n + 1)) + 1 + j
              /\ (k - n) + 1 + j \in 1 .. k
          BY <1>7, <4>2
        <5> QED  BY <1>3, <2>1, <2>3, <2>5, <4>2, <5>1
      <4> QED  BY <4>1, <4>2
    <3>4. k + 1 > cap /\ Len(g) = k + 1
      BY <1>3, <1>7
    <3>5. WindowSlice(v, g, cap)
      BY <2>5, <3>1, <3>2, <3>3, <3>4 DEF WindowSlice
    <3>6. v \in [ids : Seq(S), next : Nat, set : SUBSET S]
      BY <2>2, <2>5, <2>6, <3>1
    <3> QED  BY <1>2, <1>5, <3>5, <3>6
  <2> QED  BY <2>7, <2>8
<1> QED  BY <1>1, <1>6, <1>7

-----------------------------------------------------------------------------
(* The ring's window, against the operations in the order they left the table. *)

\* Every ID given out so far is an operation's.
Assigned == \A i \in 1 .. nextID : \E o \in Reads : opId[o] = i

\* The operations that left the table.
Gone == {o \in Reads : opState[o] \in {"terminal", "released"} /\ opId[o] # 0}
GoneIDs == {opId[o] : o \in Gone}

\* finish takes an operation from the table.
Retires == cpc = "finish" /\ cpc' = "deliver"

\* The history has the ID of each of them once, and the window the last of those.
HistoryOK ==
  /\ history \in Seq(Ids) /\ {history[i] : i \in 1 .. Len(history)} = GoneIDs
  /\ Once(history)
WindowOK ==
  /\ retired \in [ids : Seq(Ids), next : Nat, set : SUBSET Ids]
  /\ WindowSet(retired, history, CqEntries) /\ WindowSlice(retired, history, CqEntries)

\* A CQE counted as a duplicate or as unknown stopped the completer, and its ID is
\* in the window, or it was never given out or has been forgotten.
Stopped == cpc = "panic" /\ reaped + 1 <= Len(cq)
InWindow(id) == id \in Recent(history, CqEntries)
NotInWindow(id) == id = 0 \/ \E i \in 1 .. Forgotten(history, CqEntries) : id = history[i]
ToldOK ==
  /\ stats["duplicates"] > 0 => Stopped /\ InWindow(NextCqe.id)
  /\ stats["unknown"] > 0 => Stopped /\ NotInWindow(NextCqe.id)

\* IDs are given out by ReadAdmit only.
LEMMA AssignedStep ==
  ASSUME TypeInv, Owned, Assigned, NoOverflow', [Next]_vars
  PROVE  Assigned'
  <1>1. ASSUME UNCHANGED <<nextID, opId>> PROVE Assigned'
    BY <1>1 DEF Assigned
  <1>2. ASSUME NEW o \in Reads, ReadAdmit(o) PROVE Assigned'
    <2>1. rpc[o] = "admit" /\ NewID # 0 /\ nextID' = NewID /\ opId' = [opId EXCEPT ![o] = NewID]
      BY <1>2 DEF ReadAdmit
    <2>2. NewID = nextID + 1 /\ nextID \in Nat /\ opId[o] = 0
      BY <2>1, NewIDIsFresh DEF Owned, CallsOK
    <2>3. opId'[o] = NewID /\ \A p \in Reads \ {o} : opId'[p] = opId[p]
      BY <2>1 DEF TypeInv, TypeOK, OpTypes
    <2>4. ASSUME NEW i \in 1 .. nextID' PROVE \E p \in Reads : opId'[p] = i
      <3>1. CASE i = NewID
        BY <2>3, <3>1
      <3>2. CASE i # NewID
        <4>1. i \in 1 .. nextID
          BY <2>1, <2>2, <3>2
        <4>2. PICK p \in Reads : opId[p] = i
          BY <4>1 DEF Assigned
        <4> QED  BY <2>2, <2>3, <4>1, <4>2
      <3> QED  BY <3>1, <3>2
    <2> QED  BY <2>4 DEF Assigned
  <1>3. ASSUME NEW o \in Reads, ReadRefused(o) PROVE UNCHANGED <<nextID, opId>>
    <2>1. ret' \in [Reads -> {None} \cup Refusals \cup Range(Outcome)] /\ ret'[o] # "overflow"
      BY TypeStep DEF TypeOK, ReadTypes, NoOverflow
    <2>2. \A x : ret' = [ret EXCEPT ![o] = x] => ret'[o] = x
      BY DEF TypeInv, TypeOK, ReadTypes
    <2> QED  BY <1>3, <2>1, <2>2 DEF ReadRefused
  <1>4. ASSUME NEW o \in Reads, ReadAt(o), ~ReadAdmit(o), ~ReadRefused(o) PROVE UNCHANGED <<nextID, opId>>
    BY <1>4 DEF ReadAt, ReadSkip, ReadPin, ReadSend, ReadReturn, opVars, lockVars
  <1>5. ASSUME Submitter \/ Completer PROVE UNCHANGED <<nextID, opId>>
    BY <1>5 DEF Submitter, SubReceive, SubStop, SubGather, SubPublish, SubStoreTail, SubEnter,
                SubEnterFails, SubAccount, SubNotify, Completer, CompReap, CompFinish, CompUnknown,
                CompDeliver, CompStoreHead, CompCheck, CompIdle, CompWait, opVars, lockVars
  <1>6. ASSUME KernelSpurious \/ UNCHANGED vars \/ (\E c \in Closers : Close(c))
               \/ \E o \in Reads : KernelComplete(o)
        PROVE  UNCHANGED <<nextID, opId>>
    BY <1>6 DEF KernelSpurious, KernelComplete, vars, Close, CloseBegin, CloseDecide, CloseStop,
                CloseJoin, opVars, lockVars
  <1> QED  BY <1>1, <1>2, <1>3, <1>4, <1>5, <1>6 DEF Next, Finished

\* A call's operation is not retired before it was admitted.
LEMMA GoneReadAt ==
  ASSUME TypeInv, Owned, NEW o \in Reads, ReadAt(o)
  PROVE  retired' = retired /\ history' = history /\ GoneIDs' = GoneIDs
<1>1. retired' = retired /\ history' = history
  BY DEF ReadAt, ReadSkip, ReadPin, ReadRefused, ReadAdmit, ReadSend, ReadReturn, lockVars
<1>2. CASE ReadSkip(o) \/ ReadSend(o) \/ ReadReturn(o)
  <2>1. UNCHANGED <<opState, opId>>
    BY <1>2 DEF ReadSkip, ReadSend, ReadReturn, opVars
  <2> QED  BY <1>1, <2>1 DEF Gone, GoneIDs
<1>3. CASE ReadPin(o) \/ ReadRefused(o) \/ ReadAdmit(o)
  <2>1. /\ rpc[o] \in {"start", "admit"}
        /\ opId' = opId \/ (opId' = [opId EXCEPT ![o] = NewID] /\ opState' = [opState EXCEPT ![o] = "queued"])
        /\ \E x : opState' = [opState EXCEPT ![o] = x]
    BY <1>3 DEF ReadPin, ReadRefused, ReadAdmit
  <2>2. opId[o] = 0
    BY <2>1 DEF Owned, CallsOK
  <2>3. \A p \in Reads \ {o} : opId'[p] = opId[p] /\ opState'[p] = opState[p]
    BY <2>1 DEF TypeInv, TypeOK, OpTypes
  <2>4. opId'[o] = 0 \/ opState'[o] = "queued"
    BY <2>1, <2>2 DEF TypeInv, TypeOK, OpTypes
  <2>5. Gone' = Gone /\ o \notin Gone
    BY <2>2, <2>3, <2>4 DEF Gone
  <2>6. \A p \in Gone : opId'[p] = opId[p]
    BY <2>3, <2>5 DEF Gone
  <2> QED  BY <1>1, <2>5, <2>6 DEF GoneIDs
<1> QED  BY <1>2, <1>3 DEF ReadAt

\* The submitter takes queued operations to published ones.
LEMMA GoneSubmitter ==
  ASSUME TypeInv, Owned, Submitter
  PROVE  retired' = retired /\ history' = history /\ GoneIDs' = GoneIDs
<1>1. UNCHANGED <<retired, history, opId>>
  BY DEF Submitter, SubReceive, SubStop, SubGather, SubPublish, SubStoreTail, SubEnter,
         SubEnterFails, SubAccount, SubNotify, opVars, lockVars
<1>2. \A o \in Reads : opState'[o] = opState[o] \/ (opState[o] = "queued" /\ opState'[o] = "published")
  <2>1. CASE SubPublish /\ spc' = "store"
    <3> DEFINE head == SubSeq(pending, 1, BatchSize)
    <3>1. opState' = [o \in Reads |-> IF o \in Range(head) THEN "published" ELSE opState[o]]
      BY <2>1 DEF SubPublish
    <3>2. Range(head) \subseteq Range(pending)
      BY BatchSizeType, PlacesType, SplitFacts
    <3> HIDE DEF head
    <3>3. \A o \in Range(head) : opState[o] = "queued"
      BY <3>2 DEF Owned, QueuesOK, ToPublish
    <3> QED  BY <3>1, <3>3
  <2>2. CASE ~(SubPublish /\ spc' = "store")
    BY <2>2 DEF Submitter, SubReceive, SubStop, SubGather, SubPublish, SubStoreTail, SubEnter,
         SubEnterFails, SubAccount, SubNotify, opVars
  <2> QED  BY <2>1, <2>2
<1>3. Gone' = Gone
  BY <1>1, <1>2 DEF Gone
<1> QED  BY <1>1, <1>3 DEF GoneIDs

\* finish puts the ID of the operation it takes from the table into the window.
LEMMA GoneRetires ==
  ASSUME TypeInv, Owned, CompFinish, Retires
  PROVE  /\ NextCqe.id \in Ids \ GoneIDs /\ GoneIDs' = GoneIDs \cup {NextCqe.id}
         /\ retired' = Retire(retired, NextCqe.id, CqEntries)
         /\ history' = Append(history, NextCqe.id)
<1>1. opId' = opId
  BY DEF CompFinish
<1>2. PICK id \in Ids, op \in Reads :
        /\ id = NextCqe.id /\ op = ops[id] /\ opState[op] = "published" /\ opId[op] = id
        /\ opState' = [opState EXCEPT ![op] = "terminal"]
        /\ retired' = Retire(retired, id, CqEntries) /\ history' = Append(history, id)
  BY DEF CompFinish, Known, Retires, TypeInv, TypeOK, LockTypes, Owned, IdsOK
<1>3. opState'[op] = "terminal" /\ \A p \in Reads \ {op} : opState'[p] = opState[p]
  BY <1>2 DEF TypeInv, TypeOK, OpTypes
<1>4. id # 0
  BY DEF Ids
<1>5. op \notin Gone /\ Gone' = Gone \cup {op}
  BY <1>1, <1>2, <1>3, <1>4 DEF Gone
<1>6. GoneIDs' = GoneIDs \cup {id}
  BY <1>1, <1>2, <1>5 DEF GoneIDs
<1>7. id \notin GoneIDs
  BY <1>2, <1>4, <1>5 DEF GoneIDs, Gone, Owned, IdsOK
<1> QED  BY <1>2, <1>6, <1>7

\* Every other step of the completer leaves the window and who is gone.
LEMMA GoneCompleter ==
  ASSUME TypeInv, Owned, LifeOK, Completer, ~Retires
  PROVE  retired' = retired /\ history' = history /\ GoneIDs' = GoneIDs
<1>1. opId' = opId
  BY DEF Completer, CompReap, CompFinish, CompUnknown, CompDeliver, CompStoreHead, CompCheck,
         CompIdle, CompWait, opVars
<1>2. CASE CompDeliver
  <2>1. PICK op \in Reads :
          /\ opState[op] = "terminal" /\ opState' = [opState EXCEPT ![op] = "released"]
          /\ retired' = retired /\ history' = history
    BY <1>2 DEF CompDeliver, TypeInv, TypeOK, CompTypes, LoopsOK, Owned, CurOK, lockVars
  <2>2. Gone' = Gone
    BY <1>1, <2>1 DEF Gone, TypeInv, TypeOK, OpTypes
  <2> QED  BY <1>1, <2>1, <2>2 DEF GoneIDs
<1>3. CASE ~CompDeliver
  <2>1. UNCHANGED <<opState, retired, history>>
    BY <1>3 DEF Completer, CompReap, CompFinish, CompUnknown, CompStoreHead, CompCheck, CompIdle,
                CompWait, Retires, opVars, lockVars
  <2> QED  BY <1>1, <2>1 DEF Gone, GoneIDs
<1> QED  BY <1>2, <1>3

\* The window and the operations that are gone change together, and only when one retires.
LEMMA GoneStep ==
  ASSUME TypeInv, Owned, LifeOK, [Next]_vars
  PROVE  IF Retires
         THEN /\ NextCqe.id \in Ids \ GoneIDs /\ GoneIDs' = GoneIDs \cup {NextCqe.id}
              /\ retired' = Retire(retired, NextCqe.id, CqEntries)
              /\ history' = Append(history, NextCqe.id)
         ELSE retired' = retired /\ history' = history /\ GoneIDs' = GoneIDs
<1>1. ASSUME KernelSpurious \/ UNCHANGED vars \/ (\E c \in Closers : Close(c))
             \/ \E o \in Reads : KernelComplete(o)
      PROVE  retired' = retired /\ history' = history /\ GoneIDs' = GoneIDs /\ ~Retires
  <2>1. UNCHANGED <<retired, history, opState, opId, cpc>>
    BY <1>1 DEF KernelSpurious, KernelComplete, vars, Close, CloseBegin, CloseDecide, CloseStop,
                CloseJoin, opVars, lockVars, compVars
  <2> QED  BY <2>1 DEF Gone, GoneIDs, Retires
<1>2. ASSUME Submitter \/ \E o \in Reads : ReadAt(o) PROVE ~Retires
  BY <1>2 DEF Submitter, SubReceive, SubStop, SubGather, SubPublish, SubStoreTail, SubEnter,
              SubEnterFails, SubAccount, SubNotify, ReadAt, ReadSkip, ReadPin, ReadRefused,
              ReadAdmit, ReadSend, ReadReturn, compVars, Retires
<1>3. ASSUME Completer, Retires PROVE CompFinish
  BY <1>3 DEF Completer, CompReap, CompFinish, CompUnknown, CompDeliver, CompStoreHead, CompCheck,
              CompIdle, CompWait, Retires
<1> QED
  BY <1>1, <1>2, <1>3, GoneReadAt, GoneSubmitter, GoneRetires, GoneCompleter DEF Next, Finished

\* The history and the window go on together.
LEMMA HistoryStep ==
  ASSUME TypeInv, Owned, LifeOK, HistoryOK, WindowOK, [Next]_vars
  PROVE  HistoryOK' /\ WindowOK'
<1>1. IF Retires
      THEN /\ NextCqe.id \in Ids \ GoneIDs /\ GoneIDs' = GoneIDs \cup {NextCqe.id}
           /\ retired' = Retire(retired, NextCqe.id, CqEntries)
           /\ history' = Append(history, NextCqe.id)
      ELSE retired' = retired /\ history' = history /\ GoneIDs' = GoneIDs
  BY GoneStep
<1>2. CASE ~Retires
  <2>1. history' = history /\ retired' = retired /\ GoneIDs' = GoneIDs
    BY <1>1, <1>2
  <2>2. HistoryOK'
    BY <2>1 DEF HistoryOK
  <2>3. WindowOK'
    BY <2>1 DEF WindowOK
  <2> QED  BY <2>2, <2>3
<1>3. CASE Retires
  <2>1. PICK id \in Ids \ GoneIDs :
          /\ GoneIDs' = GoneIDs \cup {id} /\ retired' = Retire(retired, id, CqEntries)
          /\ history' = Append(history, id)
    BY <1>1, <1>3
  <2>2. PICK h \in Seq(Ids) : h = history
    BY DEF HistoryOK
  <2>3. PICK w \in [ids : Seq(Ids), next : Nat, set : SUBSET Ids] : w = retired
    BY DEF WindowOK
  <2>4. Once(h) /\ Unseen(id, h) /\ {h[i] : i \in 1 .. Len(h)} = GoneIDs
    BY <2>1, <2>2 DEF HistoryOK, Unseen
  <2>5. WindowSet(w, h, CqEntries) /\ WindowSlice(w, h, CqEntries)
    BY <2>2, <2>3 DEF WindowOK
  <2>6. CqEntries \in Nat \ {0} /\ id \in Ids
    BY SizesAssumption
  <2>7. WindowSet(Retire(w, id, CqEntries), Append(h, id), CqEntries)
    BY <2>4, <2>5, <2>6, RetireKeepsSet
  <2>8. /\ WindowSlice(Retire(w, id, CqEntries), Append(h, id), CqEntries)
        /\ Retire(w, id, CqEntries) \in [ids : Seq(Ids), next : Nat, set : SUBSET Ids]
    BY <2>5, <2>6, RetireKeepsSlice
  <2>9. retired' = Retire(w, id, CqEntries) /\ history' = Append(h, id)
    BY <2>1, <2>2, <2>3
  <2>10. WindowOK'
    BY <2>7, <2>8, <2>9 DEF WindowOK
  <2>11. HistoryOK'
    <3>1. PICK k \in Nat : k = Len(h)
      BY LenProperties
    <3>2. PICK g \in Seq(Ids) : g = Append(h, id)
      BY <2>6, AppendProperties
    <3>3. Len(g) = k + 1 /\ g[k + 1] = id /\ \A i \in 1 .. k : g[i] = h[i]
      BY <2>6, <3>1, <3>2, AppendProperties
    <3>4. 1 .. k + 1 = (1 .. k) \cup {k + 1}
      BY <3>1
    <3>5. {g[i] : i \in 1 .. k + 1} = GoneIDs \cup {id}
      <4>1. {g[i] : i \in 1 .. k + 1} = {g[i] : i \in 1 .. k} \cup {g[k + 1]}
        BY <3>4
      <4>2. {g[i] : i \in 1 .. k} = {h[i] : i \in 1 .. k}
        BY <3>3
      <4> QED  BY <2>4, <3>1, <3>3, <4>1, <4>2
    <3>6. \A i, j \in 1 .. k + 1 : g[i] = g[j] => i = j
      BY <2>4, <3>1, <3>3, <3>4 DEF Once, Unseen
    <3> QED  BY <2>1, <2>9, <3>2, <3>3, <3>5, <3>6 DEF HistoryOK, Once
  <2> QED  BY <2>10, <2>11
<1> QED  BY <1>2, <1>3

\* The ID of a CQE that the table does not hold: 0, or one that retired.
LEMMA CqeIsGone ==
  ASSUME TypeInv, Owned, LifeOK, Assigned, HistoryOK, cpc = "finish", ~Known(NextCqe.id)
  PROVE  InWindow(NextCqe.id) \/ NotInWindow(NextCqe.id)
<1> SUFFICES ASSUME NextCqe.id # 0 PROVE InWindow(NextCqe.id) \/ NotInWindow(NextCqe.id)
  BY DEF NotInWindow
<1>1. /\ reaped + 1 \in 1 .. Len(cq) /\ NextCqe.id \in 0 .. (IdMod - 1) /\ nextID \in Nat
  BY NextCqeType, IdAssumption DEF TypeInv, TypeOK, LockTypes
<1>2. NextCqe.id <= nextID /\ \A p \in Reads : opId[p] = NextCqe.id /\ opId[p] # 0 => served[p] # None
  BY <1>1 DEF Owned, CqesOK, NextCqe
<1>3. NextCqe.id \in 1 .. nextID /\ NextCqe.id \in Ids
  BY <1>1, <1>2, IdAssumption DEF Ids
<1>4. PICK o \in Reads : opId[o] = NextCqe.id
  BY <1>3 DEF Assigned
<1>5. opState[o] \in {"published", "terminal", "released"}
  BY <1>2, <1>4 DEF LifeOK, Life
<1>6. opState[o] # "published"
  BY <1>3, <1>4, NoneAssumption DEF Known, LifeOK, Life, InTable
<1>7. NextCqe.id \in GoneIDs
  BY <1>4, <1>5, <1>6 DEF Gone, GoneIDs
<1>8. PICK k \in Nat : k = Len(history)
  BY LenProperties DEF HistoryOK
<1>9. PICK i \in 1 .. k : history[i] = NextCqe.id
  BY <1>7, <1>8 DEF HistoryOK
<1>10. PICK f \in Nat : f = Forgotten(history, CqEntries)
  <2>1. CqEntries \in Nat
    BY SizesAssumption
  <2>2. Forgotten(history, CqEntries) \in Nat
    BY <1>8, <2>1 DEF Forgotten
  <2> QED  BY <2>2
<1>11. i \in 1 .. f \/ i \in f + 1 .. k
  BY <1>8, <1>9, <1>10
<1> QED  BY <1>8, <1>9, <1>10, <1>11 DEF InWindow, NotInWindow, Recent

\* After a CQE was counted as a duplicate or unknown the completer takes no step.
LEMMA ToldStep ==
  ASSUME TypeInv, Owned, LifeOK, Assigned, HistoryOK, WindowOK, ToldOK,
         [Next]_vars
  PROVE  ToldOK'
<1>1. ~Retires => history' = history
  BY GoneStep
<1>2. ASSUME UNCHANGED <<cpc, reaped>>, stats'["unknown"] = stats["unknown"],
             stats'["duplicates"] = stats["duplicates"],
             cq' = cq \/ \E x \in Cqe : cq' = Append(cq, x)
      PROVE  ToldOK'
  <2>1. \A i \in 1 .. Len(cq) : Len(cq') >= Len(cq) /\ cq'[i] = cq[i]
    BY <1>2, AppendProperties, LenProperties DEF TypeInv, TypeOK, KernTypes
  <2>2. reaped \in Nat /\ Len(cq) \in Nat /\ Len(cq') \in Nat
    BY <1>2, AppendProperties, LenProperties, Numbers DEF NumberTypes, TypeInv, TypeOK, KernTypes
  <2>3. reaped + 1 <= Len(cq) => reaped + 1 <= Len(cq') /\ cq'[reaped + 1] = cq[reaped + 1]
    BY <2>1, <2>2
  <2>4. history' = history
    BY <1>1, <1>2 DEF Retires
  <2>5. Stopped => Stopped' /\ NextCqe'.id = NextCqe.id
    BY <1>2, <2>3 DEF Stopped, NextCqe
  <2> QED  BY <1>2, <2>4, <2>5 DEF ToldOK, InWindow, NotInWindow, Recent, Forgotten
<1>3. ASSUME Completer PROVE ToldOK'
  <2>1. cpc # "panic"
    BY <1>3 DEF Completer, CompReap, CompFinish, CompUnknown, CompDeliver, CompStoreHead, CompCheck,
                CompIdle, CompWait
  <2>2. ~(stats["unknown"] > 0) /\ ~(stats["duplicates"] > 0)
    BY <2>1 DEF ToldOK, Stopped
  <2>3. CASE CompUnknown
    <3>1. /\ cpc = "finish" /\ ~Known(NextCqe.id) /\ cpc' = "panic" /\ UNCHANGED <<reaped, cq>>
      BY <2>3 DEF CompUnknown, kernVars
    <3>2. reaped + 1 \in 1 .. Len(cq)
      BY <3>1, NextCqeType
    <3>3. Stopped' /\ NextCqe'.id = NextCqe.id
      BY <3>1, <3>2 DEF NextCqe, Stopped
    <3>4. history' = history
      BY <1>1, <3>1 DEF Retires
    <3>5. retired.set = Recent(history, CqEntries)
      BY DEF WindowOK, WindowSet
    <3>6. IF InWindow(NextCqe.id)
          THEN stats'["unknown"] = stats["unknown"] ELSE stats'["duplicates"] = stats["duplicates"]
      BY <2>3, <3>5 DEF CompUnknown, InWindow, TypeInv, TypeOK, StatTypes, Counters
    <3>7. /\ InWindow(NextCqe.id) => InWindow(NextCqe.id)'
          /\ NotInWindow(NextCqe.id) => NotInWindow(NextCqe.id)'
      BY <3>3, <3>4 DEF InWindow, NotInWindow, Recent, Forgotten
    <3>8. InWindow(NextCqe.id) \/ NotInWindow(NextCqe.id)
      BY <3>1, CqeIsGone
    <3> QED  BY <2>2, <3>3, <3>6, <3>7, <3>8 DEF ToldOK
  <2>4. CASE ~CompUnknown
    <3>1. stats'["unknown"] = stats["unknown"] /\ stats'["duplicates"] = stats["duplicates"]
      BY <1>3, <2>4 DEF Completer, CompReap, CompFinish, CompDeliver, CompStoreHead, CompCheck,
                CompIdle, CompWait, TypeInv, TypeOK, StatTypes, Counters
    <3> QED  BY <2>2, <3>1 DEF ToldOK
  <2> QED  BY <2>3, <2>4
<1>4. ASSUME Submitter \/ \E o \in Reads : ReadAt(o)
      PROVE  UNCHANGED <<cpc, reaped, cq>> /\ stats'["unknown"] = stats["unknown"]
             /\ stats'["duplicates"] = stats["duplicates"]
  <2>1. UNCHANGED <<cpc, reaped, cq>>
    BY <1>4 DEF Submitter, SubReceive, SubStop, SubGather, SubPublish, SubStoreTail, SubEnter,
              SubEnterFails, SubAccount, SubNotify, ReadAt, ReadSkip, ReadPin, ReadRefused,
              ReadAdmit, ReadSend, ReadReturn, compVars, kernVars
  <2>2. stats'["unknown"] = stats["unknown"] /\ stats'["duplicates"] = stats["duplicates"]
    BY <1>4 DEF Submitter, SubReceive, SubStop, SubGather, SubPublish, SubStoreTail, SubEnter,
              SubEnterFails, SubAccount, SubNotify, ReadAt, ReadSkip, ReadPin, ReadRefused,
              ReadAdmit, ReadSend, ReadReturn, TypeInv, TypeOK, StatTypes, Counters
  <2> QED  BY <2>1, <2>2
<1>5. ASSUME KernelSpurious \/ \E o \in Reads : KernelComplete(o)
      PROVE  UNCHANGED <<cpc, reaped, stats>> /\ \E x \in Cqe : cq' = Append(cq, x)
  <2>1. UNCHANGED <<cpc, reaped, stats>>
    BY <1>5 DEF KernelSpurious, KernelComplete, compVars
  <2>2. \A o \in Reads, res \in Results : [id |-> opId[o], res |-> res] \in Cqe /\ [id |-> 0, res |-> res] \in Cqe
    BY IdAssumption DEF Cqe, TypeInv, TypeOK, OpTypes
  <2>3. \A o \in Reads : served[o] # None => served[o] \in Results
    BY DEF TypeInv, TypeOK, KernTypes
  <2>4. ASSUME NEW o \in Reads, KernelComplete(o) PROVE \E x \in Cqe : cq' = Append(cq, x)
    BY <2>2, <2>4 DEF KernelComplete
  <2>5. ASSUME KernelSpurious PROVE \E x \in Cqe : cq' = Append(cq, x)
    <3>1. CASE \E o \in Reads : served[o] # None /\ cq' = Append(cq, [id |-> opId[o], res |-> served[o]])
      BY <2>2, <2>3, <3>1
    <3>2. CASE \E res \in Results : cq' = Append(cq, [id |-> 0, res |-> res])
      <4>1. \A res \in Results : [id |-> 0, res |-> res] \in Cqe
        BY IdAssumption DEF Cqe
      <4> QED  BY <3>2, <4>1
    <3> QED  BY <2>5, <3>1, <3>2 DEF KernelSpurious
  <2> QED  BY <1>5, <2>1, <2>4, <2>5
<1>6. ASSUME UNCHANGED vars \/ \E c \in Closers : Close(c)
      PROVE  UNCHANGED <<cpc, reaped, cq, stats>>
  BY <1>6 DEF vars, Close, CloseBegin, CloseDecide, CloseStop, CloseJoin, compVars, kernVars
<1> QED  BY <1>1, <1>2, <1>3, <1>4, <1>5, <1>6 DEF Next, Finished

LEMMA WindowInit == Init => Assigned /\ HistoryOK /\ WindowOK /\ ToldOK
<1> SUFFICES ASSUME Init PROVE Assigned /\ HistoryOK /\ WindowOK /\ ToldOK
  OBVIOUS
<1>1. /\ nextID = 0 /\ retired = [ids |-> <<>>, next |-> 1, set |-> {}] /\ history = <<>>
      /\ \A o \in Reads : opState[o] = "none"
  BY DEF Init, EmptyWindow
<1>2. stats["duplicates"] = 0 /\ stats["unknown"] = 0
  BY DEF Init, Counters
<1>3. Assigned /\ ToldOK
  BY <1>1, <1>2 DEF Assigned, ToldOK
<1>4. Gone = {}
  BY <1>1 DEF Gone
<1>5. GoneIDs = {}
  BY <1>4 DEF GoneIDs
<1>6. HistoryOK
  BY <1>1, <1>5 DEF HistoryOK, Once
<1>7. CqEntries \in Nat \ {0}
  BY SizesAssumption
<1>8. Recent(history, CqEntries) = {}
  BY <1>1, <1>7 DEF Recent, Forgotten
<1>9. WindowOK
  <2>1. WindowSet(retired, history, CqEntries)
    BY <1>1, <1>7, <1>8, FS_EmptySet DEF WindowSet
  <2>2. WindowSlice(retired, history, CqEntries)
    BY <1>1, <1>7 DEF WindowSlice
  <2> QED  BY <1>1, <2>1, <2>2 DEF WindowOK
<1> QED  BY <1>3, <1>6, <1>9

\* What holds of the ring with its history.
HistoryInv == LifeInv /\ (NoOverflow => Assigned /\ HistoryOK /\ WindowOK /\ ToldOK)

LEMMA HistoryInvStep == HistoryInv /\ [Next]_vars => HistoryInv'
<1> SUFFICES ASSUME HistoryInv, [Next]_vars PROVE HistoryInv'
  OBVIOUS
<1>2. LifeInv' /\ (NoOverflow' => NoOverflow)
  BY LifeInvStep, ResultsStep DEF HistoryInv, LifeInv
<1>3. ASSUME NoOverflow' PROVE Assigned' /\ HistoryOK' /\ WindowOK' /\ ToldOK'
  <2>1. TypeInv /\ Owned /\ LifeOK /\ Assigned /\ HistoryOK /\ WindowOK /\ ToldOK
    BY <1>2, <1>3 DEF HistoryInv, LifeInv
  <2> QED  BY <1>3, <2>1, AssignedStep, HistoryStep, ToldStep
<1> QED  BY <1>2, <1>3 DEF HistoryInv

\* The map Ring.completed always holds the IDs of the operations that completed last,
\* as many as the CQ has entries: past the first eviction, and however often the
\* cursor goes round the slice.
THEOREM WindowStaysRecent == Spec => []WindowIsRecent
<1>1. Init => HistoryInv
  BY LifeInit, WindowInit DEF HistoryInv
<1>2. HistoryInv => WindowIsRecent
  BY DEF HistoryInv, WindowOK, WindowSet, WindowIsRecent
<1> QED  BY <1>1, <1>2, HistoryInvStep, PTL DEF Spec

\* A CQE whose ID the table does not hold is counted as a duplicate if its operation
\* is one of those, and as unknown only if its ID was never given out or its operation
\* completed longer ago.
THEOREM DuplicatesAlwaysTold == Spec => []DuplicatesAreTold
<1>1. Init => HistoryInv
  BY LifeInit, WindowInit DEF HistoryInv
<1>2. HistoryInv => DuplicatesAreTold
  BY DEF HistoryInv, ToldOK, InWindow, NotInWindow, DuplicatesAreTold
<1> QED  BY <1>1, <1>2, HistoryInvStep, PTL DEF Spec

-----------------------------------------------------------------------------
(* ReadService: the phase of an operation, from what the invariants say. *)

\* The phase of an operation, from what the invariants say of it.
PhaseIs(o) ==
  /\ rpc[o] = "start" => Phase(o) = "idle"
  /\ rpc[o] = "admit" => Phase(o) = "called"
  /\ rpc[o] = "returned" => Phase(o) = "returned"
  /\ rpc[o] \in {"send", "wait"} =>
       /\ opState[o] = "published" /\ o \in KernelOwned => Phase(o) = "lent"
       /\ opState[o] = "published" /\ o \notin KernelOwned /\ served[o] # None => Phase(o) = "answered"
       /\ opState[o] = "published" /\ o \notin KernelOwned /\ served[o] = None => Phase(o) = "accepted"
       /\ opState[o] \in {"terminal", "released"} => Phase(o) = "settled"
       /\ opState[o] = "queued" => Phase(o) = "accepted"

LEMMA Phases == \A o : PhaseIs(o) /\ PhaseIs(o)'
  <1> TAKE o
  <1>1. PhaseIs(o)
    <2>1. CASE rpc[o] \in {"start", "admit", "returned"}
      BY <2>1 DEF PhaseIs, Phase
    <2>2. CASE rpc[o] \in {"send", "wait"}
      <3>1. Phase(o) = Progress(o)
        BY <2>2 DEF Phase
      <3> QED  BY <2>2, <3>1 DEF PhaseIs, Progress
    <2> QED  BY <2>1, <2>2 DEF PhaseIs
  <1>2. PhaseIs(o)'
    <2>1. CASE rpc'[o] \in {"start", "admit", "returned"}
      BY <2>1 DEF PhaseIs, Phase
    <2>2. CASE rpc'[o] \in {"send", "wait"}
      <3>1. Phase(o)' = Progress(o)'
        BY <2>2 DEF Phase
      <3> QED  BY <2>2, <3>1 DEF PhaseIs, Progress
    <2> QED  BY <2>1, <2>2 DEF PhaseIs
  <1> QED  BY <1>1, <1>2

\* An operation whose place is unchanged shows the same phase.
LEMMA PhaseFrame ==
  ASSUME NEW o, rpc'[o] = rpc[o], opState'[o] = opState[o], served'[o] = served[o],
         o \in KernelOwned' <=> o \in KernelOwned
  PROVE  Phase(o)' = Phase(o)
  BY DEF Phase, Progress

\* A step that shows nothing.
LEMMA Stutter ==
  ASSUME \A o \in Reads : Phase(o)' = Phase(o), UNCHANGED <<served, ret, closed>>
  PROVE  UNCHANGED Abstract!vars
  BY DEF Abstract!vars

LEMMA StutterFrame ==
  ASSUME UNCHANGED <<rpc, opState, served, ret, closed>>, KernelOwned' = KernelOwned
  PROVE  UNCHANGED Abstract!vars
  BY PhaseFrame, Stutter

-----------------------------------------------------------------------------
(* A step that shows one operation in another phase.                         *)

\* A step of one operation leaves the phase of the others.
LEMMA OthersShowTheSame ==
  ASSUME NEW o \in Reads,
         \A p \in Reads \ {o} :
           /\ rpc'[p] = rpc[p] /\ opState'[p] = opState[p] /\ served'[p] = served[p]
           /\ p \in KernelOwned' <=> p \in KernelOwned
  PROVE  \A p \in Reads \ {o} : Phase(p)' = Phase(p)
  BY PhaseFrame

\* The abstract phases then change at that operation.
Shown == [o \in Reads |-> Phase(o)]

LEMMA ShownMoves ==
  ASSUME NEW o \in Reads, \A p \in Reads \ {o} : Phase(p)' = Phase(p)
  PROVE  Shown' = [Shown EXCEPT ![o] = Phase(o)']
  BY DEF Shown

\* A step of a call.
LEMMA ReadAtRefines ==
  ASSUME TypeInv, Owned, LifeOK, AnswersOK, NEW o \in Reads, ReadAt(o)
  PROVE  Abstract!Next \/ UNCHANGED Abstract!vars
  <1>1. UNCHANGED <<served, closed>> /\ KernelOwned' = KernelOwned
    BY DEF ReadAt, ReadSkip, ReadPin, ReadRefused, ReadAdmit, ReadSend, ReadReturn, kernVars,
           lockVars, KernelOwned
  <1>2. \A p \in Reads \ {o} : rpc'[p] = rpc[p] /\ opState'[p] = opState[p]
    BY DEF TypeInv, TypeOK, ReadTypes, OpTypes, ReadAt, ReadSkip, ReadPin, ReadRefused, ReadAdmit,
           ReadSend, ReadReturn, opVars
  <1>3. \A p \in Reads \ {o} : Phase(p)' = Phase(p)
    BY <1>1, <1>2, OthersShowTheSame
  <1>4. Shown' = [Shown EXCEPT ![o] = Phase(o)'] /\ Shown[o] = Phase(o)
    BY <1>3, ShownMoves DEF Shown
  <1>5. CASE ReadSkip(o)
    <2>1. /\ rpc[o] = "start" /\ rpc'[o] = "returned"
          /\ \E why \in Refusals : ret' = [ret EXCEPT ![o] = why]
      BY <1>5 DEF ReadSkip, TypeInv, TypeOK, ReadTypes, Refusals
    <2>2. Phase(o) = "idle" /\ Phase(o)' = "returned"
      BY <2>1, Phases DEF PhaseIs
    <2>3. Abstract!Refuse(o)
      BY <1>1, <1>4, <2>1, <2>2 DEF Abstract!Refuse, Shown
    <2> QED  BY <2>3 DEF Abstract!Next
  <1>6. CASE ReadPin(o)
    <2>1. rpc[o] = "start" /\ rpc'[o] = "admit" /\ ret' = ret
      BY <1>6 DEF ReadPin, TypeInv, TypeOK, ReadTypes
    <2>2. Phase(o) = "idle" /\ Phase(o)' = "called"
      BY <2>1, Phases DEF PhaseIs
    <2>3. Abstract!Call(o)
      BY <1>1, <1>4, <2>1, <2>2 DEF Abstract!Call, Shown
    <2> QED  BY <2>3 DEF Abstract!Next
  <1>7. CASE ReadRefused(o)
    <2>1. /\ rpc[o] = "admit" /\ rpc'[o] = "returned"
          /\ \E why \in Refusals : ret' = [ret EXCEPT ![o] = why]
      BY <1>7 DEF ReadRefused, TypeInv, TypeOK, ReadTypes, Refusals
    <2>2. Phase(o) = "called" /\ Phase(o)' = "returned"
      BY <2>1, Phases DEF PhaseIs
    <2>3. Abstract!Refuse(o)
      BY <1>1, <1>4, <2>1, <2>2 DEF Abstract!Refuse, Shown
    <2> QED  BY <2>3 DEF Abstract!Next
  <1>8. CASE ReadAdmit(o)
    <2>1. rpc[o] = "admit" /\ rpc'[o] = "send" /\ opState'[o] = "queued" /\ ~closed /\ ret' = ret
      BY <1>8 DEF ReadAdmit, TypeInv, TypeOK, ReadTypes, OpTypes
    <2>2. Phase(o) = "called" /\ Phase(o)' = "accepted"
      BY <2>1, Phases DEF PhaseIs
    <2>3. Abstract!Accept(o)
      BY <1>1, <1>4, <2>1, <2>2 DEF Abstract!Accept, Shown
    <2> QED  BY <2>3 DEF Abstract!Next
  <1>9. CASE ReadSend(o)
    <2>1. rpc[o] = "send" /\ rpc'[o] = "wait" /\ opState' = opState /\ ret' = ret
      BY <1>9 DEF ReadSend, TypeInv, TypeOK, ReadTypes, opVars
    <2>2. opState[o] = "queued"
      BY <2>1 DEF Owned, CallsOK
    <2>3. Phase(o)' = Phase(o)
      BY <2>1, <2>2, Phases DEF PhaseIs
    <2> QED  BY <1>1, <1>3, <2>1, <2>3, Stutter
  <1>10. CASE ReadReturn(o)
    <2>1. /\ rpc[o] = "wait" /\ rpc'[o] = "returned" /\ done[o] # None
          /\ ret' = [ret EXCEPT ![o] = done[o]]
      BY <1>10 DEF ReadReturn, Completed, TypeInv, TypeOK, ReadTypes
    <2>2. opState[o] = "released" /\ done[o] = Outcome[served[o]]
      BY <2>1 DEF Owned, CallsOK, AnswersOK
    <2>3. Phase(o) = "settled" /\ Phase(o)' = "returned"
      BY <2>1, <2>2, Phases DEF PhaseIs
    <2>4. Abstract!Return(o)
      BY <1>1, <1>4, <2>1, <2>2, <2>3 DEF Abstract!Return, Shown
    <2> QED  BY <2>4 DEF Abstract!Next
  <1> QED
    BY <1>5, <1>6, <1>7, <1>8, <1>9, <1>10 DEF ReadAt

\* The kernel answers a lent read.
LEMMA KernelRefines ==
  ASSUME TypeInv, Owned, NEW o \in Reads, KernelComplete(o)
  PROVE  Abstract!Next
  <1>1. PICK res \in Results :
           /\ o \in inflight /\ inflight' = inflight \ {o}
           /\ served' = [served EXCEPT ![o] = res]
           /\ UNCHANGED <<sq, rpc, ret, opState, closed>>
    BY DEF KernelComplete, readVars, opVars, lockVars
  <1>2. res # None /\ served'[o] = res /\ \A p \in Reads \ {o} : served'[p] = served[p]
    BY <1>1, NoneAssumption DEF TypeInv, TypeOK, KernTypes
  <1>3. o \notin Range(sq) /\ rpc[o] = "wait" /\ opState[o] = "published"
    BY <1>1 DEF Owned, RingOK, InRing, Held
  <1>4. /\ o \in KernelOwned /\ o \notin KernelOwned'
        /\ \A p \in Reads \ {o} : p \in KernelOwned' <=> p \in KernelOwned
    BY <1>1, <1>3 DEF KernelOwned
  <1>5. Phase(o) = "lent" /\ Phase(o)' = "answered"
    BY <1>1, <1>2, <1>3, <1>4, Phases DEF PhaseIs
  <1>6. Shown' = [Shown EXCEPT ![o] = "answered"] /\ Shown[o] = "lent"
    BY <1>1, <1>2, <1>4, <1>5, OthersShowTheSame, ShownMoves DEF Shown
  <1>7. Abstract!Answer(o)
    BY <1>1, <1>6 DEF Abstract!Answer, Shown
  <1> QED  BY <1>7 DEF Abstract!Next


\* A batch passes the checks of submitBatch: nothing is lent yet.
LEMMA PublishShowsNothing ==
  ASSUME TypeInv, Owned, LifeOK, SubPublish
  PROVE  UNCHANGED Abstract!vars
  <1> DEFINE head == SubSeq(pending, 1, BatchSize)
  <1>1. UNCHANGED <<rpc, ret, served, closed>> /\ KernelOwned' = KernelOwned
    BY DEF SubPublish, readVars, kernVars, KernelOwned
  <1>2. CASE spc' # "store"
    BY <1>1, <1>2, StutterFrame DEF SubPublish
  <1>3. CASE spc' = "store"
    <2>1. opState' = [o \in Reads |-> IF o \in Range(head) THEN "published" ELSE opState[o]]
      BY <1>3 DEF SubPublish
    <2>2. Range(head) \subseteq Range(pending)
      BY BatchSizeType, PlacesType, SplitFacts
    <2> HIDE DEF head
    <2>3. ASSUME NEW o \in Reads, o \in Range(head) PROVE Phase(o)' = Phase(o)
      <3>1. opState[o] = "queued" /\ rpc[o] = "wait" /\ served[o] = None
        BY <2>2, <2>3 DEF Owned, QueuesOK, ToPublish, Held
      <3>2. o \notin KernelOwned
        BY <3>1 DEF Owned, RingOK, InRing, KernelOwned
      <3>3. opState'[o] = "published"
        BY <2>1, <2>3
      <3> QED  BY <1>1, <3>1, <3>2, <3>3, Phases DEF PhaseIs
    <2>4. ASSUME NEW o \in Reads, o \notin Range(head) PROVE Phase(o)' = Phase(o)
      BY <1>1, <2>1, <2>4, PhaseFrame
    <2> QED  BY <1>1, <2>3, <2>4, Stutter
  <1> QED  BY <1>2, <1>3

\* The tail store lends the whole batch.
LEMMA StoreLends ==
  ASSUME TypeInv, Owned, SubmitterOK, SubStoreTail
  PROVE  Abstract!Next
  <1>1. /\ batch # <<>> /\ sq' = sq \o batch
        /\ UNCHANGED <<inflight, rpc, ret, opState, served, closed>>
    BY DEF SubStoreTail, SubmitterOK, readVars, opVars, lockVars
  <1>2. batch \in Seq(Reads) /\ sq \in Seq(Reads)
    BY PlacesType
  <1>3. Range(sq') = Range(sq) \cup Range(batch) /\ Range(batch) # {} /\ Range(batch) \subseteq Reads
    BY <1>1, <1>2, ConcatFacts, DequeueFacts, ByIndex
  <1>4. KernelOwned' = KernelOwned \cup Range(batch) /\ Range(batch) \cap KernelOwned = {}
    BY <1>1, <1>3 DEF KernelOwned, Owned, RingOK
  <1>5. ASSUME NEW o \in Range(batch) PROVE Phase(o) = "accepted" /\ Phase(o)' = "lent"
    <2>1. rpc[o] = "wait" /\ opState[o] = "published" /\ served[o] = None
      BY DEF Owned, RingOK, InRing, Held
    <2> QED  BY <1>1, <1>4, <2>1, Phases DEF PhaseIs
  <1>6. ASSUME NEW o \in Reads, o \notin Range(batch) PROVE Phase(o)' = Phase(o)
    BY <1>1, <1>4, <1>6, PhaseFrame
  <1>7. Shown' = [o \in Reads |-> IF o \in Range(batch) THEN "lent" ELSE Shown[o]]
    BY <1>5, <1>6 DEF Shown
  <1>8. \A o \in Range(batch) : Shown[o] = "accepted"
    BY <1>3, <1>5 DEF Shown
  <1>9. Abstract!Lend(Range(batch))
    BY <1>1, <1>3, <1>7, <1>8 DEF Abstract!Lend, Shown
  <1> QED  BY <1>3, <1>9 DEF Abstract!Next

\* What the kernel consumes is already lent.
LEMMA EnterShowsNothing ==
  ASSUME TypeInv, SubEnter
  PROVE  UNCHANGED Abstract!vars
  <1>1. PICK k \in 1 .. Len(sq) :
          /\ inflight' = inflight \cup Range(SubSeq(sq, 1, k))
          /\ sq' = SubSeq(sq, k + 1, Len(sq))
    BY DEF SubEnter
  <1>2. sq \in Seq(Reads) /\ k \in 0 .. Len(sq)
    BY PlacesType, LenProperties
  <1>3. Range(sq) = Range(SubSeq(sq, 1, k)) \cup Range(sq')
    BY <1>1, <1>2, SplitFacts
  <1>4. KernelOwned' = KernelOwned
    BY <1>1, <1>3 DEF KernelOwned
  <1> QED  BY <1>4, StutterFrame DEF SubEnter, readVars, opVars, lockVars

LEMMA SubmitterRefines ==
  ASSUME TypeInv, Owned, LifeOK, SubmitterOK, Submitter
  PROVE  Abstract!Next \/ UNCHANGED Abstract!vars
  <1>1. CASE SubPublish \/ SubStoreTail \/ SubEnter
    BY <1>1, PublishShowsNothing, StoreLends, EnterShowsNothing
  <1>2. CASE SubReceive \/ SubStop \/ SubGather \/ SubEnterFails \/ SubAccount \/ SubNotify
    BY <1>2, StutterFrame DEF SubReceive, SubStop, SubGather, SubEnterFails, SubAccount, SubNotify,
       readVars, opVars, lockVars, kernVars, KernelOwned
  <1> QED  BY <1>1, <1>2 DEF Submitter

\* finish settles an answered read; the delivery shows nothing more.
LEMMA CompleterRefines ==
  ASSUME TypeInv, Owned, LifeOK, Completer
  PROVE  Abstract!Next \/ UNCHANGED Abstract!vars
  <1>1. UNCHANGED <<rpc, ret, served, closed>> /\ KernelOwned' = KernelOwned
    BY DEF Completer, CompReap, CompFinish, CompUnknown, CompDeliver, CompStoreHead, CompCheck,
           CompIdle, CompWait, readVars, lockVars, kernVars, KernelOwned
  <1>2. CASE CompFinish /\ cpc' = "deliver"
    <2> DEFINE id == NextCqe.id
    <2>1. PICK op : op = ops[id]
      OBVIOUS
    <2>2. id \in Ids /\ op # None /\ opState[op] = "published"
          /\ opState' = [opState EXCEPT ![op] = "terminal"]
      BY <1>2, <2>1 DEF CompFinish, Known
    <2>3. op \in Reads /\ opId[op] = id
      BY <2>1, <2>2 DEF TypeInv, TypeOK, LockTypes, Owned, IdsOK
    <2>4. reaped + 1 \in 1 .. Len(cq) /\ id = cq[reaped + 1].id /\ id # 0
      BY <1>2, <2>2, NextCqeType DEF CompFinish, NextCqe, Ids
    <2> HIDE DEF id
    <2>5. served[op] # None
      BY <2>3, <2>4 DEF Owned, CqesOK
    <2>6. op \notin KernelOwned /\ rpc[op] = "wait"
      BY <2>2, <2>3, <2>5 DEF Owned, RingOK, InRing, Held, KernelOwned, LifeOK, Life
    <2>7. opState'[op] = "terminal" /\ \A p \in Reads \ {op} : opState'[p] = opState[p]
      BY <2>2, <2>3 DEF TypeInv, TypeOK, OpTypes
    <2>8. Phase(op) = "answered" /\ Phase(op)' = "settled"
      BY <1>1, <2>2, <2>5, <2>6, <2>7, Phases DEF PhaseIs
    <2>9. Shown' = [Shown EXCEPT ![op] = "settled"] /\ Shown[op] = "answered"
      BY <1>1, <2>3, <2>7, <2>8, OthersShowTheSame, ShownMoves DEF Shown
    <2>10. Abstract!Settle(op)
      BY <1>1, <2>9 DEF Abstract!Settle, Shown
    <2> QED  BY <2>3, <2>10 DEF Abstract!Next
  <1>3. CASE CompDeliver
    <2>1. cpc = "deliver"
      BY <1>3 DEF CompDeliver
    <2>2. PICK op \in Reads : op = cur.op /\ opState[op] = "terminal"
      BY <2>1, CurIsTerminal
    <2>3. opState'[op] = "released" /\ \A p \in Reads \ {op} : opState'[p] = opState[p]
      BY <1>3, <2>2 DEF CompDeliver, TypeInv, TypeOK, OpTypes
    <2>4. rpc[op] = "wait"
      BY <2>2 DEF LifeOK, Life
    <2>5. Phase(op)' = Phase(op)
      BY <1>1, <2>2, <2>3, <2>4, Phases DEF PhaseIs
    <2> QED  BY <1>1, <2>3, <2>5, OthersShowTheSame, Stutter
  <1>4. CASE ~(CompFinish /\ cpc' = "deliver") /\ ~CompDeliver
    <2>1. opState' = opState
      BY <1>4 DEF Completer, CompReap, CompFinish, CompUnknown, CompStoreHead, CompCheck,
                  CompIdle, CompWait, opVars
    <2> QED  BY <1>1, <2>1, StutterFrame
  <1> QED  BY <1>2, <1>3, <1>4

\* Close is permitted with no accepted read unsettled.
LEMMA CloseRefines ==
  ASSUME TypeInv, Owned, LifeOK, CloseOK, NEW c \in Closers, Close(c)
  PROVE  Abstract!Next \/ UNCHANGED Abstract!vars
  <1>1. UNCHANGED <<rpc, ret, opState, served>> /\ KernelOwned' = KernelOwned
    BY DEF Close, CloseBegin, CloseDecide, CloseStop, CloseJoin, readVars, opVars, kernVars, KernelOwned
  <1>2. CASE closed' = closed
    BY <1>1, <1>2, StutterFrame
  <1>3. CASE closed' # closed
    <2>1. clpc[c] = "decide" /\ closed' = TRUE /\ \A i \in Ids : ops[i] = None
      BY <1>3 DEF Close, CloseBegin, CloseDecide, CloseStop, CloseJoin, Drained, lockVars
    <2>2. ~closed
      BY <2>1 DEF CloseOK, CloserOK
    <2>3. ASSUME NEW o \in Reads PROVE Phase(o) \notin {"accepted", "lent", "answered"}
      <3>1. Life(o) /\ opState[o] \notin {"queued", "published"}
        BY <2>1, NoneAssumption DEF LifeOK, Life, InTable
      <3>2. rpc[o] \in {"send", "wait"} => opState[o] \in {"terminal", "released"}
        BY <3>1 DEF Life, TypeInv, TypeOK, OpTypes
      <3> QED  BY <3>2, Phases DEF PhaseIs, TypeInv, TypeOK, ReadTypes
    <2>4. Shown' = Shown /\ \A o \in Reads : Shown[o] \notin {"accepted", "lent", "answered"}
      BY <1>1, <2>3, PhaseFrame DEF Shown
    <2>5. Abstract!Shut
      BY <1>1, <2>1, <2>2, <2>4 DEF Abstract!Shut, Shown
    <2> QED  BY <2>5 DEF Abstract!Next
  <1> QED  BY <1>2, <1>3

-----------------------------------------------------------------------------
(* The refinement. *)

LEMMA InitRefines == Init => Abstract!Init
  <1> SUFFICES ASSUME Init PROVE Abstract!Init
    OBVIOUS
  <1>1. closed = FALSE /\ served = [o \in Reads |-> None] /\ ret = [o \in Reads |-> None]
    BY Zenon DEF Init
  <1>2. \A o \in Reads : rpc[o] = "start"
    BY DEF Init
  <1>3. \A o \in Reads : Phase(o) = "idle"
    BY <1>2, Phases DEF PhaseIs
  <1> QED  BY <1>1, <1>3, Zenon DEF Abstract!Init

LEMMA StepRefines ==
  LifeInv /\ NoOverflow /\ [Next]_vars => [Abstract!Next]_(Abstract!vars)
  <1> SUFFICES ASSUME TypeInv, Owned, LifeOK, AnswersOK, CloseOK, SubmitterOK, [Next]_vars
               PROVE  Abstract!Next \/ UNCHANGED Abstract!vars
    BY DEF LifeInv
  <1>1. CASE \E o \in Reads : ReadAt(o) \/ KernelComplete(o)
    BY <1>1, ReadAtRefines, KernelRefines
  <1>2. CASE \E c \in Closers : Close(c)
    BY <1>2, CloseRefines
  <1>3. CASE Submitter
    BY <1>3, SubmitterRefines
  <1>4. CASE Completer
    BY <1>4, CompleterRefines
  <1>5. CASE KernelSpurious \/ UNCHANGED vars
    BY <1>5, StutterFrame DEF KernelSpurious, vars, readVars, opVars, lockVars, kernVars, KernelOwned
  <1> QED  BY <1>1, <1>2, <1>3, <1>4, <1>5 DEF Next, Finished

\* Whatever goes wrong below the ring, what its callers see is a behaviour of
\* the service: batches, partial submission, an overfull CQ and a racing Close
\* show nothing else.
THEOREM RingImplementsService == Spec /\ []NoOverflow => Service
  <1>1. Spec => []LifeInv
    BY LifeInit, LifeInvStep, PTL DEF Spec
  <1> QED
    BY <1>1, InitRefines, StepRefines, PTL DEF Spec, Service, Abstract!Spec
=============================================================================
