-------------------------- MODULE MeasurementProofs -------------------------
(***************************************************************************)
(* Proofs about Arithmetic, Instruments and Observer: the calculations of   *)
(* the ring and the harness, for every input; the thread IDs the ring       *)
(* records, for every set of threads and every bound; what the observer     *)
(* reports of its child, and the peaks both sample, for any number of       *)
(* threads and samples.                                                     *)
(***************************************************************************)
EXTENDS Arithmetic, Instruments, Observer, FiniteSetTheorems, TLAPS

-----------------------------------------------------------------------------
(* The calculations. *)

\* Every size of a batch has a bucket of the array: it does not exceed that bucket's
\* bound, and exceeds the one before.
THEOREM BucketIsFirstThatFits ==
  ASSUME NEW n \in Nat \ {0}
  PROVE  LET i == BatchBucket(n) IN
         /\ i \in 0 .. 10
         /\ i < 10 => n <= Bound[i + 1]
         /\ i > 0 => Bound[i] < n
<1>1. CASE n <= 1
  <2>1. BatchBucket(n) = 0
    BY <1>1, SMT DEF BatchBucket
  <2> QED
    BY <1>1, <2>1, SMT DEF Bound
<1>2. CASE n = 2
  <2>1. BatchBucket(n) = 1
    BY <1>2, SMT DEF BatchBucket
  <2> QED
    BY <1>2, <2>1, SMT DEF Bound
<1>3. CASE n > 2 /\ n <= 4
  <2>1. BatchBucket(n) = 2
    BY <1>3, SMT DEF BatchBucket
  <2> QED
    BY <1>3, <2>1, SMT DEF Bound
<1>4. CASE n > 4 /\ n <= 8
  <2>1. BatchBucket(n) = 3
    BY <1>4, SMT DEF BatchBucket
  <2> QED
    BY <1>4, <2>1, SMT DEF Bound
<1>5. CASE n > 8 /\ n <= 16
  <2>1. BatchBucket(n) = 4
    BY <1>5, SMT DEF BatchBucket
  <2> QED
    BY <1>5, <2>1, SMT DEF Bound
<1>6. CASE n > 16 /\ n <= 32
  <2>1. BatchBucket(n) = 5
    BY <1>6, SMT DEF BatchBucket
  <2> QED
    BY <1>6, <2>1, SMT DEF Bound
<1>7. CASE n > 32 /\ n <= 64
  <2>1. BatchBucket(n) = 6
    BY <1>7, SMT DEF BatchBucket
  <2> QED
    BY <1>7, <2>1, SMT DEF Bound
<1>8. CASE n > 64 /\ n <= 128
  <2>1. BatchBucket(n) = 7
    BY <1>8, SMT DEF BatchBucket
  <2> QED
    BY <1>8, <2>1, SMT DEF Bound
<1>9. CASE n > 128 /\ n <= 256
  <2>1. BatchBucket(n) = 8
    BY <1>9, SMT DEF BatchBucket
  <2> QED
    BY <1>9, <2>1, SMT DEF Bound
<1>10. CASE n > 256 /\ n <= 512
  <2>1. BatchBucket(n) = 9
    BY <1>10, SMT DEF BatchBucket
  <2> QED
    BY <1>10, <2>1, SMT DEF Bound
<1>11. CASE n > 512
  <2>1. BatchBucket(n) = 10
    BY <1>11, SMT DEF BatchBucket
  <2> QED
    BY <1>11, <2>1, SMT DEF Bound
<1> QED
  BY <1>1, <1>2, <1>3, <1>4, <1>5, <1>6, <1>7, <1>8, <1>9, <1>10, <1>11, SMT

\* The rank of a percentile is that of a sample however few there are, so that
\* latencySummary never indexes out of its slice; and it is the nearest rank: the
\* least whose samples are so many percent of all.
THEOREM RankIsNearest ==
  ASSUME NEW n \in Nat \ {0}, NEW percent \in 1 .. 100
  PROVE  /\ Rank(percent, n) \in 1 .. n
         /\ 100 * Rank(percent, n) >= percent * n
         /\ 100 * (Rank(percent, n) - 1) < percent * n
<1> DEFINE wanted == percent * n
<1>1. wanted \in Nat /\ 1 <= wanted /\ wanted <= 100 * n
  <2>1. \A a, b \in Nat : a >= 1 /\ b >= 1 => a * b >= 1
    BY SMT
  <2>2. \A k \in Nat : percent * k <= 100 * k
    BY SMT
  <2> QED
    BY <2>1, <2>2, SMT
<1> HIDE DEF wanted
<1> DEFINE rank == (wanted + 99) \div 100
<1>2. /\ rank \in Int
      /\ 100 * rank <= wanted + 99 /\ wanted + 99 < 100 * rank + 100
  BY <1>1, SMT
<1>3. rank \in 1 .. n /\ 100 * rank >= wanted /\ 100 * (rank - 1) < wanted
  <2> HIDE DEF rank
  <2> QED
    BY <1>1, <1>2, SMT
<1> QED
  BY <1>3 DEF Rank, wanted, rank

\* Wherever a worker's generator sends it, there is a whole buffer to read: offsets
\* are made of the slots rounded down, which runChild has found to be at least one.
THEOREM OffsetLeavesRoom ==
  ASSUME NEW size \in Nat, NEW buffer \in Nat \ {0}, size >= buffer, NEW random \in Nat
  PROVE  /\ Offset(random, size, buffer) \in Nat
         /\ Offset(random, size, buffer) + buffer <= size
<1> DEFINE slots == Slots(size, buffer)
<1>1. slots \in Nat /\ slots * buffer <= size /\ slots >= 1
  BY SMT DEF Slots
<1> HIDE DEF slots
<1> DEFINE slot == random % slots
<1>2. slot \in Nat /\ slot + 1 <= slots
  BY <1>1, SMT
<1> HIDE DEF slot
<1>3. slot * buffer \in Nat /\ (slot + 1) * buffer <= slots * buffer
  BY <1>1, <1>2, SMT
<1>4. (slot + 1) * buffer = slot * buffer + buffer
  BY <1>2, SMT
<1>5. slot * buffer + buffer <= size
  BY <1>1, <1>3, <1>4, SMT
<1> QED
  BY <1>3, <1>5 DEF Offset, slot, slots

-----------------------------------------------------------------------------
(* The thread IDs. *)

TIDsAssumption == MaxTIDs \in Nat \ {0}

SetsOK ==
  /\ options \in [lock : BOOLEAN, record : BOOLEAN] /\ thread \in [Loops -> Threads]
  /\ at \in [Loops -> {"lock", "record", "enter"}]
  /\ entered \in [Loops -> SUBSET Threads] /\ told \in [Loops -> SUBSET Threads]
  /\ set \in [Loops -> [values : SUBSET Threads, truncated : BOOLEAN]]
  /\ \A l \in Loops : IsFiniteSet(set[l].values) /\ Cardinality(set[l].values) <= MaxTIDs

\* A locked submitter that is about to enter the kernel has just recorded its thread.
LockOK ==
  options.lock /\ options.record =>
    /\ at["submit"] = "lock" => entered["submit"] = {} /\ set["submit"].values = {}
    /\ at["submit"] = "enter" => set["submit"].values = {thread["submit"]}

InstrumentsInv == SetsOK /\ LockOK /\ CapIsObservable /\ LockedSubmitterIsRecorded

\* tidSet.add keeps the set within its bound, and the truncation bit true.
LEMMA AddKeepsCap ==
  ASSUME TIDsAssumption, NEW t \in Threads, NEW before \in SUBSET Threads,
         NEW s \in [values : SUBSET Threads, truncated : BOOLEAN],
         IsFiniteSet(s.values), Cardinality(s.values) <= MaxTIDs, s.values \subseteq before,
         IF s.truncated THEN Cardinality(s.values) = MaxTIDs /\ s.values # before
         ELSE s.values = before
  PROVE  /\ Added(s, t) \in [values : SUBSET Threads, truncated : BOOLEAN]
         /\ IsFiniteSet(Added(s, t).values) /\ Cardinality(Added(s, t).values) <= MaxTIDs
         /\ Added(s, t).values \subseteq before \cup {t}
         /\ IF Added(s, t).truncated
            THEN Cardinality(Added(s, t).values) = MaxTIDs
                 /\ Added(s, t).values # before \cup {t}
            ELSE Added(s, t).values = before \cup {t}
<1>1. CASE t \in s.values
  <2>1. Added(s, t) = s
    BY <1>1 DEF Added
  <2>2. before \cup {t} = before
    BY <1>1
  <2> QED
    BY <2>1, <2>2
<1>2. CASE t \notin s.values /\ Cardinality(s.values) = MaxTIDs
  <2>1. Added(s, t) = [s EXCEPT !.truncated = TRUE]
    BY <1>2 DEF Added
  <2>2. Added(s, t).values = s.values /\ Added(s, t).truncated = TRUE
    BY <2>1
  <2>3. Added(s, t) \in [values : SUBSET Threads, truncated : BOOLEAN]
    BY <2>1
  <2> QED
    BY <1>2, <2>2, <2>3
<1>3. CASE t \notin s.values /\ Cardinality(s.values) # MaxTIDs
  <2>1. Added(s, t) = [s EXCEPT !.values = s.values \cup {t}]
    BY <1>3 DEF Added
  <2>2. Added(s, t).values = s.values \cup {t} /\ Added(s, t).truncated = s.truncated
    BY <2>1
  <2>3. Added(s, t) \in [values : SUBSET Threads, truncated : BOOLEAN]
    BY <2>1
  <2>4. IsFiniteSet(s.values \cup {t}) /\ Cardinality(s.values \cup {t}) = Cardinality(s.values) + 1
    BY <1>3, FS_AddElement
  <2>5. Cardinality(s.values) \in Nat
    BY FS_CardinalityType
  <2>6. Cardinality(s.values \cup {t}) <= MaxTIDs
    BY <1>3, <2>4, <2>5, SMT DEF TIDsAssumption
  <2>7. ~s.truncated
    BY <1>3
  <2> QED
    BY <2>2, <2>3, <2>4, <2>6, <2>7
<1> QED
  BY <1>1, <1>2, <1>3

LEMMA InstrumentsInit == TIDsAssumption /\ InitTIDs => InstrumentsInv
<1> SUFFICES ASSUME TIDsAssumption, InitTIDs PROVE InstrumentsInv
  OBVIOUS
<1> USE DEF InitTIDs
<1>1. \A l \in Loops : set[l].values = {} /\ ~set[l].truncated /\ told[l] = {} /\ entered[l] = {}
  BY Zenon
<1>2. IsFiniteSet({}) /\ Cardinality({}) = 0
  BY FS_EmptySet
<1>3. SetsOK
  <2>1. set \in [Loops -> [values : SUBSET Threads, truncated : BOOLEAN]]
    BY Zenon
  <2>2. \A l \in Loops : IsFiniteSet(set[l].values) /\ Cardinality(set[l].values) <= MaxTIDs
    <3>1. 0 <= MaxTIDs
      BY SMT DEF TIDsAssumption
    <3> QED
      BY <1>1, <1>2, <3>1, Zenon
  <2>3. at \in [Loops -> {"lock", "record", "enter"}]
    BY SMT
  <2> QED
    BY <2>1, <2>2, <2>3 DEF SetsOK
<1>4. LockOK /\ LockedSubmitterIsRecorded
  BY <1>1 DEF LockOK, LockedSubmitterIsRecorded, Loops
<1>5. CapIsObservable
  BY <1>1 DEF CapIsObservable
<1> QED
  BY <1>3, <1>4, <1>5 DEF InstrumentsInv

LEMMA InstrumentsStep ==
  TIDsAssumption /\ InstrumentsInv /\ [NextTIDs]_tidVars => InstrumentsInv'
<1> SUFFICES ASSUME TIDsAssumption, InstrumentsInv, [NextTIDs]_tidVars PROVE InstrumentsInv'
  OBVIOUS
<1> USE DEF InstrumentsInv
<1>1. CASE UNCHANGED tidVars
  BY <1>1 DEF tidVars, SetsOK, LockOK, CapIsObservable, LockedSubmitterIsRecorded
<1>2. CASE Lock
  <2>1. SetsOK' /\ CapIsObservable'
    BY <1>2 DEF Lock, SetsOK, CapIsObservable, Loops
  <2>2. LockOK' /\ LockedSubmitterIsRecorded'
    BY <1>2 DEF Lock, SetsOK, LockOK, LockedSubmitterIsRecorded, Loops
  <2> QED
    BY <2>1, <2>2
<1>3. ASSUME NEW l \in Loops, Migrate(l) PROVE InstrumentsInv'
  <2>1. PICK t \in Threads : thread' = [thread EXCEPT ![l] = t]
    BY <1>3 DEF Migrate
  <2>2. SetsOK' /\ CapIsObservable'
    BY <1>3, <2>1 DEF Migrate, SetsOK, CapIsObservable
  <2>3. LockOK' /\ LockedSubmitterIsRecorded'
    BY <1>3, <2>1 DEF Migrate, MayMove, SetsOK, LockOK, LockedSubmitterIsRecorded, Loops
  <2> QED
    BY <2>2, <2>3
<1>4. ASSUME NEW l \in Loops, Record(l) PROVE InstrumentsInv'
  <2>1. CASE ~options.record
    BY <1>4, <2>1 DEF Record, SetsOK, LockOK, CapIsObservable, LockedSubmitterIsRecorded, Loops
  <2>2. CASE options.record
    <3>1. /\ set' = [set EXCEPT ![l] = Added(set[l], thread[l])]
          /\ told' = [told EXCEPT ![l] = told[l] \cup {thread[l]}]
          /\ at' = [at EXCEPT ![l] = "enter"] /\ UNCHANGED <<options, thread, entered>>
      BY <1>4, <2>2 DEF Record
    <3>2. /\ thread[l] \in Threads /\ told[l] \in SUBSET Threads
          /\ set[l] \in [values : SUBSET Threads, truncated : BOOLEAN]
          /\ IsFiniteSet(set[l].values) /\ Cardinality(set[l].values) <= MaxTIDs
      BY DEF SetsOK
    <3>3. /\ set[l].values \subseteq told[l]
          /\ IF set[l].truncated THEN Cardinality(set[l].values) = MaxTIDs /\ set[l].values # told[l]
             ELSE set[l].values = told[l]
      BY DEF CapIsObservable
    <3>4. /\ Added(set[l], thread[l]) \in [values : SUBSET Threads, truncated : BOOLEAN]
          /\ IsFiniteSet(Added(set[l], thread[l]).values)
          /\ Cardinality(Added(set[l], thread[l]).values) <= MaxTIDs
          /\ Added(set[l], thread[l]).values \subseteq told[l] \cup {thread[l]}
          /\ IF Added(set[l], thread[l]).truncated
             THEN Cardinality(Added(set[l], thread[l]).values) = MaxTIDs
                  /\ Added(set[l], thread[l]).values # told[l] \cup {thread[l]}
             ELSE Added(set[l], thread[l]).values = told[l] \cup {thread[l]}
      BY <3>2, <3>3, AddKeepsCap
    <3>5. SetsOK'
      BY <3>1, <3>2, <3>4 DEF SetsOK
    <3>6. CapIsObservable'
      BY <3>1, <3>4 DEF SetsOK, CapIsObservable
    <3>7. ASSUME l = "submit", options.lock
          PROVE  set'[l].values = {thread[l]} /\ set'[l].truncated = FALSE
      <4>1. ~set[l].truncated /\ set[l].values \subseteq {thread[l]}
        BY <2>2, <3>7 DEF LockedSubmitterIsRecorded
      <4>2. CASE set[l].values = {}
        <5>1. Cardinality(set[l].values) = 0
          BY <4>2, FS_EmptySet
        <5>2. Cardinality(set[l].values) # MaxTIDs /\ thread[l] \notin set[l].values
          BY <4>2, <5>1, SMT DEF TIDsAssumption
        <5>3. Added(set[l], thread[l]) = [set[l] EXCEPT !.values = set[l].values \cup {thread[l]}]
          BY <5>2 DEF Added
        <5> QED
          BY <3>1, <3>2, <4>1, <4>2, <5>3 DEF SetsOK
      <4>3. CASE set[l].values = {thread[l]}
        <5>1. Added(set[l], thread[l]) = set[l]
          BY <4>3 DEF Added
        <5> QED
          BY <3>1, <3>2, <4>1, <4>3, <5>1 DEF SetsOK
      <4> QED
        BY <4>1, <4>2, <4>3
    <3>8. LockOK' /\ LockedSubmitterIsRecorded'
      <4>1. CASE l = "submit" /\ options.lock
        <5>1. entered["submit"] \subseteq {thread["submit"]}
          BY <2>2, <4>1 DEF LockedSubmitterIsRecorded
        <5> QED
          BY <1>4, <3>1, <3>7, <4>1, <5>1 DEF Record, SetsOK, LockOK, LockedSubmitterIsRecorded, Loops
      <4>2. CASE ~options.lock
        BY <3>1, <4>2 DEF LockOK, LockedSubmitterIsRecorded
      <4>3. CASE l # "submit"
        <5>1. set'["submit"] = set["submit"] /\ at'["submit"] = at["submit"]
          BY <3>1, <4>3 DEF SetsOK, Loops
        <5> QED
          BY <3>1, <5>1 DEF LockOK, LockedSubmitterIsRecorded
      <4> QED
        BY <4>1, <4>2, <4>3
    <3> QED
      BY <3>5, <3>6, <3>8
  <2> QED
    BY <2>1, <2>2
<1>5. ASSUME NEW l \in Loops, Enter(l) PROVE InstrumentsInv'
  <2>1. SetsOK' /\ CapIsObservable'
    BY <1>5 DEF Enter, SetsOK, CapIsObservable
  <2>2. LockOK' /\ LockedSubmitterIsRecorded'
    BY <1>5 DEF Enter, SetsOK, LockOK, LockedSubmitterIsRecorded, Loops
  <2> QED
    BY <2>1, <2>2
<1> QED
  BY <1>1, <1>2, <1>3, <1>4, <1>5 DEF NextTIDs

\* A reader of the recorded thread IDs can always tell a complete set from one that was
\* cut at maxRecordedTIDs.
THEOREM CapIsAlwaysObservable ==
  ASSUME TIDsAssumption PROVE SpecTIDs => []CapIsObservable
<1>1. InitTIDs => InstrumentsInv
  BY InstrumentsInit
<1>2. InstrumentsInv /\ [NextTIDs]_tidVars => InstrumentsInv'
  BY InstrumentsStep
<1>3. InstrumentsInv => CapIsObservable
  BY DEF InstrumentsInv
<1> QED
  BY <1>1, <1>2, <1>3, PTL DEF SpecTIDs

\* Every io_uring_enter of a submitter locked to its thread was made from the one thread
\* recorded for it.
THEOREM LockedSubmitterIsAlwaysRecorded ==
  ASSUME TIDsAssumption PROVE SpecTIDs => []LockedSubmitterIsRecorded
<1>1. InitTIDs => InstrumentsInv
  BY InstrumentsInit
<1>2. InstrumentsInv /\ [NextTIDs]_tidVars => InstrumentsInv'
  BY InstrumentsStep
<1>3. InstrumentsInv => LockedSubmitterIsRecorded
  BY DEF InstrumentsInv
<1> QED
  BY <1>1, <1>2, <1>3, PTL DEF SpecTIDs

-----------------------------------------------------------------------------
(* The observer. *)

\* The life of the child, and how far its exit and its output have come on the way
\* to the parent.  That the output is complete when done is sent, although it was
\* copied by another goroutine, is what Wait waits for.
LifeOK ==
  /\ Running <=> cpc # "ended"
  /\ Running => exit = None
  /\ exit = "ok" => written = "whole"
  /\ child = "reaped" <=> waiter # "process"
  /\ pid = "child" <=> child # "reaped"
  /\ waiter = "ended" => out = written /\ ~Running
  /\ done # None => waiter = "ended" /\ done = exit

\* Whether a sample may still be taken, and that it is one of the measurement's.
SamplesOK ==
  /\ cpc = "prepare" => sampler = "none" /\ peak = 0
  /\ cpc = "emit" => sampler \in {"none", "ended"}
  /\ Measuring => threads <= most.measured
  /\ sampler = "compare" => seen <= most.measured
  /\ threads <= most.ever
  /\ loop = "sample" => obs.samples < MaxSamples

ObserverInv ==
  /\ TypeOK /\ LifeOK /\ SamplesOK
  /\ PeaksAreLowerBounds /\ ReportIsTheChilds

LEMMA Initially == Init => ObserverInv
<1> SUFFICES ASSUME Init PROVE ObserverInv
  OBVIOUS
<1> USE BoundsAssumption, NoneAssumption DEF Init
<1>1. TypeOK
  <2>1. stop \in BOOLEAN /\ tick \in BOOLEAN
    BY Zenon
  <2> QED
    BY <2>1, SMT DEF TypeOK
<1>2. LifeOK /\ SamplesOK
  BY SMT DEF LifeOK, SamplesOK, Running, Measuring
<1>3. PeaksAreLowerBounds
  BY SMT DEF PeaksAreLowerBounds
<1>4. ReportIsTheChilds
  BY SMT DEF ReportIsTheChilds
<1> QED
  BY <1>1, <1>2, <1>3, <1>4 DEF ObserverInv

\* The environment: threads that come and go, a death, a read that does not return.
LEMMA EnvironmentKeepsInv ==
  ASSUME ObserverInv, ThreadsChange \/ Die \/ Hang \/ ReusePid \/ Tick
  PROVE  ObserverInv'
<1> USE BoundsAssumption, NoneAssumption
<1> USE DEF ObserverInv, TypeOK, LifeOK, SamplesOK, PeaksAreLowerBounds, ReportIsTheChilds,
            Running, Measuring, gaugeVars, samplerVars, childVars, parentVars
<1>1. CASE ThreadsChange
  BY <1>1, SMTT(30) DEF ThreadsChange, Larger
<1>2. CASE Die
  BY <1>2, SMTT(30) DEF Die
<1>3. CASE Hang
  BY <1>3, SMTT(30) DEF Hang, ChildStep
<1>4. CASE ReusePid
  BY <1>4, SMTT(30) DEF ReusePid
<1>5. CASE Tick
  BY <1>5, SMTT(30) DEF Tick
<1> QED
  BY <1>1, <1>2, <1>3, <1>4, <1>5

\* The child's main goroutine and its sampler.
LEMMA ChildKeepsInv ==
  ASSUME ObserverInv, Child \/ Snapshot \/ Sampler
  PROVE  ObserverInv'
<1> USE BoundsAssumption, NoneAssumption
<1> USE DEF ObserverInv, TypeOK, LifeOK, SamplesOK, PeaksAreLowerBounds, ReportIsTheChilds,
            Running, Measuring, ChildStep, gaugeVars, samplerVars, childVars, parentVars
<1>1. CASE Begin
  BY <1>1, SMTT(30) DEF Begin
<1>2. CASE FailEarly
  BY <1>2, SMTT(30) DEF FailEarly
<1>3. CASE StopSampler
  BY <1>3, SMTT(30) DEF StopSampler, Closed
<1>4. CASE Join
  BY <1>4, SMTT(30) DEF Join, Joined
<1>5. CASE Emit
  BY <1>5, SMTT(30) DEF Emit
<1>6. CASE Exit
  BY <1>6, SMTT(30) DEF Exit
<1>7. CASE Snapshot
  BY <1>7, SMTT(30) DEF Snapshot
<1>8. CASE RaisePeak
  BY <1>8, SMTT(30) DEF RaisePeak, Larger
<1>9. CASE SamplerEnds
  BY <1>9, SMTT(30) DEF SamplerEnds
<1> QED
  BY <1>1, <1>2, <1>3, <1>4, <1>5, <1>6, <1>7, <1>8, <1>9 DEF Child, Sampler

\* The goroutines of os/exec, and runObserved.
LEMMA ParentKeepsInv ==
  ASSUME ObserverInv, Parent \/ TakeTick \/ TakeDone
  PROVE  ObserverInv'
<1> USE BoundsAssumption, NoneAssumption
<1> USE DEF ObserverInv, TypeOK, LifeOK, SamplesOK, PeaksAreLowerBounds, ReportIsTheChilds,
            Running, Measuring, gaugeVars, samplerVars, childVars, parentVars
<1>1. CASE Copy
  BY <1>1, SMTT(30) DEF Copy
<1>2. CASE Reap
  BY <1>2, SMTT(30) DEF Reap
<1>3. CASE SendDone
  BY <1>3, SMTT(30) DEF SendDone
<1>4. CASE Sample
  <2>1. CASE StatusOfPid = {}
    BY <1>4, <2>1, SMTT(30) DEF Sample
  <2>2. CASE StatusOfPid # {}
    <3>1. PICK t \in StatusOfPid :
            obs' = [samples |-> obs.samples + 1, threads |-> Larger(t, obs.threads)]
      BY <1>4, <2>2 DEF Sample
    <3>2. t \in 1 .. MaxThreads /\ (child # "reaped" => t <= most.ever)
      BY <3>1, SMTT(30) DEF StatusOfPid
    <3> QED
      BY <1>4, <3>1, <3>2, SMTT(30) DEF Sample, Larger
  <2> QED
    BY <2>1, <2>2
<1>5. CASE TakeTick
  <2>1. tick' \in BOOLEAN
    BY <1>5, Zenon DEF TakeTick
  <2> QED
    BY <1>5, <2>1, SMTT(30) DEF TakeTick
<1>6. CASE TakeDone
  BY <1>6, SMTT(30) DEF TakeDone, ExitedWell
<1> QED
  BY <1>1, <1>2, <1>3, <1>4, <1>5, <1>6 DEF Parent

LEMMA StepKeepsInv == ObserverInv /\ [Next]_vars => ObserverInv'
<1> SUFFICES ASSUME ObserverInv, [Next]_vars PROVE ObserverInv'
  OBVIOUS
<1>1. CASE UNCHANGED vars
  BY <1>1 DEF ObserverInv, TypeOK, LifeOK, SamplesOK, PeaksAreLowerBounds, ReportIsTheChilds,
              Running, Measuring, vars, gaugeVars, samplerVars, childVars, parentVars
<1> QED
  BY <1>1, EnvironmentKeepsInv, ChildKeepsInv, ParentKeepsInv DEF Next

LEMMA InvHolds == Spec => []ObserverInv
  BY Initially, StepKeepsInv, PTL DEF Spec

\* The type invariant, for runObserved and its child.
THEOREM TypeCorrect == Spec => []TypeOK
<1>1. ObserverInv => TypeOK
  BY DEF ObserverInv
<1> QED
  BY <1>1, InvHolds, PTL

\* What is reported as the child's result is the whole output of a child that exited
\* well, with the peak of its sampler, and such a result is never lost: runObserved,
\* with any numbers of threads and samples.
THEOREM ReportsAreTheChilds == Spec => []ReportIsTheChilds
<1>1. ObserverInv => ReportIsTheChilds
  BY DEF ObserverInv
<1> QED
  BY <1>1, InvHolds, PTL

\* The peaks of samplePeaks and of runObserved are lower bounds of what there was, as
\* long as the process ID is the child's.
THEOREM PeaksNeverExceed == Spec => []PeaksAreLowerBounds
<1>1. ObserverInv => PeaksAreLowerBounds
  BY DEF ObserverInv
<1> QED
  BY <1>1, InvHolds, PTL

\* No sample is taken once the result is being written: the sampler is joined first.
THEOREM PeaksAreFinal == Spec => PeakIsFinal
<1>1. ObserverInv /\ [Next]_vars => [(cpc \in {"emit", "ended"}) => (peak' = peak)]_vars
  <2> SUFFICES ASSUME ObserverInv, [Next]_vars, cpc \in {"emit", "ended"}
               PROVE  peak' = peak
    OBVIOUS
  <2>1. ~RaisePeak
    BY DEF ObserverInv, LifeOK, SamplesOK, Running, RaisePeak
  <2> QED
    BY <2>1 DEF Next, Child, Sampler, Parent, ThreadsChange, Begin, FailEarly, StopSampler,
                Join, Emit, Exit, Die, Hang, Snapshot, SamplerEnds, Copy, Reap, SendDone,
                Sample, ReusePid, Tick, TakeTick, TakeDone, ObserverInv, SamplesOK,
                vars, samplerVars
<1> QED
  BY <1>1, InvHolds, PTL DEF Spec, PeakIsFinal
=============================================================================
