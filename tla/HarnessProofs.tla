---------------------------- MODULE HarnessProofs ----------------------------
(***************************************************************************)
(* Proofs about the harness, for any number of workers and any counts:      *)
(* the outstandingLimiter's limit holds and its peak is neither too high    *)
(* nor too low; main is alone when it must be; ok is earned; the            *)
(* operations counted are those that were asked for.                        *)
(***************************************************************************)
EXTENDS Harness, FiniteSetTheorems, TLAPS

\* The workers that hold a permit, and those counted in current.
Holders == {w \in Workers : wpc[w] \in Active}
Counted == {w \in Workers : wpc[w] \in {"load", "cas", "recheck", "read", "reading", "release"}}
\* Those that have raised the peak.
Raised == {w \in Workers : wpc[w] \in {"recheck", "read", "reading", "release"}}

Places == {"start", "idle", "check", "acquire", "done", "ended"} \cup Active

\* Every set of counted workers has one that came last, and found them all.
LastFoundAll ==
  \A S \in SUBSET Counted : S # {} => \E w \in S : got[w] >= Cardinality(S)

\* The semaphore and current count what they should; acquire's n is within the
\* limit, and within the peak once the loop is over.
LimiterInv ==
  /\ wpc \in [Workers -> Places]
  /\ conf.limit \in Nat
  /\ got \in [Workers -> Nat] /\ old \in [Workers -> Nat] /\ peak \in Nat
  /\ sem = Cardinality(Holders) /\ current = Cardinality(Counted)
  /\ sem <= conf.limit /\ peak <= conf.limit
  /\ \A w \in Workers : wpc[w] = "cas" => old[w] < got[w]
  /\ \A w \in Counted : got[w] <= conf.limit
  /\ \A w \in Raised : got[w] <= peak
  /\ LastFoundAll

\* What the move of one worker does to these sets.
LEMMA SetsMoveWithPc ==
  ASSUME LimiterInv, NEW w \in Workers, NEW to \in Places, Goto(w, to)
  PROVE  /\ wpc' \in [Workers -> Places]
         /\ Holders' = IF to \in Active THEN Holders \cup {w} ELSE Holders \ {w}
         /\ Counted' = IF to \in {"load", "cas", "recheck", "read", "reading", "release"}
                       THEN Counted \cup {w} ELSE Counted \ {w}
         /\ Raised' = IF to \in {"recheck", "read", "reading", "release"}
                      THEN Raised \cup {w} ELSE Raised \ {w}
         /\ wpc'[w] = to /\ \A v \in Workers \ {w} : wpc'[v] = wpc[v]
BY DEF LimiterInv, Goto, Holders, Counted, Raised, Places

\* They are finite, so that they can be counted.
LEMMA SetsFinite ==
  ASSUME NEW S, S \in SUBSET Workers
  PROVE  IsFiniteSet(S) /\ Cardinality(S) \in Nat /\ Cardinality(S) <= Concurrency
BY WorkersAssumption, FS_Subset, FS_CardinalityType DEF Concurrency

\* Nobody holds anything at first.
LEMMA LimiterInit == Init => LimiterInv
<1> SUFFICES ASSUME Init PROVE LimiterInv
  OBVIOUS
<1>1. wpc = [w \in Workers |-> "start"] /\ got = [w \in Workers |-> 0]
      /\ old = [w \in Workers |-> 0]
  BY DEF Init, All
<1>2. Holders = {} /\ Counted = {} /\ Raised = {}
  BY <1>1 DEF Holders, Counted, Raised, Active
<1>3. Concurrency \in Nat
  BY WorkersAssumption, FS_CardinalityType DEF Concurrency
<1>4. conf.limit \in Nat
  BY <1>3 DEF Init, Configs
<1> QED
  BY <1>1, <1>2, <1>4, FS_EmptySet DEF Init, LimiterInv, LastFoundAll, Places

\* Steps that change no set and nothing of the limiter but perhaps locals.
LEMMA SameSets ==
  ASSUME LimiterInv, conf' = conf, Holders' = Holders, Counted' = Counted, Raised' = Raised,
         UNCHANGED <<got, old, sem, current, peak>>,
         \A v \in Workers : wpc'[v] = "cas" => wpc[v] = "cas",
         wpc' \in [Workers -> Places]
  PROVE  LimiterInv'
BY DEF LimiterInv, LastFoundAll

-----------------------------------------------------------------------------
\* A permit, within the limit.
LEMMA AcquireStep ==
  ASSUME LimiterInv, NEW w \in Workers, Acquire(w)
  PROVE  LimiterInv'
<1>1. Goto(w, "count") /\ wpc[w] = "acquire" /\ sem < conf.limit /\ sem' = sem + 1
      /\ UNCHANGED <<conf, got, old, current, peak>>
  BY DEF Acquire, At
<1>2. /\ w \notin Holders /\ w \notin Counted /\ w \notin Raised
      /\ Holders' = Holders \cup {w} /\ Counted' = Counted /\ Raised' = Raised
      /\ \A v \in Workers : wpc'[v] = "cas" => wpc[v] = "cas"
      /\ wpc' \in [Workers -> Places]
  BY <1>1, SetsMoveWithPc DEF Active, Places, Holders, Counted, Raised
<1>3. Cardinality(Holders') = Cardinality(Holders) + 1
  BY <1>2, SetsFinite, FS_AddElement DEF Holders
<1>4. LastFoundAll'
  BY <1>1, <1>2 DEF LimiterInv, LastFoundAll
<1>5. sem \in Nat
  BY SetsFinite DEF LimiterInv, Holders
<1> QED
  BY <1>1, <1>2, <1>3, <1>4, <1>5 DEF LimiterInv

\* Whoever is counted holds a permit; the new one finds all the others.
LEMMA CountStep ==
  ASSUME LimiterInv, NEW w \in Workers, Count(w)
  PROVE  LimiterInv'
<1>1. Goto(w, "load") /\ wpc[w] = "count" /\ current' = current + 1
      /\ got' = [got EXCEPT ![w] = current + 1] /\ UNCHANGED <<conf, old, sem, peak>>
  BY DEF Count, At
<1>2. /\ w \in Holders /\ w \notin Counted /\ w \notin Raised
      /\ Holders' = Holders /\ Counted' = Counted \cup {w} /\ Raised' = Raised
      /\ \A v \in Workers : wpc'[v] = "cas" => v # w /\ wpc[v] = "cas"
      /\ wpc' \in [Workers -> Places]
  BY <1>1, SetsMoveWithPc DEF Active, Places, Holders, Counted, Raised
<1>3. Cardinality(Counted') = current + 1 /\ current \in Nat
  BY <1>2, SetsFinite, FS_AddElement DEF Counted, LimiterInv
<1>4. current + 1 <= conf.limit
  <2>1. Counted' \in SUBSET Holders /\ Holders \in SUBSET Workers
    BY <1>2 DEF Holders, Counted, Active
  <2>2. IsFiniteSet(Holders) /\ Cardinality(Holders) \in Nat
    BY <2>1, SetsFinite
  <2>3. Cardinality(Counted') <= Cardinality(Holders)
    BY <2>1, <2>2, FS_Subset
  <2> QED BY <1>3, <2>2, <2>3 DEF LimiterInv
<1>5. got' \in [Workers -> Nat] /\ got'[w] = current + 1
      /\ \A v \in Workers \ {w} : got'[v] = got[v]
  BY <1>1, <1>3 DEF LimiterInv
<1>6. LastFoundAll'
  <2> SUFFICES ASSUME NEW S \in SUBSET Counted', S # {}
               PROVE  \E v \in S : got'[v] >= Cardinality(S)
    BY DEF LastFoundAll
  <2>1. CASE w \in S
    <3>1. Counted' \in SUBSET Workers
      BY <1>2 DEF Counted
    <3>2. IsFiniteSet(Counted') /\ Cardinality(S) \in Nat
      BY <3>1, SetsFinite
    <3>3. Cardinality(S) <= Cardinality(Counted')
      BY <3>2, FS_Subset
    <3> QED BY <1>3, <1>5, <2>1, <3>2, <3>3
  <2>2. CASE w \notin S
    <3>1. S \in SUBSET Counted
      BY <1>2, <2>2
    <3>2. PICK v \in S : got[v] >= Cardinality(S)
      BY <3>1 DEF LimiterInv, LastFoundAll
    <3> QED BY <1>5, <2>2, <3>1, <3>2 DEF Counted
  <2> QED BY <2>1, <2>2
<1>7. \A v \in Counted' : got'[v] <= conf.limit
  BY <1>2, <1>4, <1>5 DEF LimiterInv, Counted
<1>8. \A v \in Raised' : got'[v] <= peak
  BY <1>2, <1>5 DEF LimiterInv, Raised
<1> QED
  BY <1>1, <1>2, <1>3, <1>5, <1>6, <1>7, <1>8 DEF LimiterInv

\* The loop ends only with a peak that is high enough.
LEMMA LoadPeakStep ==
  ASSUME LimiterInv, NEW w \in Workers, LoadPeak(w)
  PROVE  LimiterInv'
<1>1. wpc[w] = "load" /\ UNCHANGED <<conf, got, sem, current, peak>>
      /\ old' = [old EXCEPT ![w] = peak]
      /\ Goto(w, IF got[w] <= peak THEN "recheck" ELSE "cas")
  BY DEF LoadPeak, At
<1>2. /\ w \in Holders /\ w \in Counted
      /\ Holders' = Holders /\ Counted' = Counted
      /\ Raised' \subseteq Raised \cup (IF got[w] <= peak THEN {w} ELSE {})
      /\ wpc'[w] = "cas" => got[w] > peak
      /\ \A v \in Workers \ {w} : wpc'[v] = wpc[v]
      /\ wpc' \in [Workers -> Places]
  BY <1>1, SetsMoveWithPc DEF Active, Places, Holders, Counted, LimiterInv
<1>3. LastFoundAll'
  BY <1>1, <1>2 DEF LimiterInv, LastFoundAll
<1>4. old' \in [Workers -> Nat]
      /\ \A v \in Workers : wpc'[v] = "cas" => old'[v] < got'[v]
  BY <1>1, <1>2 DEF LimiterInv
<1> QED
  BY <1>1, <1>2, <1>3, <1>4 DEF LimiterInv

\* A successful swap raises the peak, which keeps it above the others'.
LEMMA SwapPeakStep ==
  ASSUME LimiterInv, NEW w \in Workers, SwapPeak(w)
  PROVE  LimiterInv'
<1>1. wpc[w] = "cas" /\ UNCHANGED <<conf, got, old, sem, current>>
      /\ Goto(w, IF peak = old[w] THEN "recheck" ELSE "load")
      /\ peak' = IF peak = old[w] THEN got[w] ELSE peak
  BY DEF SwapPeak, SwapSucceeds, At
<1>2. /\ w \in Holders /\ w \in Counted
      /\ Holders' = Holders /\ Counted' = Counted
      /\ Raised' \subseteq Raised \cup (IF peak = old[w] THEN {w} ELSE {})
      /\ \A v \in Workers : wpc'[v] = "cas" => v # w /\ wpc[v] = "cas"
      /\ wpc' \in [Workers -> Places]
  BY <1>1, SetsMoveWithPc DEF Active, Places, Holders, Counted
<1>3. peak' \in Nat /\ peak <= peak' /\ peak' <= conf.limit
  BY <1>1, <1>2 DEF LimiterInv
<1>4. \A v \in Raised' : got[v] <= peak'
  BY <1>1, <1>2, <1>3 DEF LimiterInv, Raised
<1>5. LastFoundAll'
  BY <1>1, <1>2 DEF LimiterInv, LastFoundAll
<1> QED
  BY <1>1, <1>2, <1>3, <1>4, <1>5 DEF LimiterInv

\* current is given back first: those counted still all hold permits.
LEMMA ReleaseStep ==
  ASSUME LimiterInv, NEW w \in Workers, Release(w)
  PROVE  LimiterInv'
<1>1. wpc[w] = "release" /\ Goto(w, "release2") /\ current' = current - 1
      /\ got' = [got EXCEPT ![w] = 0] /\ old' = [old EXCEPT ![w] = 0]
      /\ UNCHANGED <<conf, sem, peak>>
  BY DEF Release, GiveBack, Releases, At
<1>2. /\ w \in Holders /\ w \in Counted
      /\ Holders' = Holders /\ Counted' = Counted \ {w} /\ Raised' = Raised \ {w}
      /\ \A v \in Workers : wpc'[v] = "cas" => v # w /\ wpc[v] = "cas"
      /\ wpc' \in [Workers -> Places]
  BY <1>1, SetsMoveWithPc DEF Active, Places, Holders, Counted
<1>3. Cardinality(Counted') = current - 1
  <2>1. IsFiniteSet(Counted)
    BY SetsFinite DEF Counted
  <2> QED BY <1>2, <2>1, FS_RemoveElement DEF LimiterInv
<1>4. got' \in [Workers -> Nat] /\ old' \in [Workers -> Nat]
      /\ \A v \in Workers \ {w} : got'[v] = got[v] /\ old'[v] = old[v]
  BY <1>1 DEF LimiterInv
<1>5. LastFoundAll'
  <2> SUFFICES ASSUME NEW S \in SUBSET Counted', S # {}
               PROVE  \E v \in S : got'[v] >= Cardinality(S)
    BY DEF LastFoundAll
  <2>1. S \in SUBSET Counted /\ w \notin S
    BY <1>2
  <2>2. PICK v \in S : got[v] >= Cardinality(S)
    BY <2>1 DEF LimiterInv, LastFoundAll
  <2> QED BY <1>4, <2>1, <2>2 DEF Counted
<1> QED
  BY <1>1, <1>2, <1>3, <1>4, <1>5 DEF LimiterInv, Counted, Raised

\* Then the permit.
LEMMA FinishStep ==
  ASSUME LimiterInv, NEW w \in Workers, Finish(w)
  PROVE  LimiterInv'
<1>1. wpc[w] = "release2" /\ Goto(w, IF res[w] = "full" THEN "check" ELSE "done")
      /\ sem' = sem - 1 /\ UNCHANGED <<conf, got, old, current, peak>>
  BY DEF Finish, GiveBack, Releases, At
<1>2. /\ w \in Holders
      /\ Holders' = Holders \ {w} /\ Counted' = Counted /\ Raised' = Raised
      /\ \A v \in Workers : wpc'[v] = "cas" => wpc[v] = "cas"
      /\ wpc' \in [Workers -> Places]
  BY <1>1, SetsMoveWithPc DEF Active, Places, Holders, Counted, Raised
<1>3. Cardinality(Holders') = sem - 1 /\ sem \in Nat
  <2>1. IsFiniteSet(Holders) /\ Cardinality(Holders) \in Nat
    BY SetsFinite DEF Holders
  <2> QED BY <1>2, <2>1, FS_RemoveElement DEF LimiterInv
<1>4. LastFoundAll'
  BY <1>1, <1>2 DEF LimiterInv, LastFoundAll
<1> QED
  BY <1>1, <1>2, <1>3, <1>4 DEF LimiterInv

\* The other steps of a worker, and those of main that move one.
LEMMA QuietStep ==
  ASSUME LimiterInv, NEW w \in Workers, NEW to \in Places, Goto(w, to),
         UNCHANGED <<conf, limVars>>,
         \/ wpc[w] \in Places \ Active /\ to \in Places \ Active
         \/ wpc[w] \in {"recheck", "read", "reading"}
            /\ to \in {"recheck", "read", "reading", "release"}
  PROVE  LimiterInv'
<1>1. /\ Holders' = Holders /\ Counted' = Counted /\ Raised' = Raised
      /\ \A v \in Workers : wpc'[v] = "cas" => wpc[v] = "cas"
      /\ wpc' \in [Workers -> Places]
  BY SetsMoveWithPc DEF Active, Places, Holders, Counted, Raised
<1> QED
  BY <1>1, SameSets DEF limVars

\* Every step keeps the invariant.
LEMMA LimiterStep == LimiterInv /\ [Next]_vars => LimiterInv'
<1> SUFFICES ASSUME LimiterInv, [Next]_vars PROVE LimiterInv'
  OBVIOUS
<1>1. ASSUME NEW w \in Workers, Worker(w) PROVE LimiterInv'
  <2>1. CASE Ready(w)
    BY <2>1, QuietStep DEF Ready, At, Places, Active
  <2>2. CASE Check(w)
    BY <2>2, QuietStep DEF Check, At, Places, Active
  <2>3. CASE Acquire(w)
    BY <2>3, AcquireStep
  <2>4. CASE Count(w)
    BY <2>4, CountStep
  <2>5. CASE LoadPeak(w)
    BY <2>5, LoadPeakStep
  <2>6. CASE SwapPeak(w)
    BY <2>6, SwapPeakStep
  <2>7. CASE Recheck(w)
    BY <2>7, QuietStep DEF Recheck, At, Places, Active
  <2>8. CASE Read(w)
    BY <2>8, QuietStep DEF Read, At, Places, Active
  <2>9. CASE ReadReturns(w)
    BY <2>9, QuietStep DEF ReadReturns, At, Places, Active
  <2>10. CASE Release(w)
    BY <2>10, ReleaseStep
  <2>11. CASE Finish(w)
    BY <2>11, FinishStep
  <2>12. CASE Done(w)
    BY <2>12, QuietStep DEF Done, At, Places, Active
  <2> QED
    BY <1>1, <2>1, <2>2, <2>3, <2>4, <2>5, <2>6, <2>7, <2>8, <2>9, <2>10, <2>11, <2>12 DEF Worker
<1>2. ASSUME NEW w \in Workers, Send(w) PROVE LimiterInv'
  BY <1>2, QuietStep DEF Send, Places, Active
<1>3. CASE UNCHANGED <<conf, wpc, limVars>>
  BY <1>3, SameSets DEF limVars, Holders, Counted, Raised, LimiterInv
<1> QED
  <2>1. CASE Main
    BY <1>2, <1>3, <2>1 DEF Main, MainReady, Wait, Reset, Close, Collect
  <2>2. CASE (\E w \in Workers : Deadline(w)) \/ RingFails \/ UNCHANGED vars
    BY <1>3, <2>2 DEF Deadline, RingFails, vars
  <2> QED BY <1>1, <2>1, <2>2 DEF Next

\* Hence it always holds.
LEMMA LimiterAlways == Spec => []LimiterInv
BY LimiterInit, LimiterStep, PTL DEF Spec

-----------------------------------------------------------------------------
\* The limiter's comment, "bounds active blocking syscalls", and the reported
\* peak: neither passes the limit, for any number of workers (acquire, release).
THEOREM LimitAlwaysHolds == Spec => []LimitHolds
<1>1. LimiterInv => LimitHolds
  <2> SUFFICES ASSUME LimiterInv PROVE LimitHolds
    OBVIOUS
  <2> DEFINE Reading == {w \in Workers : wpc[w] = "reading"}
  <2>1. Reading \in SUBSET Counted /\ Counted \in SUBSET Holders /\ Holders \in SUBSET Workers
    BY DEF Counted, Holders, Active
  <2>2. IsFiniteSet(Holders) /\ IsFiniteSet(Counted) /\ Cardinality(Reading) \in Nat
        /\ Cardinality(Counted) \in Nat /\ Cardinality(Holders) \in Nat
    BY <2>1, SetsFinite
  <2>3. Cardinality(Reading) <= Cardinality(Counted)
    BY <2>1, <2>2, FS_Subset
  <2>4. Cardinality(Counted) <= Cardinality(Holders)
    BY <2>1, <2>2, FS_Subset
  <2> QED BY <2>2, <2>3, <2>4 DEF LimiterInv, LimitHolds
<1> QED BY <1>1, LimiterAlways, PTL

\* The compare-and-swap loop of acquire loses no peak: whoever came last among
\* those reading found all of them, and has raised the peak to that.
THEOREM NoPeakIsMissed == Spec => []PeakIsNotMissed
<1>1. LimiterInv => PeakIsNotMissed
  <2> SUFFICES ASSUME LimiterInv PROVE PeakIsNotMissed
    OBVIOUS
  <2> DEFINE Reading == {w \in Workers : wpc[w] = "reading"}
  <2>1. Reading \in SUBSET Counted /\ Reading \in SUBSET Raised /\ Reading \in SUBSET Workers
    BY DEF Counted, Raised
  <2>2. Cardinality(Reading) \in Nat
    BY <2>1, SetsFinite
  <2>3. CASE Reading = {}
    BY <2>3, FS_EmptySet DEF LimiterInv, PeakIsNotMissed
  <2>4. CASE Reading # {}
    <3>1. PICK w \in Reading : got[w] >= Cardinality(Reading)
      BY <2>1, <2>4 DEF LimiterInv, LastFoundAll
    <3>2. got[w] <= peak /\ got[w] \in Nat /\ peak \in Nat
      BY <2>1, <3>1 DEF LimiterInv
    <3> QED BY <2>2, <3>1, <3>2 DEF PeakIsNotMissed
  <2> QED BY <2>3, <2>4
<1> QED BY <1>1, LimiterAlways, PTL


-----------------------------------------------------------------------------
(* Main and its workers.  MainIsAlone is not inductive by itself: what makes  *)
(* complete.Wait a barrier is that the WaitGroup counts the workers at work   *)
(* and the commands still to be sent.                                         *)

Busy == {w \in Workers : AtWork(w)}

PhaseInv ==
  /\ mpc \in {"ready", "send", "wait", "reset", "close", "collect", "end"}
  /\ stage \in {"none", "warm", "measure", "stop"}
  /\ sent \in Nat /\ complete \in Nat
  /\ mpc = "send" /\ stage # "stop" =>
       complete + sent = Cardinality(Busy) + Concurrency /\ sent < Concurrency
  /\ mpc = "wait" => complete = Cardinality(Busy)
  /\ mpc \notin {"send", "wait"} \/ stage = "stop" => Busy = {} /\ complete = 0
  /\ mpc = "ready" => stage = "none"
  /\ mpc = "reset" => stage \in {"none", "warm"}
  /\ mpc = "send" => stage # "none"
  /\ mpc = "wait" => stage \in {"warm", "measure"}
  /\ mpc \in {"close", "collect", "end"} => stage = "stop"
  /\ closeErr # "busy"

\* Those at work are workers, and none of the others holds a permit.
LEMMA BusyFinite ==
  /\ IsFiniteSet(Busy) /\ Cardinality(Busy) \in Nat /\ Concurrency \in Nat \ {0}
  /\ Holders \subseteq Busy /\ Counted \subseteq Holders
<1>1. Busy \in SUBSET Workers /\ Holders \subseteq Busy /\ Counted \subseteq Holders
  BY DEF Busy, Holders, Counted, AtWork, Active
<1>2. Concurrency \in Nat /\ Concurrency # 0
  BY WorkersAssumption, FS_CardinalityType, FS_EmptySet DEF Concurrency
<1> QED  BY <1>1, <1>2, SetsFinite

\* What the move of one worker does to them.
LEMMA BusyMoves ==
  ASSUME LimiterInv, NEW w \in Workers, NEW to \in Places, Goto(w, to)
  PROVE  Busy' = IF to \in {"check", "acquire", "done"} \cup Active THEN Busy \cup {w} ELSE Busy \ {w}
<1>1. wpc'[w] = to /\ \A v \in Workers \ {w} : wpc'[v] = wpc[v]
  BY SetsMoveWithPc
<1> QED  BY <1>1 DEF Busy, AtWork

\* A step that leaves main where it is, and the same workers at work.
LEMMA SameBusy ==
  ASSUME PhaseInv, UNCHANGED <<mainVars, complete, closeErr>>, Busy' = Busy
  PROVE  PhaseInv'
BY DEF PhaseInv, mainVars

LEMMA PhaseInit == Init => PhaseInv
<1> SUFFICES ASSUME Init PROVE PhaseInv
  OBVIOUS
<1>1. Busy = {}
  BY DEF Init, All, Busy, AtWork, Active
<1>2. mpc = "ready" /\ stage = "none" /\ sent = 0 /\ complete = 0 /\ closeErr = None
  BY DEF Init
<1> QED  BY <1>1, <1>2, ResultAssumption DEF PhaseInv

\* A worker's step: only done.Done takes it from those at work.
LEMMA PhaseWorker ==
  ASSUME LimiterInv, PhaseInv, NEW w \in Workers, Worker(w)
  PROVE  PhaseInv'
<1>1. UNCHANGED <<mainVars, closeErr>>
  BY DEF Worker, Ready, Check, Acquire, Count, LoadPeak, SwapPeak, Recheck, Read, ReadReturns,
         Release, Finish, Done, ringVars
<1>2. CASE Done(w)
  <2>1. wpc[w] = "done" /\ Goto(w, "idle") /\ complete' = complete - 1
    BY <1>2 DEF Done, At
  <2>2. w \in Busy /\ Busy' = Busy \ {w}
    BY <2>1, BusyMoves DEF Busy, AtWork, Places, Active
  <2>3. Cardinality(Busy') = Cardinality(Busy) - 1 /\ Cardinality(Busy) \in Nat
    BY <2>2, BusyFinite, FS_RemoveElement
  <2>4. Cardinality(Busy) # 0
    BY <2>2, BusyFinite, FS_EmptySet
  <2>5. mpc \in {"send", "wait"} /\ stage # "stop"
    BY <2>2 DEF PhaseInv
  <2>6. CASE mpc = "send"
    <3>1. /\ complete + sent = Cardinality(Busy) + Concurrency /\ sent < Concurrency
          /\ complete \in Nat /\ sent \in Nat /\ Concurrency \in Nat
      BY <2>5, <2>6, BusyFinite DEF PhaseInv
    <3>2. complete - 1 \in Nat /\ (complete - 1) + sent = (Cardinality(Busy) - 1) + Concurrency
      BY <2>3, <2>4, <3>1
    <3> QED  BY <1>1, <2>1, <2>3, <2>5, <2>6, <3>2 DEF PhaseInv, mainVars
  <2>7. CASE mpc = "wait"
    <3>1. complete = Cardinality(Busy)
      BY <2>7 DEF PhaseInv
    <3>2. complete - 1 \in Nat
      BY <2>3, <2>4, <3>1
    <3> QED  BY <1>1, <2>1, <2>3, <2>5, <2>7, <3>1, <3>2 DEF PhaseInv, mainVars
  <2> QED  BY <2>5, <2>6, <2>7
<1>3. CASE ~Done(w)
  <2>1. complete' = complete
    BY <1>3 DEF Worker, Ready, Check, Acquire, Count, LoadPeak, SwapPeak, Recheck, Read,
                ReadReturns, Release, Finish
  <2>2. \E to \in Places :
          /\ Goto(w, to)
          /\ w \in Busy <=> to \in {"check", "acquire", "done"} \cup Active
    <3>1. CASE Ready(w)
      BY <3>1 DEF Ready, At, Places, Busy, AtWork, Active
    <3>2. CASE Check(w) \/ Acquire(w) \/ Count(w)
      BY <3>2 DEF Check, Acquire, Count, At, Places, Busy, AtWork, Active
    <3>3. CASE LoadPeak(w) \/ SwapPeak(w) \/ Recheck(w)
      BY <3>3 DEF LoadPeak, SwapPeak, Recheck, At, Places, Busy, AtWork, Active
    <3>4. CASE Read(w) \/ ReadReturns(w) \/ Release(w) \/ Finish(w)
      BY <3>4 DEF Read, ReadReturns, Release, Finish, At, Places, Busy, AtWork, Active
    <3> QED  BY <1>3, <3>1, <3>2, <3>3, <3>4 DEF Worker
  <2>3. Busy' = Busy
    BY <2>2, BusyMoves
  <2> QED  BY <1>1, <2>1, <2>3, SameBusy
<1> QED  BY <1>2, <1>3

\* Main meets a worker.
LEMMA PhaseSend ==
  ASSUME LimiterInv, PhaseInv, NEW w \in Workers, Send(w)
  PROVE  PhaseInv'
<1>1. /\ mpc = "send" /\ wpc[w] = "idle" /\ sent' = sent + 1
      /\ mpc' = IF sent + 1 < Concurrency THEN "send" ELSE IF stage = "stop" THEN "close" ELSE "wait"
      /\ Goto(w, IF stage = "stop" THEN "ended" ELSE "check")
      /\ UNCHANGED <<stage, complete, closeErr>>
  BY DEF Send, ringVars
<1>2. w \notin Busy
  BY <1>1 DEF Busy, AtWork, Active
<1>3. CASE stage = "stop"
  <2>1. Busy = {} /\ complete = 0 /\ sent \in Nat /\ closeErr # "busy"
    BY <1>3 DEF PhaseInv
  <2>2. Busy' = {}
    BY <1>1, <1>3, <2>1, BusyMoves DEF Places, Active
  <2> QED  BY <1>1, <1>3, <2>1, <2>2 DEF PhaseInv
<1>4. CASE stage # "stop"
  <2>1. /\ complete + sent = Cardinality(Busy) + Concurrency /\ sent < Concurrency
        /\ complete \in Nat /\ sent \in Nat /\ Concurrency \in Nat
    BY <1>1, <1>4, BusyFinite DEF PhaseInv
  <2>2. Busy' = Busy \cup {w}
    BY <1>1, <1>4, BusyMoves DEF Places
  <2>3. Cardinality(Busy') = Cardinality(Busy) + 1 /\ Cardinality(Busy) \in Nat
    BY <1>2, <2>2, BusyFinite, FS_AddElement
  <2>4. complete + (sent + 1) = (Cardinality(Busy) + 1) + Concurrency
    BY <2>1, <2>3
  <2>5. sent + 1 >= Concurrency => complete = Cardinality(Busy) + 1
    BY <2>1, <2>3, <2>4
  <2>6. stage \in {"warm", "measure"} /\ closeErr # "busy"
    BY <1>1, <1>4 DEF PhaseInv
  <2>7. CASE sent + 1 < Concurrency
    BY <1>1, <1>4, <2>1, <2>3, <2>4, <2>6, <2>7 DEF PhaseInv
  <2>8. CASE ~(sent + 1 < Concurrency)
    <3>1. complete = Cardinality(Busy')
      BY <2>1, <2>3, <2>5, <2>8
    <3> QED  BY <1>1, <1>4, <2>1, <2>6, <2>8, <3>1 DEF PhaseInv
  <2> QED  BY <2>7, <2>8
<1> QED  BY <1>3, <1>4

\* Main begins a phase, waits for its end, and closes the ring.
LEMMA PhaseMain ==
  ASSUME LimiterInv, PhaseInv, MainReady \/ Wait \/ Reset \/ Close \/ Collect
  PROVE  PhaseInv'
<1>1. Busy' = Busy
  BY DEF MainReady, Wait, Reset, Close, Collect, Busy, AtWork
<1>2. Concurrency \in Nat \ {0} /\ Cardinality({}) = 0
  BY BusyFinite, FS_EmptySet
<1>3. CASE MainReady
  <2>1. Busy = {} /\ complete = 0 /\ sent \in Nat /\ stage = "none" /\ closeErr' = closeErr
    BY <1>3 DEF MainReady, PhaseInv, ringVars
  <2>2. CASE conf.warmup
    <3>1. stage' = "warm" /\ sent' = 0 /\ mpc' = "send" /\ complete' = Concurrency
      BY <1>2, <1>3, <2>1, <2>2 DEF MainReady, Begin
    <3>2. Concurrency + 0 = 0 + Concurrency /\ 0 < Concurrency
      BY <1>2
    <3> QED  BY <1>1, <1>2, <2>1, <3>1, <3>2 DEF PhaseInv
  <2>3. CASE ~conf.warmup
    <3>1. mpc' = "reset" /\ UNCHANGED <<stage, sent, complete>>
      BY <1>3, <2>3 DEF MainReady
    <3> QED  BY <1>1, <2>1, <3>1 DEF PhaseInv
  <2> QED  BY <2>2, <2>3
<1>4. CASE Wait
  <2>1. complete = 0 /\ Cardinality(Busy) = 0 /\ mpc = "wait" /\ UNCHANGED <<complete, closeErr>>
    BY <1>4 DEF Wait, AllDone, PhaseInv, ringVars
  <2>2. Busy = {}
    BY <2>1, BusyFinite, FS_EmptySet
  <2>3. CASE stage = "warm"
    <3>1. mpc' = "reset" /\ UNCHANGED <<stage, sent>>
      BY <1>4, <2>3 DEF Wait
    <3> QED  BY <1>1, <2>1, <2>2, <2>3, <3>1 DEF PhaseInv
  <2>4. CASE stage # "warm"
    <3>1. stage' = "stop" /\ sent' = 0 /\ mpc' = "send"
      BY <1>4, <2>4 DEF Wait, Begin
    <3> QED  BY <1>1, <2>1, <2>2, <3>1 DEF PhaseInv
  <2> QED  BY <2>3, <2>4
<1>5. CASE Reset
  <2>1. Busy = {} /\ complete = 0 /\ closeErr' = closeErr
    BY <1>5 DEF Reset, PhaseInv, ringVars
  <2>2. stage' = "measure" /\ sent' = 0 /\ mpc' = "send" /\ complete' = Concurrency
    BY <1>2, <1>5, <2>1 DEF Reset, Begin
  <2>3. Concurrency + 0 = 0 + Concurrency /\ 0 < Concurrency
    BY <1>2
  <2> QED  BY <1>1, <1>2, <2>1, <2>2, <2>3 DEF PhaseInv
<1>6. CASE Close
  <2>1. Busy = {} /\ mpc = "close" /\ mpc' = "collect" /\ UNCHANGED <<stage, sent, complete>>
    BY <1>6 DEF Close, PhaseInv
  <2>2. ~\E w \in Workers : wpc[w] = "reading"
    BY <2>1 DEF Busy, AtWork, Active
  <2>3. closeErr' \in {"fatal", None}
    BY <1>6, <2>2 DEF Close
  <2>4. closeErr' # "busy"
    BY <2>3, ResultAssumption
  <2> QED  BY <1>1, <2>1, <2>4 DEF PhaseInv
<1>7. CASE Collect
  BY <1>1, <1>7 DEF Collect, ringVars, PhaseInv
<1> QED  BY <1>3, <1>4, <1>5, <1>6, <1>7

\* Every step keeps the invariant.
LEMMA PhaseStep == LimiterInv /\ PhaseInv /\ [Next]_vars => PhaseInv'
<1> SUFFICES ASSUME LimiterInv, PhaseInv, [Next]_vars PROVE PhaseInv'
  OBVIOUS
<1>1. CASE UNCHANGED <<mainVars, complete, closeErr, wpc>>
  BY <1>1, SameBusy DEF Busy, AtWork
<1>2. CASE (\E w \in Workers : Deadline(w)) \/ RingFails \/ UNCHANGED vars
  BY <1>1, <1>2 DEF Deadline, RingFails, vars, ringVars
<1>3. CASE Main
  BY <1>3, PhaseSend, PhaseMain DEF Main
<1> QED
  BY <1>2, <1>3, PhaseWorker DEF Next

\* Whenever main clears or reads the workers' fields, or closes the ring, every
\* worker waits for a command: complete.Wait is a barrier for any number of them.
THEOREM MainIsAlwaysAlone == Spec => []MainIsAlone
<1>1. LimiterInv /\ PhaseInv => MainIsAlone
  <2> SUFFICES ASSUME LimiterInv, PhaseInv, mpc \in {"reset", "close", "collect", "end"}
               PROVE  /\ \A w \in Workers : ~AtWork(w)
                      /\ sem = 0 /\ current = 0 /\ complete = 0 /\ closeErr # "busy"
    BY DEF MainIsAlone
  <2>1. Busy = {} /\ complete = 0 /\ closeErr # "busy"
    BY DEF PhaseInv
  <2>2. Holders = {} /\ Counted = {}
    BY <2>1, BusyFinite
  <2> QED  BY <2>1, <2>2, FS_EmptySet DEF Busy, LimiterInv
<1> QED  BY <1>1, LimiterInit, LimiterStep, PhaseInit, PhaseStep, PTL DEF Spec


-----------------------------------------------------------------------------
(* The verdict.  A read that was not full leaves an error in its worker until *)
(* main clears it, and main clears errors only before the measurement.        *)

\* Nothing in the code reads bad: it remembers what the errors must not forget.
VerdictInv ==
  /\ err \in [Workers -> {None, "short", "error"}]
  /\ res \in [Workers -> {"late", "full", "short", "error"}]
  /\ bad \in BOOLEAN
  /\ bad => \E w \in Workers : err[w] # None
  /\ stage \in {"none", "warm"} => ~bad
  /\ ring \in {"none", "open", "failed", "closed"}
  /\ conf.uring => ring # "none"
  /\ mpc \in {"collect", "end"} /\ closeErr = None /\ conf.uring => ring = "closed"
  /\ status = "ok" => mpc = "end" /\ closeErr = None /\ \A w \in Workers : err[w] = None

LEMMA VerdictInit == Init => VerdictInv
<1> SUFFICES ASSUME Init PROVE VerdictInv
  OBVIOUS
<1>1. bad = FALSE /\ conf.uring \in BOOLEAN
  BY DEF Init, Configs
<1>2. ring = IF conf.uring THEN "open" ELSE "none"
  BY DEF Init
<1>3. mpc = "ready" /\ status = "none"
  BY DEF Init
<1>4. err = [w \in Workers |-> None] /\ res = [w \in Workers |-> "late"]
  BY DEF Init, All
<1> QED  BY <1>1, <1>2, <1>3, <1>4 DEF VerdictInv

\* What a worker makes of the result of its read.
LEMMA VerdictFinish ==
  ASSUME PhaseInv, VerdictInv, NEW w \in Workers, Finish(w)
  PROVE  VerdictInv'
<1>1. UNCHANGED <<conf, mpc, stage, status, ring, closeErr>> /\ res' = [res EXCEPT ![w] = "late"]
  BY DEF Finish, mainVars, ringVars
<1>2. w \in Busy
  BY DEF Finish, At, Busy, AtWork, Active
<1>3. mpc # "end" /\ status # "ok"
  BY <1>2 DEF PhaseInv, VerdictInv
<1>4. CASE res[w] = "full"
  BY <1>1, <1>4 DEF Finish, VerdictInv
<1>5. CASE res[w] = "late"
  <2>1. err' = [err EXCEPT ![w] = err[w]] /\ bad' = bad
    BY <1>5 DEF Finish, VerdictInv
  <2>2. err' = err
    BY <2>1 DEF VerdictInv
  <2> QED  BY <1>1, <2>1, <2>2 DEF VerdictInv
<1>6. CASE res[w] \in {"short", "error"}
  <2>1. err' = [err EXCEPT ![w] = res[w]] /\ (bad' <=> bad \/ stage = "measure")
    BY <1>6 DEF Finish
  <2>2. err'[w] = res[w] /\ err'[w] # None /\ err' \in [Workers -> {None, "short", "error"}]
    BY <1>6, <2>1, ResultAssumption DEF VerdictInv
  <2>3. bad' \in BOOLEAN
    BY <1>6 DEF Finish
  <2> QED  BY <1>1, <1>3, <2>1, <2>2, <2>3 DEF VerdictInv
<1> QED  BY <1>4, <1>5, <1>6 DEF VerdictInv

\* The other steps of a worker.
LEMMA VerdictWorker ==
  ASSUME PhaseInv, VerdictInv, NEW w \in Workers, Worker(w)
  PROVE  VerdictInv'
<1>1. CASE ~Finish(w)
  <2>1. UNCHANGED <<conf, mainVars, ringVars, err, bad>>
    BY <1>1 DEF Worker, Ready, Check, Acquire, Count, LoadPeak, SwapPeak, Recheck, Read,
                ReadReturns, Release, Done, fieldVars
  <2>2. res' \in [Workers -> {"late", "full", "short", "error"}]
    <3>1. \A r \in Results : r \in {"late", "full", "short", "error"}
      BY ResultAssumption
    <3> QED
      BY <1>1, <3>1 DEF Worker, Ready, Check, Acquire, Count, LoadPeak, SwapPeak, Recheck, Read,
                ReadReturns, Release, Done, VerdictInv
  <2> QED  BY <2>1, <2>2 DEF VerdictInv, mainVars, ringVars
<1> QED  BY <1>1, VerdictFinish

\* Main's steps.
LEMMA VerdictMain ==
  ASSUME PhaseInv, VerdictInv, Main
  PROVE  VerdictInv'
<1>0. res' = res /\ bad' = bad /\ conf' = conf
  BY DEF Main, MainReady, Send, Wait, Reset, Close, Collect, fieldVars
<1>1. CASE MainReady \/ Wait \/ \E w \in Workers : Send(w)
  <2>1. UNCHANGED <<status, ring, closeErr, err>> /\ mpc # "end" /\ mpc' \notin {"collect", "end"}
    BY <1>1 DEF MainReady, Wait, Send, Begin, fieldVars, ringVars
  <2>2. stage' \in {"none", "warm"} => stage \in {"none", "warm"}
    BY <1>1 DEF MainReady, Wait, Send, Begin, PhaseInv
  <2> QED  BY <1>0, <2>1, <2>2 DEF VerdictInv
<1>2. CASE Reset
  <2>1. /\ mpc = "reset" /\ err' = [w \in Workers |-> None] /\ stage' = "measure" /\ mpc' = "send"
        /\ UNCHANGED <<status, ring, closeErr>>
    BY <1>2 DEF Reset, Begin, All, ringVars
  <2>2. ~bad
    BY <2>1 DEF PhaseInv, VerdictInv
  <2> QED  BY <1>0, <2>1, <2>2 DEF VerdictInv
<1>3. CASE Close
  <2>1. mpc = "close" /\ mpc' = "collect" /\ UNCHANGED <<stage, status, err>>
    BY <1>3 DEF Close, fieldVars
  <2>2. /\ closeErr' = CASE ring = "failed" -> "fatal"
                         [] ring = "open" /\ (\E w \in Workers : wpc[w] = "reading") -> "busy"
                         [] OTHER -> None
        /\ ring' = IF ring = "open" /\ closeErr' = None THEN "closed" ELSE ring
    BY <1>3 DEF Close
  <2>3. closeErr' = None => ring # "failed"
    BY <2>2, ResultAssumption
  <2>4. /\ ring' \in {"none", "open", "failed", "closed"}
        /\ conf.uring => ring' # "none"
    BY <2>2 DEF VerdictInv
  <2>5. closeErr' = None /\ conf.uring => ring' = "closed"
    <3> SUFFICES ASSUME closeErr' = None, conf.uring PROVE ring' = "closed"
      OBVIOUS
    <3>1. ring' = IF ring = "open" THEN "closed" ELSE ring
      BY <2>2
    <3>2. ring \in {"open", "closed"}
      BY <2>3 DEF VerdictInv
    <3> QED  BY <3>1, <3>2
  <2> QED  BY <1>0, <2>1, <2>4, <2>5 DEF VerdictInv
<1>4. CASE Collect
  <2>1. /\ mpc = "collect" /\ mpc' = "end" /\ UNCHANGED <<stage, ring, closeErr, err>>
        /\ status' = IF Clean THEN "ok" ELSE "failed"
    BY <1>4 DEF Collect, fieldVars, ringVars
  <2> QED  BY <1>0, <2>1 DEF Clean, VerdictInv
<1> QED  BY <1>1, <1>2, <1>3, <1>4 DEF Main

\* Every step keeps the invariant.
LEMMA VerdictStep == LimiterInv /\ PhaseInv /\ VerdictInv /\ [Next]_vars => VerdictInv'
<1> SUFFICES ASSUME PhaseInv, VerdictInv, [Next]_vars PROVE VerdictInv'
  OBVIOUS
<1>1. CASE (\E w \in Workers : Deadline(w)) \/ UNCHANGED vars
  BY <1>1 DEF Deadline, vars, mainVars, ringVars, fieldVars, VerdictInv
<1>2. CASE RingFails
  <2>1. ring = "open" /\ ring' = "failed" /\ UNCHANGED <<conf, mainVars, closeErr, res, fieldVars>>
    BY <1>2 DEF RingFails
  <2> QED  BY <2>1 DEF VerdictInv, mainVars, fieldVars
<1> QED
  BY <1>1, <1>2, VerdictWorker, VerdictMain DEF Next

\* A result says ok only of a run whose measured reads were all full and whose ring
\* was closed, however the workers share the commands and whenever the ring fails.
THEOREM OkIsAlwaysEarned == Spec => []OkIsEarned
<1>1. VerdictInv => OkIsEarned
  BY DEF VerdictInv, OkIsEarned
<1> QED
  BY <1>1, LimiterInit, LimiterStep, PhaseInit, PhaseStep, VerdictInit, VerdictStep, PTL DEF Spec

-----------------------------------------------------------------------------
(* The work.  What the workers have done and what they still owe of their     *)
(* commands is together what main has handed out: a full read moves one unit  *)
(* from one to the other, and only a worker with an error drops what it owes. *)

LEMMA Division ==
  ASSUME NEW a \in Nat, NEW b \in Nat \ {0}
  PROVE  a \div b \in Nat /\ a % b \in 0 .. b - 1 /\ b * (a \div b) + (a % b) = a
<1>1. a \div b \in Nat
  OBVIOUS
<1>2. a % b \in 0 .. b - 1
  OBVIOUS
<1>3. b * (a \div b) + (a % b) = a
  OBVIOUS
<1> QED  BY <1>1, <1>2, <1>3

\* The units of one worker after its first a, k of them.
Block(w, a, k) == {w} \X (a + 1 .. a + k)

LEMMA BlockSize ==
  ASSUME NEW w, NEW a \in Nat, NEW k \in Nat
  PROVE  IsFiniteSet(Block(w, a, k)) /\ Cardinality(Block(w, a, k)) = k
<1>1. PICK S : S = a + 1 .. a + k
  OBVIOUS
<1>2. IsFiniteSet(S) /\ Cardinality(S) = k
  <2>1. a + 1 \in Int /\ a + k \in Int
    OBVIOUS
  <2>2. IsFiniteSet(S) /\ Cardinality(S) = IF a + 1 > a + k THEN 0 ELSE (a + k) - (a + 1) + 1
    BY <1>1, <2>1, FS_Interval
  <2> QED  BY <2>2
<1>3. IsFiniteSet({w}) /\ Cardinality({w}) = 1
  BY FS_Singleton
<1>4. IsFiniteSet({w} \X S) /\ Cardinality({w} \X S) = Cardinality({w}) * Cardinality(S)
  BY <1>2, <1>3, FS_Product
<1> QED  BY <1>1, <1>2, <1>3, <1>4 DEF Block

\* Units counts a sum: it is finite, grows with a term by as much, and with all terms.
LEMMA UnitsFinite ==
  ASSUME NEW f \in [Workers -> Nat]
  PROVE  IsFiniteSet(Units(f)) /\ Cardinality(Units(f)) \in Nat
<1> DEFINE h == [w \in Workers |-> {w} \X (1 .. f[w])]
           T == {{w} \X (1 .. f[w]) : w \in Workers}
<1>1. h \in Surjection(Workers, T)
  BY DEF Surjection
<1>2. IsFiniteSet(T)
  BY <1>1, WorkersAssumption, FS_Surjection
<1>3. ASSUME NEW w \in Workers PROVE IsFiniteSet({w} \X (1 .. f[w]))
  <2>1. 0 + 1 = 1 /\ 0 + f[w] = f[w]
    OBVIOUS
  <2>2. IsFiniteSet(Block(w, 0, f[w]))
    BY BlockSize
  <2> QED  BY <2>1, <2>2 DEF Block
<1>4. IsFiniteSet(UNION T)
  BY <1>2, <1>3, FS_UNION
<1> QED  BY <1>4, FS_CardinalityType DEF Units

LEMMA UnitsOrdered ==
  ASSUME NEW f \in [Workers -> Nat], NEW g \in [Workers -> Nat],
         \A w \in Workers : f[w] <= g[w]
  PROVE  Cardinality(Units(f)) <= Cardinality(Units(g))
<1>1. \A w \in Workers : \A i \in 1 .. f[w] : i \in 1 .. g[w]
  OBVIOUS
<1>2. Units(f) \subseteq Units(g)
  BY <1>1 DEF Units
<1> QED  BY <1>2, UnitsFinite, FS_Subset

LEMMA UnitsGrow ==
  ASSUME NEW f \in [Workers -> Nat], NEW w \in Workers, NEW k \in Nat,
         NEW g \in [Workers -> Nat], g[w] = f[w] + k, \A v \in Workers \ {w} : g[v] = f[v]
  PROVE  Cardinality(Units(g)) = Cardinality(Units(f)) + k
<1>1. f[w] \in Nat
  OBVIOUS
<1>2. PICK new : new = Block(w, f[w], k) /\ IsFiniteSet(new) /\ Cardinality(new) = k
  BY <1>1, BlockSize
<1>3. Units(g) = Units(f) \cup new
  <2>1. ASSUME NEW p \in Units(g) PROVE p \in Units(f) \cup new
    <3>1. PICK v \in Workers : p \in {v} \X (1 .. g[v])
      BY DEF Units
    <3>2. CASE v # w
      BY <3>1, <3>2 DEF Units
    <3>3. CASE v = w
      <4>1. PICK i \in 1 .. f[w] + k : p = <<w, i>>
        BY <3>1, <3>3
      <4>2. i \in 1 .. f[w] \/ i \in f[w] + 1 .. f[w] + k
        BY <1>1, <4>1
      <4> QED  BY <1>2, <4>1, <4>2 DEF Units, Block
    <3> QED  BY <3>2, <3>3
  <2>2. \A v \in Workers : \A i \in 1 .. f[v] : i \in 1 .. g[v]
    OBVIOUS
  <2>3. Units(f) \subseteq Units(g)
    BY <2>2 DEF Units
  <2>4. \A i \in f[w] + 1 .. f[w] + k : i \in 1 .. g[w]
    BY <1>1
  <2>5. new \subseteq Units(g)
    BY <1>2, <2>4 DEF Units, Block
  <2> QED  BY <2>1, <2>3, <2>5
<1>4. Units(f) \cap new = {}
  <2>1. \A i \in f[w] + 1 .. f[w] + k : i \notin 1 .. f[w]
    BY <1>1
  <2> QED  BY <1>2, <2>1 DEF Units, Block
<1>5. Cardinality(Units(g)) = Cardinality(Units(f)) + Cardinality(new) - Cardinality(Units(f) \cap new)
  BY <1>2, <1>3, UnitsFinite, FS_Union
<1>6. Cardinality(Units(f) \cap new) = 0 /\ Cardinality(Units(f)) \in Nat
  BY <1>4, UnitsFinite, FS_EmptySet
<1> QED  BY <1>2, <1>5, <1>6

\* What the first k commands of the measurement hand out, and that it is all of it.
Granted(k) ==
  LET r == conf.operations % Concurrency
  IN  (conf.operations \div Concurrency) * k + IF k < r THEN k ELSE r

LEMMA SharesAddUp ==
  ASSUME conf.operations \in Nat
  PROVE  /\ Granted(0) = 0 /\ Granted(Concurrency) = conf.operations
         /\ \A k \in Nat : Share(k) \in Nat /\ Granted(k) \in Nat /\ Granted(k + 1) = Granted(k) + Share(k)
         /\ \A k \in 0 .. Concurrency : Granted(k) <= conf.operations
<1>1. Concurrency \in Nat \ {0}
  BY BusyFinite
<1>2. PICK q, r : q = conf.operations \div Concurrency /\ r = conf.operations % Concurrency
  OBVIOUS
<1>3. /\ q \in Nat /\ r \in Nat /\ r < Concurrency
      /\ Concurrency * q + r = conf.operations /\ q * Concurrency = Concurrency * q
  <2>1. PICK m : m = conf.operations
    OBVIOUS
  <2>2. PICK c : c = Concurrency
    OBVIOUS
  <2>3. m \in Nat /\ c \in Nat \ {0} /\ q = m \div c /\ r = m % c
    BY <1>1, <1>2, <2>1, <2>2
  <2>4. q \in Nat /\ r \in 0 .. c - 1 /\ c * q + r = m
    BY <2>3, Division
  <2>5. q * c = c * q /\ r \in Nat /\ r < c
    BY <2>3, <2>4
  <2> QED  BY <2>1, <2>2, <2>4, <2>5
<1>4. \A k \in Nat : Share(k) = q + IF k < r THEN 1 ELSE 0
  BY <1>2 DEF Share
<1>5. \A k : Granted(k) = q * k + IF k < r THEN k ELSE r
  BY <1>2 DEF Granted
<1>6. ASSUME NEW k \in Nat
      PROVE  q * k \in Nat /\ q * (k + 1) = q * k + q
  BY <1>3
<1>7. q * 0 = 0
  BY <1>3
<1>8. ASSUME NEW k \in 0 .. Concurrency PROVE Granted(k) <= conf.operations
  <2>1. PICK d \in Nat : Concurrency = k + d
    <3>1. Concurrency - k \in Nat /\ Concurrency = k + (Concurrency - k)
      BY <1>1
    <3> QED  BY <3>1
  <2>2. q * (k + d) = q * k + q * d /\ q * k \in Nat /\ q * d \in Nat
    BY <1>3
  <2>3. conf.operations = q * k + q * d + r
    BY <1>3, <2>1, <2>2
  <2>4. Granted(k) = q * k + IF k < r THEN k ELSE r
    BY <1>5
  <2>5. PICK m \in Nat : m = q * k
    BY <2>2
  <2>6. PICK p \in Nat : p = q * d
    BY <2>2
  <2>7. Granted(k) = m + (IF k < r THEN k ELSE r) /\ conf.operations = m + p + r
    BY <2>3, <2>4, <2>5, <2>6
  <2> QED  BY <1>1, <1>3, <2>7
<1>9. Granted(0) = 0 /\ Granted(Concurrency) = conf.operations
  BY <1>1, <1>3, <1>5, <1>7
<1>10. \A k \in Nat : Share(k) \in Nat /\ Granted(k) \in Nat /\ Granted(k + 1) = Granted(k) + Share(k)
  <2> SUFFICES ASSUME NEW k \in Nat
               PROVE  Share(k) \in Nat /\ Granted(k) \in Nat /\ Granted(k + 1) = Granted(k) + Share(k)
    OBVIOUS
  <2>1. PICK m \in Nat : m = q * k /\ q * (k + 1) = m + q
    BY <1>6
  <2>2. /\ Granted(k) = m + IF k < r THEN k ELSE r
        /\ Granted(k + 1) = (m + q) + IF k + 1 < r THEN k + 1 ELSE r
        /\ Share(k) = q + IF k < r THEN 1 ELSE 0
    BY <1>4, <1>5, <2>1
  <2> QED  BY <1>3, <2>2
<1> QED  BY <1>8, <1>9, <1>10

\* What the workers have done and still owe, each by himself.
Promised == [w \in Workers |-> operations[w] + (cmd[w] - n[w])]
NoError == \A w \in Workers : err[w] = None

\* How far a worker is with a command of the measurement.  One without operations
\* is over at the first look at the clock, for the zero time is past.
Task(w) ==
  IF cmd[w] > 0
  THEN /\ n[w] <= cmd[w]
       /\ wpc[w] \in {"acquire"} \cup Active => n[w] < cmd[w]
       /\ wpc[w] = "done" /\ err[w] = None => n[w] = cmd[w]
       /\ wpc[w] \in {"release", "release2"} => res[w] # "late"
  ELSE n[w] = 0 /\ wpc[w] \notin {"acquire"} \cup Active /\ (wpc[w] = "check" => late[w])

ExactInv ==
  /\ conf.operations \in Nat
  /\ operations \in [Workers -> Nat] /\ cmd \in [Workers -> Nat] /\ n \in [Workers -> Nat]
  /\ late \in [Workers -> BOOLEAN]
  /\ \A w \in Workers : AtWork(w) \/ (cmd[w] = 0 /\ n[w] = 0)
  /\ mpc = "wait" => sent = Concurrency
  /\ conf.operations > 0 /\ stage = "measure" =>
       /\ \A w \in Workers : Task(w)
       /\ Cardinality(Units(Promised)) <= Granted(sent)
       /\ NoError => Cardinality(Units(Promised)) = Granted(sent)
  /\ conf.operations > 0 /\ stage = "stop" =>
       /\ Total <= conf.operations
       /\ NoError => Total = conf.operations

LEMMA ExactInit == Init => ExactInv
<1> SUFFICES ASSUME Init PROVE ExactInv
  OBVIOUS
<1>1. operations = [w \in Workers |-> 0] /\ cmd = [w \in Workers |-> 0]
      /\ n = [w \in Workers |-> 0] /\ late = [w \in Workers |-> FALSE]
  BY DEF Init, All
<1>2. conf.operations \in Nat /\ mpc = "ready" /\ stage = "none"
  BY CountsAssumption DEF Init, Configs
<1> QED  BY <1>1, <1>2 DEF ExactInv

\* A step that moves work neither to a worker nor from one, and keeps every task.
LEMMA SameWork ==
  ASSUME ExactInv, UNCHANGED <<conf, operations, cmd, n, stage, sent, err>>,
         late' \in [Workers -> BOOLEAN], mpc' = "wait" => mpc = "wait",
         \A w \in Workers : AtWork(w)' \/ (cmd[w] = 0 /\ n[w] = 0),
         \A w \in Workers : conf.operations > 0 /\ stage = "measure" /\ Task(w) => Task(w)'
  PROVE  ExactInv'
<1>1. Promised' = Promised /\ Granted(sent)' = Granted(sent) /\ Total' = Total /\ NoError' = NoError
  BY DEF Promised, Granted, Total, Units, NoError
<1>2. Cardinality(Units(Promised))' = Cardinality(Units(Promised))
  BY <1>1 DEF Units
<1> QED  BY <1>1, <1>2 DEF ExactInv

\* The steps of a worker between its command and the end of a read.
LEMMA ExactQuiet ==
  ASSUME LimiterInv, VerdictInv, ExactInv, NEW w \in Workers,
         Worker(w), ~Finish(w), ~Done(w)
  PROVE  ExactInv'
<1>1. UNCHANGED <<conf, operations, cmd, n, late, stage, sent, mpc, err>>
  BY DEF Worker, Ready, Check, Acquire, Count, LoadPeak, SwapPeak, Recheck, Read, ReadReturns,
         Release, Finish, Done, taskVars, fieldVars, mainVars
<1>2. PICK from, to : from = wpc[w] /\ to = wpc'[w]
  OBVIOUS
<1>3. \A v \in Workers \ {w} : wpc'[v] = wpc[v] /\ res'[v] = res[v]
  BY DEF Worker, Ready, Check, Acquire, Count, LoadPeak, SwapPeak, Recheck, Read, ReadReturns,
         Release, Finish, Done, At, Goto, LimiterInv, VerdictInv
<1>4. \A v \in Workers \ {w} : (Task(v) => Task(v)') /\ (AtWork(v) => AtWork(v)')
  BY <1>1, <1>3 DEF Task, AtWork
<1>5. AtWork(w)' \/ (cmd[w] = 0 /\ n[w] = 0)
  <2>1. wpc \in [Workers -> Places]
    BY DEF LimiterInv
  <2>2. CASE Ready(w)
    <3>1. ~AtWork(w)
      BY <2>2 DEF Ready, At, AtWork, Active
    <3> QED  BY <3>1 DEF ExactInv
  <2>3. CASE Check(w) \/ Acquire(w) \/ Count(w)
    BY <2>1, <2>3 DEF Check, Acquire, Count, At, Goto, AtWork, Active
  <2>4. CASE LoadPeak(w) \/ SwapPeak(w) \/ Recheck(w)
    BY <2>1, <2>4 DEF LoadPeak, SwapPeak, Recheck, At, Goto, AtWork, Active
  <2>5. CASE Read(w) \/ ReadReturns(w) \/ Release(w)
    BY <2>1, <2>5 DEF Read, ReadReturns, Release, At, Goto, AtWork, Active
  <2> QED  BY <2>2, <2>3, <2>4, <2>5 DEF Worker
<1>6. ASSUME conf.operations > 0, stage = "measure", Task(w) PROVE Task(w)'
  <2>1. /\ wpc \in [Workers -> Places] /\ res \in [Workers -> {"late", "full", "short", "error"}]
        /\ cmd[w] \in Nat /\ n[w] \in Nat
    BY DEF LimiterInv, VerdictInv, ExactInv
  <2>2. CASE Ready(w)
    BY <1>1, <1>6, <2>1, <2>2 DEF Ready, At, Goto, Task, Active
  <2>3. CASE Check(w)
    <3>1. wpc[w] = "check" /\ wpc'[w] = IF Exhausted(w) THEN "done" ELSE "acquire"
      BY <2>1, <2>3 DEF Check, At, Goto
    <3>2. CASE cmd[w] > 0
      BY <1>1, <1>6, <2>1, <3>1, <3>2 DEF Exhausted, Task, Active
    <3>3. CASE ~(cmd[w] > 0)
      <4>1. n[w] = 0 /\ late[w]
        BY <1>6, <3>1, <3>3 DEF Task
      <4>2. 0 % CheckEvery = 0
        BY CountsAssumption
      <4>3. Exhausted(w)
        BY <3>3, <4>1, <4>2 DEF Exhausted
      <4> QED  BY <1>1, <3>1, <3>3, <4>1, <4>3 DEF Task, Active
    <3> QED  BY <3>2, <3>3
  <2>4. CASE Acquire(w) \/ Count(w) \/ LoadPeak(w) \/ SwapPeak(w)
    BY <1>1, <1>6, <2>1, <2>4 DEF Acquire, Count, LoadPeak, SwapPeak, At, Goto, Task, Active
  <2>5. CASE Recheck(w)
    BY <1>1, <1>6, <2>1, <2>5 DEF Recheck, At, Goto, Task, Active
  <2>6. CASE Read(w)
    BY <1>1, <1>6, <2>1, <2>6 DEF Read, At, Goto, Task, Active
  <2>7. CASE ReadReturns(w)
    <3>1. \A r \in Results : r # "late"
      BY ResultAssumption
    <3> QED  BY <1>1, <1>6, <2>1, <2>7, <3>1 DEF ReadReturns, At, Goto, Task, Active
  <2>8. CASE Release(w)
    BY <1>1, <1>6, <2>1, <2>8 DEF Release, At, Goto, Task, Active
  <2> QED  BY <2>2, <2>3, <2>4, <2>5, <2>6, <2>7, <2>8 DEF Worker
<1>7. late' \in [Workers -> BOOLEAN]
  BY <1>1 DEF ExactInv
<1>8. \A v \in Workers : AtWork(v)' \/ (cmd[v] = 0 /\ n[v] = 0)
  BY <1>4, <1>5 DEF ExactInv
<1> QED  BY <1>1, <1>4, <1>6, <1>7, <1>8, SameWork

\* A full read moves one unit from what is owed to what is done; any other result
\* leaves both, and an error with them.
LEMMA ExactFinish ==
  ASSUME LimiterInv, PhaseInv, VerdictInv, ExactInv, NEW w \in Workers, Finish(w)
  PROVE  ExactInv'
<1>1. /\ wpc[w] = "release2" /\ Goto(w, IF res[w] = "full" THEN "check" ELSE "done")
      /\ UNCHANGED <<conf, mpc, stage, sent, cmd, late>> /\ res' = [res EXCEPT ![w] = "late"]
  BY DEF Finish, At, mainVars
<1>2. /\ wpc \in [Workers -> Places] /\ err \in [Workers -> {None, "short", "error"}]
      /\ res \in [Workers -> {"late", "full", "short", "error"}]
      /\ operations \in [Workers -> Nat] /\ cmd \in [Workers -> Nat] /\ n \in [Workers -> Nat]
      /\ late \in [Workers -> BOOLEAN] /\ conf.operations \in Nat
  BY DEF LimiterInv, VerdictInv, ExactInv
<1>3. wpc'[w] \in {"check", "done"} /\ \A v \in Workers \ {w} : wpc'[v] = wpc[v] /\ res'[v] = res[v]
  BY <1>1, <1>2 DEF Goto
<1>4. w \in Busy
  BY <1>1 DEF Busy, AtWork, Active
<1>5. stage # "stop" /\ mpc' = mpc
  BY <1>1, <1>4 DEF PhaseInv
<1>6. AtWork(w)' /\ \A v \in Workers \ {w} : AtWork(v)' <=> AtWork(v)
  BY <1>3 DEF AtWork
<1>7. CASE res[w] = "full"
  <2>1. /\ operations' = [operations EXCEPT ![w] = operations[w] + 1]
        /\ n' = [n EXCEPT ![w] = n[w] + 1] /\ err' = err /\ wpc'[w] = "check"
    BY <1>1, <1>2, <1>7 DEF Finish, Goto
  <2>2. operations' \in [Workers -> Nat] /\ n' \in [Workers -> Nat]
    BY <1>2, <2>1
  <2>3. ASSUME NEW v \in Workers PROVE AtWork(v)' \/ (cmd'[v] = 0 /\ n'[v] = 0)
    BY <1>1, <1>2, <1>6, <2>1 DEF ExactInv
  <2>4. ASSUME conf.operations > 0, stage = "measure"
        PROVE  /\ \A v \in Workers : Task(v)'
               /\ Cardinality(Units(Promised))' <= Granted(sent)'
               /\ NoError' => Cardinality(Units(Promised))' = Granted(sent)'
    <3>1. \A v \in Workers : Task(v)
      BY <2>4 DEF ExactInv
    <3>2. cmd[w] > 0 /\ n[w] < cmd[w]
      BY <1>1, <3>1 DEF Task, Active
    <3>3. Task(w)'
      BY <1>1, <1>2, <2>1, <3>2 DEF Task, Active
    <3>4. \A v \in Workers \ {w} : Task(v)'
      BY <1>1, <1>2, <1>3, <2>1, <3>1 DEF Task
    <3>5. Promised' = Promised
      <4>1. \A v \in Workers : operations'[v] + (cmd'[v] - n'[v]) = operations[v] + (cmd[v] - n[v])
        BY <1>1, <1>2, <2>1
      <4> QED  BY <4>1 DEF Promised
    <3>6. Granted(sent)' = Granted(sent) /\ NoError' = NoError /\ Units(Promised)' = Units(Promised)
      BY <1>1, <2>1, <3>5 DEF Granted, NoError, Units
    <3> QED  BY <2>4, <3>3, <3>4, <3>6 DEF ExactInv
  <2> QED  BY <1>1, <1>2, <1>5, <2>2, <2>3, <2>4 DEF ExactInv
<1>8. CASE res[w] # "full"
  <2>1. UNCHANGED <<operations, n>> /\ wpc'[w] = "done"
        /\ err' = [err EXCEPT ![w] = IF res[w] = "late" THEN err[w] ELSE res[w]]
    BY <1>1, <1>2, <1>8 DEF Finish, Goto
  <2>2. ASSUME NEW v \in Workers PROVE AtWork(v)' \/ (cmd'[v] = 0 /\ n'[v] = 0)
    BY <1>1, <1>6, <2>1 DEF ExactInv
  <2>3. ASSUME conf.operations > 0, stage = "measure"
        PROVE  /\ \A v \in Workers : Task(v)'
               /\ Cardinality(Units(Promised))' <= Granted(sent)'
               /\ NoError' => Cardinality(Units(Promised))' = Granted(sent)'
    <3>1. \A v \in Workers : Task(v)
      BY <2>3 DEF ExactInv
    <3>2. cmd[w] > 0 /\ n[w] < cmd[w] /\ res[w] # "late"
      BY <1>1, <3>1 DEF Task, Active
    <3>3. err'[w] = res[w] /\ res[w] # None
      <4>1. err'[w] = res[w]
        BY <1>2, <2>1, <3>2
      <4>2. res[w] \in {"late", "full", "short", "error"}
        BY <1>2
      <4> QED  BY <4>1, <4>2, ResultAssumption
    <3>4. Task(w)'
      BY <1>1, <1>2, <2>1, <3>2, <3>3 DEF Task, Active
    <3>5. \A v \in Workers \ {w} : Task(v)'
      BY <1>1, <1>2, <1>3, <2>1, <3>1 DEF Task
    <3>6. ~NoError'
      BY <3>3 DEF NoError
    <3>7. Granted(sent)' = Granted(sent) /\ Units(Promised)' = Units(Promised)
      BY <1>1, <2>1 DEF Granted, Units, Promised
    <3> QED  BY <2>3, <3>4, <3>5, <3>6, <3>7 DEF ExactInv
  <2> QED  BY <1>1, <1>2, <1>5, <2>1, <2>2, <2>3 DEF ExactInv
<1> QED  BY <1>7, <1>8


\* A worker that is done owes nothing any more, and had owed nothing but after an error.
LEMMA ExactDone ==
  ASSUME LimiterInv, PhaseInv, ExactInv, NEW w \in Workers, Done(w)
  PROVE  ExactInv'
<1>1. /\ wpc[w] = "done" /\ Goto(w, "idle") /\ UNCHANGED <<conf, mpc, stage, sent, operations, err, res>>
      /\ cmd' = [cmd EXCEPT ![w] = 0] /\ n' = [n EXCEPT ![w] = 0]
      /\ late' = [late EXCEPT ![w] = FALSE]
  BY DEF Done, At, mainVars, fieldVars
<1>2. /\ wpc \in [Workers -> Places] /\ late \in [Workers -> BOOLEAN] /\ conf.operations \in Nat
      /\ operations \in [Workers -> Nat] /\ cmd \in [Workers -> Nat] /\ n \in [Workers -> Nat]
  BY DEF LimiterInv, ExactInv
<1>3. /\ wpc'[w] = "idle" /\ cmd'[w] = 0 /\ n'[w] = 0
      /\ \A v \in Workers \ {w} : wpc'[v] = wpc[v] /\ cmd'[v] = cmd[v] /\ n'[v] = n[v] /\ late'[v] = late[v]
      /\ cmd' \in [Workers -> Nat] /\ n' \in [Workers -> Nat] /\ late' \in [Workers -> BOOLEAN]
  BY <1>1, <1>2 DEF Goto
<1>4. w \in Busy
  BY <1>1 DEF Busy, AtWork, Active
<1>5. stage # "stop"
  BY <1>4 DEF PhaseInv
<1>6. ASSUME NEW v \in Workers PROVE AtWork(v)' \/ (cmd'[v] = 0 /\ n'[v] = 0)
  BY <1>3 DEF ExactInv, AtWork
<1>7. ASSUME conf.operations > 0, stage = "measure"
      PROVE  /\ \A v \in Workers : Task(v)'
             /\ Cardinality(Units(Promised))' <= Granted(sent)'
             /\ NoError' => Cardinality(Units(Promised))' = Granted(sent)'
  <2>1. /\ \A v \in Workers : Task(v) /\ n[v] <= cmd[v]
        /\ Cardinality(Units(Promised)) <= Granted(sent)
        /\ NoError => Cardinality(Units(Promised)) = Granted(sent)
    BY <1>2, <1>7 DEF ExactInv, Task
  <2>2. Task(w)'
    BY <1>3 DEF Task, Active
  <2>3. \A v \in Workers \ {w} : Task(v)'
    BY <1>1, <1>3, <2>1 DEF Task
  <2>4. Promised \in [Workers -> Nat] /\ Promised' \in [Workers -> Nat]
    BY <1>1, <1>2, <1>3, <2>1 DEF Promised
  <2>5. \A v \in Workers : Promised'[v] <= Promised[v]
    BY <1>1, <1>2, <1>3, <2>1 DEF Promised
  <2>6. Cardinality(Units(Promised')) <= Cardinality(Units(Promised))
    BY <2>4, <2>5, UnitsOrdered
  <2>7. NoError => Promised' = Promised
    <3> SUFFICES ASSUME NoError PROVE Promised' = Promised
      OBVIOUS
    <3>1. n[w] = cmd[w]
      BY <1>1, <1>2, <2>1 DEF NoError, Task
    <3>2. \A v \in Workers : operations'[v] + (cmd'[v] - n'[v]) = operations[v] + (cmd[v] - n[v])
      BY <1>1, <1>2, <1>3, <3>1
    <3> QED  BY <3>2 DEF Promised
  <2>8. Units(Promised)' = Units(Promised') /\ Granted(sent)' = Granted(sent) /\ NoError' = NoError
    BY <1>1 DEF Units, Granted, NoError
  <2>9. /\ Cardinality(Units(Promised)) \in Nat /\ Cardinality(Units(Promised')) \in Nat
    BY <2>4, UnitsFinite
  <2>10. Granted(sent) \in Nat
    BY SharesAddUp DEF ExactInv, PhaseInv
  <2> QED  BY <2>1, <2>2, <2>3, <2>6, <2>7, <2>8, <2>9, <2>10
<1> QED  BY <1>1, <1>2, <1>3, <1>5, <1>6, <1>7 DEF ExactInv

\* A command hands out its share to a worker who owes nothing.
LEMMA ExactSend ==
  ASSUME LimiterInv, PhaseInv, ExactInv, NEW w \in Workers, Send(w)
  PROVE  ExactInv'
<1>1. /\ mpc = "send" /\ wpc[w] = "idle" /\ sent' = sent + 1
      /\ mpc' = IF sent + 1 < Concurrency THEN "send" ELSE IF stage = "stop" THEN "close" ELSE "wait"
      /\ Goto(w, IF stage = "stop" THEN "ended" ELSE "check")
      /\ cmd' = [cmd EXCEPT ![w] = CommandOps] /\ n' = [n EXCEPT ![w] = 0]
      /\ late' = [late EXCEPT ![w] = DeadlinePast]
      /\ UNCHANGED <<conf, stage, operations, err, res>>
  BY DEF Send, fieldVars
<1>2. /\ wpc \in [Workers -> Places] /\ late \in [Workers -> BOOLEAN] /\ conf.operations \in Nat
      /\ operations \in [Workers -> Nat] /\ cmd \in [Workers -> Nat] /\ n \in [Workers -> Nat]
      /\ sent \in Nat /\ Concurrency \in Nat
  BY BusyFinite DEF LimiterInv, ExactInv, PhaseInv
<1>3. cmd[w] = 0 /\ n[w] = 0
  BY <1>1 DEF ExactInv, AtWork, Active
<1>4. /\ Share(sent) \in Nat /\ Granted(sent) \in Nat /\ Granted(sent + 1) = Granted(sent) + Share(sent)
  BY <1>2, SharesAddUp
<1>5. CommandOps \in Nat /\ DeadlinePast \in BOOLEAN
  BY <1>4 DEF CommandOps, DeadlinePast
<1>6. /\ cmd'[w] = CommandOps /\ n'[w] = 0 /\ late'[w] = DeadlinePast
      /\ wpc'[w] = IF stage = "stop" THEN "ended" ELSE "check"
      /\ \A v \in Workers \ {w} : wpc'[v] = wpc[v] /\ cmd'[v] = cmd[v] /\ n'[v] = n[v] /\ late'[v] = late[v]
      /\ cmd' \in [Workers -> Nat] /\ n' \in [Workers -> Nat] /\ late' \in [Workers -> BOOLEAN]
  BY <1>1, <1>2, <1>5 DEF Goto
<1>7. ASSUME NEW v \in Workers PROVE AtWork(v)' \/ (cmd'[v] = 0 /\ n'[v] = 0)
  BY <1>6 DEF ExactInv, AtWork, CommandOps
<1>8. mpc' = "wait" => sent' = Concurrency
  <2>1. mpc' = "wait" => stage # "stop" /\ ~(sent + 1 < Concurrency)
    BY <1>1
  <2>2. stage # "stop" => sent < Concurrency
    BY <1>1 DEF PhaseInv
  <2> QED  BY <1>1, <1>2, <2>1, <2>2
<1>9. ASSUME conf.operations > 0, stage = "measure"
      PROVE  /\ \A v \in Workers : Task(v)'
             /\ Cardinality(Units(Promised))' <= Granted(sent)'
             /\ NoError' => Cardinality(Units(Promised))' = Granted(sent)'
  <2>1. /\ \A v \in Workers : Task(v) /\ n[v] <= cmd[v]
        /\ Cardinality(Units(Promised)) <= Granted(sent)
        /\ NoError => Cardinality(Units(Promised)) = Granted(sent)
    BY <1>2, <1>9 DEF ExactInv, Task
  <2>2. wpc'[w] = "check" /\ cmd'[w] = Share(sent) /\ late'[w]
    BY <1>6, <1>9 DEF CommandOps, DeadlinePast
  <2>3. Task(w)'
    BY <1>4, <1>6, <2>2 DEF Task, Active
  <2>4. \A v \in Workers \ {w} : Task(v)'
    BY <1>1, <1>6, <2>1 DEF Task
  <2>5. Promised \in [Workers -> Nat] /\ Promised' \in [Workers -> Nat]
    <3>1. \A v \in Workers : operations[v] + (cmd[v] - n[v]) \in Nat
      BY <1>2, <2>1
    <3>2. \A v \in Workers : operations'[v] + (cmd'[v] - n'[v]) \in Nat
      BY <1>1, <1>2, <1>4, <1>6, <2>2, <3>1
    <3> QED  BY <3>1, <3>2 DEF Promised
  <2>6. Promised'[w] = Promised[w] + Share(sent) /\ \A v \in Workers \ {w} : Promised'[v] = Promised[v]
    BY <1>1, <1>2, <1>3, <1>4, <1>6, <2>2 DEF Promised
  <2>7. Cardinality(Units(Promised')) = Cardinality(Units(Promised)) + Share(sent)
    BY <1>4, <2>5, <2>6, UnitsGrow
  <2>8. Units(Promised)' = Units(Promised') /\ Granted(sent)' = Granted(sent + 1) /\ NoError' = NoError
    BY <1>1 DEF Units, Granted, NoError
  <2>9. Cardinality(Units(Promised)) \in Nat
    BY <2>5, UnitsFinite
  <2> QED  BY <1>4, <2>1, <2>3, <2>4, <2>7, <2>8, <2>9
<1>10. stage = "stop" => Total' = Total /\ NoError' = NoError
  BY <1>1 DEF Total, Units, NoError
<1> QED  BY <1>1, <1>2, <1>6, <1>7, <1>8, <1>9, <1>10 DEF ExactInv


\* Where main goes on, nobody owes anything: what is promised is what is done.
LEMMA NothingOwed ==
  ASSUME ExactInv, Busy = {}
  PROVE  (\A w \in Workers : cmd[w] = 0 /\ n[w] = 0) /\ Promised = operations
<1>1. \A w \in Workers : cmd[w] = 0 /\ n[w] = 0
  BY DEF ExactInv, Busy
<1>2. \A w \in Workers : operations[w] + (cmd[w] - n[w]) = operations[w]
  BY <1>1 DEF ExactInv
<1> QED  BY <1>1, <1>2 DEF Promised, ExactInv

LEMMA ExactMain ==
  ASSUME LimiterInv, PhaseInv, ExactInv, MainReady \/ Wait \/ Reset \/ Close \/ Collect
  PROVE  ExactInv'
<1>1. UNCHANGED <<conf, cmd, n, late, wpc, res>> /\ mpc' # "wait"
  BY DEF MainReady, Wait, Reset, Close, Collect, Begin, taskVars
<1>2. \A w \in Workers : AtWork(w)' = AtWork(w)
  BY <1>1 DEF AtWork
<1>3. CASE MainReady \/ Close \/ Collect
  <2>1. UNCHANGED <<operations, err>> /\ stage' # "measure" /\ (stage' = "stop" => stage = "stop")
    BY <1>3 DEF MainReady, Close, Collect, Begin, PhaseInv, fieldVars
  <2>2. Total' = Total /\ NoError' = NoError
    BY <2>1 DEF Total, Units, NoError
  <2> QED  BY <1>1, <1>2, <2>1, <2>2 DEF ExactInv
<1>4. CASE Wait
  <2>1. mpc = "wait" /\ complete = 0 /\ UNCHANGED <<operations, err>>
    BY <1>4 DEF Wait, AllDone, fieldVars
  <2>2. Busy = {}
    BY <2>1, BusyFinite, FS_EmptySet DEF PhaseInv
  <2>3. Total' = Total /\ NoError' = NoError
    BY <2>1 DEF Total, Units, NoError
  <2>4. CASE stage = "warm"
    <3>1. stage' = "warm"
      BY <1>4, <2>4 DEF Wait
    <3> QED  BY <1>1, <1>2, <2>1, <3>1 DEF ExactInv
  <2>5. CASE stage # "warm"
    <3>1. stage = "measure" /\ stage' = "stop"
      BY <1>4, <2>1, <2>5 DEF Wait, Begin, PhaseInv
    <3>2. conf.operations > 0 => /\ Total <= conf.operations
                                 /\ NoError => Total = conf.operations
      <4> SUFFICES ASSUME conf.operations > 0
                   PROVE  Total <= conf.operations /\ (NoError => Total = conf.operations)
        OBVIOUS
      <4>1. Granted(sent) = conf.operations
        BY <2>1, SharesAddUp DEF ExactInv
      <4>2. Total = Cardinality(Units(Promised))
        BY <2>2, NothingOwed DEF Total
      <4> QED  BY <3>1, <4>1, <4>2 DEF ExactInv
    <3> QED  BY <1>1, <1>2, <2>1, <2>3, <3>1, <3>2 DEF ExactInv
  <2> QED  BY <2>4, <2>5
<1>5. CASE Reset
  <2>1. /\ mpc = "reset" /\ operations' = [w \in Workers |-> 0] /\ err' = [w \in Workers |-> None]
        /\ stage' = "measure" /\ sent' = 0
    BY <1>5 DEF Reset, Begin, All
  <2>2. \A w \in Workers : ~AtWork(w) /\ cmd[w] = 0 /\ n[w] = 0
    BY <2>1, NothingOwed DEF PhaseInv, Busy
  <2>3. \A w \in Workers : Task(w)'
    BY <1>1, <2>2 DEF Task, AtWork
  <2>4. Units(Promised') = {}
    <3>1. Promised' = [w \in Workers |-> 0]
      BY <1>1, <2>1, <2>2 DEF Promised
    <3>2. \A w \in Workers : {w} \X (1 .. 0) = {}
      OBVIOUS
    <3> QED  BY <3>1, <3>2 DEF Units
  <2>5. Units(Promised)' = Units(Promised') /\ Granted(sent)' = Granted(0)
    BY <1>1, <2>1 DEF Units, Granted
  <2>6. Granted(sent)' = 0 /\ Cardinality(Units(Promised))' = 0
    BY <2>4, <2>5, SharesAddUp, FS_EmptySet DEF ExactInv
  <2>7. operations' \in [Workers -> Nat]
    BY <2>1
  <2> QED  BY <1>1, <1>2, <2>1, <2>3, <2>6, <2>7 DEF ExactInv
<1> QED  BY <1>3, <1>4, <1>5

\* Every step keeps the invariant.
LEMMA ExactStep ==
  LimiterInv /\ PhaseInv /\ VerdictInv /\ ExactInv /\ [Next]_vars => ExactInv'
<1> SUFFICES ASSUME LimiterInv, PhaseInv, VerdictInv, ExactInv, [Next]_vars PROVE ExactInv'
  OBVIOUS
<1>1. CASE UNCHANGED vars \/ RingFails
  <2>1. UNCHANGED <<conf, operations, cmd, n, late, stage, sent, mpc, err, res, wpc>>
    BY <1>1 DEF RingFails, vars, mainVars, fieldVars, taskVars
  <2>2. \A w \in Workers : (Task(w) => Task(w)') /\ (AtWork(w) => AtWork(w)')
    BY <2>1 DEF Task, AtWork
  <2>3. late' \in [Workers -> BOOLEAN] /\ \A w \in Workers : AtWork(w)' \/ (cmd[w] = 0 /\ n[w] = 0)
    BY <2>1, <2>2 DEF ExactInv
  <2> QED  BY <2>1, <2>2, <2>3, SameWork
<1>2. ASSUME NEW w \in Workers, Deadline(w) PROVE ExactInv'
  <2>1. /\ UNCHANGED <<conf, operations, cmd, n, stage, sent, mpc, err, res, wpc>>
        /\ late' = [late EXCEPT ![w] = TRUE]
    BY <1>2 DEF Deadline, mainVars, fieldVars
  <2>2. late' \in [Workers -> BOOLEAN] /\ \A v \in Workers : late[v] => late'[v]
    BY <2>1 DEF ExactInv
  <2>3. \A v \in Workers : (Task(v) => Task(v)') /\ (AtWork(v) => AtWork(v)')
    BY <2>1, <2>2 DEF Task, AtWork
  <2>4. \A v \in Workers : AtWork(v)' \/ (cmd[v] = 0 /\ n[v] = 0)
    BY <2>3 DEF ExactInv
  <2> QED  BY <2>1, <2>2, <2>3, <2>4, SameWork
<1>3. ASSUME NEW w \in Workers, Worker(w) PROVE ExactInv'
  BY <1>3, ExactQuiet, ExactFinish, ExactDone
<1>4. CASE Main
  BY <1>4, ExactSend, ExactMain DEF Main
<1> QED  BY <1>1, <1>2, <1>3, <1>4 DEF Next

\* With fixed operations the measured work is exactly what was asked for unless a
\* read failed, and never more, for any number of workers and operations: whichever
\* workers take the commands, however many operations the warm-up made, and also
\* where there are more workers than operations.
THEOREM WorkIsAlwaysExact == Spec => []WorkIsExact
<1>1. PhaseInv /\ ExactInv => WorkIsExact
  <2> SUFFICES ASSUME PhaseInv, ExactInv, conf.operations > 0
               PROVE  /\ stage \in {"measure", "stop"} => Total <= conf.operations
                      /\ mpc = "end" /\ NoError => Total = conf.operations
    BY DEF WorkIsExact, NoError
  <2>1. CASE stage = "measure"
    <3>1. \A w \in Workers : n[w] <= cmd[w]
      BY <2>1 DEF ExactInv, Task
    <3>2. Promised \in [Workers -> Nat] /\ \A w \in Workers : operations[w] <= Promised[w]
      <4>1. \A w \in Workers : operations[w] + (cmd[w] - n[w]) \in Nat
                               /\ operations[w] <= operations[w] + (cmd[w] - n[w])
        BY <3>1 DEF ExactInv
      <4> QED  BY <4>1 DEF Promised
    <3>3. Total <= Cardinality(Units(Promised)) /\ Total \in Nat /\ Cardinality(Units(Promised)) \in Nat
      BY <3>2, UnitsOrdered, UnitsFinite DEF Total, ExactInv
    <3>4. Cardinality(Units(Promised)) <= Granted(sent)
      BY <2>1 DEF ExactInv
    <3>5. Granted(sent) \in Nat /\ Granted(sent) <= conf.operations
      <4>1. mpc \in {"send", "wait"} /\ sent \in Nat /\ Concurrency \in Nat
        BY <2>1, BusyFinite DEF PhaseInv
      <4>2. sent <= Concurrency
        BY <2>1, <4>1 DEF PhaseInv, ExactInv
      <4> QED  BY <4>1, <4>2, SharesAddUp DEF ExactInv
    <3>6. mpc # "end"
      BY <2>1 DEF PhaseInv
    <3> QED  BY <3>3, <3>4, <3>5, <3>6 DEF ExactInv
  <2>2. CASE stage = "stop"
    BY <2>2 DEF ExactInv
  <2>3. mpc = "end" => stage = "stop"
    BY DEF PhaseInv
  <2> QED  BY <2>1, <2>2, <2>3
<1> QED
  BY <1>1, LimiterInit, LimiterStep, PhaseInit, PhaseStep, VerdictInit, VerdictStep,
     ExactInit, ExactStep, PTL DEF Spec

-----------------------------------------------------------------------------
(* The types.  What the other invariants leave open is how far the counters go. *)

RangesOK ==
  /\ conf \in Configs /\ status \in {"none", "ok", "failed"} /\ closeErr \in {None, "fatal", "busy"}
  /\ sent \in 0 .. Concurrency /\ (mpc = "send" => sent < Concurrency)
  /\ complete \in 0 .. Concurrency
  /\ cmd \in [Workers -> 0 .. MaxOperations]
  /\ got \in [Workers -> 0 .. Concurrency] /\ old \in [Workers -> 0 .. Concurrency]

LEMMA RangesInit == Init => RangesOK
<1>1. Concurrency \in Nat \ {0}
  BY BusyFinite
<1> QED  BY <1>1, CountsAssumption DEF Init, RangesOK, All

\* No worker sees more than all workers counted, or a peak beyond the limit.
LEMMA RangesWorker ==
  ASSUME LimiterInv, LimiterInv', PhaseInv, PhaseInv', RangesOK, NEW w \in Workers, Worker(w)
  PROVE  RangesOK'
<1>1. Concurrency \in Nat \ {0} /\ current \in 0 .. Concurrency /\ current' \in 0 .. Concurrency
  <2>1. Counted \in SUBSET Workers /\ Counted' \in SUBSET Workers
    BY DEF Counted
  <2> QED  BY <2>1, BusyFinite, SetsFinite DEF LimiterInv
<1>2. peak \in 0 .. Concurrency
  BY <1>1 DEF LimiterInv, RangesOK, Configs
<1>3. UNCHANGED <<conf, mainVars, ringVars>>
  BY DEF Worker, Ready, Check, Acquire, Count, LoadPeak, SwapPeak, Recheck, Read, ReadReturns,
         Release, Finish, Done
<1>4. complete' \in 0 .. Concurrency
  <2>1. complete' = complete \/ complete' = complete - 1
    BY DEF Worker, Ready, Check, Acquire, Count, LoadPeak, SwapPeak, Recheck, Read, ReadReturns,
           Release, Finish, Done
  <2> QED  BY <1>1, <2>1 DEF PhaseInv, RangesOK
<1>5. cmd' \in [Workers -> 0 .. MaxOperations]
  BY CountsAssumption DEF Worker, Ready, Check, Acquire, Count, LoadPeak, SwapPeak, Recheck, Read,
         ReadReturns, Release, Finish, Done, taskVars, RangesOK
<1>6. got' \in [Workers -> 0 .. Concurrency] /\ old' \in [Workers -> 0 .. Concurrency]
  <2>1. CASE Count(w)
    <3>1. got' = [got EXCEPT ![w] = current'] /\ old' = old
      BY <2>1 DEF Count
    <3> QED  BY <1>1, <3>1 DEF RangesOK
  <2>2. CASE LoadPeak(w)
    <3>1. old' = [old EXCEPT ![w] = peak] /\ got' = got
      BY <2>2 DEF LoadPeak
    <3> QED  BY <1>2, <3>1 DEF RangesOK
  <2>3. CASE Release(w)
    <3>1. got' = [got EXCEPT ![w] = 0] /\ old' = [old EXCEPT ![w] = 0]
      BY <2>3 DEF Release
    <3> QED  BY <1>1, <3>1 DEF RangesOK
  <2>4. CASE ~Count(w) /\ ~LoadPeak(w) /\ ~Release(w)
    <3>1. UNCHANGED <<got, old>>
      BY <2>4 DEF Worker, Ready, Check, Acquire, SwapPeak, Recheck, Read, ReadReturns, Finish, Done,
                  limVars
    <3> QED  BY <3>1 DEF RangesOK
  <2> QED  BY <2>1, <2>2, <2>3, <2>4
<1> QED  BY <1>3, <1>4, <1>5, <1>6 DEF RangesOK, mainVars, ringVars

\* Main sends one command per worker and phase, of at most the operations asked for.
LEMMA RangesMain ==
  ASSUME PhaseInv, RangesOK, Main
  PROVE  RangesOK'
<1>1. Concurrency \in Nat \ {0}
  BY BusyFinite
<1>2. UNCHANGED <<conf, got, old>>
  BY DEF Main, MainReady, Send, Wait, Reset, Close, Collect, limVars
<1>3. CASE \E w \in Workers : Send(w)
  <2>1. PICK w \in Workers :
          /\ mpc = "send" /\ sent' = sent + 1 /\ UNCHANGED <<complete, status, ringVars>>
          /\ cmd' = [cmd EXCEPT ![w] = CommandOps]
          /\ mpc' = "send" => sent + 1 < Concurrency
    BY <1>3 DEF Send
  <2>2. CommandOps \in 0 .. MaxOperations
    <3>1. conf.operations \in Nat /\ conf.operations <= MaxOperations
      BY CountsAssumption DEF RangesOK, Configs
    <3>2. sent \in Nat /\ sent + 1 \in 0 .. Concurrency
      BY <1>1, <2>1 DEF RangesOK
    <3>3. /\ Share(sent) \in Nat /\ Granted(sent) \in Nat
          /\ Granted(sent + 1) = Granted(sent) + Share(sent) /\ Granted(sent + 1) <= conf.operations
      BY <3>1, <3>2, SharesAddUp
    <3>4. Share(sent) \in 0 .. MaxOperations
      BY <3>1, <3>3, CountsAssumption
    <3> QED  BY <3>4, CountsAssumption DEF CommandOps
  <2>3. cmd' \in [Workers -> 0 .. MaxOperations]
    BY <2>1, <2>2 DEF RangesOK
  <2>4. sent' \in 0 .. Concurrency
    BY <1>1, <2>1 DEF RangesOK
  <2> QED  BY <1>2, <2>1, <2>3, <2>4 DEF RangesOK, ringVars
<1>4. CASE MainReady \/ Wait \/ Reset
  <2>1. UNCHANGED <<cmd, status, closeErr>>
    BY <1>4 DEF MainReady, Wait, Reset, taskVars, ringVars
  <2>2. sent' \in 0 .. Concurrency /\ (mpc' = "send" => sent' < Concurrency)
    BY <1>1, <1>4 DEF MainReady, Wait, Reset, Begin, RangesOK
  <2>3. complete' \in 0 .. Concurrency
    <3>1. CASE Wait
      BY <3>1 DEF Wait, RangesOK
    <3>2. CASE MainReady \/ Reset
      <4>1. complete = 0 /\ (complete' = complete \/ complete' = complete + Concurrency)
        BY <3>2 DEF MainReady, Reset, PhaseInv
      <4> QED  BY <1>1, <4>1
    <3> QED  BY <1>4, <3>1, <3>2
  <2> QED  BY <1>2, <2>1, <2>2, <2>3 DEF RangesOK
<1>5. CASE Close \/ Collect
  <2>1. UNCHANGED <<cmd, sent, complete>> /\ mpc' # "send"
    BY <1>5 DEF Close, Collect, taskVars
  <2>2. status' \in {"none", "ok", "failed"} /\ closeErr' \in {None, "fatal", "busy"}
    BY <1>5 DEF Close, Collect, ringVars, RangesOK
  <2> QED  BY <1>2, <2>1, <2>2 DEF RangesOK
<1> QED  BY <1>3, <1>4, <1>5 DEF Main

LEMMA RangesStep ==
  LimiterInv /\ LimiterInv' /\ PhaseInv /\ PhaseInv' /\ RangesOK /\ [Next]_vars => RangesOK'
<1>1. ASSUME RangesOK, UNCHANGED vars \/ RingFails \/ \E w \in Workers : Deadline(w) PROVE RangesOK'
  <2>1. UNCHANGED <<conf, mainVars, closeErr, complete, cmd, got, old>>
    BY <1>1 DEF RingFails, Deadline, vars, taskVars, limVars, ringVars
  <2> QED  BY <1>1, <2>1 DEF RangesOK, mainVars
<1> QED  BY <1>1, RangesWorker, RangesMain DEF Next

\* The types of the harness: no counter of runChild, of its WaitGroup or of the limiter
\* leaves its range.
THEOREM TypeCorrect == Spec => []TypeOK
<1>1. LimiterInv /\ PhaseInv /\ VerdictInv /\ ExactInv /\ RangesOK => TypeOK
  <2> SUFFICES ASSUME LimiterInv, PhaseInv, VerdictInv, ExactInv, RangesOK PROVE TypeOK
    OBVIOUS
  <2>1. /\ Concurrency \in Nat \ {0} /\ sem \in Nat /\ current \in 0 .. Concurrency
    <3>1. Counted \in SUBSET Workers /\ Holders \in SUBSET Workers
      BY DEF Counted, Holders
    <3> QED  BY <3>1, BusyFinite, SetsFinite DEF LimiterInv
  <2>2. sem \in 0 .. conf.limit /\ peak \in 0 .. Concurrency
    BY <2>1 DEF LimiterInv, RangesOK, Configs
  <2>3. wpc \in [Workers -> {"start", "idle", "check", "acquire", "done", "ended"} \cup Active]
    BY DEF LimiterInv, Places
  <2> QED  BY <2>1, <2>2, <2>3 DEF TypeOK, PhaseInv, VerdictInv, ExactInv, RangesOK
<1> QED
  BY <1>1, LimiterInit, LimiterStep, PhaseInit, PhaseStep, VerdictInit, VerdictStep,
     ExactInit, ExactStep, RangesInit, RangesStep, PTL DEF Spec
=============================================================================
