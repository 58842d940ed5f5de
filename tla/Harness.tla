------------------------------- MODULE Harness -------------------------------
(***************************************************************************)
(* runChild and its workers: main hands out one command per worker and      *)
(* phase over an unbuffered channel, to whoever takes it, and waits; a      *)
(* worker reads until its command is exhausted, each read under a permit of *)
(* the outstandingLimiter.                                                  *)
(*                                                                         *)
(* A step is the code between two atomic operations, channel operations or  *)
(* looks at the clock; locals that are out of scope are reset, so that they *)
(* distinguish no states.  The ring is what ReadService promises: it        *)
(* answers the reads in progress, unless it fails, and refuses to close     *)
(* over them.                                                               *)
(***************************************************************************)
EXTENDS Integers, FiniteSets

CONSTANTS
  Workers,        \* the worker goroutines
  None,           \* no error
  Results,        \* what reads may give: "full", "short" and "error"
  MaxOperations,  \* c.Operations is 0 (run for a duration) .. MaxOperations
  CheckEvery,     \* the clock is looked at once in this many operations (64)
  MaxReads,       \* bound: a command with a deadline has expired by this many reads
  RingMayFail     \* whether the completer may die on an error

Concurrency == Cardinality(Workers)

ASSUME WorkersAssumption == IsFiniteSet(Workers) /\ Workers # {}
ASSUME CountsAssumption ==
  /\ MaxOperations \in Nat /\ CheckEvery \in Nat \ {0} /\ MaxReads \in Nat \ {0}
  /\ RingMayFail \in BOOLEAN
ASSUME ResultAssumption ==
  /\ Results \subseteq {"full", "short", "error"}
  /\ None \notin {"late", "full", "short", "error", "fatal", "busy"}

VARIABLES
  conf,      \* operations, warm-up, limit and backend
  mpc,       \* what main does next
  stage,     \* the phase whose commands main sends or waits for
  sent,      \* how many of them it has sent
  complete,  \* the WaitGroup
  status,    \* the result's status
  ring,      \* "none" (blocking backend), "open", "failed" or "closed"
  closeErr,  \* the error of ring.Close
  wpc,       \* what each worker does next
  cmd,       \* its command's operations, 0 for one with a deadline
  late,      \* whether that deadline has passed
  n,         \* execute's n: operations done of this command
  res,       \* the result of its last read, or "late" instead of one
  got,       \* acquire's n: current after its own increment
  old,       \* acquire's old: the peak it has seen
  operations, err,   \* the worker's fields
  bad,       \* whether a measured read was not full (nothing in the code reads this)
  sem, current, peak \* the limiter

mainVars == <<mpc, stage, sent, status>>
ringVars == <<ring, closeErr>>
taskVars == <<cmd, late, n>>
fieldVars == <<operations, err, bad>>
limVars == <<got, old, sem, current, peak>>
vars == <<conf, mainVars, complete, ringVars, wpc, taskVars, res, fieldVars, limVars>>

Configs == [operations : 0 .. MaxOperations, warmup : BOOLEAN,
            limit : 1 .. Concurrency, uring : BOOLEAN]

All(v) == [w \in Workers |-> v]

Init ==
  /\ conf \in Configs
  /\ mpc = "ready" /\ stage = "none" /\ sent = 0 /\ complete = 0 /\ status = "none"
  /\ ring = (IF conf.uring THEN "open" ELSE "none") /\ closeErr = None
  /\ wpc = All("start") /\ cmd = All(0) /\ late = All(FALSE) /\ n = All(0)
  /\ res = All("late") /\ operations = All(0) /\ err = All(None) /\ bad = FALSE
  /\ got = All(0) /\ old = All(0) /\ sem = 0 /\ current = 0 /\ peak = 0

-----------------------------------------------------------------------------
(* The worker: run and execute. *)

Goto(w, pc) == wpc' = [wpc EXCEPT ![w] = pc]
At(w, from, to) == wpc[w] = from /\ Goto(w, to)

\* ready.Done().
Ready(w) ==
  /\ At(w, "start", "idle")
  /\ UNCHANGED <<conf, mainVars, complete, ringVars, taskVars, res, fieldVars, limVars>>

\* The head of execute's loop.
Exhausted(w) ==
  IF cmd[w] > 0 THEN n[w] >= cmd[w] ELSE n[w] % CheckEvery = 0 /\ late[w]

Check(w) ==
  /\ cmd[w] = 0 => late[w] \/ n[w] < MaxReads
  /\ At(w, "check", IF Exhausted(w) THEN "done" ELSE "acquire")
  /\ UNCHANGED <<conf, mainVars, complete, ringVars, taskVars, res, fieldVars, limVars>>

\* acquire: a permit, then current, then the loop that raises peak.
Acquire(w) ==
  /\ At(w, "acquire", "count")
  /\ sem < conf.limit /\ sem' = sem + 1
  /\ UNCHANGED <<conf, mainVars, complete, ringVars, taskVars, res, fieldVars,
                 got, old, current, peak>>

Count(w) ==
  /\ At(w, "count", "load")
  /\ current' = current + 1 /\ got' = [got EXCEPT ![w] = current + 1]
  /\ UNCHANGED <<conf, mainVars, complete, ringVars, taskVars, res, fieldVars,
                 old, sem, peak>>

LoadPeak(w) ==
  /\ At(w, "load", IF got[w] <= peak THEN "recheck" ELSE "cas")
  /\ old' = [old EXCEPT ![w] = peak]
  /\ UNCHANGED <<conf, mainVars, complete, ringVars, taskVars, res, fieldVars,
                 got, sem, current, peak>>

StoreSucceeds(w) == TRUE
SwapSucceeds(w) == peak = old[w]

SwapPeak(w) ==
  /\ At(w, "cas", IF SwapSucceeds(w) THEN "recheck" ELSE "load")
  /\ peak' = IF SwapSucceeds(w) THEN got[w] ELSE peak
  /\ UNCHANGED <<conf, mainVars, complete, ringVars, taskVars, res, fieldVars,
                 got, old, sem, current>>

\* The second look at the clock.
Recheck(w) ==
  /\ IF cmd[w] = 0 /\ late[w]
     THEN At(w, "recheck", "release") /\ res' = [res EXCEPT ![w] = "late"]
     ELSE At(w, "recheck", "read") /\ UNCHANGED res
  /\ UNCHANGED <<conf, mainVars, complete, ringVars, taskVars, fieldVars, limVars>>

\* A ring that has failed refuses new reads; those it holds may never return.
Read(w) ==
  /\ At(w, "read", IF ring \in {"failed", "closed"} THEN "release" ELSE "reading")
  /\ res' = IF ring \in {"failed", "closed"} THEN [res EXCEPT ![w] = "error"] ELSE res
  /\ UNCHANGED <<conf, mainVars, complete, ringVars, taskVars, fieldVars, limVars>>

ReadReturns(w) ==
  /\ At(w, "reading", "release")
  /\ \E r \in Results : res' = [res EXCEPT ![w] = r]
  /\ UNCHANGED <<conf, mainVars, complete, ringVars, taskVars, fieldVars, limVars>>

\* release gives these back one after the other.
PermitKept == [release |-> "current", release2 |-> "none"]
PermitFirst == [release |-> "sem", release2 |-> "current"]
Releases == [release |-> "current", release2 |-> "sem"]

GiveBack(what) ==
  /\ sem' = IF what = "sem" THEN sem - 1 ELSE sem
  /\ current' = IF what = "current" THEN current - 1 ELSE current
  /\ UNCHANGED peak

Release(w) ==
  /\ At(w, "release", "release2") /\ GiveBack(Releases.release)
  /\ got' = [got EXCEPT ![w] = 0] /\ old' = [old EXCEPT ![w] = 0]
  /\ UNCHANGED <<conf, mainVars, complete, ringVars, taskVars, res, fieldVars>>

\* The rest of release, and what execute does with the result.
Finish(w) ==
  /\ At(w, "release2", IF res[w] = "full" THEN "check" ELSE "done")
  /\ GiveBack(Releases.release2) /\ res' = [res EXCEPT ![w] = "late"]
  /\ IF res[w] = "full"
     THEN /\ operations' = [operations EXCEPT ![w] = @ + 1]
          /\ n' = [n EXCEPT ![w] = @ + 1] /\ UNCHANGED <<err, bad>>
     ELSE /\ err' = [err EXCEPT ![w] = IF res[w] = "late" THEN @ ELSE res[w]]
          /\ bad' = (bad \/ (stage = "measure" /\ res[w] # "late"))
          /\ UNCHANGED <<operations, n>>
  /\ UNCHANGED <<conf, mainVars, complete, ringVars, cmd, late, got, old>>

\* done.Done().
Done(w) ==
  /\ At(w, "done", "idle") /\ complete' = complete - 1
  /\ cmd' = [cmd EXCEPT ![w] = 0] /\ late' = [late EXCEPT ![w] = FALSE]
  /\ n' = [n EXCEPT ![w] = 0]
  /\ UNCHANGED <<conf, mainVars, ringVars, res, fieldVars, limVars>>

Worker(w) ==
  \/ Ready(w) \/ Check(w) \/ Acquire(w) \/ Count(w) \/ LoadPeak(w) \/ SwapPeak(w)
  \/ Recheck(w) \/ Read(w) \/ ReadReturns(w) \/ Release(w) \/ Finish(w) \/ Done(w)

\* Time passes.
Deadline(w) ==
  /\ wpc[w] \notin {"start", "idle", "done", "ended"} /\ cmd[w] = 0 /\ ~late[w]
  /\ late' = [late EXCEPT ![w] = TRUE]
  /\ UNCHANGED <<conf, mainVars, complete, ringVars, wpc, cmd, n, res, fieldVars, limVars>>

\* The completer ends on an error of io_uring_enter.
RingFails ==
  /\ RingMayFail /\ ring = "open" /\ ring' = "failed"
  /\ UNCHANGED <<conf, mainVars, complete, closeErr, wpc, taskVars, res, fieldVars, limVars>>

-----------------------------------------------------------------------------
(* Main: runChild. *)

\* The i-th worker's part of c.Operations, for i from 0.
RoundedDown(i) == conf.operations \div Concurrency
Share(i) ==
  conf.operations \div Concurrency + IF i < conf.operations % Concurrency THEN 1 ELSE 0

\* A command without operations has a deadline; the zero time, which one with a
\* share of 0 has, is past.
DeadlinePast == stage = "measure" /\ conf.operations > 0
CommandOps == IF stage = "measure" THEN Share(sent) ELSE 0

Begin(next) == stage' = next /\ sent' = 0 /\ mpc' = "send"

\* ready.Wait(); without a warm-up, on to the reset.
MainReady ==
  /\ mpc = "ready" /\ \A w \in Workers : wpc[w] # "start"
  /\ IF conf.warmup
     THEN Begin("warm") /\ complete' = complete + Concurrency
     ELSE mpc' = "reset" /\ UNCHANGED <<stage, sent, complete>>
  /\ UNCHANGED <<conf, status, ringVars, wpc, taskVars, res, fieldVars, limVars>>

\* Main and worker w meet on the channel.
Send(w) ==
  /\ mpc = "send" /\ wpc[w] = "idle"
  /\ sent' = sent + 1
  /\ mpc' = IF sent + 1 < Concurrency THEN "send" ELSE IF stage = "stop" THEN "close" ELSE "wait"
  /\ Goto(w, IF stage = "stop" THEN "ended" ELSE "check")
  /\ cmd' = [cmd EXCEPT ![w] = CommandOps]
  /\ late' = [late EXCEPT ![w] = DeadlinePast] /\ n' = [n EXCEPT ![w] = 0]
  /\ UNCHANGED <<conf, stage, status, complete, ringVars, res, fieldVars, limVars>>

\* complete.Wait().
AnyDone == complete < Concurrency
AllDone == complete = 0

Wait ==
  /\ mpc = "wait" /\ AllDone
  /\ IF stage = "warm" THEN mpc' = "reset" /\ UNCHANGED <<stage, sent>> ELSE Begin("stop")
  /\ UNCHANGED <<conf, status, complete, ringVars, wpc, taskVars, res, fieldVars, limVars>>

\* The fields are cleared, and the measurement begins.
Reset ==
  /\ mpc = "reset" /\ operations' = All(0) /\ err' = All(None)
  /\ Begin("measure") /\ complete' = complete + Concurrency
  /\ UNCHANGED <<conf, status, ringVars, wpc, taskVars, res, bad, limVars>>

\* ring.Close, as ReadService has it.
Close ==
  /\ mpc = "close" /\ mpc' = "collect"
  /\ closeErr' = CASE ring = "failed" -> "fatal"
                   [] ring = "open" /\ (\E w \in Workers : wpc[w] = "reading") -> "busy"
                   [] OTHER -> None
  /\ ring' = IF ring = "open" /\ closeErr' = None THEN "closed" ELSE ring
  /\ UNCHANGED <<conf, stage, sent, status, complete, wpc, taskVars, res, fieldVars, limVars>>

\* The result: the workers' errors, then checkURingReconciliation.
CleanWithoutClose == \A w \in Workers : err[w] = None
Clean == (\A w \in Workers : err[w] = None) /\ closeErr = None

Collect ==
  /\ mpc = "collect" /\ mpc' = "end"
  /\ status' = IF Clean THEN "ok" ELSE "failed"
  /\ UNCHANGED <<conf, stage, sent, complete, ringVars, wpc, taskVars, res, fieldVars, limVars>>

Main == MainReady \/ (\E w \in Workers : Send(w)) \/ Wait \/ Reset \/ Close \/ Collect

Ended == mpc = "end" /\ (\A w \in Workers : wpc[w] = "ended")

Next ==
  \/ Main \/ (\E w \in Workers : Worker(w) \/ Deadline(w)) \/ RingFails
  \/ Ended /\ UNCHANGED vars

\* Goroutines run, time passes, and a ring that has not failed answers.
Fairness ==
  /\ WF_vars(Main)
  /\ \A w \in Workers : /\ WF_vars(Worker(w) /\ ~(wpc[w] = "reading" /\ ring = "failed"))
                        /\ WF_vars(Deadline(w))

Spec == Init /\ [][Next]_vars
FairSpec == Spec /\ Fairness

-----------------------------------------------------------------------------
(* Properties. *)

Active == {"count", "load", "cas", "recheck", "read", "reading", "release", "release2"}
AtWork(w) == wpc[w] \in {"check", "acquire", "done"} \cup Active

\* A sum over the workers: the units of each, counted together.
Units(f) == UNION {{w} \X (1 .. f[w]) : w \in Workers}
Total == Cardinality(Units(operations))

\* The types: where main and the workers are, their fields, and the limiter.
TypeOK ==
  /\ conf \in Configs
  /\ mpc \in {"ready", "send", "wait", "reset", "close", "collect", "end"}
  /\ stage \in {"none", "warm", "measure", "stop"}
  /\ sent \in 0 .. Concurrency /\ complete \in 0 .. Concurrency
  /\ status \in {"none", "ok", "failed"}
  /\ ring \in {"none", "open", "failed", "closed"} /\ closeErr \in {None, "fatal", "busy"}
  /\ wpc \in [Workers -> {"start", "idle", "check", "acquire", "done", "ended"} \cup Active]
  /\ cmd \in [Workers -> 0 .. MaxOperations] /\ late \in [Workers -> BOOLEAN]
  /\ n \in [Workers -> Nat] /\ res \in [Workers -> {"late", "full", "short", "error"}]
  /\ operations \in [Workers -> Nat] /\ err \in [Workers -> {None, "short", "error"}]
  /\ bad \in BOOLEAN
  /\ got \in [Workers -> 0 .. Concurrency] /\ old \in [Workers -> 0 .. Concurrency]
  /\ sem \in 0 .. conf.limit /\ current \in 0 .. Concurrency /\ peak \in 0 .. Concurrency

\* "outstandingLimiter bounds active blocking syscalls": no more reads are in
\* progress than were configured, and the peak that is reported never says more.
LimitHolds ==
  /\ Cardinality({w \in Workers : wpc[w] = "reading"}) <= conf.limit
  /\ current <= conf.limit /\ peak <= conf.limit

\* Nor does the reported peak ever say less than the reads that are in progress,
\* however the increments and the loops of acquire interleave.
PeakIsNotMissed == Cardinality({w \in Workers : wpc[w] = "reading"}) <= peak

\* While main touches the workers' fields, closes the ring and takes the results
\* no worker has work or a permit, so that Close never finds a read in progress.
MainIsAlone ==
  mpc \in {"reset", "close", "collect", "end"} =>
    /\ \A w \in Workers : ~AtWork(w)
    /\ sem = 0 /\ current = 0 /\ complete = 0 /\ closeErr # "busy"

\* With fixed operations just these are counted, whichever workers take the
\* commands and however many were done in the warm-up, unless a read failed.
WorkIsExact ==
  conf.operations > 0 /\ stage # "none" =>
    /\ stage \in {"measure", "stop"} => Total <= conf.operations
    /\ mpc = "end" /\ (\A w \in Workers : err[w] = None) => Total = conf.operations

\* A result says ok only if every measured read was full, whichever worker made
\* it and whatever it did next, and the ring has been closed.
OkIsEarned == status = "ok" => ~bad /\ (conf.uring => ring = "closed")

\* Every run ends, main and all workers, unless a ring that failed kept a read.
RunEnds ==
  \/ <>Ended
  \/ <>[](ring = "failed" /\ \E w \in Workers : wpc[w] = "reading")
=============================================================================
