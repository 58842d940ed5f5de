------------------------------ MODULE Observer ------------------------------
(***************************************************************************)
(* runObserved and what it observes.  The parent starts a child that does    *)
(* the work, samples the child's threads in /proc every time a ticker fires, *)
(* and waits for the child and its output; the child samples its own threads *)
(* while it measures, writes its result to a pipe and exits.                 *)
(*                                                                         *)
(* The numbers of threads, in /proc and in the runtime's metrics, are one    *)
(* gauge here.  The output comes in two parts, of which the pipe holds one.  *)
(***************************************************************************)
EXTENDS Integers

CONSTANTS
  None,
  MaxThreads,  \* bound: the child's threads
  MaxSamples   \* bound: the samples either side takes

ASSUME BoundsAssumption ==
  /\ MaxThreads \in Nat \ {0} /\ MaxSamples \in Nat
ASSUME NoneAssumption == None \notin {"ok", "error"}

VARIABLES
  child,     \* "running", "zombie" or "reaped"
  exit,      \* how it ended
  pid,       \* whose the process ID is
  threads,   \* the child's threads now
  most,      \* the most it ever had, and the most since it began to measure
  cpc,       \* what its main goroutine does next
  stop,      \* whether stopSampler is closed
  sampler,   \* the goroutine of samplePeaks
  seen,      \* its snapshot
  samples,   \* how many it has taken
  peak,      \* r.Runtime.Peak
  written,   \* what the child has written of its result
  out,       \* the buffer into which the parent copies it
  waiter,    \* the goroutine that waits for the child
  done,      \* the channel it sends to
  tick,      \* whether a tick is in the ticker's channel
  loop,      \* what the loop of runObserved does next
  obs,       \* its observer
  report     \* the result it returns

gaugeVars == <<threads, most>>
samplerVars == <<sampler, seen, samples, peak>>
childVars == <<child, exit, pid, cpc, stop, written>>
parentVars == <<out, waiter, done, tick, loop, obs, report>>
vars == <<gaugeVars, samplerVars, childVars, parentVars>>

Init ==
  /\ child = "running" /\ exit = None /\ pid = "child" /\ cpc = "prepare"
  /\ threads = 1 /\ most = [ever |-> 1, measured |-> 0]
  /\ stop = FALSE /\ sampler = "none" /\ seen = 0 /\ samples = 0 /\ peak = 0
  /\ written = "none" /\ out = "none" /\ waiter = "process" /\ done = None
  /\ tick = FALSE /\ loop = "select" /\ report = None
  /\ obs = [samples |-> 0, threads |-> 0]

Larger(a, b) == IF a > b THEN a ELSE b

-----------------------------------------------------------------------------
(* The child: runChild as far as the samples and the result go. *)

Running == child = "running"
Measuring == cpc \in {"measure", "join", "hung"}

\* Threads come and go.
ThreadsChange ==
  /\ Running /\ \E t \in (1 .. MaxThreads) \cap {threads - 1, threads + 1} :
       /\ threads' = t
       /\ most' = [ever |-> Larger(t, most.ever),
                   measured |-> IF Measuring THEN Larger(t, most.measured) ELSE most.measured]
  /\ UNCHANGED <<samplerVars, childVars, parentVars>>

ChildStep(from, to) == Running /\ cpc = from /\ cpc' = to

\* The sampler starts with the measurement, unless the interval is zero.
Begin ==
  /\ ChildStep("prepare", "measure")
  /\ sampler' \in {"select", "ended"} /\ most' = [most EXCEPT !.measured = threads]
  /\ UNCHANGED <<threads, seen, samples, peak, child, exit, pid, stop, written, parentVars>>

\* A setup that fails is a result too.
FailEarly ==
  /\ ChildStep("prepare", "emit")
  /\ UNCHANGED <<gaugeVars, samplerVars, child, exit, pid, stop, written, parentVars>>

LeftOpen == UNCHANGED stop
Closed == stop' = TRUE

\* close(stopSampler).
StopSampler ==
  /\ ChildStep("measure", "join") /\ Closed
  /\ UNCHANGED <<gaugeVars, samplerVars, child, exit, pid, written, parentVars>>

NotWaitedFor == TRUE
Joined == sampler = "ended"

\* samplerWG.Wait.
Join ==
  /\ ChildStep("join", "emit") /\ Joined
  /\ UNCHANGED <<gaugeVars, samplerVars, child, exit, pid, stop, written, parentVars>>

\* emit: the rest of the result fits into the pipe when the first part has left it.
Emit ==
  /\ Running /\ cpc = "emit" /\ UNCHANGED cpc
  /\ \/ written = "none" /\ written' = "part"
     \/ written = "part" /\ out = "part" /\ written' = "whole"
  /\ UNCHANGED <<gaugeVars, samplerVars, child, exit, pid, stop, parentVars>>

Exit ==
  /\ ChildStep("emit", "ended") /\ written = "whole"
  /\ child' = "zombie" /\ exit' = "ok"
  /\ UNCHANGED <<gaugeVars, samplerVars, pid, stop, written, parentVars>>

\* A panic or a signal.
Die ==
  /\ Running /\ child' = "zombie" /\ exit' = "error" /\ cpc' = "ended"
  /\ UNCHANGED <<gaugeVars, samplerVars, pid, stop, written, parentVars>>

\* A read that a failed ring has kept (see Harness).
Hang ==
  /\ ChildStep("measure", "hung")
  /\ UNCHANGED <<gaugeVars, samplerVars, child, exit, pid, stop, written, parentVars>>

\* samplePeaks: a snapshot, then the comparison with the peak; or the end.  If
\* both channels are ready, select takes either.
Snapshot ==
  /\ Running /\ sampler = "select" /\ samples < MaxSamples
  /\ sampler' = "compare" /\ seen' = threads /\ samples' = samples + 1
  /\ UNCHANGED <<gaugeVars, peak, childVars, parentVars>>

RaisePeak ==
  /\ Running /\ sampler = "compare" /\ sampler' = "select"
  /\ peak' = Larger(seen, peak) /\ seen' = 0
  /\ UNCHANGED <<gaugeVars, samples, childVars, parentVars>>

SamplerEnds ==
  /\ Running /\ sampler = "select" /\ stop /\ sampler' = "ended"
  /\ UNCHANGED <<gaugeVars, seen, samples, peak, childVars, parentVars>>

Child == Begin \/ FailEarly \/ StopSampler \/ Join \/ Emit \/ Exit
Sampler == RaisePeak \/ SamplerEnds

-----------------------------------------------------------------------------
(* os/exec: the output is copied as it comes; Wait reaps the child, then waits *)
(* for the copying. *)

Copy ==
  /\ out # written /\ out' = written
  /\ UNCHANGED <<gaugeVars, samplerVars, childVars, waiter, done, tick, loop, obs, report>>

Reap ==
  /\ waiter = "process" /\ child = "zombie"
  /\ waiter' = "output" /\ child' = "reaped" /\ pid' = "nobody"
  /\ UNCHANGED <<gaugeVars, samplerVars, exit, cpc, stop, written,
                 out, done, tick, loop, obs, report>>

SendDone ==
  /\ waiter = "output" /\ out = written /\ waiter' = "ended" /\ done' = exit
  /\ UNCHANGED <<gaugeVars, samplerVars, childVars, out, tick, loop, obs, report>>

\* The kernel gives the process ID to somebody else.
ReusePid ==
  /\ pid = "nobody" /\ pid' = "other"
  /\ UNCHANGED <<gaugeVars, samplerVars, child, exit, cpc, stop, written, parentVars>>

-----------------------------------------------------------------------------
(* runObserved. *)

\* A tick that finds the channel full is dropped.
Tick ==
  /\ loop # "reported" /\ ~tick /\ tick' = TRUE
  /\ UNCHANGED <<gaugeVars, samplerVars, childVars, out, waiter, done, loop, obs, report>>

TakeTick ==
  /\ loop = "select" /\ tick /\ obs.samples < MaxSamples
  /\ tick' = FALSE /\ loop' = "sample"
  /\ UNCHANGED <<gaugeVars, samplerVars, childVars, out, waiter, done, obs, report>>

\* readProcStatus: the threads of whoever has the process ID; none if nobody has.
StatusOfPid ==
  CASE pid = "child" -> {IF Running THEN threads ELSE 1}
    [] pid = "other" -> 1 .. MaxThreads
    [] OTHER -> {}

Sample ==
  /\ loop = "sample" /\ loop' = "select"
  /\ IF StatusOfPid = {} THEN UNCHANGED obs
     ELSE \E t \in StatusOfPid :
            obs' = [samples |-> obs.samples + 1, threads |-> Larger(t, obs.threads)]
  /\ UNCHANGED <<gaugeVars, samplerVars, childVars, out, waiter, done, tick, report>>

ExitIgnored == TRUE
ExitedWell == done = "ok"

TakeDone ==
  /\ loop = "select" /\ done # None /\ loop' = "reported"
  /\ report' = IF ExitedWell /\ out = "whole"
               THEN [status |-> "child's", threads |-> obs.threads, peak |-> peak]
               ELSE [status |-> "failed", threads |-> 0, peak |-> 0]
  /\ UNCHANGED <<gaugeVars, samplerVars, childVars, out, waiter, done, tick, obs>>

Parent == Copy \/ Reap \/ SendDone \/ Sample

Next ==
  \/ ThreadsChange \/ Child \/ Die \/ Hang \/ Snapshot \/ Sampler
  \/ Parent \/ ReusePid \/ Tick \/ TakeTick \/ TakeDone
  \/ loop = "reported" /\ UNCHANGED vars

Spec == Init /\ [][Next]_vars

\* The goroutines of both processes run; and select, which chooses at random
\* among the channels that are ready, does not pass one over for ever.
FairSpec ==
  /\ Spec /\ WF_vars(Child) /\ WF_vars(RaisePeak) /\ SF_vars(SamplerEnds)
  /\ WF_vars(Copy) /\ WF_vars(Reap) /\ WF_vars(SendDone) /\ WF_vars(Sample)
  /\ SF_vars(TakeDone)

-----------------------------------------------------------------------------
(* Properties. *)

\* The types: both processes, their samples, and the report.
TypeOK ==
  /\ child \in {"running", "zombie", "reaped"} /\ exit \in {None, "ok", "error"}
  /\ pid \in {"child", "nobody", "other"} /\ threads \in 1 .. MaxThreads
  /\ most \in [ever : 1 .. MaxThreads, measured : 0 .. MaxThreads]
  /\ cpc \in {"prepare", "measure", "join", "emit", "ended", "hung"} /\ stop \in BOOLEAN
  /\ sampler \in {"none", "select", "compare", "ended"}
  /\ {seen, peak} \subseteq 0 .. MaxThreads /\ samples \in 0 .. MaxSamples
  /\ {written, out} \subseteq {"none", "part", "whole"}
  /\ waiter \in {"process", "output", "ended"} /\ done \in {None, "ok", "error"}
  /\ tick \in BOOLEAN /\ loop \in {"select", "sample", "reported"}
  /\ obs \in [samples : 0 .. MaxSamples, threads : 0 .. MaxThreads]
  /\ report = None \/ report \in [status : {"child's", "failed"}, threads : 0 .. MaxThreads,
                                  peak : 0 .. MaxThreads]

\* "Peaks are sampled lower bounds": the child's own peak is at most the threads
\* it had while it measured, and the observer's at most what it ever had, as long
\* as the child is not reaped: then its process ID may be another's.
PeaksAreLowerBounds ==
  peak <= most.measured /\ (child # "reaped" => obs.threads <= most.ever)

\* The result is marshalled from a peak nobody writes any more.
PeakIsFinal == [][(cpc \in {"emit", "ended"}) => (peak' = peak)]_vars

\* What is reported as the child's result is the whole output of a child that
\* exited well, with its final peak; and the result of such a child is never lost.
\* Nothing of the child is left behind.
ReportIsTheChilds ==
  report # None =>
    /\ report.status = "child's" <=> exit = "ok"
    /\ report.status = "child's" => out = "whole" /\ report.peak = peak
    /\ child = "reaped" /\ waiter = "ended"

\* Every run is reported, however the ticks and the end of the child fall
\* together, unless the child hangs: nothing bounds the wait for it.
Reported == <>(report # None) \/ <>[](cpc = "hung")
=============================================================================
