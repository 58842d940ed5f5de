------------------------------ MODULE Campaign ------------------------------
(***************************************************************************)
(* A measured run from its flags to the verdict on it: validate, runChild    *)
(* with the ring's setup, the result, and the gates of phase6check that      *)
(* decide whether it counts as a run of a mode of phase 6, 7 or 8.  A gate   *)
(* may be given any result, that of another mode too.                        *)
(***************************************************************************)
EXTENDS Integers

CONSTANTS
  MaxLimit, None,
  Word,        \* uint32 counts modulo Word (2^32 in the code)
  Outstanding, \* the campaigns' limit of reads in progress (1000)
  WorkerMax,   \* the explicit worker modes, U1, U2 ...: name -> limit
  Configs      \* the flags that runs are started with

ExplicitModes == DOMAIN WorkerMax
Modes == {"blocking", "normal", "default"} \cup ExplicitModes
Kinds == {"bounded", "unbounded"}

\* What a flag for worker limits may be; unset, it has the value -1.
Unset == [set |-> FALSE, value |-> -1]
WorkerFlags == {Unset} \cup [set : {TRUE}, value : -1 .. MaxLimit]

\* Of the flags: outstanding is maxOutstanding of runChild, -concurrency unless
\* -max-outstanding is given; owned tells whether the file is under data/.  What is
\* not listed is rest: what phase 7 asks for, what phase 8 asks for but not phase 7
\* (another size of the file, Go version or GOMAXPROCS), neither, or invalid.
AllConfigs ==
  [backend : {"blocking", "uring"}, outstanding : Nat, forceAsync : BOOLEAN,
   lock : BOOLEAN, record : BOOLEAN, workers : [Kinds -> WorkerFlags],
   cache : {"none", "prewarm", "dontneed"}, allow : BOOLEAN, owned : BOOLEAN,
   rest : {"phase7", "phase8", "other", "invalid"}]

ASSUME CampaignAssumption ==
  /\ WorkerMax \in [ExplicitModes -> 1 .. MaxLimit]
  /\ \A m, n \in ExplicitModes : WorkerMax[m] = WorkerMax[n] => m = n
  /\ ExplicitModes \cap {"blocking", "normal", "default"} = {}
  /\ Configs \subseteq AllConfigs
  /\ Word \in Nat \ {0} /\ Outstanding \in 1 .. Word - 1

VARIABLES
  entries, force, request, pc, error, fd, single, ring, mapped, stray, limits,
  config,      \* the variables of RingSetup
  c,           \* the flags
  stage,       \* where the run is
  dataset,     \* what was done to the page cache, and what mincore saw
  errors,      \* whether a worker had an error
  reconciled,  \* whether Close succeeded and the counters agree
  status       \* the status of the result, failed until it is ok

setupVars == <<entries, force, request, pc, error, fd, single, ring, mapped, stray, limits, config>>
runVars == <<dataset, errors, reconciled, status>>
vars == <<setupVars, c, stage, runVars>>

Setup == INSTANCE RingSetup

\* The constants are such as RingSetup asks for.
ASSUME LimitAssumption ==
  /\ MaxLimit \in Nat \ {0}
  /\ None \notin Nat \cup Setup!Parts \cup Setup!Limits
               \cup {"options", "setup", "mmap", "query", "set", "verify", "post"}

\* Residency as mincore shows it.
Residency == {"all", "some", "unavailable"}

\* boundedWorkerOption and unboundedWorkerOption.
Option(flag) == IF flag.set /\ flag.value >= 1 THEN flag.value ELSE None

\* uint32(maxOutstanding), as far as NewWithOptions goes by it: zero or not.
EntriesOf(n) == IF n % Word = 0 THEN 0 ELSE 1

Init ==
  /\ c \in Configs /\ stage = "validate" /\ status = "failed"
  /\ dataset = [warmed |-> None, advice |-> None, before |-> None]
  /\ errors = FALSE /\ reconciled = FALSE
  /\ Setup!Init /\ entries = EntriesOf(c.outstanding) /\ force = c.forceAsync
  /\ request = [k \in Kinds |-> Option(c.workers[k])]
  /\ \A k \in Kinds : limits[k] > 0

-----------------------------------------------------------------------------
(* The harness. *)

ValidWithoutForce ==
  /\ c.rest # "invalid" /\ c.outstanding > 0
  /\ c.forceAsync \/ c.lock \/ c.record => c.backend = "uring"
  /\ \A k \in Kinds : c.workers[k].value >= 1 => c.backend = "uring"
  /\ c.cache = "dontneed" => c.allow
Valid ==
  /\ c.rest # "invalid" /\ c.outstanding > 0
  /\ c.forceAsync \/ c.lock \/ c.record => c.backend = "uring"
  /\ \A k \in Kinds : c.workers[k].set =>
       /\ c.workers[k].value # 0
       /\ c.workers[k].value >= 1 => c.backend = "uring" /\ c.forceAsync
  /\ c.cache = "dontneed" => c.allow

Validate ==
  /\ stage = "validate"
  /\ stage' = IF Valid THEN "open" ELSE "emitted"
  /\ UNCHANGED <<setupVars, c, runVars>>

\* DONTNEED is refused for a file that is not the experiment's own, and may fail.
AdviceGiven == IF c.owned THEN {"done", "error"} ELSE {"refused"}

\* The file is opened, and the cache brought into the state asked for.
Open ==
  /\ stage = "open"
  /\ \/ stage' = "emitted" /\ UNCHANGED dataset
     \/ /\ stage' = IF c.backend = "uring" THEN "setup" ELSE "measure"
        /\ \E warmed \in IF c.cache = "prewarm" THEN Residency ELSE {None} :
           \E advice \in IF c.cache = "dontneed" THEN AdviceGiven ELSE {None} :
             dataset' = [dataset EXCEPT !.warmed = warmed, !.advice = advice]
  /\ UNCHANGED <<setupVars, c, errors, reconciled, status>>

\* NewWithOptions, step by step.
NewRing ==
  /\ stage = "setup" /\ pc \notin {"running", "failed"} /\ Setup!Next
  /\ UNCHANGED <<c, stage, runVars>>

RingIsNew ==
  /\ stage = "setup" /\ pc \in {"running", "failed"}
  /\ stage' = IF pc = "running" THEN "measure" ELSE "emitted"
  /\ UNCHANGED <<setupVars, c, runVars>>

\* mincore once more, then the workers.
Measure ==
  /\ stage = "measure" /\ stage' = "close"
  /\ \E r \in Residency : dataset' = [dataset EXCEPT !.before = r]
  /\ errors' \in BOOLEAN
  /\ UNCHANGED <<setupVars, c, reconciled, status>>

\* Close, the counters, and the status.
Finish ==
  /\ stage = "close" /\ stage' = "emitted"
  /\ IF c.backend = "uring"
     THEN \/ Setup!CloseRing /\ reconciled' \in BOOLEAN
          \/ UNCHANGED setupVars /\ reconciled' = FALSE
     ELSE UNCHANGED <<setupVars, reconciled>>
  /\ status' = IF errors \/ (c.backend = "uring" /\ ~reconciled') THEN "failed" ELSE "ok"
  /\ UNCHANGED <<c, dataset, errors>>

\* runObserved reports a failure when the child dies or its result is unreadable.
ChildDies ==
  /\ stage \in {"open", "setup", "measure", "close"} /\ stage' = "emitted"
  /\ UNCHANGED <<setupVars, c, runVars>>

Next ==
  \/ Validate \/ Open \/ NewRing \/ RingIsNew \/ Measure \/ Finish \/ ChildDies
  \/ stage = "emitted" /\ UNCHANGED vars

Spec == Init /\ [][Next]_vars

-----------------------------------------------------------------------------
(* The gates, on the result. *)

HasRing == c.backend = "uring"
Explicit(mode) == mode \in ExplicitModes
ForcedIfExplicit(mode) == Explicit(mode)
Forced(mode) == Explicit(mode) \/ mode = "default"

ConfigIs(mode) ==
  /\ c.rest \in {"phase7", "phase8"} /\ c.outstanding = Outstanding /\ ~c.record
  /\ ~c.workers["bounded"].set
  /\ c.backend = (IF mode = "blocking" THEN "blocking" ELSE "uring")
  /\ c.forceAsync = Forced(mode) /\ c.lock = Forced(mode)
  /\ c.workers["unbounded"].set = Explicit(mode)
  /\ Explicit(mode) => c.workers["unbounded"].value = WorkerMax[mode]

\* What the ring reports of its worker limits.
AttemptedWhenForced(mode) == config.attempted = Forced(mode)
AttemptedWhenAsked(mode) == config.attempted = Explicit(mode)

WorkersAre(mode) ==
  /\ config.failed = None /\ config.supported
  /\ request["bounded"] = None /\ (request["unbounded"] # None) = Explicit(mode)
  /\ AttemptedWhenAsked(mode)
  /\ Explicit(mode) =>
       /\ config.requested["unbounded"] = WorkerMax[mode]
       /\ config.post["unbounded"] = WorkerMax[mode]
       /\ config.requested["bounded"] = config.previous["bounded"]
       /\ config.post["bounded"] = config.previous["bounded"]

\* Prewarmed, and all of it resident then and when the measurement began.
Resident == dataset.warmed = "all" /\ dataset.before = "all"

IgnoresAdvice == c.cache = "dontneed"
Dropped == c.cache = "dontneed" /\ dataset.advice = "done"

Counted == HasRing => reconciled

\* requireWorkerLimit.
LimitIs(k, n) == request[k] # None /\ config.requested[k] = n /\ config.post[k] = n

Phase6Accepts(expect) ==
  /\ status = "ok" /\ Resident /\ Counted
  /\ \A k \in Kinds : expect[k] # None => HasRing /\ LimitIs(k, expect[k])

Phase7Accepts(mode) ==
  /\ status = "ok" /\ ConfigIs(mode) /\ c.rest = "phase7"
  /\ c.cache = "prewarm" /\ Resident /\ Counted
  /\ HasRing => WorkersAre(mode) /\ \A k \in Kinds : config.previous[k] > 0

Phase8Accepts(part, mode) ==
  /\ part = "slow" => mode \in {"blocking", "normal"}
  /\ status = "ok" /\ ConfigIs(mode) /\ Counted
  /\ IF part = "slow" THEN Dropped ELSE c.cache = "prewarm" /\ Resident
  /\ HasRing => WorkersAre(mode)

\* The flags with which the script for phase 8 starts a run of a mode, on a host and a
\* file that may also be those of phase 7.
Command(part, mode, rest) ==
  [backend |-> IF mode = "blocking" THEN "blocking" ELSE "uring",
   outstanding |-> Outstanding,
   forceAsync |-> mode \notin {"blocking", "normal"},
   lock |-> mode \notin {"blocking", "normal"}, record |-> FALSE,
   workers |-> [k \in Kinds |-> IF k = "unbounded" /\ Explicit(mode)
                                THEN [set |-> TRUE, value |-> WorkerMax[mode]] ELSE Unset],
   cache |-> IF part = "slow" THEN "dontneed" ELSE "prewarm",
   allow |-> part = "slow", owned |-> TRUE, rest |-> rest]

Parts == {"slow", "resident"}
Plans == {p \in Parts \X Modes : p[1] = "slow" => p[2] \in {"blocking", "normal"}}
Expectations == [Kinds -> {None} \cup 1 .. MaxLimit]

-----------------------------------------------------------------------------
(* Properties. *)

\* The types: the ring's, and those of the run.
TypeOK ==
  /\ Setup!TypeOK /\ \A k \in Kinds : request[k] # None => request[k] > 0
  /\ c \in AllConfigs /\ errors \in BOOLEAN /\ reconciled \in BOOLEAN
  /\ stage \in {"validate", "open", "setup", "measure", "close", "emitted"}
  /\ dataset \in [warmed : Residency \cup {None}, before : Residency \cup {None},
                  advice : {None, "done", "error", "refused"}]
  /\ status \in {"ok", "failed"}

\* Of what validate lets through, NewWithOptions turns down for its options only a
\* limit of reads in progress that does not fit uint32 and is converted to zero.
RefusedOnlyIfLost ==
  error = "options" => c.outstanding >= Word /\ c.outstanding % Word = 0

\* The worker limits the kernel has in force are the mode's: those before the
\* run except for an explicit limit on unbounded workers.
LimitsAre(mode) ==
  limits = IF Explicit(mode) THEN [config.previous EXCEPT !["unbounded"] = WorkerMax[mode]]
           ELSE config.previous

\* A run that a gate of phase 7 or 8 lets through was a run of that mode: the
\* backend, the forcing of workers, the limits in force in the kernel (not only
\* in the record), the page cache, a ring closed and counters reconciled; and one
\* that phase 6 lets through with expected limits ran with these in force.
GateIsSound ==
  /\ \A p \in Plans :
       LET mode == p[2] IN
       Phase8Accepts(p[1], mode) \/ (p[1] = "resident" /\ Phase7Accepts(mode)) =>
         /\ c.forceAsync = (mode \notin {"blocking", "normal"}) /\ ~errors
         /\ HasRing <=> mode # "blocking"
         /\ HasRing => LimitsAre(mode) /\ reconciled /\ pc = "closed" /\ mapped = {}
         /\ IF p[1] = "slow" THEN dataset.advice = "done" ELSE dataset.before = "all"
  /\ \A expect \in Expectations : Phase6Accepts(expect) =>
       \A k \in Kinds : expect[k] # None => limits[k] = expect[k]

\* No result can be taken for a run of two modes, or of both parts.
ModesAreDistinct ==
  \A p, q \in Plans : Phase8Accepts(p[1], p[2]) /\ Phase8Accepts(q[1], q[2]) => p = q

\* What the script starts as a run of a mode, if it ended well, the cache was as
\* wanted and the kernel tells its worker limits, passes that mode's gate of phase 8,
\* and that of phase 7 if it is resident, on the host and the file of phase 7.
GateIsFair ==
  \A p \in Plans :
    /\ c.rest \in {"phase7", "phase8"} /\ c = Command(p[1], p[2], c.rest) /\ status = "ok" /\ (HasRing => config.supported)
    /\ IF p[1] = "slow" THEN dataset.advice = "done" ELSE Resident
    => /\ Phase8Accepts(p[1], p[2])
       /\ p[1] = "resident" /\ c.rest = "phase7" => Phase7Accepts(p[2])
=============================================================================
