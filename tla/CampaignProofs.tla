--------------------------- MODULE CampaignProofs ---------------------------
(***************************************************************************)
(* For every number of modes, limit and choice of flags: what a gate of the *)
(* campaign lets through was a run of its mode, no result passes for two,   *)
(* and a good run of a mode passes its gate.                                *)
(*                                                                         *)
(* The ring's part of a run is RingSetup, and its invariants are those of   *)
(* RingSetupProofs, cited by instantiation.                                 *)
(***************************************************************************)
EXTENDS Campaign, TLAPS

SetupProofs == INSTANCE RingSetupProofs

\* The types of what is not the ring's.
RunTypes ==
  /\ c \in AllConfigs /\ errors \in BOOLEAN /\ reconciled \in BOOLEAN
  /\ stage \in {"validate", "open", "setup", "measure", "close", "emitted"}
  /\ dataset \in [warmed : Residency \cup {None}, before : Residency \cup {None},
                  advice : {None, "done", "error", "refused"}]
  /\ status \in {"ok", "failed"}

\* The ring is made with the options of the flags, and these have been validated.
OptionsOK ==
  /\ entries = EntriesOf(c.outstanding) /\ force = c.forceAsync
  /\ request = [k \in Kinds |-> Option(c.workers[k])]
  /\ stage \in {"open", "setup", "measure", "close"} => Valid
  /\ stage \in {"validate", "open"} => pc = "check"
  /\ error = "options" => Valid /\ entries = 0

\* The kernel has a limit in force for each kind, and had one.
LimitsArePositive ==
  /\ \A k \in Kinds : limits[k] > 0
  /\ config.supported =>
       config.previous \in Setup!Limits /\ \A k \in Kinds : config.previous[k] > 0

\* The workers run on a ring that NewWithOptions has returned, and a result is
\* only ok when they had no error and that ring was closed and its counters agree.
EndOK ==
  /\ stage \in {"measure", "close"} /\ HasRing => pc = "running"
  /\ status = "ok" =>
       /\ stage = "emitted" /\ ~errors
       /\ HasRing => reconciled /\ pc = "closed" /\ mapped = {}
                     /\ (Setup!Requested => limits = Setup!Wanted)

\* The inductive invariant.
RunInv ==
  /\ SetupProofs!SetupInv /\ SetupProofs!RecordOK
  /\ RunTypes /\ OptionsOK /\ LimitsArePositive /\ EndOK

-----------------------------------------------------------------------------
(* RingSetup's actions and RingSetupProofs' are the same, and so its          *)
(* invariants hold here.                                                      *)

\* The definitions of the parts of an action, on both sides.
LEMMA SameSteps ==
  /\ Setup!CloseRing <=> SetupProofs!CloseRing
  /\ Setup!Next <=> SetupProofs!Next
<1> USE DEF Setup!inputVars, SetupProofs!inputVars, Setup!memVars, SetupProofs!memVars,
            Setup!vars, SetupProofs!vars, Setup!Kinds, SetupProofs!Kinds,
            Setup!Limits, SetupProofs!Limits, Setup!Parts, SetupProofs!Parts,
            Setup!Returns, SetupProofs!Returns, Setup!GoOn, SetupProofs!GoOn,
            Setup!GiveUp, SetupProofs!GiveUp, Setup!Unmap, SetupProofs!Unmap,
            Setup!Munmap, SetupProofs!Munmap, Setup!Unmaps, SetupProofs!Unmaps,
            Setup!Requested, SetupProofs!Requested, Setup!Wanted, SetupProofs!Wanted
<1>1. Setup!CheckOptions <=> SetupProofs!CheckOptions
  BY Zenon DEF Setup!CheckOptions, SetupProofs!CheckOptions, Setup!ValidOptions, SetupProofs!ValidOptions
<1>2. Setup!Setup <=> SetupProofs!Setup
  BY Zenon DEF Setup!Setup, SetupProofs!Setup
<1>3. Setup!MapSq <=> SetupProofs!MapSq
  BY Zenon DEF Setup!MapSq, SetupProofs!MapSq
<1>4. Setup!MapCq <=> SetupProofs!MapCq
  BY Zenon DEF Setup!MapCq, SetupProofs!MapCq, Setup!FirstMapping, SetupProofs!FirstMapping
<1>5. Setup!MapSqes <=> SetupProofs!MapSqes
  BY Zenon DEF Setup!MapSqes, SetupProofs!MapSqes
<1>6. Setup!Query <=> SetupProofs!Query
  BY Zenon DEF Setup!Query, SetupProofs!Query
<1>7. Setup!Set <=> SetupProofs!Set
  BY Zenon DEF Setup!Set, SetupProofs!Set, Setup!KernelSets, SetupProofs!KernelSets
<1>8. Setup!Verify <=> SetupProofs!Verify
  BY Zenon DEF Setup!Verify, SetupProofs!Verify, Setup!VerifiedLimits, SetupProofs!VerifiedLimits
<1>9. Setup!Start <=> SetupProofs!Start
  BY Zenon DEF Setup!Start, SetupProofs!Start
<1>10. Setup!CloseRing <=> SetupProofs!CloseRing
  BY Zenon DEF Setup!CloseRing, SetupProofs!CloseRing
<1>11. Setup!Ended <=> SetupProofs!Ended
  BY Zenon DEF Setup!Ended, SetupProofs!Ended
<1> HIDE DEF Setup!Returns, SetupProofs!Returns
<1> QED
  BY <1>1, <1>2, <1>3, <1>4, <1>5, <1>6, <1>7, <1>8, <1>9, <1>10, <1>11, Zenon
  DEF Setup!Next, SetupProofs!Next

\* The constants are such as RingSetup asks for.
LEMMA SameConstants == SetupProofs!LimitAssumption
BY LimitAssumption
DEF SetupProofs!Parts, SetupProofs!Limits, SetupProofs!Kinds, Setup!Parts, Setup!Limits, Setup!Kinds

\* A step of NewWithOptions or the end of Close keeps the ring's invariants.
LEMMA RingStep ==
  ASSUME SetupProofs!SetupInv, SetupProofs!RecordOK, Setup!Next \/ UNCHANGED setupVars
  PROVE  SetupProofs!SetupInv' /\ SetupProofs!RecordOK'
<1>1. [SetupProofs!Next]_(SetupProofs!vars)
  BY SameSteps, Zenon DEF setupVars, SetupProofs!vars, SetupProofs!inputVars, SetupProofs!memVars
<1> QED  BY <1>1, SameConstants, SetupProofs!StepInv, SetupProofs!RecordStep, Zenon

-----------------------------------------------------------------------------
(* The invariant.                                                             *)

\* What was validated are options that NewWithOptions takes, if there are entries.
LEMMA ValidFits ==
  ASSUME RunTypes, OptionsOK, Valid, entries # 0
  PROVE  Setup!ValidOptions
<1>1. c.workers \in [Kinds -> WorkerFlags]
  BY DEF RunTypes, AllConfigs
<1>2. ASSUME NEW k \in Kinds, request[k] # None PROVE request[k] > 0 /\ force
  <2>1. request[k] = Option(c.workers[k])
    BY <1>2 DEF OptionsOK
  <2>2. c.workers[k].set /\ c.workers[k].value >= 1 /\ request[k] = c.workers[k].value
    BY <1>2, <2>1, Zenon DEF Option
  <2>3. c.forceAsync
    BY <2>2 DEF Valid
  <2>4. c.workers[k].value \in Int
    <3>1. c.workers[k] = Unset \/ c.workers[k] \in [set : {TRUE}, value : -1 .. MaxLimit]
      BY <1>1, Zenon DEF WorkerFlags
    <3>2. CASE c.workers[k] = Unset
      BY <3>2 DEF Unset
    <3>3. CASE c.workers[k] \in [set : {TRUE}, value : -1 .. MaxLimit]
      <4>1. c.workers[k].value \in -1 .. MaxLimit
        BY <3>3
      <4>2. MaxLimit \in Nat
        BY LimitAssumption
      <4> QED  BY <4>1, <4>2
    <3> QED  BY <3>1, <3>2, <3>3
  <2>5. force
    BY <2>3, Zenon DEF OptionsOK
  <2> QED  BY <2>2, <2>4, <2>5
<1>3. entries > 0
  BY DEF OptionsOK, EntriesOf
<1> QED  BY <1>2, <1>3, Zenon DEF Setup!ValidOptions, Setup!Kinds, Kinds

\* A step of NewWithOptions keeps what is known of its options and of the limits.
LEMMA NewKeepsOptions ==
  ASSUME RunInv, NewRing
  PROVE  OptionsOK' /\ LimitsArePositive'
<1>1. /\ Setup!Next /\ stage = "setup" /\ stage' = stage /\ c' = c /\ pc \notin {"running", "failed"}
      /\ SetupProofs!SetupInv /\ SetupProofs!RecordOK /\ Valid
      /\ (entries # 0 => Setup!ValidOptions)
  BY ValidFits DEF NewRing, RunInv, OptionsOK
<1>2. UNCHANGED <<entries, force, request>>
  BY <1>1, Zenon
  DEF Setup!Next, Setup!CheckOptions, Setup!Setup, Setup!MapSq, Setup!MapCq, Setup!MapSqes,
      Setup!Query, Setup!Set, Setup!Verify, Setup!Start, Setup!CloseRing, Setup!Ended,
      Setup!inputVars, Setup!vars
<1>3. error' = "options" => entries = 0
  BY <1>1
  DEF RunInv, OptionsOK,
      Setup!Next, Setup!CheckOptions, Setup!Setup, Setup!MapSq, Setup!MapCq, Setup!MapSqes,
      Setup!Query, Setup!Set, Setup!Verify, Setup!Start, Setup!CloseRing, Setup!Ended,
      Setup!Returns, Setup!GoOn, Setup!GiveUp, Setup!vars
<1>4. OptionsOK'
  BY <1>1, <1>2, <1>3 DEF RunInv, OptionsOK, Valid
<1>5. LimitsArePositive'
  <2>1. LimitsArePositive /\ limits \in Setup!Limits
    BY DEF RunInv, SetupProofs!SetupInv, SetupProofs!LimitsOK, SetupProofs!Limits,
           SetupProofs!Kinds, Setup!Limits, Setup!Kinds
  <2>2. CASE Setup!Query
    <3>1. limits' = limits
      BY <2>2 DEF Setup!Query
    <3>2. config = SetupProofs!NoConfig
      BY <1>1, <2>2 DEF Setup!Query, SetupProofs!RecordOK
    <3>3. \/ config' = [config EXCEPT !.supported = TRUE, !.previous = limits]
          \/ config' = [config EXCEPT !.failed = "query"]
      BY <2>2 DEF Setup!Query
    <3>4. (config'.supported = TRUE /\ config'.previous = limits) \/ config'.supported = FALSE
      BY <3>2, <3>3 DEF SetupProofs!NoConfig
    <3> QED  BY <2>1, <3>1, <3>4 DEF LimitsArePositive
  <2>3. CASE Setup!Set \/ Setup!Verify
    <3>1. config'.supported = config.supported /\ config'.previous = config.previous
      <4>1. config \in SetupProofs!ConfigType
        BY <1>1 DEF SetupProofs!SetupInv, SetupProofs!TypeOK, SetupProofs!ConfigType
      <4> QED  BY <2>3, <4>1 DEF Setup!Set, Setup!Verify, SetupProofs!ConfigType
    <3>2. ASSUME NEW k \in Kinds PROVE limits'[k] > 0
      <4>1. CASE Setup!Verify \/ limits' = limits
        BY <2>1, <4>1 DEF Setup!Verify, LimitsArePositive
      <4>2. CASE Setup!KernelSets(Setup!Wanted)
        <5>1. limits'[k] \in 1 .. Setup!Wanted[k] \/ limits'[k] = limits[k]
          BY <4>2 DEF Setup!KernelSets, Setup!Kinds, Kinds
        <5>2. limits' \in Setup!Limits
          BY <4>2 DEF Setup!KernelSets
        <5>3. limits'[k] \in 0 .. MaxLimit
          BY <5>2 DEF Setup!Limits, Setup!Kinds, Kinds
        <5>4. CASE limits'[k] \in 1 .. Setup!Wanted[k]
          BY <5>3, <5>4, LimitAssumption
        <5> QED  BY <2>1, <5>1, <5>4 DEF LimitsArePositive
      <4> QED  BY <2>3, <4>1, <4>2 DEF Setup!Set
    <3> QED  BY <2>1, <3>1, <3>2 DEF LimitsArePositive
  <2>4. CASE ~(Setup!Query \/ Setup!Set \/ Setup!Verify)
    <3>1. limits' = limits /\ config' = config
      BY <1>1, <2>4, Zenon
      DEF Setup!Next, Setup!CheckOptions, Setup!Setup, Setup!MapSq, Setup!MapCq, Setup!MapSqes,
          Setup!Start, Setup!CloseRing, Setup!Ended, Setup!vars
    <3> QED  BY <2>1, <3>1 DEF LimitsArePositive
  <2> QED  BY <2>2, <2>3, <2>4
<1> QED  BY <1>4, <1>5

\* A run begins with nothing of a ring.
LEMMA InitRun == Init => RunInv
<1> SUFFICES ASSUME Init PROVE RunInv
  OBVIOUS
<1>1. SetupProofs!SetupInv
  <2>1. SetupProofs!Init
    BY Zenon
    DEF Init, Setup!Init, SetupProofs!Init, Setup!NoConfig, SetupProofs!NoConfig,
        Setup!Kinds, SetupProofs!Kinds, Setup!Parts, SetupProofs!Parts, Setup!Limits, SetupProofs!Limits
  <2> QED  BY <2>1, SameConstants, SetupProofs!InitInv, Zenon
<1>2. pc = "check" /\ error = None /\ config = SetupProofs!NoConfig
  BY Zenon DEF Init, Setup!Init, Setup!NoConfig, SetupProofs!NoConfig
<1>3. SetupProofs!RecordOK
  BY <1>2 DEF SetupProofs!RecordOK
<1>4. RunTypes
  BY CampaignAssumption DEF Init, RunTypes
<1>5. OptionsOK
  <2>1. error # "options"
    BY <1>2, LimitAssumption
  <2>2. stage = "validate"
    BY DEF Init
  <2>3. entries = EntriesOf(c.outstanding) /\ force = c.forceAsync /\ request = [k \in Kinds |-> Option(c.workers[k])]
    BY Zenon DEF Init
  <2> QED  BY <1>2, <2>1, <2>2, <2>3, Zenon DEF OptionsOK
<1>6. LimitsArePositive
  <2>1. config.supported = FALSE
    BY <1>2 DEF SetupProofs!NoConfig
  <2> QED  BY <2>1 DEF Init, LimitsArePositive
<1>7. EndOK
  BY DEF Init, EndOK
<1> QED  BY <1>1, <1>3, <1>4, <1>5, <1>6, <1>7 DEF RunInv

\* What a step that leaves the ring and the flags alone keeps.
LEMMA QuietStep ==
  ASSUME RunInv, UNCHANGED <<setupVars, c>>
  PROVE  /\ SetupProofs!SetupInv' /\ SetupProofs!RecordOK' /\ LimitsArePositive'
         /\ entries' = EntriesOf(c'.outstanding) /\ force' = c'.forceAsync
         /\ (error' = "options" => Valid' /\ entries' = 0)
         /\ request' = [k \in Kinds |-> Option(c'.workers[k])]
         /\ (Valid' <=> Valid) /\ (HasRing' <=> HasRing) /\ pc' = pc
<1>1. SetupProofs!SetupInv' /\ SetupProofs!RecordOK'
  BY RingStep DEF RunInv
<1>2. LimitsArePositive'
  BY Zenon DEF RunInv, LimitsArePositive, setupVars
<1>3. entries' = EntriesOf(c'.outstanding) /\ force' = c'.forceAsync /\ pc' = pc
      /\ error' = error /\ entries' = entries
  BY Zenon DEF RunInv, OptionsOK, setupVars
<1>4. request' = [k \in Kinds |-> Option(c'.workers[k])]
  BY Zenon DEF RunInv, OptionsOK, setupVars
<1>5. (Valid' <=> Valid) /\ (HasRing' <=> HasRing)
  BY Zenon DEF Valid, HasRing
<1>6. error' = "options" => Valid' /\ entries' = 0
  BY <1>3, <1>5 DEF RunInv, OptionsOK
<1> QED  BY <1>1, <1>2, <1>3, <1>4, <1>5, <1>6

\* The end of Close on a ring that runs: its limits stay those that were wanted.
LEMMA CloseStep ==
  ASSUME RunInv, Setup!CloseRing, UNCHANGED c
  PROVE  /\ SetupProofs!SetupInv' /\ SetupProofs!RecordOK' /\ LimitsArePositive'
         /\ entries' = EntriesOf(c'.outstanding) /\ force' = c'.forceAsync
         /\ (error' = "options" => Valid' /\ entries' = 0)
         /\ request' = [k \in Kinds |-> Option(c'.workers[k])]
         /\ pc' = "closed" /\ mapped' = {}
         /\ Setup!Requested' => limits' = Setup!Wanted'
<1>1. SetupProofs!SetupInv' /\ SetupProofs!RecordOK'
  BY RingStep, Zenon DEF RunInv, Setup!Next
<1>2. /\ pc = "running" /\ pc' = "closed"
      /\ UNCHANGED <<entries, force, request, error, single, limits, config>>
  BY Zenon DEF Setup!CloseRing, Setup!inputVars
<1>3. LimitsArePositive'
  BY <1>2, Zenon DEF RunInv, LimitsArePositive
<1>4. /\ entries' = EntriesOf(c'.outstanding) /\ force' = c'.forceAsync
      /\ (error' = "options" => Valid' /\ entries' = 0)
      /\ request' = [k \in Kinds |-> Option(c'.workers[k])]
  BY <1>2, Zenon DEF RunInv, OptionsOK, Valid
<1>5. mapped' = {}
  BY <1>1, <1>2 DEF SetupProofs!SetupInv, SetupProofs!MemoryOK
<1>6. Setup!Requested => limits = Setup!Wanted
  BY <1>2, Zenon
  DEF RunInv, SetupProofs!SetupInv, SetupProofs!LimitsOK, SetupProofs!Requested, SetupProofs!Wanted,
      SetupProofs!Kinds, Setup!Requested, Setup!Wanted, Setup!Kinds
<1>7. (Setup!Requested' <=> Setup!Requested) /\ Setup!Wanted' = Setup!Wanted
  BY <1>2, Zenon DEF Setup!Requested, Setup!Wanted
<1> QED  BY <1>1, <1>2, <1>3, <1>4, <1>5, <1>6, <1>7

\* Every step keeps the invariant.
LEMMA StepRun == RunInv /\ [Next]_vars => RunInv'
<1> SUFFICES ASSUME RunInv, [Next]_vars PROVE RunInv'
  OBVIOUS
<1>1. CASE Validate
  <2>1. /\ UNCHANGED <<setupVars, c>> /\ UNCHANGED runVars /\ stage = "validate"
        /\ stage' = IF Valid THEN "open" ELSE "emitted"
    BY <1>1 DEF Validate
  <2>2. pc = "check" /\ status # "ok" /\ RunTypes
    BY <2>1 DEF RunInv, OptionsOK, EndOK, RunTypes
  <2>3. RunTypes'
    BY <2>1, <2>2 DEF RunTypes, runVars
  <2>4. OptionsOK'
    BY <2>1, <2>2, QuietStep DEF OptionsOK
  <2>5. EndOK'
    BY <2>1, <2>2 DEF EndOK, runVars
  <2> QED  BY <2>1, <2>3, <2>4, <2>5, QuietStep DEF RunInv
<1>2. CASE Open
  <2>1. /\ UNCHANGED <<setupVars, c>> /\ UNCHANGED <<errors, reconciled, status>> /\ stage = "open"
        /\ stage' \in {"emitted", "setup", "measure"}
        /\ stage' = "measure" => c.backend # "uring"
        /\ dataset' = dataset \/ \E w \in Residency \cup {None}, a \in {None, "done", "error", "refused"} :
             dataset' = [dataset EXCEPT !.warmed = w, !.advice = a]
    BY <1>2 DEF Open, AdviceGiven
  <2>2. pc = "check" /\ Valid /\ status # "ok" /\ RunTypes
    BY <2>1 DEF RunInv, OptionsOK, EndOK, RunTypes
  <2>3. RunTypes'
    BY <2>1, <2>2 DEF RunTypes
  <2>4. OptionsOK'
    BY <2>1, <2>2, QuietStep DEF OptionsOK
  <2>5. EndOK'
    BY <2>1, <2>2 DEF EndOK, HasRing
  <2> QED  BY <2>1, <2>3, <2>4, <2>5, QuietStep DEF RunInv
<1>3. CASE NewRing
  <2>1. UNCHANGED <<c, stage>> /\ UNCHANGED runVars /\ stage = "setup"
    BY <1>3 DEF NewRing
  <2>2. SetupProofs!SetupInv' /\ SetupProofs!RecordOK'
    BY <1>3, RingStep DEF NewRing, RunInv
  <2>3. RunTypes'
    BY <2>1 DEF RunInv, RunTypes, runVars
  <2>4. EndOK'
    BY <2>1 DEF RunInv, RunTypes, EndOK, runVars
  <2> QED  BY <1>3, <2>2, <2>3, <2>4, NewKeepsOptions DEF RunInv
<1>4. CASE RingIsNew \/ ChildDies
  <2>1. /\ UNCHANGED <<setupVars, c>> /\ UNCHANGED runVars /\ stage # "emitted" /\ stage # "validate"
        /\ stage' = "emitted" \/ (stage' = "measure" /\ stage = "setup" /\ pc = "running")
        /\ stage \in {"open", "setup", "measure", "close"}
    BY <1>4 DEF RingIsNew, ChildDies
  <2>2. Valid /\ status # "ok" /\ RunTypes
    BY <2>1 DEF RunInv, OptionsOK, EndOK, RunTypes
  <2>3. RunTypes'
    BY <2>1, <2>2 DEF RunTypes, runVars
  <2>4. OptionsOK'
    BY <2>1, <2>2, QuietStep DEF OptionsOK
  <2>5. EndOK'
    BY <2>1, <2>2, QuietStep DEF EndOK, runVars
  <2> QED  BY <2>1, <2>3, <2>4, <2>5, QuietStep DEF RunInv
<1>5. CASE Measure
  <2>1. /\ UNCHANGED <<setupVars, c>> /\ UNCHANGED <<reconciled, status>> /\ errors' \in BOOLEAN
        /\ stage = "measure" /\ stage' = "close"
        /\ \E r \in Residency : dataset' = [dataset EXCEPT !.before = r]
    BY <1>5 DEF Measure
  <2>2. Valid /\ status # "ok" /\ RunTypes /\ (HasRing => pc = "running")
    BY <2>1 DEF RunInv, OptionsOK, EndOK, RunTypes
  <2>3. RunTypes'
    BY <2>1, <2>2 DEF RunTypes
  <2>4. OptionsOK'
    BY <2>1, <2>2, QuietStep DEF OptionsOK
  <2>5. EndOK'
    BY <2>1, <2>2, QuietStep DEF EndOK
  <2> QED  BY <2>1, <2>3, <2>4, <2>5, QuietStep DEF RunInv
<1>6. CASE Finish
  <2>1. /\ stage = "close" /\ stage' = "emitted" /\ UNCHANGED c /\ UNCHANGED <<dataset, errors>>
        /\ status' = IF errors \/ (c.backend = "uring" /\ ~reconciled') THEN "failed" ELSE "ok"
    BY <1>6 DEF Finish
  <2>2. RunTypes'
    <3>1. reconciled' \in BOOLEAN
      BY <1>6 DEF Finish, RunInv, RunTypes
    <3> QED  BY <2>1, <3>1 DEF RunInv, RunTypes
  <2>3. CASE HasRing /\ Setup!CloseRing
    <3>1. OptionsOK'
      BY <2>1, <2>3, CloseStep DEF OptionsOK
    <3>2. EndOK'
      BY <2>1, <2>2, <2>3, CloseStep DEF EndOK, HasRing, RunTypes
    <3> QED  BY <2>1, <2>2, <2>3, <3>1, <3>2, CloseStep DEF RunInv
  <2>4. CASE UNCHANGED setupVars /\ (HasRing => reconciled' = FALSE)
    <3>1. OptionsOK'
      BY <2>1, <2>4, QuietStep DEF OptionsOK
    <3>2. EndOK'
      BY <2>1, <2>2, <2>4, QuietStep DEF EndOK, HasRing, RunTypes
    <3> QED  BY <2>1, <2>2, <2>4, <3>1, <3>2, QuietStep DEF RunInv
  <2> QED  BY <1>6, <2>3, <2>4 DEF Finish, HasRing
<1>7. CASE UNCHANGED vars
  <2>1. UNCHANGED <<setupVars, c>> /\ UNCHANGED runVars /\ stage' = stage
    BY <1>7 DEF vars
  <2>2. RunTypes'
    BY <2>1 DEF RunInv, RunTypes, runVars
  <2>3. OptionsOK'
    BY <2>1, QuietStep DEF RunInv, OptionsOK
  <2>4. EndOK'
    BY <2>1, QuietStep DEF RunInv, EndOK, runVars, HasRing, setupVars, Setup!Requested, Setup!Wanted
  <2> QED  BY <2>1, <2>2, <2>3, <2>4, QuietStep DEF RunInv
<1> QED
  BY <1>1, <1>2, <1>3, <1>4, <1>5, <1>6, <1>7 DEF Next

\* Hence it always holds.
LEMMA RunAlways == Spec => []RunInv
BY InitRun, StepRun, PTL DEF Spec

-----------------------------------------------------------------------------
(* The results.                                                               *)

\* The types of a run, the ring's and its own (runChild, NewWithOptions).
THEOREM TypeCorrect == Spec => []TypeOK
<1>1. RunInv => TypeOK
  <2> SUFFICES ASSUME RunInv PROVE TypeOK
    OBVIOUS
  <2>1. Setup!TypeOK
    BY Zenon
    DEF RunInv, SetupProofs!SetupInv, SetupProofs!TypeOK, Setup!TypeOK,
        SetupProofs!Kinds, Setup!Kinds, SetupProofs!Limits, Setup!Limits, SetupProofs!Parts, Setup!Parts
  <2>2. ASSUME NEW k \in Kinds, request[k] # None PROVE request[k] > 0
    <3>1. request[k] = Option(c.workers[k])
      BY DEF RunInv, OptionsOK
    <3>2. request[k] >= 1
      BY <2>2, <3>1, Zenon DEF Option
    <3>3. request[k] \in 0 .. MaxLimit
      BY <2>1, <2>2 DEF Setup!TypeOK, Setup!Kinds, Kinds
    <3> QED  BY <3>2, <3>3, LimitAssumption
  <2> QED  BY <2>1, <2>2 DEF TypeOK, RunInv, RunTypes
<1> QED  BY <1>1, RunAlways, PTL

\* Every number has a quotient and a remainder.
LEMMA Division ==
  \A a \in Nat, d \in Nat \ {0} :
    a % d \in 0 .. d - 1 /\ a \div d \in Int /\ a = d * (a \div d) + (a % d)
BY SMT

\* A positive number that is zero modulo Word is at least Word.
LEMMA LostIsLarge ==
  ASSUME NEW n \in Nat, n > 0, n % Word = 0
  PROVE  n >= Word
<1>1. Word \in Nat \ {0}
  BY CampaignAssumption
<1>2. PICK q \in Int : n = Word * q + (n % Word)
  BY <1>1, Division
<1>3. n = Word * q
  BY <1>1, <1>2
<1>4. q >= 1
  <2>1. CASE q <= 0
    <3>1. Word * q <= 0
      BY <1>1, <2>1, SMT
    <3> QED  BY <1>3, <3>1
  <2> QED  BY <2>1
<1>5. Word * q >= Word
  BY <1>1, <1>4, SMT
<1> QED  BY <1>3, <1>5

\* validate and the two option functions of the harness hand NewWithOptions only what
\* it accepts, but for a limit of reads in progress that uint32 turns into zero: validate
\* has no upper bound for it.
THEOREM RefusedOnlyForOverflow == Spec => []RefusedOnlyIfLost
<1>1. RunInv => RefusedOnlyIfLost
  <2> SUFFICES ASSUME RunInv, error = "options"
               PROVE  c.outstanding >= Word /\ c.outstanding % Word = 0
    BY DEF RefusedOnlyIfLost
  <2>1. Valid /\ entries = 0 /\ entries = EntriesOf(c.outstanding) /\ c \in AllConfigs
    BY DEF RunInv, OptionsOK, RunTypes
  <2>2. c.outstanding \in Nat /\ c.outstanding > 0
    BY <2>1 DEF Valid, AllConfigs
  <2>3. c.outstanding % Word = 0
    BY <2>1 DEF EntriesOf
  <2> QED  BY <2>2, <2>3, LostIsLarge
<1> QED  BY <1>1, RunAlways, PTL

\* What a closed ring has recorded when its run is ok, and what is in force: the
\* limits that were asked for, and for the rest those there were.
LEMMA OkResult ==
  ASSUME RunInv, status = "ok", HasRing
  PROVE  /\ reconciled /\ pc = "closed" /\ mapped = {}
         /\ limits \in Setup!Limits /\ config.supported \in BOOLEAN /\ config.attempted \in BOOLEAN
         /\ config.supported => config.previous \in Setup!Limits
         /\ IF Setup!Requested
            THEN /\ config.supported /\ config.attempted /\ config.failed = None
                 /\ config.requested = limits /\ config.post = limits /\ limits = Setup!Wanted
            ELSE /\ config.supported <=> config.failed = None
                 /\ config.supported => config.previous = limits
                 /\ ~config.attempted
<1>1. /\ reconciled /\ pc = "closed" /\ mapped = {}
      /\ Setup!Requested => limits = Setup!Wanted
  BY DEF RunInv, EndOK
<1>2. config.supported => config.previous \in Setup!Limits
  BY DEF RunInv, LimitsArePositive
<1>3. /\ limits \in Setup!Limits
      /\ config.supported \in BOOLEAN /\ config.attempted \in BOOLEAN
  BY DEF RunInv, SetupProofs!SetupInv, SetupProofs!TypeOK, SetupProofs!Limits, SetupProofs!Kinds,
         Setup!Limits, Setup!Kinds
<1>4. Setup!Requested <=> SetupProofs!Requested
  BY Zenon DEF Setup!Requested, SetupProofs!Requested, Setup!Kinds, SetupProofs!Kinds
<1>5. SetupProofs!Complete
  BY <1>1 DEF RunInv, SetupProofs!RecordOK
<1> QED  BY <1>1, <1>2, <1>3, <1>4, <1>5 DEF SetupProofs!Complete

\* The modes have different names.
LEMMA ModeNames ==
  /\ "blocking" \notin ExplicitModes /\ "normal" \notin ExplicitModes /\ "default" \notin ExplicitModes
  /\ \A m \in Modes : m \in {"blocking", "normal", "default"} \/ m \in ExplicitModes
BY CampaignAssumption DEF Modes

\* Whether a request was made, given the flags of a mode.
LEMMA RequestOfMode ==
  ASSUME RunInv, NEW mode, request["bounded"] = None, (request["unbounded"] # None) = Explicit(mode)
  PROVE  Setup!Requested <=> Explicit(mode)
BY DEF Setup!Requested, Setup!Kinds

\* The gates of phases 6, 7 and 8 are sound (checkCommon, checkMode and
\* requireWorkerLimit of phase6check).
THEOREM GatesAreSound == Spec => []GateIsSound
<1>1. RunInv => GateIsSound
  <2> SUFFICES ASSUME RunInv PROVE GateIsSound
    OBVIOUS
  <2>1. ASSUME NEW part \in Parts, NEW mode \in Modes,
               Phase8Accepts(part, mode) \/ (part = "resident" /\ Phase7Accepts(mode))
        PROVE  /\ c.forceAsync = (mode \notin {"blocking", "normal"}) /\ ~errors
               /\ HasRing <=> mode # "blocking"
               /\ HasRing => LimitsAre(mode) /\ reconciled /\ pc = "closed" /\ mapped = {}
               /\ IF part = "slow" THEN dataset.advice = "done" ELSE dataset.before = "all"
    <3>1. status = "ok" /\ ConfigIs(mode) /\ (HasRing => WorkersAre(mode))
      BY <2>1 DEF Phase7Accepts, Phase8Accepts
    <3>2. c.forceAsync = Forced(mode) /\ c.backend = (IF mode = "blocking" THEN "blocking" ELSE "uring")
      BY <3>1, Zenon DEF ConfigIs
    <3>3. Forced(mode) = (mode \notin {"blocking", "normal"})
      BY ModeNames DEF Forced, Explicit
    <3>4. ~errors
      BY <3>1 DEF RunInv, EndOK
    <3>5. HasRing <=> mode # "blocking"
      BY <3>2 DEF HasRing
    <3>6. IF part = "slow" THEN dataset.advice = "done" ELSE dataset.before = "all"
      BY <2>1 DEF Phase7Accepts, Phase8Accepts, Dropped, Resident
    <3>7. ASSUME HasRing PROVE LimitsAre(mode) /\ reconciled /\ pc = "closed" /\ mapped = {}
      <4>1. /\ config.supported
            /\ request["bounded"] = None /\ (request["unbounded"] # None) = Explicit(mode)
            /\ Explicit(mode) => /\ config.requested["unbounded"] = WorkerMax[mode]
                                 /\ config.requested["bounded"] = config.previous["bounded"]
        BY <3>1, <3>7 DEF WorkersAre
      <4>2. Setup!Requested <=> Explicit(mode)
        BY <4>1, RequestOfMode
      <4>3. reconciled /\ pc = "closed" /\ mapped = {}
        BY <3>1, <3>7, OkResult
      <4>4. CASE Explicit(mode)
        <5>1. /\ config.requested = limits /\ limits \in Setup!Limits /\ config.previous \in Setup!Limits
          BY <3>1, <3>7, <4>1, <4>2, <4>4, OkResult
        <5>2. limits["unbounded"] = WorkerMax[mode] /\ limits["bounded"] = config.previous["bounded"]
          BY <4>1, <4>4, <5>1
        <5>3. limits = [config.previous EXCEPT !["unbounded"] = WorkerMax[mode]]
          BY <5>1, <5>2 DEF Setup!Limits, Setup!Kinds
        <5> QED  BY <4>3, <4>4, <5>3 DEF LimitsAre
      <4>5. CASE ~Explicit(mode)
        <5>1. limits = config.previous
          BY <3>1, <3>7, <4>1, <4>2, <4>5, OkResult
        <5> QED  BY <4>3, <4>5, <5>1 DEF LimitsAre
      <4> QED  BY <4>4, <4>5
    <3> QED  BY <3>2, <3>3, <3>4, <3>5, <3>6, <3>7, Zenon
  <2>2. ASSUME NEW expect \in Expectations, Phase6Accepts(expect), NEW k \in Kinds, expect[k] # None
        PROVE  limits[k] = expect[k]
    <3>1. status = "ok" /\ HasRing /\ request[k] # None /\ config.requested[k] = expect[k]
      BY <2>2 DEF Phase6Accepts, LimitIs
    <3>2. Setup!Requested
      BY <3>1, Zenon DEF Setup!Requested, Setup!Kinds, Kinds
    <3> QED  BY <3>1, <3>2, OkResult
  <2>3. \A p \in Plans : p[1] \in Parts /\ p[2] \in Modes
    BY DEF Plans
  <2> QED  BY <2>1, <2>2, <2>3, Zenon DEF GateIsSound
<1> QED  BY <1>1, RunAlways, PTL

\* The gate of phase 8 takes no result for two modes or both parts (checkMode).
THEOREM ModesAreTold == Spec => []ModesAreDistinct
<1>1. ModesAreDistinct
  <2>1. ASSUME NEW p \in Plans, NEW q \in Plans, Phase8Accepts(p[1], p[2]), Phase8Accepts(q[1], q[2])
        PROVE  p = q
    <3>1. /\ p[1] \in Parts /\ p[2] \in Modes /\ p = <<p[1], p[2]>>
          /\ q[1] \in Parts /\ q[2] \in Modes /\ q = <<q[1], q[2]>>
      BY DEF Plans
    <3>2. p[1] = q[1]
      BY <2>1, <3>1 DEF Phase8Accepts, Dropped, Parts
    <3>3. ConfigIs(p[2]) /\ ConfigIs(q[2])
      BY <2>1 DEF Phase8Accepts
    <3>4. p[2] = "blocking" <=> q[2] = "blocking"
      BY <3>3, Zenon DEF ConfigIs
    <3>5. Explicit(p[2]) = Explicit(q[2]) /\ Forced(p[2]) = Forced(q[2])
      BY <3>3, Zenon DEF ConfigIs
    <3>6. CASE Explicit(p[2])
      <4>1. WorkerMax[p[2]] = WorkerMax[q[2]]
        BY <3>3, <3>5, <3>6, Zenon DEF ConfigIs
      <4>2. p[2] \in ExplicitModes /\ q[2] \in ExplicitModes
        BY <3>5, <3>6 DEF Explicit
      <4>3. p[2] = q[2]
        BY <4>1, <4>2, CampaignAssumption, Zenon
      <4> QED  BY <3>1, <3>2, <4>3
    <3>7. CASE ~Explicit(p[2])
      <4>1. p[2] \in {"blocking", "normal", "default"} /\ q[2] \in {"blocking", "normal", "default"}
        BY <3>1, <3>5, <3>7, ModeNames DEF Explicit
      <4>2. p[2] = "default" <=> q[2] = "default"
        BY <3>5, <3>7 DEF Forced
      <4> QED  BY <3>1, <3>2, <3>4, <4>1, <4>2
    <3> QED  BY <3>6, <3>7
  <2> QED  BY <2>1, Zenon DEF ModesAreDistinct
<1> QED  BY <1>1, PTL

\* A good run of a mode, started as the campaign's script starts it, passes its
\* gates (the command of run-phase8.sh, checkMode).
THEOREM GatesAreFair == Spec => []GateIsFair
<1>1. RunInv => GateIsFair
  <2> SUFFICES ASSUME RunInv, NEW part \in Parts, NEW mode \in Modes,
                      c = Command(part, mode, c.rest), c.rest \in {"phase7", "phase8"}, status = "ok", HasRing => config.supported,
                      IF part = "slow" THEN dataset.advice = "done" ELSE Resident,
                      part = "slow" => mode \in {"blocking", "normal"}
               PROVE  /\ Phase8Accepts(part, mode)
                      /\ part = "resident" /\ c.rest = "phase7" => Phase7Accepts(mode)
    BY DEF GateIsFair, Plans
  <2>1. /\ c.backend = (IF mode = "blocking" THEN "blocking" ELSE "uring")
        /\ c.forceAsync = (mode \notin {"blocking", "normal"})
        /\ c.lock = (mode \notin {"blocking", "normal"}) /\ c.record = FALSE
        /\ c.cache = (IF part = "slow" THEN "dontneed" ELSE "prewarm") /\ c.rest \in {"phase7", "phase8"}
        /\ c.outstanding = Outstanding
        /\ c.workers = [k \in Kinds |-> IF k = "unbounded" /\ Explicit(mode)
                                        THEN [set |-> TRUE, value |-> WorkerMax[mode]] ELSE Unset]
    BY DEF Command
  <2>2. /\ c.workers["bounded"] = Unset
        /\ Explicit(mode) => c.workers["unbounded"] = [set |-> TRUE, value |-> WorkerMax[mode]]
        /\ ~Explicit(mode) => c.workers["unbounded"] = Unset
    BY <2>1 DEF Kinds
  <2>3. Explicit(mode) => WorkerMax[mode] \in 1 .. MaxLimit
    BY CampaignAssumption DEF Explicit
  <2>4. ConfigIs(mode)
    <3>1. Forced(mode) = (mode \notin {"blocking", "normal"})
      BY ModeNames DEF Forced, Explicit
    <3>2. ~c.workers["bounded"].set /\ c.workers["unbounded"].set = Explicit(mode)
      <4>1. CASE Explicit(mode)
        <5>1. c.workers["unbounded"].set = TRUE /\ c.workers["bounded"].set = FALSE
          BY <2>2, <4>1 DEF Unset
        <5> QED  BY <4>1, <5>1 DEF Explicit
      <4>2. CASE ~Explicit(mode)
        <5>1. c.workers["unbounded"].set = FALSE /\ c.workers["bounded"].set = FALSE
          BY <2>2, <4>2 DEF Unset
        <5>2. Explicit(mode) = FALSE
          BY <4>2 DEF Explicit
        <5> QED  BY <5>1, <5>2
      <4> QED  BY <4>1, <4>2
    <3>3. Explicit(mode) => c.workers["unbounded"].value = WorkerMax[mode]
      BY <2>2
    <3> QED  BY <2>1, <3>1, <3>2, <3>3, Zenon DEF ConfigIs
  <2>5. request["bounded"] = None /\ request["unbounded"] = IF Explicit(mode) THEN WorkerMax[mode] ELSE None
    <3>1. /\ request["bounded"] = Option(c.workers["bounded"])
          /\ request["unbounded"] = Option(c.workers["unbounded"])
      BY DEF RunInv, OptionsOK, Kinds
    <3>2. Option(Unset) = None
      BY DEF Option, Unset
    <3>3. ASSUME Explicit(mode)
          PROVE  Option([set |-> TRUE, value |-> WorkerMax[mode]]) = WorkerMax[mode]
      <4>1. WorkerMax[mode] >= 1
        BY <2>3, <3>3, LimitAssumption
      <4> QED  BY <4>1 DEF Option
    <3> QED  BY <2>2, <3>1, <3>2, <3>3, Zenon
  <2>6. (request["unbounded"] # None) = Explicit(mode)
    BY <2>3, <2>5, LimitAssumption DEF Explicit
  <2>7. Setup!Requested <=> Explicit(mode)
    BY <2>5, <2>6, RequestOfMode
  <2>8. Counted
    BY OkResult DEF Counted
  <2>9. ASSUME HasRing PROVE WorkersAre(mode) /\ \A k \in Kinds : config.previous[k] > 0
    <3>1. config.supported /\ \A k \in Kinds : config.previous[k] > 0
      BY <2>9 DEF RunInv, LimitsArePositive
    <3>2. config.failed = None /\ config.attempted = Explicit(mode)
      BY <2>7, <2>9, <3>1, OkResult DEF Explicit
    <3>3. ASSUME Explicit(mode)
          PROVE  /\ config.requested["unbounded"] = WorkerMax[mode]
                 /\ config.post["unbounded"] = WorkerMax[mode]
                 /\ config.requested["bounded"] = config.previous["bounded"]
                 /\ config.post["bounded"] = config.previous["bounded"]
      <4>1. config.requested = Setup!Wanted /\ config.post = Setup!Wanted
        BY <2>7, <2>9, <3>3, OkResult
      <4>2. Setup!Wanted["unbounded"] = WorkerMax[mode] /\ Setup!Wanted["bounded"] = config.previous["bounded"]
        BY <2>5, <2>6, <3>3 DEF Setup!Wanted, Setup!Kinds
      <4> QED  BY <4>1, <4>2
    <3> QED  BY <2>5, <2>6, <3>1, <3>2, <3>3, Zenon DEF WorkersAre, AttemptedWhenAsked
  <2>10. Phase8Accepts(part, mode)
    BY <2>1, <2>4, <2>8, <2>9 DEF Phase8Accepts, Dropped
  <2>11. ASSUME part = "resident", c.rest = "phase7" PROVE Phase7Accepts(mode)
    BY <2>1, <2>4, <2>8, <2>9, <2>11 DEF Phase7Accepts
  <2> QED  BY <2>10, <2>11
<1> QED  BY <1>1, RunAlways, PTL
=============================================================================
