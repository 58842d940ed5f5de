--------------------------- MODULE RingSetupProofs ---------------------------
(***************************************************************************)
(* For every limit and every failing system call: setup and Close leave     *)
(* nothing behind, and a ring runs only with the limits asked for.          *)
(***************************************************************************)
EXTENDS RingSetup, TLAPS

\* The pointers of these parts are set, each to its own mapping, and there are
\* no other mappings.
Holds(parts) ==
  /\ ring \in [Parts -> Parts \cup {None}]
  /\ \A p \in Parts \ parts : ring[p] = None
  /\ \A p \in parts : ring[p] = IF p = "cq" /\ single THEN "sq" ELSE p
  /\ mapped = {ring[p] : p \in parts}

\* What exists at each step of mapRings, and from then on until Close.
MemoryOK ==
  /\ stray = FALSE
  /\ pc \in {"check", "setup"} => fd = "none" /\ Holds({})
  /\ pc = "mapSq" => fd = "open" /\ Holds({})
  /\ pc = "mapCq" => fd = "open" /\ ~single /\ Holds({"sq"})
  /\ pc = "mapSqes" => fd = "open" /\ Holds({"sq", "cq"})
  /\ pc \in {"query", "set", "verify", "start", "running"} => fd = "open" /\ Holds(Parts)
  /\ pc \in {"failed", "closed"} => fd # "open" /\ mapped = {}

\* What configureIOWQWorkers knows of the limits at each of its steps.
LimitsOK ==
  /\ limits \in Limits
  /\ pc = "set" => config.previous = limits
  /\ pc = "verify" => config.requested = Wanted
  /\ pc \in {"start", "running"} /\ Requested => limits = Wanted
  /\ pc = "failed" /\ error = "verify" => limits # Wanted

\* The inductive invariant.
SetupInv == TypeOK /\ MemoryOK /\ LimitsOK

-----------------------------------------------------------------------------
(* unmap, from any stage of mapRings. *)

\* unmap frees every mapping the pointers name, each once.
LEMMA UnmapFreesAll ==
  ASSUME NEW parts \in SUBSET Parts, single \in BOOLEAN, Holds(parts), stray = FALSE,
         "cq" \in parts => "sq" \in parts, Unmap
  PROVE  /\ mapped' = {} /\ stray' = FALSE
         /\ ring' \in [Parts -> Parts \cup {None}]
<1>1. Unmaps = {p \in parts : p = "cq" => ~single}
  <2>1. None \notin Parts
    BY LimitAssumption
  <2>2. \A p \in Parts : ring[p] # None <=> p \in parts
    BY <2>1 DEF Holds, Parts
  <2>3. "cq" \in parts => ring["sq"] = "sq" /\ (ring["cq"] = ring["sq"] <=> single)
    BY DEF Holds
  <2> QED  BY <2>2, <2>3 DEF Unmaps
<1>2. \A p \in Unmaps : p \in parts /\ ring[p] = p
  BY <1>1 DEF Holds
<1>3. \A p \in parts : \E q \in Unmaps : ring[q] = ring[p]
  BY <1>1 DEF Holds, Parts
<1>4. mapped' = {}
  BY <1>3 DEF Unmap, Munmap, Holds
<1>5. stray' = FALSE
  BY <1>2 DEF Unmap, Munmap, Holds
<1> QED
  BY <1>4, <1>5 DEF Unmap

\* Hence giving up in configureIOWQWorkers leaves nothing, and going on keeps all.
LEMMA ConfigureKeepsMemory ==
  ASSUME SetupInv, pc \in {"query", "set", "verify"}, single' = single,
         NEW step \in {"set", "verify", "start", "query", "post"},
         (GoOn(step) /\ step \in {"set", "verify", "start"}) \/ GiveUp(step)
  PROVE  /\ MemoryOK'
         /\ fd' \in {"none", "open", "closed"} /\ stray' \in BOOLEAN
         /\ ring' \in [Parts -> Parts \cup {None}] /\ mapped' \subseteq Parts
<1>1. fd = "open" /\ Holds(Parts) /\ stray = FALSE
  BY DEF SetupInv, MemoryOK
<1>2. CASE GoOn(step) /\ step \in {"set", "verify", "start"}
  <2>1. pc' = step /\ UNCHANGED <<error, fd, ring, mapped, stray>>
    BY <1>2 DEF GoOn, memVars
  <2>2. Holds(Parts)'
    BY <1>1, <2>1 DEF Holds
  <2> QED
    BY <1>1, <1>2, <2>1, <2>2 DEF SetupInv, TypeOK, MemoryOK
<1>3. CASE GiveUp(step)
  <2>1. pc' = "failed" /\ fd' = "closed" /\ Unmap
    BY <1>3 DEF GiveUp, Returns
  <2>2. mapped' = {} /\ stray' = FALSE /\ ring' \in [Parts -> Parts \cup {None}]
    BY <1>1, <2>1, UnmapFreesAll DEF SetupInv, TypeOK, Parts
  <2> QED
    BY <2>1, <2>2 DEF MemoryOK
<1> QED BY <1>2, <1>3

\* The type of config, named so that it can be left folded.
ConfigType ==
  [attempted : BOOLEAN, supported : BOOLEAN,
   previous : Limits \cup {None}, requested : Limits \cup {None},
   returned : Limits \cup {None}, post : Limits \cup {None},
   failed : {None, "query", "set", "post"}]

-----------------------------------------------------------------------------
\* Nothing exists at first.
LEMMA InitInv == Init => SetupInv
<1> SUFFICES ASSUME Init PROVE SetupInv
  OBVIOUS
<1> USE DEF Init
<1>1. TypeOK
  <2>1. config \in [attempted : BOOLEAN, supported : BOOLEAN,
                    previous : Limits \cup {None}, requested : Limits \cup {None},
                    returned : Limits \cup {None}, post : Limits \cup {None},
                    failed : {None, "query", "set", "post"}]
    BY DEF NoConfig
  <2> QED BY <2>1 DEF TypeOK
<1>2. MemoryOK
  BY DEF MemoryOK, Holds, Parts
<1>3. LimitsOK
  BY DEF LimitsOK
<1> QED BY <1>1, <1>2, <1>3 DEF SetupInv

\* Every step keeps the invariant.
LEMMA StepInv == SetupInv /\ [Next]_vars => SetupInv'
<1> SUFFICES ASSUME SetupInv, [Next]_vars PROVE SetupInv'
  OBVIOUS
<1> USE DEF SetupInv, inputVars, memVars
<1>1. CASE CheckOptions
  BY <1>1 DEF CheckOptions, Returns, TypeOK, MemoryOK, LimitsOK, Holds, Parts
<1>2. CASE Setup
  BY <1>2 DEF Setup, Returns, TypeOK, MemoryOK, LimitsOK, Holds, Parts
<1>3. CASE MapSq
  <2>1. MemoryOK'
    BY <1>3, LimitAssumption DEF MapSq, Returns, TypeOK, MemoryOK, Holds, Parts
  <2>2. ring' \in [Parts -> Parts \cup {None}] /\ mapped' \subseteq Parts
    BY <1>3, <2>1 DEF MapSq, Returns, TypeOK, MemoryOK, Holds, Parts
  <2>3. TypeOK' BY <1>3, <2>1, <2>2 DEF MapSq, Returns, TypeOK, MemoryOK
  <2>4. LimitsOK' BY <1>3 DEF MapSq, Returns, LimitsOK
  <2> QED BY <2>1, <2>3, <2>4
<1>4. CASE MapCq
  <2>1. ring' \in [Parts -> Parts \cup {None}] /\ mapped' \subseteq Parts
    <3>1. ring \in [Parts -> Parts \cup {None}] /\ mapped \subseteq Parts
      BY DEF TypeOK
    <3>2. ring' = [ring EXCEPT !["cq"] = "cq"] \/ ring' = ring
      BY <1>4 DEF MapCq
    <3>3. mapped' \subseteq mapped \cup {"cq"}
      BY <1>4 DEF MapCq, Munmap
    <3> QED BY <3>1, <3>2, <3>3 DEF Parts
  <2>2. MemoryOK'
    BY <1>4, LimitAssumption
    DEF MapCq, Returns, Munmap, FirstMapping, TypeOK, MemoryOK, Holds, Parts
  <2>3. /\ pc' \in {"mapSqes", "failed"} /\ error' \in {error, "mmap"}
        /\ fd' \in {"open", "closed"} /\ stray' \in BOOLEAN
        /\ UNCHANGED <<entries, force, request, single, limits, config>>
    BY <1>4, <2>2 DEF MapCq, Returns, MemoryOK
  <2>4. TypeOK' BY <2>1, <2>3 DEF TypeOK
  <2>5. LimitsOK' BY <2>3, <1>4 DEF MapCq, Returns, LimitsOK
  <2> QED BY <2>2, <2>4, <2>5
<1>5. CASE MapSqes
  <2>1. TypeOK /\ MemoryOK /\ LimitsOK /\ fd = "open" /\ Holds({"sq", "cq"})
    BY <1>5 DEF MapSqes, MemoryOK
  <2>2. CASE pc' = "query"
    <3>1. /\ ring' = [ring EXCEPT !["sqes"] = "sqes"] /\ mapped' = mapped \cup {"sqes"}
          /\ UNCHANGED <<error, fd, stray, entries, force, request, single, limits, config>>
      BY <1>5, <2>2 DEF MapSqes, Returns
    <3>2. TypeOK' BY <2>1, <2>2, <3>1 DEF TypeOK, Parts
    <3>3. Holds(Parts)' BY <2>1, <3>1 DEF Holds, Parts
    <3>4. MemoryOK' BY <2>1, <2>2, <3>1, <3>3 DEF MemoryOK
    <3>5. LimitsOK' BY <2>1, <2>2, <3>1 DEF LimitsOK
    <3> QED BY <3>2, <3>4, <3>5
  <2>3. CASE pc' # "query"
    <3>1. /\ pc' = "failed" /\ error' = "mmap" /\ fd' = "closed" /\ Unmap
          /\ UNCHANGED <<entries, force, request, single, limits, config>>
      BY <1>5, <2>3 DEF MapSqes, Returns
    <3>2. mapped' = {} /\ stray' = FALSE /\ ring' \in [Parts -> Parts \cup {None}]
      <4>1. stray = FALSE /\ single \in BOOLEAN
        BY <2>1 DEF TypeOK, MemoryOK
      <4>2. PICK parts \in SUBSET Parts : parts = {"sq", "cq"}
        BY DEF Parts
      <4>3. "cq" \in parts => "sq" \in parts
        BY <4>2
      <4>4. Holds(parts)
        BY <2>1, <4>2
      <4> QED  BY <3>1, <4>1, <4>3, <4>4, UnmapFreesAll, Zenon
    <3>3. TypeOK'
      <4>1. config \in ConfigType /\ config' = config
        BY <2>1, <3>1 DEF TypeOK, ConfigType
      <4>2. mapped' \subseteq Parts /\ stray' \in BOOLEAN
        BY <3>2
      <4> QED BY <2>1, <3>1, <3>2, <4>1, <4>2 DEF TypeOK, ConfigType
    <3>4. MemoryOK' BY <2>1, <3>1, <3>2 DEF MemoryOK
    <3>5. LimitsOK' BY <2>1, <3>1 DEF LimitsOK
    <3> QED BY <3>3, <3>4, <3>5
  <2> QED BY <2>2, <2>3
<1>6. CASE Query
  <2>1. config \in ConfigType /\ limits \in Limits
    BY DEF TypeOK, ConfigType
  <2>2. \/ GoOn("set") /\ config' = [config EXCEPT !.supported = TRUE, !.previous = limits]
        \/ GoOn("start") /\ ~Requested
        \/ GiveUp("query")
    BY <1>6 DEF Query
  <2>3. UNCHANGED <<entries, force, request, single, limits>>
    BY <1>6 DEF Query
  <2>4. config' \in ConfigType
    BY <1>6, <2>1 DEF Query, ConfigType
  <2>5. MemoryOK' /\ fd' \in {"none", "open", "closed"} /\ stray' \in BOOLEAN
        /\ ring' \in [Parts -> Parts \cup {None}] /\ mapped' \subseteq Parts
    BY <1>6, <2>2, <2>3, ConfigureKeepsMemory DEF Query
  <2>6. TypeOK'
    BY <2>2, <2>3, <2>4, <2>5 DEF TypeOK, ConfigType, GoOn, GiveUp, Returns
  <2>7. LimitsOK'
    <3>1. CASE GoOn("set") /\ config' = [config EXCEPT !.supported = TRUE, !.previous = limits]
      BY <2>1, <2>3, <3>1 DEF LimitsOK, GoOn, ConfigType
    <3>2. CASE GoOn("start") /\ ~Requested
      BY <2>1, <2>3, <3>2 DEF LimitsOK, GoOn, Requested
    <3>3. CASE GiveUp("query")
      BY <2>1, <2>3, <3>3 DEF LimitsOK, GiveUp, Returns
    <3> QED BY <2>2, <3>1, <3>2, <3>3
  <2> QED BY <2>5, <2>6, <2>7
<1>7. CASE Set
  <2>1. config \in ConfigType /\ limits \in Limits /\ limits' \in Limits
        /\ request \in [Kinds -> {None} \cup 0 .. MaxLimit]
    BY <1>7 DEF TypeOK, ConfigType, Set, KernelSets
  <2>2. config.previous = limits
    BY <1>7 DEF Set, LimitsOK
  <2>3. Wanted \in Limits
    BY <2>1, <2>2 DEF Wanted, Limits
  <2>4. UNCHANGED <<entries, force, request, single>>
    BY <1>7 DEF Set
  <2>5. CASE GoOn("verify")
    <3>1. config' = [config EXCEPT !.attempted = TRUE, !.requested = Wanted, !.returned = limits]
      BY <1>7, <2>5 DEF Set, GoOn, GiveUp, Returns
    <3>2. config' \in ConfigType /\ config'.requested = Wanted /\ config'.previous = config.previous
      BY <2>1, <2>3, <3>1 DEF ConfigType
    <3>3. MemoryOK' /\ fd' \in {"none", "open", "closed"} /\ stray' \in BOOLEAN
          /\ ring' \in [Parts -> Parts \cup {None}] /\ mapped' \subseteq Parts
      BY <1>7, <2>4, <2>5, ConfigureKeepsMemory DEF Set
    <3>4. TypeOK'
      BY <2>1, <2>4, <2>5, <3>2, <3>3 DEF TypeOK, ConfigType, GoOn
    <3>5. LimitsOK'
      BY <2>1, <2>4, <2>5, <3>2 DEF LimitsOK, GoOn, Wanted
    <3> QED BY <3>3, <3>4, <3>5
  <2>6. CASE GiveUp("set")
    <3>1. config' = [config EXCEPT !.attempted = TRUE, !.requested = Wanted, !.failed = "set"]
      BY <1>7, <2>6 DEF Set, GoOn, GiveUp, Returns
    <3>2. config' \in ConfigType
      BY <2>1, <2>3, <3>1 DEF ConfigType
    <3>3. MemoryOK' /\ fd' \in {"none", "open", "closed"} /\ stray' \in BOOLEAN
          /\ ring' \in [Parts -> Parts \cup {None}] /\ mapped' \subseteq Parts
      BY <1>7, <2>4, <2>6, ConfigureKeepsMemory DEF Set
    <3>4. TypeOK'
      BY <2>1, <2>4, <2>6, <3>2, <3>3 DEF TypeOK, ConfigType, GiveUp, Returns
    <3>5. LimitsOK'
      BY <2>1, <2>6 DEF LimitsOK, GiveUp, Returns
    <3> QED BY <3>3, <3>4, <3>5
  <2> QED BY <1>7, <2>5, <2>6 DEF Set
<1>8. CASE Verify
  <2>1. config \in ConfigType /\ limits \in Limits
    BY DEF TypeOK, ConfigType
  <2>2. config.requested = Wanted
    BY <1>8 DEF Verify, LimitsOK
  <2>3. \/ GoOn("start") /\ limits = Wanted
        \/ GiveUp("verify") /\ limits # Wanted
        \/ GiveUp("post")
    BY <1>8, <2>2 DEF Verify, VerifiedLimits
  <2>4. UNCHANGED <<entries, force, request, single, limits>>
    BY <1>8 DEF Verify
  <2>5. config' \in ConfigType /\ config'.previous = config.previous
    BY <1>8, <2>1 DEF Verify, ConfigType
  <2>6. MemoryOK' /\ fd' \in {"none", "open", "closed"} /\ stray' \in BOOLEAN
        /\ ring' \in [Parts -> Parts \cup {None}] /\ mapped' \subseteq Parts
    BY <1>8, <2>3, <2>4, ConfigureKeepsMemory DEF Verify
  <2>7. TypeOK'
    BY <2>3, <2>4, <2>5, <2>6 DEF TypeOK, ConfigType, GoOn, GiveUp, Returns
  <2>8. Wanted' = Wanted
    BY <2>4, <2>5 DEF Wanted
  <2>9. LimitsOK'
    BY <2>1, <2>3, <2>4, <2>8 DEF LimitsOK, GoOn, GiveUp, Returns
  <2> QED BY <2>6, <2>7, <2>9
<1>9. CASE Start
  BY <1>9 DEF Start, TypeOK, MemoryOK, LimitsOK, Holds, Requested, Wanted
<1>10. CASE CloseRing
  <2>1. fd = "open" /\ Holds(Parts) /\ stray = FALSE
    BY <1>10 DEF CloseRing, MemoryOK
  <2>2. mapped' = {} /\ stray' = FALSE /\ ring' \in [Parts -> Parts \cup {None}]
    BY <1>10, <2>1, UnmapFreesAll DEF CloseRing, TypeOK, Parts
  <2>3. TypeOK'
    <3>1. pc' = "closed" /\ fd' = "closed"
          /\ UNCHANGED <<entries, force, request, error, single, limits, config>>
      BY <1>10 DEF CloseRing
    <3>2. config' \in ConfigType
      BY <3>1 DEF TypeOK, ConfigType
    <3>3. mapped' \subseteq Parts /\ stray' \in BOOLEAN
      BY <2>2
    <3> QED BY <2>2, <3>1, <3>2, <3>3 DEF TypeOK, ConfigType
  <2>4. MemoryOK'
    BY <1>10, <2>2 DEF CloseRing, MemoryOK
  <2>5. LimitsOK'
    BY <1>10 DEF CloseRing, LimitsOK
  <2> QED BY <2>3, <2>4, <2>5
<1>11. CASE UNCHANGED vars
  BY <1>11 DEF vars, TypeOK, MemoryOK, LimitsOK, Holds, Requested, Wanted
<1> QED
  BY <1>1, <1>2, <1>3, <1>4, <1>5, <1>6, <1>7, <1>8, <1>9, <1>10, <1>11 DEF Next, Ended

\* Hence it always holds.
LEMMA SpecInv == Spec => []SetupInv
BY InitInv, StepInv, PTL DEF Spec

\* The type invariant, whatever the limits and the failures of NewWithOptions.
THEOREM TypeCorrect == Spec => []TypeOK
<1>1. SetupInv => TypeOK
  BY DEF SetupInv
<1> QED
  BY <1>1, SpecInv, PTL

-----------------------------------------------------------------------------
\* Every failure path of NewWithOptions, and Close, unmaps what was mapped, each
\* mapping once, and closes the descriptor (mapRings, unmap, NewWithOptions).
THEOREM NothingIsLeaked == Spec => []NothingLeaks
<1>1. SetupInv => NothingLeaks
  BY DEF SetupInv, MemoryOK, NothingLeaks
<1> QED BY <1>1, SpecInv, PTL

\* A ring that NewWithOptions returns has its memory, and after a request the
\* limits asked for are in force (configureIOWQWorkers).
THEOREM RingsRunAsAsked == Spec => []RunsAsAsked
<1>1. SetupInv => RunsAsAsked
  BY DEF SetupInv, MemoryOK, LimitsOK, RunsAsAsked, Holds, Wanted
<1> QED BY <1>1, SpecInv, PTL

\* A request is rejected after its registration only when the limits in force
\* differ from it (the comparison at the end of configureIOWQWorkers).
THEOREM RejectionsAreDeserved == Spec => []RejectedOnlyIfNotHonoured
<1>1. SetupInv => RejectedOnlyIfNotHonoured
  BY DEF SetupInv, TypeOK, LimitsOK, RejectedOnlyIfNotHonoured, Limits, Wanted
<1> QED BY <1>1, SpecInv, PTL


-----------------------------------------------------------------------------
(* The record of the worker limits.  RecordIsHonest speaks of a ring that     *)
(* runs; it follows from what each step of configureIOWQWorkers has recorded. *)

\* What a ring that was started has recorded.
Complete ==
  IF Requested
  THEN /\ config.supported /\ config.attempted /\ config.failed = None
       /\ config.requested = limits /\ config.post = limits
       /\ config.returned = config.previous
  ELSE /\ config.supported <=> config.failed = None
       /\ config.supported => config.previous = limits
       /\ ~config.attempted /\ config.post = None

RecordOK ==
  /\ pc \in {"check", "setup", "mapSq", "mapCq", "mapSqes", "query"} => config = NoConfig
  /\ pc = "set" => Requested /\ config.supported /\ config.failed = None
  /\ pc = "verify" =>
       /\ Requested /\ config.supported /\ config.attempted /\ config.failed = None
       /\ config.returned = config.previous
  /\ pc \in {"start", "running", "closed"} => Complete

LEMMA RecordStep == SetupInv /\ RecordOK /\ [Next]_vars => RecordOK'
<1> SUFFICES ASSUME SetupInv, RecordOK, [Next]_vars PROVE RecordOK'
  OBVIOUS
<1>1. Requested' <=> Requested
  BY DEF Next, CheckOptions, Setup, MapSq, MapCq, MapSqes, Query, Set, Verify, Start, CloseRing,
         Ended, vars, inputVars, Requested
<1>2. config \in ConfigType
  BY DEF SetupInv, TypeOK, ConfigType
<1>3. CASE CheckOptions \/ Setup \/ MapSq \/ MapCq \/ MapSqes
  BY <1>3 DEF CheckOptions, Setup, MapSq, MapCq, MapSqes, Returns, RecordOK
<1>4. CASE Query
  <2>1. pc = "query" /\ config = NoConfig /\ limits' = limits
    BY <1>4 DEF Query, RecordOK
  <2>2. CASE config' = [config EXCEPT !.supported = TRUE, !.previous = limits]
    <3>1. /\ config'.supported = TRUE /\ config'.previous = limits /\ config'.failed = None
          /\ config'.attempted = FALSE /\ config'.post = None
      BY <2>1, <2>2 DEF NoConfig
    <3>2. config' # [config EXCEPT !.failed = "query"]
      <4>1. [config EXCEPT !.failed = "query"].supported = FALSE
        BY <2>1 DEF NoConfig
      <4> QED  BY <3>1, <4>1
    <3>3. pc' = IF Requested THEN "set" ELSE "start"
      BY <1>4, <3>2 DEF Query, GoOn
    <3> QED  BY <1>1, <2>1, <3>1, <3>3 DEF RecordOK, Complete
  <2>3. CASE config' # [config EXCEPT !.supported = TRUE, !.previous = limits]
    <3>1. /\ config' = [config EXCEPT !.failed = "query"]
          /\ pc' = IF Requested THEN "failed" ELSE "start"
      BY <1>4, <2>3 DEF Query, GoOn, GiveUp, Returns
    <3>2. /\ config'.failed = "query" /\ config'.supported = FALSE
          /\ config'.attempted = FALSE /\ config'.post = None /\ config'.failed # None
      BY <2>1, <3>1, LimitAssumption DEF NoConfig
    <3> QED  BY <1>1, <3>1, <3>2 DEF RecordOK, Complete
  <2> QED  BY <2>2, <2>3
<1>5. CASE Set
  <2>1. pc = "set" /\ Requested /\ config.supported /\ config.failed = None /\ config.previous = limits
    BY <1>5 DEF Set, RecordOK, SetupInv, LimitsOK
  <2>2. CASE pc' = "verify"
    <3>1. config' = [config EXCEPT !.attempted = TRUE, !.requested = Wanted, !.returned = limits]
      BY <1>5, <2>2 DEF Set, GiveUp, Returns
    <3>2. /\ config'.supported = config.supported /\ config'.failed = config.failed
          /\ config'.attempted = TRUE /\ config'.returned = limits /\ config'.previous = config.previous
      BY <1>2, <3>1 DEF ConfigType
    <3> QED  BY <1>1, <2>1, <2>2, <3>2 DEF RecordOK
  <2>3. CASE pc' # "verify"
    <3>1. pc' = "failed"
      BY <1>5, <2>3 DEF Set, GoOn, GiveUp, Returns
    <3> QED  BY <3>1 DEF RecordOK
  <2> QED  BY <2>2, <2>3
<1>6. CASE Verify
  <2>1. /\ pc = "verify" /\ Requested /\ config.supported /\ config.attempted /\ config.failed = None
        /\ config.returned = config.previous /\ limits' = limits
    BY <1>6 DEF Verify, RecordOK
  <2>2. CASE pc' = "start"
    <3>1. config' = [config EXCEPT !.post = limits] /\ limits = config.requested
      BY <1>6, <2>2 DEF Verify, VerifiedLimits, GiveUp, Returns
    <3>2. /\ config'.supported = config.supported /\ config'.failed = config.failed
          /\ config'.attempted = config.attempted /\ config'.returned = config.returned
          /\ config'.previous = config.previous /\ config'.requested = config.requested
          /\ config'.post = limits
      BY <1>2, <3>1 DEF ConfigType
    <3> QED  BY <1>1, <2>1, <2>2, <3>1, <3>2 DEF RecordOK, Complete
  <2>3. CASE pc' # "start"
    <3>1. pc' = "failed"
      BY <1>6, <2>3 DEF Verify, GoOn, GiveUp, Returns
    <3> QED  BY <3>1 DEF RecordOK
  <2> QED  BY <2>2, <2>3
<1>7. CASE Start \/ CloseRing
  BY <1>1, <1>7 DEF Start, CloseRing, RecordOK, Complete
<1>8. CASE UNCHANGED vars
  BY <1>1, <1>8 DEF vars, RecordOK, Complete
<1> QED
  BY <1>3, <1>4, <1>5, <1>6, <1>7, <1>8 DEF Next, Ended

\* The record that a ring publishes of its worker limits tells what is in force
\* and what was before (configureIOWQWorkers).
THEOREM RecordsAreHonest == Spec => []RecordIsHonest
<1>1. Init => RecordOK
  BY DEF Init, RecordOK
<1>2. SetupInv /\ RecordOK => RecordIsHonest
  BY DEF RecordOK, Complete, RecordIsHonest
<1> QED  BY <1>1, <1>2, InitInv, StepInv, RecordStep, PTL DEF Spec
=============================================================================
