------------------------- MODULE ReproductionProofs -------------------------
(***************************************************************************)
(* Proofs about Reproduction, for every set of runs, every page cache and   *)
(* every value that is measured.                                            *)
(***************************************************************************)
EXTENDS Reproduction, FiniteSetTheorems, TLAPS

-----------------------------------------------------------------------------
(* The invariant. *)

Done(k) == results[k] # None

\* Where the campaign is in its plan: the runs before this one were accepted, those
\* after it have not been.
PlaceOK ==
  /\ \A j \in DOMAIN Plan : j < next => Done(Plan[j]) /\ results[Plan[j]].check = "ok"
  /\ \A j \in DOMAIN Plan : j > next => ~Done(Plan[j])
  /\ stage \in {"input", "preflight"} => next = 1
  /\ stage \in {"input", "preflight", "condition", "inspect", "measure"} => ~Done(Plan[next])
  /\ stage = "gate" => Done(Plan[next]) /\ results[Plan[next]].check = None
  /\ stage = "summarise" =>
       next = Len(Plan) /\ Done(Plan[next]) /\ results[Plan[next]].check = "ok"

\* What mincore tells of so many resident pages, if it tells.
SeenAs(level) == {level} \cup (IF MincoreFails THEN {None} ELSE {})

\* What the files in runs/ say is what happened, on the whole data file.
FilesOK ==
  /\ stage \notin {"input", "stopped"} \/ (\E k \in Keys : Done(k)) => file = "whole"
  /\ stage = "inspect" => run.check = None
  /\ stage = "measure" =>
       run.start \in Levels /\ run.before \in SeenAs(run.start) /\ run.check = None
  /\ \A k \in Keys : Done(k) =>
       /\ results[k].value \in Int
       /\ results[k].start \in Levels /\ results[k].before \in SeenAs(results[k].start)
       /\ results[k].check = "ok" => Accepts(results[k], k[2])

\* What is summarised and compared is what the files say.
Summarised == stage \in {"summarised", "compared"}
SummariesOK ==
  /\ summary # None => Summarised
  /\ Summarised => summary = SummaryOfRuns /\ \A k \in Keys : Validated(k)
  /\ verdict # None => stage = "compared"
  /\ stage = "compared" => verdict = [lower |-> Directional("normal", "blocking"),
                                     higher |-> Directional("normal", "default")]

ReproductionInv == TypeOK /\ PlaceOK /\ FilesOK /\ SummariesOK

-----------------------------------------------------------------------------
(* The plan and the runs of a mode. *)

\* The plan has each of the keys in one place.
LEMMA PlanFacts ==
  /\ Len(Plan) \in Nat /\ DOMAIN Plan = 1 .. Len(Plan) /\ 1 <= Len(Plan)
  /\ \A j \in DOMAIN Plan : Plan[j] \in Keys
  <1>1. Len(Plan) \in Nat /\ DOMAIN Plan = 1 .. Len(Plan) /\ \A j \in DOMAIN Plan : Plan[j] \in Keys
    BY PlanIsWhole
  <1>2. PICK k \in Keys : TRUE
    <2>1. PICK item \in Items : TRUE
      BY ReproductionAssumption
    <2>2. 1 \in 1 .. 3 /\ <<1, item[1], item[2]>> \in Keys
      BY <2>1 DEF Keys
    <2> QED  BY <2>2
  <1> QED  BY <1>1, <1>2, PlanIsWhole

\* A key is a repetition, a part and a mode.
LEMMA KeyParts ==
  ASSUME NEW k \in Keys
  PROVE  k = <<k[1], k[2], k[3]>> /\ k[1] \in 1 .. 3 /\ <<k[2], k[3]>> \in Items
  <1>1. PICK rep \in 1 .. 3, item \in Items : k = <<rep, item[1], item[2]>>
    BY DEF Keys
  <1>2. item = <<item[1], item[2]>>
    BY ReproductionAssumption
  <1> QED  BY <1>1, <1>2

\* Each mode has a run in each repetition.
LEMMA ModeKeys ==
  /\ \A m \in SlowModes, rep \in 1 .. 3 : <<rep, "slow", m>> \in Keys
  /\ \A m \in ResidentModes, rep \in 1 .. 3 : <<rep, "resident", m>> \in Keys
  <1>1. ASSUME NEW m \in SlowModes, NEW rep \in 1 .. 3 PROVE <<rep, "slow", m>> \in Keys
    <2>1. PICK item \in Items : item[1] = "slow" /\ item[2] = m
      BY DEF SlowModes
    <2> QED  BY <2>1 DEF Keys
  <1>2. ASSUME NEW m \in ResidentModes, NEW rep \in 1 .. 3 PROVE <<rep, "resident", m>> \in Keys
    <2>1. PICK item \in Items : item[1] = "resident" /\ item[2] = m
      BY DEF ResidentModes
    <2> QED  BY <2>1 DEF Keys
  <1> QED  BY <1>1, <1>2

\* The median of three is one of them, and there are ones on both sides of it.
LEMMA MedianFacts ==
  ASSUME NEW three, \A rep \in 1 .. 3 : three[rep].value \in Int
  PROVE  \E i, j, k \in 1 .. 3 :
           /\ {i, j, k} = 1 .. 3 /\ i # j /\ j # k /\ i # k
           /\ three[i].value <= three[j].value /\ three[j].value <= three[k].value
           /\ MedianOf(three) = three[j].value
  <1> DEFINE Middle(j) ==
        \E i, k \in 1 .. 3 :
          /\ {i, j, k} = 1 .. 3
          /\ three[i].value <= three[j].value /\ three[j].value <= three[k].value
             mid == CHOOSE j \in 1 .. 3 : Middle(j)
  <1>1. 1 .. 3 = {1, 2, 3}
    OBVIOUS
  <1>2. \E j \in 1 .. 3 : Middle(j)
    <2>1. {1, 2, 3} = 1 .. 3 /\ {1, 3, 2} = 1 .. 3 /\ {2, 1, 3} = 1 .. 3 /\ {2, 3, 1} = 1 .. 3
          /\ {3, 1, 2} = 1 .. 3 /\ {3, 2, 1} = 1 .. 3
      BY <1>1
    <2>2. three[1].value \in Int /\ three[2].value \in Int /\ three[3].value \in Int
      OBVIOUS
    <2>3. CASE three[1].value <= three[2].value /\ three[2].value <= three[3].value
      BY <2>1, <2>3
    <2>4. CASE three[1].value <= three[3].value /\ three[3].value <= three[2].value
      BY <2>1, <2>4
    <2>5. CASE three[2].value <= three[1].value /\ three[1].value <= three[3].value
      BY <2>1, <2>5
    <2>6. CASE three[2].value <= three[3].value /\ three[3].value <= three[1].value
      BY <2>1, <2>6
    <2>7. CASE three[3].value <= three[1].value /\ three[1].value <= three[2].value
      BY <2>1, <2>7
    <2>8. CASE three[3].value <= three[2].value /\ three[2].value <= three[1].value
      BY <2>1, <2>8
    <2> HIDE DEF Middle
    <2> QED  BY <2>2, <2>3, <2>4, <2>5, <2>6, <2>7, <2>8
  <1>3. mid \in 1 .. 3 /\ Middle(mid)
    <2> HIDE DEF Middle
    <2> QED  BY <1>2
  <1>4. MedianOf(three) = three[mid].value
    BY Zenon DEF MedianOf
  <1> HIDE DEF mid
  <1>5. PICK i, k \in 1 .. 3 :
          /\ {i, mid, k} = 1 .. 3
          /\ three[i].value <= three[mid].value /\ three[mid].value <= three[k].value
    BY <1>3
  <1>6. i # mid /\ mid # k /\ i # k
    BY <1>1, <1>5
  <1> QED  BY <1>3, <1>4, <1>5, <1>6


-----------------------------------------------------------------------------
(* The types and the summaries. *)

\* A summary is that of the same files as long as they do not change.
LEMMA SummaryFrame ==
  /\ UNCHANGED results => UNCHANGED SummaryOfRuns
  /\ UNCHANGED summary => UNCHANGED <<Directional("normal", "blocking"), Directional("normal", "default")>>
  <1>1. ASSUME UNCHANGED results PROVE UNCHANGED SummaryOfRuns
    <2>1. \A part, mode : Of(part, mode)' = Of(part, mode)
      BY <1>1 DEF Of
    <2> QED  BY <2>1 DEF SummaryOfRuns
  <1>2. ASSUME UNCHANGED summary
        PROVE  UNCHANGED <<Directional("normal", "blocking"), Directional("normal", "default")>>
    BY <1>2 DEF Directional
  <1> QED  BY <1>1, <1>2

\* Before there is a summary, nothing is known of it.
LEMMA SummariesFrame ==
  ASSUME SummariesOK, UNCHANGED <<summary, verdict>>,
         \/ ~Summarised /\ ~Summarised'
         \/ UNCHANGED <<stage, results>>
  PROVE  SummariesOK'
  <1>1. CASE ~Summarised /\ ~Summarised'
    BY <1>1 DEF SummariesOK, Summarised
  <1>2. CASE UNCHANGED <<stage, results>>
    <2>1. \A k \in Keys : Validated(k)' <=> Validated(k)
      BY <1>2 DEF Validated
    <2> QED  BY <1>2, <2>1, SummaryFrame DEF SummariesOK, Summarised
  <1> QED  BY <1>1, <1>2

\* What validated files are summarised as.
LEMMA SummaryType ==
  ASSUME FilesOK, \A k \in Keys : Done(k)
  PROVE  SummaryOfRuns \in [nonresident : [SlowModes -> BOOLEAN], median : [ResidentModes -> Int]]
  <1>1. ASSUME NEW m \in SlowModes PROVE AllStarts(Of("slow", m)) \in BOOLEAN
    BY DEF AllStarts
  <1>2. ASSUME NEW m \in ResidentModes PROVE MedianOf(Of("resident", m)) \in Int
    <2>1. \A rep \in 1 .. 3 : Of("resident", m)[rep].value \in Int
      BY ModeKeys DEF Of, FilesOK
    <2> QED  BY <2>1, MedianFacts
  <1> QED  BY <1>1, <1>2 DEF SummaryOfRuns

\* The initial states.
LEMMA ReproductionInit == Init => ReproductionInv
  <1> SUFFICES ASSUME Init PROVE ReproductionInv
    OBVIOUS
  <1> USE DEF Init
  <1>1. TypeOK
    <2>1. run \in Result
      BY DEF Blank, Result, Seen
    <2>2. cache \in Levels /\ campaigns \in 1 .. MaxCampaigns
      BY ReproductionAssumption
    <2> QED  BY <2>1, <2>2, PlanFacts DEF TypeOK
  <1>2. PlaceOK
    BY PlanFacts DEF PlaceOK, Done
  <1>3. FilesOK /\ SummariesOK
    BY DEF FilesOK, SummariesOK, Summarised, Done
  <1> QED  BY <1>1, <1>2, <1>3 DEF ReproductionInv

-----------------------------------------------------------------------------
(* The steps that write no results. *)

\* A step that leaves the files and the place in the plan alone, or ends the script.
LEMMA ScriptFrame ==
  ASSUME TypeOK, PlaceOK, FilesOK, UNCHANGED <<next, results>>,
         stage' \in {"input", "stopped"} \/ file' = "whole", stage = "input" \/ UNCHANGED file,
         \/ stage' \in {"stopped", "summarised", "compared"}
         \/ UNCHANGED <<stage, run>>
         \/ stage = "input" /\ stage' = "preflight"
         \/ stage = "preflight" /\ stage' = "condition"
         \/ stage = "condition" /\ stage' = "inspect" /\ run'.check = None
  PROVE  PlaceOK' /\ FilesOK'
  <1>1. \A k \in Keys : Done(k)' <=> Done(k)
    BY DEF Done
  <1>2. \A j \in DOMAIN Plan : Done(Plan[j])' <=> Done(Plan[j])
    BY DEF Done
  <1>3. stage = "input" => \A k \in Keys : ~Done(k)
    <2> SUFFICES ASSUME stage = "input", NEW k \in Keys PROVE ~Done(k)
      OBVIOUS
    <2>1. PICK j \in DOMAIN Plan : Plan[j] = k
      BY PlanIsWhole
    <2>2. j \in 1 .. Len(Plan) /\ next = 1 /\ ~Done(Plan[next])
      BY PlanFacts DEF PlaceOK
    <2> QED  BY <2>1, <2>2, PlanFacts DEF PlaceOK
  <1>4. PlaceOK'
    <2>1. next \in DOMAIN Plan /\ (Done(Plan[next])' <=> Done(Plan[next]))
      BY <1>2, PlanFacts DEF TypeOK
    <2> QED  BY <1>2, <2>1 DEF PlaceOK
  <1>5. FilesOK'
    <2>1. (\E k \in Keys : Done(k)) => file' = "whole"
      BY <1>3 DEF FilesOK
    <2> QED  BY <1>1, <2>1 DEF FilesOK, Accepts
  <1> QED  BY <1>4, <1>5


\* The kernel and the script up to the first run, and a script that ends.
LEMMA ScriptStep ==
  ASSUME ReproductionInv, CacheDrifts \/ Generate \/ CheckInput \/ Preflight \/ Abort
  PROVE  ReproductionInv'
  <1> USE DEF ReproductionInv
  <1>1. TypeOK'
    <2>1. Pages \in Levels /\ Blank \in Result
      BY ReproductionAssumption DEF Blank, Result, Seen
    <2>2. UNCHANGED <<next, results, summary, verdict, campaigns>> /\ run' \in {run, Blank}
      BY DEF CacheDrifts, Generate, CheckInput, Preflight, Abort, written
    <2>3. cache' \in Levels
      BY <2>1 DEF CacheDrifts, Generate, CheckInput, Preflight, Abort, TypeOK
    <2>4. file' \in {"none", "partial", "whole"}
      BY DEF CacheDrifts, Generate, CheckInput, Preflight, Abort, TypeOK
    <2>5. stage' \in {stage, "preflight", "condition", "stopped"}
      BY DEF CacheDrifts, Generate, CheckInput, Preflight, Abort, TypeOK
    <2> QED  BY <2>1, <2>2, <2>3, <2>4, <2>5 DEF TypeOK
  <1>2. PlaceOK' /\ FilesOK'
    <2>1. stage' \in {"input", "stopped"} \/ file' = "whole"
      BY DEF CacheDrifts, Generate, CheckInput, LargeEnough, Preflight, Abort, FilesOK
    <2> QED  BY <2>1, ScriptFrame DEF CacheDrifts, Generate, CheckInput, Preflight, Abort, written
  <1>3. SummariesOK'
    BY SummariesFrame DEF CacheDrifts, Generate, CheckInput, Preflight, Abort, written, Summarised
  <1> QED  BY <1>1, <1>2, <1>3

\* The process until it measures.
LEMMA ConditionStep ==
  ASSUME ReproductionInv, Condition
  PROVE  ReproductionInv'
  <1> USE DEF ReproductionInv
  <1>1. cache' \in Levels /\ run' \in Result /\ run'.check = None
    <2>1. CASE Dontneed
      BY <2>1 DEF Dontneed, TypeOK, Blank, Result, Seen
    <2>2. CASE Prewarm
      BY <2>2 DEF Prewarm, TypeOK, Blank, Result, Seen
    <2> QED  BY <2>1, <2>2 DEF Condition
  <1>2. stage = "condition" /\ stage' = "inspect" /\ UNCHANGED <<file, next, written>>
    BY DEF Condition
  <1>3. TypeOK'
    BY <1>1, <1>2 DEF TypeOK, written
  <1>4. PlaceOK' /\ FilesOK'
    BY <1>1, <1>2, ScriptFrame DEF written, FilesOK
  <1>5. SummariesOK'
    BY <1>2, SummariesFrame DEF written, Summarised
  <1> QED  BY <1>3, <1>4, <1>5

LEMMA InspectStep ==
  ASSUME ReproductionInv, InspectBefore
  PROVE  ReproductionInv'
  <1> USE DEF ReproductionInv
  <1>1. /\ stage = "inspect" /\ stage' = "measure" /\ UNCHANGED <<file, cache, next, written>>
    BY DEF InspectBefore
  <1>2. /\ run' \in Result /\ run'.start \in Levels /\ run'.before \in SeenAs(run'.start)
        /\ run'.check = None
    <2>1. PICK before \in SeenAs(cache) : run' = [run EXCEPT !.before = before, !.start = cache]
      BY DEF InspectBefore, Inspect, SeenAs
    <2>2. run \in Result /\ cache \in Levels /\ before \in Seen
      BY <2>1 DEF TypeOK, SeenAs, Seen
    <2>3. run'.start = cache /\ run'.before = before /\ run'.check = None
      BY <1>1, <2>1, <2>2 DEF Result, FilesOK
    <2>4. run' \in Result
      BY <2>1, <2>2 DEF Result, Seen
    <2> QED  BY <2>2, <2>3, <2>4
  <1>3. TypeOK'
    BY <1>1, <1>2 DEF TypeOK, written
  <1>4. PlaceOK' /\ FilesOK'
    <2>1. (\A k \in Keys : Done(k)' <=> Done(k)) /\ \A j \in DOMAIN Plan : Done(Plan[j])' <=> Done(Plan[j])
      BY <1>1 DEF Done, written
    <2>2. next \in DOMAIN Plan
      BY PlanFacts DEF TypeOK
    <2>3. PlaceOK'
      BY <1>1, <2>1, <2>2 DEF PlaceOK, written
    <2>4. FilesOK'
      BY <1>1, <1>2, <2>1 DEF FilesOK, written, Accepts
    <2> QED  BY <2>3, <2>4
  <1>5. SummariesOK'
    BY <1>1, SummariesFrame DEF written, Summarised
  <1> QED  BY <1>3, <1>4, <1>5

\* The script again.
LEMMA StartOverStep ==
  ASSUME ReproductionInv, StartOver
  PROVE  ReproductionInv'
  <1> USE DEF ReproductionInv, StartOver
  <1>1. \A k \in Keys : results'[k] = None
    OBVIOUS
  <1>2. TypeOK'
    BY PlanFacts, ReproductionAssumption DEF TypeOK
  <1>3. PlaceOK'
    BY <1>1, PlanFacts DEF PlaceOK, Done
  <1>4. FilesOK' /\ SummariesOK'
    BY <1>1 DEF FilesOK, SummariesOK, Summarised, Done
  <1> QED  BY <1>2, <1>3, <1>4

\* The summary and the comparison.
LEMMA SummariseStep ==
  ASSUME ReproductionInv, Summarise \/ Compare
  PROVE  ReproductionInv'
  <1> USE DEF ReproductionInv
  <1>1. CASE Summarise
    <2>1. /\ stage' = "summarised" /\ stage \in {"summarise", "stopped"} /\ summary' = SummaryOfRuns
          /\ UNCHANGED <<file, cache, next, run, results, verdict, campaigns>> /\ verdict = None
          /\ \A k \in Keys : Validated(k)
      BY <1>1 DEF Summarise, SummariesOK
    <2>2. \A k \in Keys : Done(k)
      BY <2>1 DEF Validated, Done
    <2>3. summary' \in [nonresident : [SlowModes -> BOOLEAN], median : [ResidentModes -> Int]]
      BY <2>1, <2>2, SummaryType
    <2>4. TypeOK'
      BY <2>1, <2>3 DEF TypeOK
    <2>5. PlaceOK' /\ FilesOK'
      <3>1. file = "whole"
        <4>1. Plan[next] \in Keys
          BY PlanFacts DEF TypeOK
        <4> QED  BY <2>2, <4>1 DEF FilesOK
      <3> QED  BY <2>1, <3>1, ScriptFrame
    <2>6. SummariesOK'
      <3>1. SummaryOfRuns' = SummaryOfRuns /\ \A k \in Keys : Validated(k)'
        BY <2>1, SummaryFrame DEF Validated
      <3> QED  BY <2>1, <3>1 DEF SummariesOK, Summarised
    <2> QED  BY <2>4, <2>5, <2>6
  <1>2. CASE Compare
    <2>1. /\ stage = "summarised" /\ stage' = "compared" /\ verdict = None
          /\ UNCHANGED <<file, cache, next, run, results, summary, campaigns>>
          /\ verdict' = [lower |-> Directional("normal", "blocking"),
                         higher |-> Directional("normal", "default")]
      BY <1>2 DEF Compare, SummariesOK
    <2>2. \A lower, higher : Directional(lower, higher) \in {"yes", "no", "unclear"}
      BY DEF Directional
    <2>3. verdict' \in [{"lower", "higher"} -> {"yes", "no", "unclear"}]
      BY <2>1, <2>2
    <2>4. TypeOK'
      BY <2>1, <2>3 DEF TypeOK
    <2>5. PlaceOK' /\ FilesOK'
      BY <2>1, ScriptFrame DEF FilesOK
    <2>6. SummariesOK'
      <3>1. (\A k \in Keys : Validated(k)') <=> \A k \in Keys : Validated(k)
        BY <2>1 DEF Validated
      <3> QED  BY <2>1, <3>1, SummaryFrame DEF SummariesOK, Summarised
    <2> QED  BY <2>4, <2>5, <2>6
  <1> QED  BY <1>1, <1>2


-----------------------------------------------------------------------------
(* The steps that write a result. *)

\* A measurement writes the result of the current run, which has none.
LEMMA MeasureStep ==
  ASSUME ReproductionInv, Measure
  PROVE  ReproductionInv'
  <1> USE DEF ReproductionInv
  <1>1. PICK key \in Keys, status \in {"ok", "failed"}, value \in Int :
          /\ key = Plan[next]
          /\ results' = [results EXCEPT ![key] = [run EXCEPT !.status = status, !.value = value]]
    <2>1. Plan[next] \in Keys
      BY PlanFacts DEF TypeOK
    <2>2. Values[<<Plan[next][2], Plan[next][3]>>] \subseteq Int
      BY <2>1, KeyParts, ReproductionAssumption
    <2> QED  BY <2>1, <2>2 DEF Measure, Key
  <1>2. PICK result : result = [run EXCEPT !.status = status, !.value = value]
    OBVIOUS
  <1>3. /\ result \in Result /\ result.value \in Int
        /\ result.start = run.start /\ result.before = run.before
    BY <1>2 DEF TypeOK, Result
  <1>4. results' = [results EXCEPT ![key] = result] /\ results'[key] = result
    BY <1>1, <1>2 DEF TypeOK
  <1>5. /\ stage = "measure" /\ stage' = "gate" /\ cache' \in Levels /\ run' = Blank
        /\ UNCHANGED <<file, next, summary, verdict, campaigns>>
    BY DEF Measure
  <1>6. TypeOK'
    <2>1. results' \in [Keys -> Result \cup {None}]
      BY <1>3, <1>4 DEF TypeOK
    <2>2. Blank \in Result
      BY DEF Blank, Result, Seen
    <2> QED  BY <1>5, <2>1, <2>2 DEF TypeOK
  <1>7. result # None
    BY <1>3, NoneAssumption
  <1>8. result.check = None
    BY <1>2, <1>5 DEF FilesOK, TypeOK, Result
  <1>9. \A j \in DOMAIN Plan : j # next => results'[Plan[j]] = results[Plan[j]]
    BY <1>1, <1>4, PlanIsWhole, PlanFacts DEF TypeOK
  <1>10. PlaceOK'
    <2>1. next \in DOMAIN Plan /\ DOMAIN Plan \subseteq Nat
      BY PlanFacts DEF TypeOK
    <2> QED  BY <1>1, <1>4, <1>5, <1>7, <1>8, <1>9, <2>1 DEF PlaceOK, Done
  <1>11. FilesOK'
    <2>1. \A k \in Keys : k # key => results'[k] = results[k]
      BY <1>4 DEF TypeOK
    <2>2. run.start \in Levels /\ run.before \in SeenAs(run.start) /\ file = "whole"
      BY <1>5 DEF FilesOK
    <2>3. result.check # "ok"
      BY <1>8, NoneAssumption
    <2> QED  BY <1>3, <1>4, <1>5, <2>1, <2>2, <2>3 DEF FilesOK, Done, Accepts
  <1>12. SummariesOK'
    BY <1>5, SummariesFrame DEF Summarised
  <1> QED  BY <1>6, <1>10, <1>11, <1>12

\* The gate writes its verdict on the current run, and only goes on if it is good.
LEMMA GateStep ==
  ASSUME ReproductionInv, Gate
  PROVE  ReproductionInv'
  <1> USE DEF ReproductionInv
  <1>1. PICK key \in Keys, check \in {"ok", "rejected"} :
          /\ key = Plan[next] /\ (check = "ok" <=> Accepts(results[key], key[2]))
          /\ results' = [results EXCEPT ![key] = [results[key] EXCEPT !.check = check]]
          /\ stage' = IF check = "ok" THEN IF More THEN "condition" ELSE "summarise" ELSE "stopped"
          /\ next' = IF check = "ok" /\ More THEN next + 1 ELSE next
    <2>1. Plan[next] \in Keys
      BY PlanFacts DEF TypeOK
    <2>2. ASSUME NEW check \in {"ok", "rejected"}, check = "ok" <=> Accepts(results[Plan[next]], Plan[next][2])
          PROVE  /\ results' = [results EXCEPT ![Plan[next]] = [results[Plan[next]] EXCEPT !.check = check]]
                 /\ stage' = IF check = "ok" THEN IF More THEN "condition" ELSE "summarise" ELSE "stopped"
                 /\ next' = IF check = "ok" /\ More THEN next + 1 ELSE next
      <3>1. CASE check = "ok"
        <4>1. Accepts(results[Plan[next]], Plan[next][2])
          BY <2>2, <3>1
        <4>2. results' = [results EXCEPT ![Plan[next]].check = "ok"]
          BY <4>1, SMT DEF Gate, Key
        <4>3. stage' = IF More THEN "condition" ELSE "summarise"
          BY <4>1, SMT DEF Gate, Key, EndsScript
        <4>4. next' = IF More THEN next + 1 ELSE next
          BY <4>3, SMT DEF Gate
        <4> QED  BY <3>1, <4>2, <4>3, <4>4, SMT
      <3>2. CASE check = "rejected"
        <4>1. ~Accepts(results[Plan[next]], Plan[next][2])
          BY <2>2, <3>2
        <4>2. results' = [results EXCEPT ![Plan[next]].check = "rejected"]
          BY <4>1, SMT DEF Gate, Key
        <4>3. stage' = "stopped"
          BY <4>1, SMT DEF Gate, Key, EndsScript
        <4>4. next' = next
          BY <4>3, SMT DEF Gate
        <4> QED  BY <3>2, <4>2, <4>3, <4>4, SMT
      <3> QED  BY <3>1, <3>2
    <2>3. PICK check \in {"ok", "rejected"} : check = "ok" <=> Accepts(results[Plan[next]], Plan[next][2])
      OBVIOUS
    <2> QED  BY <2>1, <2>2, <2>3
  <1>2. /\ stage = "gate" /\ UNCHANGED <<file, cache, run, summary, verdict, campaigns>>
        /\ Done(key) /\ results[key] \in Result /\ results[key].check = None
    BY <1>1, SMT DEF Gate, PlaceOK, TypeOK, Done
  <1>3. PICK result : result = [results[key] EXCEPT !.check = check]
    OBVIOUS
  <1>4. /\ result \in Result /\ result.value = results[key].value /\ result.check = check
        /\ result.start = results[key].start /\ result.before = results[key].before
        /\ result.status = results[key].status /\ result.advice = results[key].advice
        /\ result.warmed = results[key].warmed
    BY <1>2, <1>3 DEF Result
  <1>5. results' = [results EXCEPT ![key] = result] /\ results'[key] = result
    BY <1>1, <1>3 DEF TypeOK
  <1>6. next' \in 1 .. Len(Plan)
    BY <1>1, PlanFacts DEF More, TypeOK
  <1>7. TypeOK'
    <2>1. results' \in [Keys -> Result \cup {None}]
      BY <1>4, <1>5 DEF TypeOK
    <2>2. stage' \in {"condition", "summarise", "stopped"}
      BY <1>1
    <2> QED  BY <1>2, <1>6, <2>1, <2>2 DEF TypeOK
  <1>8. result # None
    BY <1>4, NoneAssumption
  <1>9. \A j \in DOMAIN Plan : j # next => results'[Plan[j]] = results[Plan[j]]
    BY <1>1, <1>5, PlanIsWhole, PlanFacts DEF TypeOK
  <1>10. PlaceOK'
    <2>1. next \in DOMAIN Plan /\ DOMAIN Plan \subseteq Nat /\ DOMAIN Plan = 1 .. Len(Plan)
      BY PlanFacts DEF TypeOK
    <2>2. CASE check # "ok"
      <3>1. next' = next /\ stage' = "stopped"
        BY <1>1, <2>2
      <3>2. \A j \in DOMAIN Plan : j < next \/ j > next => j # next
        BY <2>1
      <3>3. \A j \in DOMAIN Plan : j < next => Done(Plan[j]) /\ results[Plan[j]].check = "ok"
        BY DEF PlaceOK
      <3>4. \A j \in DOMAIN Plan : j > next => ~Done(Plan[j])
        BY DEF PlaceOK
      <3> QED  BY <1>9, <3>1, <3>2, <3>3, <3>4 DEF PlaceOK, Done
    <2>3. CASE check = "ok" /\ ~More
      <3>1. next = Len(Plan)
        BY <2>1, <2>3, PlanFacts DEF More
      <3> QED  BY <1>1, <1>2, <1>4, <1>5, <1>8, <1>9, <2>1, <2>3, <3>1 DEF PlaceOK, Done
    <2>4. CASE check = "ok" /\ More
      <3>1. next' = next + 1 /\ next + 1 \in DOMAIN Plan /\ stage' = "condition"
        BY <1>1, <2>1, <2>4, PlanFacts DEF More
      <3>2. \A j \in DOMAIN Plan : /\ j < next + 1 <=> j < next \/ j = next
                                   /\ j > next + 1 => j > next
        BY <2>1
      <3>3. next + 1 > next
        BY <2>1
      <3> QED  BY <1>1, <1>4, <1>5, <1>8, <1>9, <2>1, <2>4, <3>1, <3>2, <3>3 DEF PlaceOK, Done
    <2> QED  BY <2>2, <2>3, <2>4
  <1>11. FilesOK'
    <2>1. \A k \in Keys : k # key => results'[k] = results[k]
      BY <1>5 DEF TypeOK
    <2>2. Accepts(result, key[2]) <=> Accepts(results[key], key[2])
      BY <1>4 DEF Accepts
    <2>3. file = "whole" /\ stage' \in {"condition", "summarise", "stopped"}
      BY <1>1, <1>2, SMT DEF FilesOK
    <2>4. \A k \in Keys : k # key => (Done(k)' <=> Done(k))
      BY <2>1 DEF Done
    <2>5. \A k \in Keys : Done(k)' =>
            /\ results'[k].value \in Int
            /\ results'[k].start \in Levels /\ results'[k].before \in SeenAs(results'[k].start)
            /\ results'[k].check = "ok" => Accepts(results'[k], k[2])
      <3> SUFFICES ASSUME NEW k \in Keys, Done(k)'
                   PROVE  /\ results'[k].value \in Int
                          /\ results'[k].start \in Levels
                          /\ results'[k].before \in SeenAs(results'[k].start)
                          /\ results'[k].check = "ok" => Accepts(results'[k], k[2])
        OBVIOUS
      <3>1. CASE k # key
        BY <2>1, <2>4, <3>1 DEF FilesOK
      <3>2. CASE k = key
        BY <1>1, <1>2, <1>4, <1>5, <2>2, <3>2 DEF FilesOK
      <3> QED  BY <3>1, <3>2
    <2> QED  BY <1>2, <2>3, <2>5, SMT DEF FilesOK, Accepts
  <1>12. SummariesOK'
    <2>1. stage' \in {"condition", "summarise", "stopped"}
      BY <1>1, SMT
    <2> QED  BY <1>2, <2>1, SummariesFrame DEF Summarised
  <1> QED  BY <1>7, <1>10, <1>11, <1>12

LEMMA ReproductionStep == ReproductionInv /\ [Next]_vars => ReproductionInv'
  <1> SUFFICES ASSUME ReproductionInv, [Next]_vars PROVE ReproductionInv'
    OBVIOUS
  <1>1. CASE UNCHANGED vars
    <2>1. SummariesOK'
      BY <1>1, SummariesFrame DEF vars, written, ReproductionInv
    <2>2. TypeOK' /\ PlaceOK' /\ FilesOK'
      BY <1>1 DEF vars, written, ReproductionInv, TypeOK, PlaceOK, FilesOK, Done, Accepts
    <2> QED  BY <2>1, <2>2 DEF ReproductionInv
  <1> QED
    BY <1>1, ScriptStep, ConditionStep, InspectStep, StartOverStep, SummariseStep, MeasureStep, GateStep
    DEF Next


LEMMA InvHolds == Spec => []ReproductionInv
  BY ReproductionInit, ReproductionStep, PTL DEF Spec

-----------------------------------------------------------------------------
(* The theorems. *)

\* The type invariant, for every set of the script's runs.
THEOREM TypeCorrect == Spec => []TypeOK
  <1>1. ReproductionInv => TypeOK
    BY DEF ReproductionInv
  <1> QED  BY <1>1, InvHolds, PTL

\* All pages are resident if so many parts per million are: rounding down hides none.
LEMMA AllResident ==
  ASSUME NEW level \in Levels, NEW seen \in SeenAs(level), Ppm(seen) = 1000000
  PROVE  level = Pages
  <1>1. seen = level
    BY NoneAssumption DEF SeenAs, Ppm
  <1>2. level \in Nat /\ level <= Pages /\ Pages \in Nat /\ Pages > 0 /\ level # None
    BY ReproductionAssumption, NoneAssumption
  <1>3. (level * 1000000) \div Pages = 1000000
    BY <1>1, <1>2 DEF Ppm
  <1>4. \A a, b \in Nat : b > 0 => b * (a \div b) <= a
    BY SMT
  <1>5. Pages * 1000000 <= level * 1000000
    <2>1. level * 1000000 \in Nat
      BY <1>2
    <2>2. Pages * ((level * 1000000) \div Pages) <= level * 1000000
      BY <1>2, <1>4, <2>1
    <2> QED  BY <1>3, <2>2
  <1> QED  BY <1>2, <1>5

\* A summary is of every run of the plan, each of them accepted, on the whole data file
\* and, where it had to be resident, with all of its pages; and a script that gets to
\* the summary has all that the summary asks for, in whatever order its plan is.
THEOREM SummariesAreComplete == Spec => []SummaryIsComplete
  <1>1. ReproductionInv => SummaryIsComplete
    <2> SUFFICES ASSUME ReproductionInv PROVE SummaryIsComplete
      OBVIOUS
    <2> USE DEF ReproductionInv
    <2>1. ASSUME summary # None
          PROVE  file = "whole" /\ \A k \in Keys :
                   /\ results[k] # None /\ results[k].check = "ok" /\ Accepts(results[k], k[2])
                   /\ k[2] = "resident" => results[k].start = Pages
      <3>1. Summarised /\ \A k \in Keys : Validated(k)
        BY <2>1 DEF SummariesOK
      <3>2. file = "whole"
        BY <3>1 DEF FilesOK, Summarised
      <3>3. ASSUME NEW k \in Keys
            PROVE  /\ results[k] # None /\ results[k].check = "ok" /\ Accepts(results[k], k[2])
                   /\ k[2] = "resident" => results[k].start = Pages
        <4>1. results[k] # None /\ results[k].check = "ok" /\ Accepts(results[k], k[2])
          BY <3>1 DEF Validated, FilesOK, Done
        <4>2. results[k].start \in Levels /\ results[k].before \in SeenAs(results[k].start)
          BY <4>1 DEF FilesOK, Done
        <4>3. k[2] = "resident" => Ppm(results[k].before) = 1000000
          BY <4>1 DEF Accepts
        <4> QED  BY <4>1, <4>2, <4>3, AllResident
      <3> QED  BY <3>2, <3>3
    <2>2. ASSUME stage = "summarise", NEW k \in Keys PROVE Validated(k)
      <3>1. PICK j \in DOMAIN Plan : Plan[j] = k
        BY PlanIsWhole
      <3>2. j \in 1 .. Len(Plan) /\ next = Len(Plan) /\ Len(Plan) \in Nat
        BY <2>2, PlanFacts DEF PlaceOK
      <3>3. j < next \/ j = next
        BY <3>2
      <3>4. Done(k) /\ results[k].check = "ok"
        BY <2>2, <3>1, <3>3 DEF PlaceOK
      <3>5. Accepts(results[k], k[2])
        BY <3>4 DEF FilesOK
      <3> QED  BY <3>4, <3>5 DEF Validated, Done, Accepts
    <2> QED  BY <2>1, <2>2 DEF SummaryIsComplete
  <1> QED  BY <1>1, InvHolds, PTL

\* As long as mincore does not fail, what a summary calls mostly nonresident at the
\* start of a slow run was so, by the pages that were resident then.
THEOREM ColdStartsAreHonest == MincoreFails = FALSE => (Spec => []ColdStartIsHonest)
  <1> SUFFICES ASSUME MincoreFails = FALSE PROVE Spec => []ColdStartIsHonest
    OBVIOUS
  <1>1. ReproductionInv => ColdStartIsHonest
    <2> SUFFICES ASSUME ReproductionInv, summary # None, NEW m \in SlowModes,
                        summary.nonresident[m], NEW rep \in 1 .. 3
                 PROVE  NonResident(results[<<rep, "slow", m>>].start)
      BY DEF ColdStartIsHonest
    <2>1. PICK k \in Keys : k = <<rep, "slow", m>>
      BY ModeKeys
    <2>2. Done(k) /\ summary = SummaryOfRuns
      BY DEF ReproductionInv, SummariesOK, Validated, Done
    <2>3. results[k].before = results[k].start
      BY <2>2 DEF ReproductionInv, FilesOK, SeenAs
    <2>4. AllStarts(Of("slow", m))
      BY <2>2 DEF SummaryOfRuns
    <2>5. NonResident(results[k].before)
      BY <2>1, <2>4 DEF AllStarts, Of
    <2> QED  BY <2>1, <2>3, <2>5
  <1> QED  BY <1>1, InvHolds, PTL


-----------------------------------------------------------------------------
(* Results are written once and judged once. *)

\* All that is written besides the current run was accepted.
LEMMA OthersAreAccepted ==
  ASSUME ReproductionInv, NEW j \in Keys, j # Plan[next], Done(j)
  PROVE  results[j].check = "ok"
  <1>1. PICK i \in DOMAIN Plan : Plan[i] = j
    BY PlanIsWhole
  <1>2. i \in Nat /\ next \in Nat /\ i # next /\ ~(i > next)
    <2>1. i \in Nat /\ next \in Nat
      BY PlanFacts DEF ReproductionInv, TypeOK
    <2>2. Done(Plan[i])
      BY <1>1
    <2> QED  BY <1>1, <2>1, <2>2 DEF ReproductionInv, PlaceOK
  <1>3. i < next
    BY <1>2
  <1> QED  BY <1>1, <1>3 DEF ReproductionInv, PlaceOK

\* Only the result of the current run changes, and where there is one, by its verdict.
LEMMA OneResultChanges ==
  ASSUME ReproductionInv, Next, campaigns' = campaigns, NEW k \in Keys, results'[k] # results[k]
  PROVE  /\ k = Plan[next]
         /\ results[k] # None =>
              /\ results[k].check = None
              /\ results'[k] = [results[k] EXCEPT !.check = results'[k].check]
  <1> USE DEF ReproductionInv
  <1>1. Plan[next] \in Keys
    BY PlanFacts DEF TypeOK
  <1>2. CASE Measure
    <2>1. ~Done(Plan[next])
      BY <1>2 DEF Measure, PlaceOK
    <2>2. PICK result : results' = [results EXCEPT ![Plan[next]] = result]
      BY <1>2 DEF Measure, Key
    <2>3. k = Plan[next]
      BY <2>2 DEF TypeOK
    <2> QED  BY <2>1, <2>3 DEF Done
  <1>3. CASE Gate
    <2>1. Done(Plan[next]) /\ results[Plan[next]].check = None
      BY <1>3, SMT DEF Gate, PlaceOK
    <2>2. PICK check \in {"ok", "rejected"} :
            results' = [results EXCEPT ![Plan[next]] = [results[Plan[next]] EXCEPT !.check = check]]
      <3>1. CASE Accepts(results[Plan[next]], Plan[next][2])
        <4>1. results' = [results EXCEPT ![Plan[next]].check = "ok"]
          BY <1>3, <3>1, SMT DEF Gate, Key
        <4>2. results' = [results EXCEPT ![Plan[next]] = [results[Plan[next]] EXCEPT !.check = "ok"]]
          BY <4>1, SMT
        <4> HIDE DEF ReproductionInv
        <4> QED  BY <4>2
      <3>2. CASE ~Accepts(results[Plan[next]], Plan[next][2])
        <4>1. results' = [results EXCEPT ![Plan[next]].check = "rejected"]
          BY <1>3, <3>2, SMT DEF Gate, Key
        <4>2. results' = [results EXCEPT ![Plan[next]] = [results[Plan[next]] EXCEPT !.check = "rejected"]]
          BY <4>1, SMT
        <4> HIDE DEF ReproductionInv
        <4> QED  BY <4>2
      <3> QED  BY <3>1, <3>2
    <2>3. k = Plan[next] /\ results'[k] = [results[k] EXCEPT !.check = check]
      BY <1>1, <2>2, SMT DEF TypeOK
    <2>4. results[k] \in Result
      BY <2>1, <2>3, SMT DEF TypeOK, Done
    <2>5. results'[k].check = check
      BY <2>3, <2>4, SMT DEF Result
    <2> QED  BY <2>1, <2>3, <2>5
  <1>4. CASE StartOver
    <2>1. campaigns \in Nat /\ campaigns' = campaigns + 1
      BY <1>4, ReproductionAssumption DEF StartOver, TypeOK
    <2> QED  BY <2>1
  <1>5. ASSUME ~Measure, ~Gate, ~StartOver PROVE UNCHANGED results
    BY <1>5, Zenon DEF Next, CacheDrifts, Generate, CheckInput, Preflight, Condition, InspectBefore, Abort,
                Summarise, Compare, vars, written
  <1> QED  BY <1>2, <1>3, <1>4, <1>5

\* The campaign never retries a run and never replaces one; and nothing is written after
\* a run that was rejected.
THEOREM NothingIsReplaced == Spec => NeverReplaced
  <1> DEFINE Written(k) ==
        /\ \A j \in Keys \ {k} : results[j] # None => results[j].check = "ok"
        /\ results[k] # None =>
             /\ results[k].check = None
             /\ results'[k] = [results[k] EXCEPT !.check = results'[k].check]
  <1>1. ASSUME ReproductionInv, [Next]_vars
        PROVE  [campaigns' = campaigns => \A k \in Keys : results'[k] # results[k] => Written(k)]_vars
    <2>1. ASSUME Next, campaigns' = campaigns, NEW k \in Keys, results'[k] # results[k] PROVE Written(k)
      <3>1. k = Plan[next] /\ (results[k] # None =>
              /\ results[k].check = None
              /\ results'[k] = [results[k] EXCEPT !.check = results'[k].check])
        BY <1>1, <2>1, OneResultChanges
      <3>2. \A j \in Keys \ {k} : results[j] # None => results[j].check = "ok"
        BY <1>1, <3>1, OthersAreAccepted DEF Done
      <3> QED  BY <3>1, <3>2
    <2> HIDE DEF Written
    <2> QED  BY <1>1, <2>1
  <1>2. Spec => [][campaigns' = campaigns => \A k \in Keys : results'[k] # results[k] => Written(k)]_vars
    <2> HIDE DEF Written
    <2> QED  BY <1>1, InvHolds, PTL DEF Spec
  <1> QED  BY <1>2 DEF NeverReplaced

-----------------------------------------------------------------------------
(* The verdict. *)

\* A median below another is below it in two repetitions, each of them below two of
\* the other mode.
LEMMA MedianBelow ==
  ASSUME NEW a, NEW b, \A rep \in 1 .. 3 : a[rep].value \in Int /\ b[rep].value \in Int,
         MedianOf(a) < MedianOf(b)
  PROVE  Cardinality(Below(a, b)) >= 2
  <1>1. PICK i, j \in 1 .. 3 : i # j /\ a[i].value <= a[j].value /\ MedianOf(a) = a[j].value
    BY MedianFacts
  <1>2. PICK m, n \in 1 .. 3 : m # n /\ b[m].value <= b[n].value /\ MedianOf(b) = b[m].value
    BY MedianFacts
  <1>3. /\ a[j].value < b[m].value /\ a[j].value < b[n].value
        /\ a[i].value < b[m].value /\ a[i].value < b[n].value
    <2>1. /\ a[i].value \in Int /\ a[j].value \in Int /\ b[m].value \in Int /\ b[n].value \in Int
          /\ a[j].value < b[m].value
      BY <1>1, <1>2
    <2> QED  BY <1>1, <1>2, <2>1
  <1>4. {i, j} \subseteq Below(a, b)
    BY <1>2, <1>3 DEF Below
  <1>5. IsFiniteSet(Below(a, b))
    <2>1. IsFiniteSet(1 .. 3)
      BY FS_Interval, 1 \in Int, 3 \in Int
    <2>2. Below(a, b) \subseteq 1 .. 3
      BY DEF Below
    <2> QED  BY <2>1, <2>2, FS_Subset
  <1>6. Cardinality({i, j}) = 2
    <2>1. IsFiniteSet({i}) /\ Cardinality({i}) = 1
      BY FS_Singleton
    <2>2. {i, j} = {i} \cup {j} /\ j \notin {i}
      BY <1>1
    <2>3. Cardinality({i} \cup {j}) = IF j \in {i} THEN Cardinality({i}) ELSE Cardinality({i}) + 1
      BY <2>1, FS_AddElement
    <2> QED  BY <2>1, <2>2, <2>3
  <1>7. Cardinality({i, j}) <= Cardinality(Below(a, b)) /\ Cardinality(Below(a, b)) \in Nat
    BY <1>4, <1>5, FS_Subset, FS_CardinalityType
  <1> QED  BY <1>6, <1>7

\* All below all, and so the median.
LEMMA AllBelowMedian ==
  ASSUME NEW a, NEW b, \A rep \in 1 .. 3 : a[rep].value \in Int /\ b[rep].value \in Int,
         \A i, j \in 1 .. 3 : a[i].value < b[j].value
  PROVE  MedianOf(a) < MedianOf(b)
  <1>1. (\E j \in 1 .. 3 : MedianOf(a) = a[j].value) /\ \E j \in 1 .. 3 : MedianOf(b) = b[j].value
    BY MedianFacts
  <1> QED  BY <1>1

\* What the comparison says of two modes, of the files that were summarised.
LEMMA DirectionalFacts ==
  ASSUME ReproductionInv, stage = "compared",
         NEW lower \in ResidentModes, NEW higher \in ResidentModes,
         NEW a, a = Of("resident", lower), NEW b, b = Of("resident", higher)
  PROVE  /\ Directional(lower, higher) = "yes" => Cardinality(Below(a, b)) >= 2
         /\ (\A i, j \in 1 .. 3 : a[i].value < b[j].value) => Directional(lower, higher) = "yes"
  <1>1. summary = SummaryOfRuns /\ \A k \in Keys : Done(k)
    BY DEF ReproductionInv, SummariesOK, Summarised, Validated, Done
  <1>2. summary.median[lower] = MedianOf(a) /\ summary.median[higher] = MedianOf(b)
    BY <1>1 DEF SummaryOfRuns
  <1>3. \A rep \in 1 .. 3 : a[rep].value \in Int /\ b[rep].value \in Int
    BY <1>1, ModeKeys DEF Of, ReproductionInv, FilesOK
  <1>4. Directional(lower, higher) = "yes" <=> MedianOf(a) < MedianOf(b)
    BY <1>2 DEF Directional
  <1> QED  BY <1>3, <1>4, MedianBelow, AllBelowMedian

\* A difference that is reported is one of most repetitions, and one that all
\* repetitions show is reported.
THEOREM VerdictsAreOfMost == Spec => []VerdictIsMajority
  <1>1. ReproductionInv => VerdictIsMajority
    <2> SUFFICES ASSUME ReproductionInv, verdict # None,
                        {"blocking", "normal", "default"} \subseteq ResidentModes
                 PROVE  VerdictIsMajority
      BY DEF VerdictIsMajority
    <2>1. /\ stage = "compared" /\ verdict.lower = Directional("normal", "blocking")
          /\ verdict.higher = Directional("normal", "default")
      BY DEF ReproductionInv, SummariesOK
    <2>2. "blocking" \in ResidentModes /\ "normal" \in ResidentModes /\ "default" \in ResidentModes
      OBVIOUS
    <2> QED  BY <2>1, <2>2, DirectionalFacts DEF VerdictIsMajority
  <1> QED  BY <1>1, InvHolds, PTL
=============================================================================
