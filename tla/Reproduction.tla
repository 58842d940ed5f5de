---------------------------- MODULE Reproduction ----------------------------
(***************************************************************************)
(* The cross-host campaign: the script that prepares the data file, runs     *)
(* three orders of processes, each from the page cache its predecessors and  *)
(* the host have left, and stops at the first that its gate rejects; then    *)
(* the summary of the runs and the comparison, which may be tried by hand on *)
(* whatever an aborted campaign has left; then, perhaps, another campaign.   *)
(*                                                                         *)
(* Campaign says which runs of a mode a gate accepts.  Here a process is     *)
(* started with the flags of its mode, and what varies is its page cache,    *)
(* its status and the one value that stands for its measurements.            *)
(***************************************************************************)
EXTENDS Integers, Sequences, SequencesExt, FiniteSets

CONSTANTS
  None,
  Items,         \* the runs of a repetition, as <<part, mode>>
  Pages,         \* of the data file
  Levels,        \* bound: how many of them may be resident
  Values,        \* bound: what each of them may measure
  MaxCampaigns,  \* bound: how often the script is started
  MincoreFails   \* whether mincore may fail

ASSUME ReproductionAssumption ==
  /\ Items # {} /\ \A item \in Items : item = <<item[1], item[2]>>
  /\ Pages \in Nat \ {0} /\ Levels \subseteq 0 .. Pages /\ {0, Pages} \subseteq Levels
  /\ Values \in [Items -> SUBSET Int] /\ MaxCampaigns \in Nat \ {0} /\ MincoreFails \in BOOLEAN

VARIABLES
  file,     \* the data file: "none", "partial" or "whole"
  cache,    \* how many of its pages are resident
  stage,    \* what the script does
  next,     \* the number of the run in the plan
  run,      \* what the process has recorded so far
  results,  \* the files in runs/, by repetition, part and mode
  summary,  \* resident-curve.csv and slow-thread-pressure.csv
  verdict,  \* the directional checks of the comparison
  campaigns \* how often the script was started

vars == <<file, cache, stage, next, run, results, summary, verdict, campaigns>>
written == <<results, summary, verdict, campaigns>>

-----------------------------------------------------------------------------
(* The plan. *)

Slow(mode) == <<"slow", mode>>
Resident(mode) == <<"resident", mode>>

Orders == <<
  <<Slow("blocking"), Resident("U1"), Resident("U8"), Slow("normal"), Resident("normal"),
    Resident("U2"), Resident("U16"), Resident("blocking"), Resident("default"), Resident("U4")>>,
  <<Resident("U16"), Slow("normal"), Resident("U1"), Resident("default"), Slow("blocking"),
    Resident("U4"), Resident("normal"), Resident("U2"), Resident("U8"), Resident("blocking")>>,
  <<Resident("default"), Resident("U4"), Slow("blocking"), Resident("U16"), Resident("U8"),
    Slow("normal"), Resident("U1"), Resident("normal"), Resident("U2"), Resident("blocking")>> >>

\* The runs in their order, as <<repetition, part, mode>>.
Plan ==
  FlattenSeq([rep \in 1 .. 3 |->
    LET order == SelectSeq(Orders[rep], LAMBDA item : item \in Items)
    IN [i \in DOMAIN order |-> <<rep, order[i][1], order[i][2]>>]])

Keys == {<<rep, item[1], item[2]>> : rep \in 1 .. 3, item \in Items}

\* Each of the orders has each of the runs once.
ASSUME PlanIsWhole ==
  /\ Plan \in Seq(Keys)
  /\ \A i, j \in DOMAIN Plan : Plan[i] = Plan[j] => i = j
  /\ \A k \in Keys : \E i \in DOMAIN Plan : Plan[i] = k

SlowModes == {item[2] : item \in {i \in Items : i[1] = "slow"}}
ResidentModes == {item[2] : item \in {i \in Items : i[1] = "resident"}}

-----------------------------------------------------------------------------
(* Residency. *)

\* inspectResidency: pages seen resident, or None, which has the ppm 0 too.
Inspect == {cache} \cup (IF MincoreFails THEN {None} ELSE {})
Ppm(seen) == IF seen = None THEN 0 ELSE (seen * 1000000) \div Pages
NonResident(seen) == Ppm(seen) <= 50000

\* The kernel evicts pages, and others read the file.
CacheDrifts ==
  /\ cache' \in Levels \ {cache}
  /\ UNCHANGED <<file, stage, next, run, written>>

-----------------------------------------------------------------------------
(* The script up to the first run. *)

Seen == Levels \cup {None}
Result == [status : {None, "ok", "failed"}, warmed : Seen, advice : {None, "done", "error"},
           before : Seen, start : Seen, value : Int \cup {None},
           check : {None, "ok", "rejected"}]

ASSUME NoneAssumption ==
  /\ None \notin {"ok", "failed", "done", "error", "rejected"}
  /\ None \notin Levels /\ None \notin Result

Blank == [status |-> None, warmed |-> None, advice |-> None, before |-> None,
          start |-> None, value |-> None, check |-> None]

Init ==
  /\ file \in {"none", "partial", "whole"} /\ cache = 0
  /\ stage = "input" /\ next = 1 /\ run = Blank /\ campaigns = 1
  /\ results = [k \in Keys |-> None] /\ summary = None /\ verdict = None

\* genfile, which may fail anywhere; what it writes stays in the cache.
Generate ==
  /\ stage = "input" /\ file = "none"
  /\ \/ file' = "whole" /\ cache' = Pages /\ stage' = "preflight"
     \/ file' \in {"none", "partial", "whole"} /\ cache' \in Levels /\ stage' = "stopped"
  /\ UNCHANGED <<next, run, written>>

LargeEnough == file = "whole"

\* A file that exists is taken as it is.
CheckInput ==
  /\ stage = "input" /\ file # "none"
  /\ stage' = IF LargeEnough THEN "preflight" ELSE "stopped"
  /\ UNCHANGED <<file, cache, next, run, written>>

\* Builds, tests, the probe, and the smoke run, which prewarms the file.
Preflight ==
  /\ stage = "preflight" /\ stage' \in {"condition", "stopped"}
  /\ cache' \in {cache, Pages}
  /\ UNCHANGED <<file, next, run, written>>

-----------------------------------------------------------------------------
(* run_one. *)

KeyWithoutRepetition == <<1, Plan[next][2], Plan[next][3]>>
Key == Plan[next]
IsSlow == Key[2] = "slow"

\* fadviseDontneed drops what can be dropped, or fails.
Dontneed ==
  \E advice \in {"done", "error"} :
    /\ cache' \in IF advice = "done" THEN {l \in Levels : l <= cache} ELSE {cache}
    /\ run' = [Blank EXCEPT !.advice = advice]

\* A prewarm that fails has read a part.
Prewarm ==
  /\ cache' \in {l \in Levels : l >= cache}
  /\ \E warmed \in {cache'} \cup (IF MincoreFails THEN {None} ELSE {}) :
       run' = [Blank EXCEPT !.warmed = warmed]

\* applyCachePrecondition.
Condition ==
  /\ stage = "condition" /\ stage' = "inspect"
  /\ IF IsSlow THEN Dontneed ELSE Prewarm
  /\ UNCHANGED <<file, next, written>>

\* residency_before_measurement.
InspectBefore ==
  /\ stage = "inspect" /\ stage' = "measure"
  /\ \E before \in Inspect : run' = [run EXCEPT !.before = before, !.start = cache]
  /\ UNCHANGED <<file, cache, next, written>>

\* The reads fill the cache; iobaseline writes its result and exits with 0, whatever
\* the status.
Measure ==
  /\ stage = "measure" /\ stage' = "gate"
  /\ cache' \in {l \in Levels : l >= cache}
  /\ \E status \in {"ok", "failed"}, value \in Values[<<Key[2], Key[3]>>] :
       results' = [results EXCEPT ![Key] = [run EXCEPT !.status = status, !.value = value]]
  /\ run' = Blank
  /\ UNCHANGED <<file, next, summary, verdict, campaigns>>

\* phase6check of the result, for the part and mode of this run.
Accepts(result, part) ==
  /\ result.status = "ok"
  /\ IF part = "slow" THEN result.advice = "done"
     ELSE Ppm(result.warmed) = 1000000 /\ Ppm(result.before) = 1000000

More == next < Len(Plan)

EndsScript(ok) == ~ok

\* set -e: a gate that fails ends the script.
Gate ==
  /\ stage = "gate"
  /\ LET ok == Accepts(results[Key], Key[2]) IN
       /\ results' = [results EXCEPT ![Key].check = IF ok THEN "ok" ELSE "rejected"]
       /\ stage' = CASE EndsScript(ok) -> "stopped"
                     [] ~EndsScript(ok) /\ More -> "condition"
                     [] OTHER -> "summarise"
       /\ next' = IF stage' = "condition" THEN next + 1 ELSE next
  /\ UNCHANGED <<file, cache, run, summary, verdict, campaigns>>

\* A signal, or a process that could not be run: what is written stays.
Abort ==
  /\ stage \in {"condition", "inspect", "measure", "gate", "summarise"}
  /\ stage' = "stopped" /\ run' = Blank
  /\ UNCHANGED <<file, cache, next, written>>

\* The script again, with another directory.
StartOver ==
  /\ stage \in {"stopped", "compared"} /\ campaigns < MaxCampaigns
  /\ stage' = "input" /\ next' = 1 /\ campaigns' = campaigns + 1
  /\ results' = [k \in Keys |-> None] /\ summary' = None /\ verdict' = None
  /\ UNCHANGED <<file, cache, run>>

-----------------------------------------------------------------------------
(* phase8-summarize.py and phase8compare. *)

StatusOnly(k) == results[k] # None /\ results[k].status = "ok"
Validated(k) == results[k] # None /\ results[k].check = "ok" /\ results[k].status = "ok"

Of(part, mode) == [rep \in 1 .. 3 |-> results[<<rep, part, mode>>]]
LastOf(three) == three[3].value
MedianOf(three) ==
  three[CHOOSE j \in 1 .. 3 : \E i, k \in 1 .. 3 :
          /\ {i, j, k} = 1 .. 3
          /\ three[i].value <= three[j].value /\ three[j].value <= three[k].value].value

AnyStart(three) == \E rep \in 1 .. 3 : NonResident(three[rep].before)
AllStarts(three) == \A rep \in 1 .. 3 : NonResident(three[rep].before)

SummaryOfRuns ==
  [nonresident |-> [m \in SlowModes |-> AllStarts(Of("slow", m))],
   median |-> [m \in ResidentModes |-> MedianOf(Of("resident", m))]]

\* Without every run validated, the summary raises an exception.
Summarise ==
  /\ stage \in {"summarise", "stopped"} /\ summary = None
  /\ \A k \in Keys : Validated(k)
  /\ summary' = SummaryOfRuns
  /\ stage' = "summarised"
  /\ UNCHANGED <<file, cache, next, run, results, verdict, campaigns>>

\* directional: whether the median of one mode is below that of another.
Directional(lower, higher) ==
  IF {lower, higher} \subseteq ResidentModes
  THEN IF summary.median[lower] < summary.median[higher] THEN "yes" ELSE "no"
  ELSE "unclear"

Compare ==
  /\ stage = "summarised" /\ stage' = "compared"
  /\ verdict' = [lower |-> Directional("normal", "blocking"),
                  higher |-> Directional("normal", "default")]
  /\ UNCHANGED <<file, cache, next, run, results, summary, campaigns>>

Next ==
  \/ CacheDrifts \/ Generate \/ CheckInput \/ Preflight
  \/ Condition \/ InspectBefore \/ Measure \/ Gate \/ Abort \/ StartOver
  \/ Summarise \/ Compare
  \/ stage \in {"stopped", "compared"} /\ UNCHANGED vars

Spec == Init /\ [][Next]_vars

-----------------------------------------------------------------------------
(* Properties. *)

\* The types: the file, its cache, and what the campaign has written.
TypeOK ==
  /\ file \in {"none", "partial", "whole"} /\ cache \in Levels
  /\ stage \in {"input", "preflight", "condition", "inspect", "measure", "gate",
                "summarise", "summarised", "compared", "stopped"}
  /\ next \in 1 .. Len(Plan) /\ campaigns \in 1 .. MaxCampaigns /\ run \in Result
  /\ results \in [Keys -> Result \cup {None}]
  /\ summary = None \/ summary \in [nonresident : [SlowModes -> BOOLEAN],
                                    median : [ResidentModes -> Int]]
  /\ verdict = None \/ verdict \in [{"lower", "higher"} -> {"yes", "no", "unclear"}]

\* "It never retries and replaces a failed run", and "the runner stops at the first
\* failed validation": the result of a run is written once and judged once, and only
\* when all that the campaign has written before was accepted.
NeverReplaced ==
  [][campaigns' = campaigns => \A k \in Keys : results'[k] # results[k] =>
       /\ \A j \in Keys \ {k} : results[j] # None => results[j].check = "ok"
       /\ results[k] # None =>
            /\ results[k].check = None
            /\ results'[k] = [results[k] EXCEPT !.check = results'[k].check]]_vars

\* A campaign is summarised only if every planned run of it was accepted, on the
\* whole data file, even if the generation of that file failed and the script was
\* started again; and every campaign without a failure is, since each of the orders
\* has each of the runs.
SummaryIsComplete ==
  /\ summary # None => file = "whole" /\ \A k \in Keys :
       /\ results[k] # None /\ results[k].check = "ok" /\ Accepts(results[k], k[2])
       /\ k[2] = "resident" => results[k].start = Pages
  /\ stage = "summarise" => \A k \in Keys : Validated(k)

\* What is summarised as slow runs that all began mostly nonresident did begin so,
\* whatever ran before them: by the pages that were resident then.
ColdStartIsHonest ==
  summary # None => \A m \in SlowModes :
    summary.nonresident[m] => \A rep \in 1 .. 3 :
      NonResident(results[<<rep, "slow", m>>].start)

Below(a, b) == {rep \in 1 .. 3 : \E i, j \in 1 .. 3 : i # j
                 /\ a[rep].value < b[i].value /\ a[rep].value < b[j].value}

\* A difference that is reported is one of most repetitions: two of the one mode lie
\* below two of the other.  One that all repetitions show is reported.
VerdictIsMajority ==
  verdict # None /\ {"blocking", "normal", "default"} \subseteq ResidentModes =>
    LET blocking == Of("resident", "blocking")
        normal == Of("resident", "normal")
        default == Of("resident", "default")
        AllBelow(a, b) == \A i, j \in 1 .. 3 : a[i].value < b[j].value
    IN /\ verdict.lower = "yes" => Cardinality(Below(normal, blocking)) >= 2
       /\ verdict.higher = "yes" => Cardinality(Below(normal, default)) >= 2
       /\ AllBelow(normal, blocking) => verdict.lower = "yes"
       /\ AllBelow(normal, default) => verdict.higher = "yes"
=============================================================================
