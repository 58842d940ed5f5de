---------------------------- MODULE Measurements ----------------------------
(***************************************************************************)
(* What runChild makes of the latency samples of its workers, and what       *)
(* cmd/summarize shows of the result.  A sample is a pair of times: that of  *)
(* the read alone (service), and that since the request began, the wait for  *)
(* a permit included (end to end).  The workers' samples are put together    *)
(* and sorted, so only how many there are of each pair matters.              *)
(***************************************************************************)
EXTENDS Arithmetic, FiniteSetsExt, TLC

CONSTANTS
  None,
  MaxTime,   \* bound: the times
  Bags       \* the samples there may be: how many of each pair

Times == 1 .. MaxTime
Samples == {s \in Times \X Times : s[1] <= s[2]}

VARIABLES
  count,    \* how many samples there are of each pair
  latency,  \* r.Latency
  table     \* the latency columns of the table

vars == <<count, latency, table>>
Columns == {"p50_ns", "p95_ns", "p99_ns", "max_ns"}

Init == count \in Bags /\ latency = None /\ table = None

-----------------------------------------------------------------------------
(* latencySummary. *)

Total == MapThenSumSet(LAMBDA s : count[s], Samples)

\* Where a sample has the time of a kind.
Place(kind) == IF kind = "service" THEN 1 ELSE 2

\* How many samples are at most t.
AtMost(kind, t) ==
  MapThenSumSet(LAMBDA s : count[s], {s \in Samples : s[Place(kind)] <= t})

\* values[i - 1], when they are sorted.
Nth(kind, i) == CHOOSE t \in Times : AtMost(kind, t - 1) < i /\ i <= AtMost(kind, t)

Summary(kind) ==
  IF Total = 0 THEN [samples |-> 0] @@ [c \in Columns |-> None]
  ELSE [samples |-> Total, p50_ns |-> Nth(kind, Rank(50, Total)),
        p95_ns |-> Nth(kind, Rank(95, Total)), p99_ns |-> Nth(kind, Rank(99, Total)),
        max_ns |-> Nth(kind, Total)]

Summarise ==
  /\ latency = None
  /\ latency' = [service |-> Summary("service"), end_to_end |-> Summary("end_to_end")]
  /\ UNCHANGED <<count, table>>

-----------------------------------------------------------------------------
(* cmd/summarize: the columns are looked up in the latency object; what is not *)
(* there, or not a number, is 0. *)

Lookup(object, name) ==
  IF name \in DOMAIN object /\ object[name] # None THEN object[name] ELSE 0

Tabulate ==
  /\ latency # None /\ table = None
  /\ table' = [c \in Columns |-> Lookup(latency, c)]
  /\ UNCHANGED <<count, latency>>

Next == Summarise \/ Tabulate \/ (table # None /\ UNCHANGED vars)

Spec == Init /\ [][Next]_vars

-----------------------------------------------------------------------------
(* Properties. *)

Kinds == {"service", "end_to_end"}

\* "summarize prints a stable TSV view of individual iobaseline JSON results": the
\* latency columns show the latencies of one of the two kinds.
TableShowsLatency ==
  table # None /\ Total > 0 => \E kind \in Kinds : \A c \in Columns :
    table[c] = latency[kind][c]
=============================================================================
