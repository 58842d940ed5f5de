----------------------------- MODULE Arithmetic -----------------------------
(***************************************************************************)
(* The small calculations of the ring and the harness whose results are     *)
(* indices or offsets.                                                      *)
(***************************************************************************)
EXTENDS Integers

-----------------------------------------------------------------------------
(* batchBucket: 1, 2, 3-4, 5-8, ..., 257-512, and the rest. *)

\* The largest batch of a bucket; the last bucket has none.
Bound == <<1, 2, 4, 8, 16, 32, 64, 128, 256, 512>>

BatchBucket(n) ==
  CASE n <= 1 -> 0
    [] n = 2 -> 1
    [] n > 2 /\ n <= 4 -> 2
    [] n > 4 /\ n <= 8 -> 3
    [] n > 8 /\ n <= 16 -> 4
    [] n > 16 /\ n <= 32 -> 5
    [] n > 32 /\ n <= 64 -> 6
    [] n > 64 /\ n <= 128 -> 7
    [] n > 128 /\ n <= 256 -> 8
    [] n > 256 /\ n <= 512 -> 9
    [] OTHER -> 10

-----------------------------------------------------------------------------
(* latencySummary. *)

\* Ceil(p * n), of the percentage p.
Rank(percent, n) == (percent * n + 99) \div 100

-----------------------------------------------------------------------------
(* nextOffset. *)

Slots(size, buffer) == size \div buffer
Offset(random, size, buffer) == (random % Slots(size, buffer)) * buffer
=============================================================================
