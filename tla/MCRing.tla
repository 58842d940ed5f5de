------------------------------- MODULE MCRing -------------------------------
(* Model values and bounds for checking Ring. *)
EXTENDS RingService, TLC

CONSTANTS r1, r2, r3, c1, c2

MCReads == {r1, r2, r3}
MCTwoReads == {r1, r2}
MCClosers == {c1, c2}
MCOneCloser == {c1}

\* Calls are interchangeable: no property that a symmetric run checks names one.
Interchangeable == Permutations(MCReads) \cup Permutations(MCClosers)
=============================================================================
