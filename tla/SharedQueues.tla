---------------------------- MODULE SharedQueues ----------------------------
(***************************************************************************)
(* What the two rings shared with the kernel are to the rest of the code:   *)
(* two bounded queues.  An operation goes through the SQ, the kernel and    *)
(* the CQ; each queue keeps its order and loses and repeats nothing.        *)
(***************************************************************************)
EXTENDS Integers, Sequences, FiniteSets, Functions

CONSTANTS Ops, SqEntries, CqEntries

VARIABLES
  idle,    \* the operations in no queue
  sq, cq,  \* the queues
  kernel   \* what the kernel has taken and not answered

vars == <<idle, sq, kernel, cq>>

Init == idle = Ops /\ sq = <<>> /\ kernel = {} /\ cq = <<>>

\* A batch is exposed at once.
Publish ==
  \E n \in 1 .. SqEntries - Len(sq) : \E batch \in [1 .. n -> idle] :
    /\ IsInjective(batch)
    /\ sq' = sq \o batch /\ idle' = idle \ Range(batch)
    /\ UNCHANGED <<kernel, cq>>

Take ==
  /\ sq # <<>> /\ kernel' = kernel \cup {Head(sq)} /\ sq' = Tail(sq)
  /\ UNCHANGED <<idle, cq>>

Answer ==
  \E op \in kernel :
    /\ Len(cq) < CqEntries
    /\ cq' = Append(cq, op) /\ kernel' = kernel \ {op}
    /\ UNCHANGED <<idle, sq>>

Finish ==
  /\ cq # <<>> /\ idle' = idle \cup {Head(cq)} /\ cq' = Tail(cq)
  /\ UNCHANGED <<sq, kernel>>

Next == Publish \/ Take \/ Answer \/ Finish

Spec == Init /\ [][Next]_vars
=============================================================================
