---------------------------- MODULE RingService ----------------------------
(* Ring implements ReadService. *)
EXTENDS Ring

\* How far a read under way has come, as its caller and the kernel see it.  An
\* operation checked by submitBatch but not yet exposed by the tail store is not
\* lent.
Progress(o) ==
  CASE opState[o] = "published" /\ o \in KernelOwned -> "lent"
    [] opState[o] = "published" /\ o \notin KernelOwned /\ served[o] # None -> "answered"
    [] opState[o] \in {"terminal", "released"} -> "settled"
    [] OTHER -> "accepted"

Phase(o) ==
  CASE rpc[o] = "start"    -> "idle"
    [] rpc[o] = "admit"    -> "called"
    [] rpc[o] = "returned" -> "returned"
    [] OTHER               -> Progress(o)

Abstract == INSTANCE ReadService WITH
  phase <- [o \in Reads |-> Phase(o)],
  answer <- served,
  result <- ret,
  shut <- closed

\* Every step of the ring, with batches, partial submission, overflow of the CQ
\* and a racing Close, is a step of the service or changes nothing it shows.
Service == Abstract!Spec
=============================================================================
