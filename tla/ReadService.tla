---------------------------- MODULE ReadService ----------------------------
(***************************************************************************)
(* What a ring promises its callers, without queues, loops or locks.  A     *)
(* read that is accepted has its buffer lent to the kernel, once; the       *)
(* kernel answers it, once; only then is the buffer the caller's again, and *)
(* the call returns that answer.  Others are refused with the buffer never  *)
(* lent.  The service shuts down only with no accepted read unsettled, and  *)
(* accepts none afterwards.                                                 *)
(***************************************************************************)
CONSTANTS Reads, Results, Refusals, Outcome, None

VARIABLES
  phase,    \* how far each read has come
  answer,   \* what the kernel answered
  result,   \* what the call returned
  shut      \* whether the service is closed

vars == <<phase, answer, result, shut>>

Init ==
  /\ phase = [o \in Reads |-> "idle"]
  /\ answer = [o \in Reads |-> None]
  /\ result = [o \in Reads |-> None]
  /\ shut = FALSE

Call(o) ==
  /\ phase[o] = "idle"
  /\ phase' = [phase EXCEPT ![o] = "called"]
  /\ UNCHANGED <<answer, result, shut>>

Refuse(o) ==
  /\ phase[o] \in {"idle", "called"}
  /\ phase' = [phase EXCEPT ![o] = "returned"]
  /\ \E why \in Refusals : result' = [result EXCEPT ![o] = why]
  /\ UNCHANGED <<answer, shut>>

Accept(o) ==
  /\ phase[o] = "called" /\ ~shut
  /\ phase' = [phase EXCEPT ![o] = "accepted"]
  /\ UNCHANGED <<answer, result, shut>>

\* Several buffers become the kernel's at once.
Lend(batch) ==
  /\ batch # {} /\ \A o \in batch : phase[o] = "accepted"
  /\ phase' = [o \in Reads |-> IF o \in batch THEN "lent" ELSE phase[o]]
  /\ UNCHANGED <<answer, result, shut>>

Answer(o) ==
  /\ phase[o] = "lent"
  /\ phase' = [phase EXCEPT ![o] = "answered"]
  /\ \E res \in Results : answer' = [answer EXCEPT ![o] = res]
  /\ UNCHANGED <<result, shut>>

Settle(o) ==
  /\ phase[o] = "answered"
  /\ phase' = [phase EXCEPT ![o] = "settled"]
  /\ UNCHANGED <<answer, result, shut>>

Return(o) ==
  /\ phase[o] = "settled"
  /\ phase' = [phase EXCEPT ![o] = "returned"]
  /\ result' = [result EXCEPT ![o] = Outcome[answer[o]]]
  /\ UNCHANGED <<answer, shut>>

Shut ==
  /\ ~shut
  /\ \A o \in Reads : phase[o] \notin {"accepted", "lent", "answered"}
  /\ shut' = TRUE
  /\ UNCHANGED <<phase, answer, result>>

Next ==
  \/ \E o \in Reads : Call(o) \/ Refuse(o) \/ Accept(o) \/ Answer(o) \/ Settle(o) \/ Return(o)
  \/ \E batch \in SUBSET Reads : Lend(batch)
  \/ Shut

Spec == Init /\ [][Next]_vars
=============================================================================
