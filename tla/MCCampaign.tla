----------------------------- MODULE MCCampaign -----------------------------
(***************************************************************************)
(* An instance of Campaign for TLC: runs that the script starts, and those   *)
(* that differ from one of them in the flags of the ring's workers, in those *)
(* of the page cache, in the limit of reads in progress (up to twice what    *)
(* uint32 holds here), or in one of the others.                              *)
(***************************************************************************)
EXTENDS Campaign, TLC

MCWorkerMax == [m \in {"U1", "U2"} |-> IF m = "U1" THEN 1 ELSE 2]

Near(command) ==
  {[command EXCEPT !.backend = b, !.forceAsync = f, !.lock = l] :
     b \in {"blocking", "uring"}, f \in BOOLEAN, l \in BOOLEAN}
  \cup {[command EXCEPT !.workers = w] : w \in [Kinds -> WorkerFlags]}
  \cup {[command EXCEPT !.cache = s, !.allow = a, !.owned = o] :
          s \in {"none", "prewarm", "dontneed"}, a \in BOOLEAN, o \in BOOLEAN}
  \cup {[command EXCEPT !.record = r, !.rest = x] :
          r \in BOOLEAN, x \in {"phase7", "phase8", "other", "invalid"}}
  \cup {[command EXCEPT !.outstanding = n] : n \in 0 .. 2 * Word}

MCConfigs == UNION {Near(Command(p[1], p[2], "phase7")) : p \in Plans}
=============================================================================
