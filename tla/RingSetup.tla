------------------------------ MODULE RingSetup ------------------------------
(***************************************************************************)
(* NewWithOptions up to the two loops, and the end of Close: the ring's fd, *)
(* its mappings, and the io-wq worker limits that configureIOWQWorkers      *)
(* queries, sets and verifies.  Any system call may fail.                   *)
(*                                                                         *)
(* A mapping is named by the part of the ring it was made for; with         *)
(* IORING_FEAT_SINGLE_MMAP the CQ shares the mapping of the SQ.             *)
(***************************************************************************)
EXTENDS Integers

CONSTANTS
  MaxLimit,   \* worker limits are 0 .. MaxLimit
  None        \* no request, no value, no error

Kinds == {"bounded", "unbounded"}
Limits == [Kinds -> 0 .. MaxLimit]
Parts == {"sqes", "sq", "cq"}

ASSUME LimitAssumption ==
  /\ MaxLimit \in Nat \ {0}
  /\ None \notin Nat \cup Parts \cup Limits
               \cup {"options", "setup", "mmap", "query", "set", "verify", "post"}

VARIABLES
  entries,   \* the argument entries, as far as it matters: zero or not
  force,     \* options.ForceAsync
  request,   \* options.BoundedWorkers and UnboundedWorkers
  pc,        \* the next step of NewWithOptions or Close, or how they ended
  error,     \* the error it returned: the step that failed
  fd,        \* the ring's file descriptor
  single,    \* whether the kernel maps SQ and CQ together
  ring,      \* Ring.sqes, sqRing and cqRing: the mapping each points to
  mapped,    \* the mappings that exist
  stray,     \* whether munmap was called on one that does not
  limits,    \* the worker limits the kernel has in force
  config     \* Ring.iowq; failed is the one of its three errors that is set

inputVars == <<entries, force, request>>
memVars == <<ring, mapped, stray>>
vars == <<inputVars, pc, error, fd, single, memVars, limits, config>>

NoConfig ==
  [attempted |-> FALSE, supported |-> FALSE, previous |-> None,
   requested |-> None, returned |-> None, post |-> None, failed |-> None]

Init ==
  /\ entries \in {0, 1} /\ force \in BOOLEAN
  /\ request \in [Kinds -> {None} \cup 0 .. MaxLimit]
  /\ pc = "check" /\ error = None /\ fd = "none" /\ single = FALSE
  /\ ring = [p \in Parts |-> None] /\ mapped = {} /\ stray = FALSE
  /\ limits \in Limits /\ config = NoConfig

-----------------------------------------------------------------------------
\* The pointers unmap passes to munmap: those that are set, and the one to the
\* CQ only when it is not the one to the SQ.
UnmapsSharedTwice == {p \in Parts : ring[p] # None}
Unmaps == {p \in Parts : ring[p] # None /\ (p = "cq" => ring["cq"] # ring["sq"])}

\* munmap on the memory of each of these pointers.
Munmap(pointers) ==
  /\ mapped' = mapped \ {ring[p] : p \in pointers}
  /\ stray' = (stray \/ \E p \in pointers :
                          \/ ring[p] \notin mapped
                          \/ \E q \in pointers \ {p} : ring[q] = ring[p])

\* unmap, which also forgets the pointers.
Unmap == Munmap(Unmaps) /\ ring' = [p \in Parts |-> None]

Returns(why) == pc' = "failed" /\ error' = why

-----------------------------------------------------------------------------
(* NewWithOptions. *)

\* The options are checked before anything is created.
ValidOptions ==
  /\ entries > 0
  /\ \A k \in Kinds : request[k] # None => request[k] > 0 /\ force

CheckOptions ==
  /\ pc = "check"
  /\ \/ ValidOptions /\ pc' = "setup" /\ UNCHANGED error
     \/ ~ValidOptions /\ Returns("options")
  /\ UNCHANGED <<inputVars, fd, single, memVars, limits, config>>

Setup ==
  /\ pc = "setup"
  /\ \/ /\ fd' = "open" /\ single' \in BOOLEAN
        /\ pc' = "mapSq" /\ UNCHANGED error
     \/ Returns("setup") /\ UNCHANGED <<fd, single>>
  /\ UNCHANGED <<inputVars, memVars, limits, config>>

MapSq ==
  /\ pc = "mapSq"
  /\ \/ /\ mapped' = mapped \cup {"sq"}
        /\ ring' = [ring EXCEPT !["sq"] = "sq", !["cq"] = IF single THEN "sq" ELSE @]
        /\ pc' = IF single THEN "mapSqes" ELSE "mapCq"
        /\ UNCHANGED <<error, fd, stray>>
     \/ Returns("mmap") /\ fd' = "closed" /\ UNCHANGED memVars
  /\ UNCHANGED <<inputVars, single, limits, config>>

\* When the second mapping fails mapRings undoes the first.
FirstMapping == {"sq"}

MapCq ==
  /\ pc = "mapCq"
  /\ \/ /\ mapped' = mapped \cup {"cq"}
        /\ ring' = [ring EXCEPT !["cq"] = "cq"]
        /\ pc' = "mapSqes"
        /\ UNCHANGED <<error, fd, stray>>
     \/ Returns("mmap") /\ fd' = "closed" /\ Munmap(FirstMapping) /\ UNCHANGED ring
  /\ UNCHANGED <<inputVars, single, limits, config>>

MapSqes ==
  /\ pc = "mapSqes"
  /\ \/ /\ mapped' = mapped \cup {"sqes"}
        /\ ring' = [ring EXCEPT !["sqes"] = "sqes"]
        /\ pc' = "query"
        /\ UNCHANGED <<error, fd, stray>>
     \/ Returns("mmap") /\ fd' = "closed" /\ Unmap
  /\ UNCHANGED <<inputVars, single, limits, config>>

-----------------------------------------------------------------------------
(* configureIOWQWorkers, and what NewWithOptions does when it fails.         *)

Requested == \E k \in Kinds : request[k] # None

GiveUp(step) == Returns(step) /\ fd' = "closed" /\ Unmap
GoOn(next) == pc' = next /\ UNCHANGED <<error, fd, memVars>>

\* A query of [0, 0] changes no limit.  Its failure matters only to a request.
Query ==
  /\ pc = "query"
  /\ \/ /\ config' = [config EXCEPT !.supported = TRUE, !.previous = limits]
        /\ GoOn(IF Requested THEN "set" ELSE "start")
     \/ /\ config' = [config EXCEPT !.failed = "query"]
        /\ IF Requested THEN GiveUp("query") ELSE GoOn("start")
  /\ UNCHANGED <<inputVars, single, limits>>

\* The values to set: those asked for, and for the rest those of the query.
ZeroForUnrequested == [k \in Kinds |-> IF request[k] # None THEN request[k] ELSE 0]
Wanted == [k \in Kinds |-> IF request[k] # None THEN request[k] ELSE config.previous[k]]

\* The kernel leaves a limit alone for a 0, and may put a lower one in force.
KernelSets(want) ==
  limits' \in {l \in Limits : \A k \in Kinds :
                 IF want[k] = 0 THEN l[k] = limits[k] ELSE l[k] \in 1 .. want[k]}

\* A successful set returns the limits that were in force before.
Set ==
  /\ pc = "set"
  /\ \/ /\ KernelSets(Wanted) /\ GoOn("verify")
        /\ config' = [config EXCEPT !.attempted = TRUE, !.requested = Wanted, !.returned = limits]
     \/ /\ UNCHANGED limits /\ GiveUp("set")
        /\ config' = [config EXCEPT !.attempted = TRUE, !.requested = Wanted, !.failed = "set"]
  /\ UNCHANGED <<inputVars, single>>

\* The second query must give what was set.
AcceptsReturned == config.returned = config.previous
VerifiedLimits == limits = config.requested

VerifyTrustsSet ==
  /\ pc = "verify" /\ GoOn("start")
  /\ UNCHANGED <<inputVars, single, limits, config>>
Verify ==
  /\ pc = "verify"
  /\ \/ /\ config' = [config EXCEPT !.post = limits]
        /\ IF VerifiedLimits THEN GoOn("start") ELSE GiveUp("verify")
     \/ config' = [config EXCEPT !.failed = "post"] /\ GiveUp("post")
  /\ UNCHANGED <<inputVars, single, limits>>

\* The loops start and the ring is returned.
Start ==
  /\ pc = "start" /\ pc' = "running"
  /\ UNCHANGED <<inputVars, error, fd, single, memVars, limits, config>>

\* The end of Close, after the loops have been joined.
CloseRing ==
  /\ pc = "running" /\ pc' = "closed"
  /\ Unmap /\ fd' = "closed"
  /\ UNCHANGED <<inputVars, error, single, limits, config>>

Ended == pc \in {"failed", "closed"} /\ UNCHANGED vars

Next == CheckOptions \/ Setup \/ MapSq \/ MapCq \/ MapSqes \/ Query \/ Set \/ Verify
        \/ Start \/ CloseRing \/ Ended

Spec == Init /\ [][Next]_vars

-----------------------------------------------------------------------------
(* Properties. *)

\* The types: the inputs, how far the code has got, and the kernel's side.
TypeOK ==
  /\ entries \in {0, 1} /\ force \in BOOLEAN
  /\ request \in [Kinds -> {None} \cup 0 .. MaxLimit]
  /\ pc \in {"check", "setup", "mapSq", "mapCq", "mapSqes", "query", "set", "verify",
              "start", "running", "closed", "failed"}
  /\ error \in {None, "options", "setup", "mmap", "query", "set", "verify", "post"}
  /\ fd \in {"none", "open", "closed"} /\ single \in BOOLEAN
  /\ ring \in [Parts -> Parts \cup {None}] /\ mapped \subseteq Parts /\ stray \in BOOLEAN
  /\ limits \in Limits
  /\ config \in [attempted : BOOLEAN, supported : BOOLEAN,
                 previous : Limits \cup {None}, requested : Limits \cup {None},
                 returned : Limits \cup {None}, post : Limits \cup {None},
                 failed : {None, "query", "set", "post"}]

\* Whatever call fails, and after Close: no mapping and no open descriptor is
\* left, and munmap was never called on memory that is no longer the ring's (it
\* may be somebody else's by then).
NothingLeaks ==
  /\ ~stray
  /\ pc \in {"failed", "closed"} => mapped = {} /\ fd # "open"

\* A ring runs only with its descriptor and all its memory, and after a request
\* only with those limits in force, the other kind having the limit it had.
RunsAsAsked ==
  pc = "running" =>
    /\ fd = "open" /\ \A p \in Parts : ring[p] \in mapped
    /\ Requested =>
         \A k \in Kinds :
           limits[k] = IF request[k] # None THEN request[k] ELSE config.previous[k]

\* The record published with the results tells what is in force and what was
\* before: that of a ring that runs after a request is complete and has no error,
\* and that of another claims neither a request nor a verification.
RecordIsHonest ==
  pc = "running" =>
    IF Requested
    THEN /\ config.supported /\ config.attempted /\ config.failed = None
         /\ config.requested = limits /\ config.post = limits
         /\ config.returned = config.previous
    ELSE /\ config.supported <=> config.failed = None
         /\ config.supported => config.previous = limits
         /\ ~config.attempted /\ config.post = None

\* A request is turned down by the verification only when the kernel has really
\* put other limits in force than were asked for, or changed one that was not.
RejectedOnlyIfNotHonoured ==
  pc = "failed" /\ error = "verify" =>
    \E k \in Kinds :
      limits[k] # IF request[k] # None THEN request[k] ELSE config.previous[k]
=============================================================================
