---------------------------- MODULE Instruments -----------------------------
(***************************************************************************)
(* The thread IDs the ring records: its two loops note in a bounded set the  *)
(* thread from which each io_uring_enter is about to be made.  A goroutine   *)
(* may go on on another thread after any step, unless it is locked to its    *)
(* thread; the submitter is when the ring is asked to.  What the loops do    *)
(* otherwise is in Ring.                                                     *)
(***************************************************************************)
EXTENDS Integers, FiniteSets

CONSTANTS
  Threads,
  MaxTIDs      \* maxRecordedTIDs

Loops == {"submit", "wait"}

VARIABLES
  options,  \* whether the submitter is locked, and threads are recorded
  thread,   \* the thread of each loop
  at,       \* "lock", "record" or "enter"
  entered,  \* the threads from which it entered the kernel
  told,     \* the threads gettid told
  set       \* submitEnterTIDs and waitEnterTIDs

tidVars == <<options, thread, at, entered, told, set>>

InitTIDs ==
  /\ options \in [lock : BOOLEAN, record : BOOLEAN]
  /\ thread \in [Loops -> Threads]
  /\ at = [l \in Loops |-> IF l = "submit" THEN "lock" ELSE "record"]
  /\ entered = [l \in Loops |-> {}] /\ told = [l \in Loops |-> {}]
  /\ set = [l \in Loops |-> [values |-> {}, truncated |-> FALSE]]

\* LockOSThread, or not.
Lock ==
  /\ at["submit"] = "lock" /\ at' = [at EXCEPT !["submit"] = "record"]
  /\ UNCHANGED <<options, thread, entered, told, set>>

MayMove(l) == l = "wait" \/ ~options.lock \/ at[l] = "lock"

Migrate(l) ==
  /\ MayMove(l) /\ \E t \in Threads : thread' = [thread EXCEPT ![l] = t]
  /\ UNCHANGED <<options, at, entered, told, set>>

\* tidSet.add.
Added(s, t) ==
  CASE t \in s.values -> s
    [] t \notin s.values /\ Cardinality(s.values) = MaxTIDs -> [s EXCEPT !.truncated = TRUE]
    [] OTHER -> [s EXCEPT !.values = @ \cup {t}]

\* recordIssuerTID.
Record(l) ==
  /\ at[l] = "record" /\ at' = [at EXCEPT ![l] = "enter"]
  /\ IF options.record
     THEN /\ set' = [set EXCEPT ![l] = Added(@, thread[l])]
          /\ told' = [told EXCEPT ![l] = @ \cup {thread[l]}]
     ELSE UNCHANGED <<set, told>>
  /\ UNCHANGED <<options, thread, entered>>

\* io_uring_enter, and round again.
Enter(l) ==
  /\ at[l] = "enter" /\ at' = [at EXCEPT ![l] = "record"]
  /\ entered' = [entered EXCEPT ![l] = @ \cup {thread[l]}]
  /\ UNCHANGED <<options, thread, told, set>>

NextTIDs == Lock \/ \E l \in Loops : Migrate(l) \/ Record(l) \/ Enter(l)

SpecTIDs == InitTIDs /\ [][NextTIDs]_tidVars

-----------------------------------------------------------------------------
(* Properties. *)

\* "A truncation bit makes a cap observable": a set that is not truncated is all that
\* was seen, and one that is has as many members as it may have, of more.
CapIsObservable ==
  \A l \in Loops :
    /\ set[l].values \subseteq told[l]
    /\ IF set[l].truncated
       THEN Cardinality(set[l].values) = MaxTIDs /\ set[l].values # told[l]
       ELSE set[l].values = told[l]

\* Of a locked submitter the set tells the one thread from which all its system calls
\* were made; of the others, the thread may change between gettid and the call.
LockedSubmitterIsRecorded ==
  options.lock /\ options.record =>
    /\ entered["submit"] \subseteq set["submit"].values
    /\ set["submit"].values \subseteq {thread["submit"]} /\ ~set["submit"].truncated
=============================================================================
