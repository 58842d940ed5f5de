-------------------------------- MODULE Ring --------------------------------
(***************************************************************************)
(* internal/uring: any number of goroutines call ReadAt; one submitter      *)
(* goroutine moves operations from submitCh to the submission queue (SQ)    *)
(* shared with the kernel; one completer goroutine drains the completion    *)
(* queue (CQ) and wakes the callers; Close stops both and unmaps the ring.  *)
(*                                                                         *)
(* A step of an actor is the code between two points where another actor    *)
(* could tell the difference: a Ring.mu section, a channel operation, a     *)
(* release store into the shared rings, a system call.                      *)
(*                                                                         *)
(* An operation is named by the ReadAt call that owns it.  An SQE is the    *)
(* operation it was filled from; a CQE carries the ID the SQE carried.      *)
(***************************************************************************)
EXTENDS Integers, Sequences, FiniteSets, Functions, Retirement

CONSTANTS
  Reads,       \* the ReadAt calls (one operation each)
  Closers,     \* the Close calls
  Entries,     \* capacity of submitCh: the entries asked of NewWithOptions
  SqEntries,   \* SQ size the kernel granted
  CqEntries,   \* CQ size the kernel granted
  IdMod,       \* operation IDs are integers modulo IdMod (2^64 in the code)
  Results,     \* the results a read of the kernel may have
  Faults,      \* what may go wrong below the ring, a subset of FaultKinds
  None         \* no operation, no result, no owner

FaultKinds == {"partial", "enterErr", "eintr", "waitErr", "spurious"}

\* cqe.res: the whole buffer, fewer bytes, or a negative errno; and the n, err
\* pair finish makes of it.
Outcome == [full |-> "nil", short |-> "EOF", errno |-> "error"]

\* What ReadAt returns without having submitted anything.
Refusals == {"empty", "fatal", "closed", "overflow"}

ASSUME SizesAssumption ==
  /\ Entries \in Nat \ {0} /\ SqEntries \in Nat \ {0} /\ CqEntries \in Nat \ {0}
ASSUME IdAssumption == IdMod \in Nat /\ IdMod > 1
ASSUME ResultsAssumption == Results \subseteq DOMAIN Outcome
ASSUME FaultsAssumption == Faults \subseteq FaultKinds
ASSUME NoneAssumption ==
  /\ None \notin Reads \cup Closers \cup Results \cup Refusals \cup Range(Outcome)
  /\ None \notin [op : Reads, res : Results]

VARIABLES
  rpc,         \* where each ReadAt call is
  ret,         \* what it returned
  opState,     \* operation.state
  opId,        \* operation.id
  pinned,      \* whether the operation's pinner holds its buffer
  done,        \* operation.done: the completion waiting in the channel
  ops,         \* Ring.ops, the operation table
  nextID,      \* Ring.nextID
  outstanding, \* Ring.outstanding
  closed,      \* Ring.closed
  retired,     \* Ring.completed, retiredIDs and retiredNext
  submitCh,    \* Ring.submitCh
  workCh,      \* whether Ring.workCh (capacity 1) holds its token
  stopped,     \* whether Ring.stopCh is closed
  fatal,       \* whether Ring.consumerErr is set
  spc,         \* where submitLoop is
  pending,     \* its operations not yet published
  batch,       \* the operations of submitBatch between mu and the tail store
  remaining,   \* enterSubmit's remaining
  taken,       \* what the kernel returned from the last submitting enter
  cpc,         \* where completeLoop is
  limit,       \* CQEs that reap saw
  reaped,      \* CQEs of them it has finished
  cur,         \* the operation finish holds after Ring.mu, and its result
  sq,          \* the SQ from its head to its tail
  inflight,    \* operations the kernel has consumed and not completed
  cq,          \* the CQ from its head to its tail
  served,      \* what the kernel read for each operation
  clpc,        \* where each Close call is
  closeRet,    \* what it returned
  closeMu,     \* the Close call that holds Ring.closeMu
  mapped,      \* whether the rings are mapped and the ring's fd is open
  stats,       \* the counters of Ring.stats
  history      \* the IDs that finish took from the table, in that order: the
               \* code keeps no such record, and no step here reads it

readVars  == <<rpc, ret>>
opVars    == <<opState, opId, pinned, done>>
lockVars  == <<ops, nextID, outstanding, closed, retired, history>>
chanVars  == <<submitCh, workCh, stopped, fatal>>
subVars   == <<spc, pending, batch, remaining, taken>>
compVars  == <<cpc, limit, reaped, cur>>
kernVars  == <<sq, inflight, cq, served>>
closeVars == <<clpc, closeRet, closeMu, mapped>>
vars == <<readVars, opVars, lockVars, chanVars, subVars, compVars, kernVars,
          closeVars, stats>>

Ids == 1 .. (IdMod - 1)

Counters == {"created", "admitted", "cleaned", "pins", "unpins", "published",
             "requested", "consumed", "partials", "completed", "drained",
             "duplicates", "unknown"}

\* NewWithOptions: nothing admitted, both goroutines about to start.
Init ==
  /\ rpc = [o \in Reads |-> "start"] /\ ret = [o \in Reads |-> None]
  /\ opState = [o \in Reads |-> "none"] /\ opId = [o \in Reads |-> 0]
  /\ pinned = [o \in Reads |-> FALSE] /\ done = [o \in Reads |-> None]
  /\ ops = [i \in Ids |-> None] /\ nextID = 0 /\ outstanding = 0
  /\ closed = FALSE /\ retired = EmptyWindow /\ history = <<>>
  /\ submitCh = <<>> /\ workCh = FALSE /\ stopped = FALSE /\ fatal = FALSE
  /\ spc = "idle" /\ pending = <<>> /\ batch = <<>> /\ remaining = 0 /\ taken = 0
  /\ cpc = "reap" /\ limit = 0 /\ reaped = 0 /\ cur = None
  /\ sq = <<>> /\ inflight = {} /\ cq = <<>> /\ served = [o \in Reads |-> None]
  /\ clpc = [c \in Closers |-> "start"] /\ closeRet = [c \in Closers |-> None]
  /\ closeMu = None /\ mapped = TRUE
  /\ stats = [k \in Counters |-> 0]

-----------------------------------------------------------------------------
(* ReadAt. *)

\* An empty buffer, or a ring whose completer has failed: no operation is made.
ReadSkip(o) ==
  /\ rpc[o] = "start"
  /\ \/ ret' = [ret EXCEPT ![o] = "empty"]
     \/ fatal /\ ret' = [ret EXCEPT ![o] = "fatal"]
  /\ rpc' = [rpc EXCEPT ![o] = "returned"]
  /\ UNCHANGED <<opVars, lockVars, chanVars, subVars, compVars, kernVars,
                 closeVars, stats>>

\* The operation is created and its buffer pinned, with the call sole owner.
ReadPin(o) ==
  /\ rpc[o] = "start" /\ ~fatal
  /\ rpc' = [rpc EXCEPT ![o] = "admit"]
  /\ opState' = [opState EXCEPT ![o] = "pinnedLocal"]
  /\ pinned' = [pinned EXCEPT ![o] = TRUE]
  /\ stats' = [stats EXCEPT !["created"] = @ + 1, !["pins"] = @ + 1]
  /\ UNCHANGED <<ret, opId, done, lockVars, chanVars, subVars, compVars,
                 kernVars, closeVars>>

\* r.nextID++, and whether it wrapped to 0.
IdsReused == (Cardinality({i \in Ids : ops[i] # None}) + 1) % IdMod
IdNeverOverflows == nextID + 1
NewID == (nextID + 1) % IdMod

\* The ring is closed or the ID wrapped: releaseBeforePublication.
ReadRefused(o) ==
  /\ rpc[o] = "admit"
  /\ \/ /\ closed
        /\ ret' = [ret EXCEPT ![o] = "closed"]
        /\ UNCHANGED nextID
     \/ /\ ~closed /\ NewID = 0
        /\ ret' = [ret EXCEPT ![o] = "overflow"]
        /\ nextID' = NewID
  /\ rpc' = [rpc EXCEPT ![o] = "returned"]
  /\ opState' = [opState EXCEPT ![o] = "released"]
  /\ pinned' = [pinned EXCEPT ![o] = FALSE]
  /\ stats' = [stats EXCEPT !["cleaned"] = @ + 1, !["unpins"] = @ + 1]
  /\ UNCHANGED <<opId, done, ops, outstanding, closed, retired, history,
                 chanVars, subVars, compVars, kernVars, closeVars>>

\* Under Ring.mu: the table becomes the owner before the call can block.
ReadAdmit(o) ==
  /\ rpc[o] = "admit"
  /\ ~closed /\ NewID # 0
  /\ nextID' = NewID
  /\ opId' = [opId EXCEPT ![o] = NewID]
  /\ ops' = [ops EXCEPT ![NewID] = o]
  /\ opState' = [opState EXCEPT ![o] = "queued"]
  /\ rpc' = [rpc EXCEPT ![o] = "send"]
  /\ stats' = [stats EXCEPT !["admitted"] = @ + 1]
  /\ UNCHANGED <<ret, pinned, done, outstanding, closed, retired, history,
                 chanVars, subVars, compVars, kernVars, closeVars>>

\* submitCh <- op, which blocks while the channel is full.
ReadSend(o) ==
  /\ rpc[o] = "send" /\ Len(submitCh) < Entries
  /\ submitCh' = Append(submitCh, o)
  /\ rpc' = [rpc EXCEPT ![o] = "wait"]
  /\ UNCHANGED <<ret, opVars, lockVars, workCh, stopped, fatal, subVars,
                 compVars, kernVars, closeVars, stats>>

\* c := <-op.done; return.
ReturnsWithoutWaiting(o) == TRUE
Completed(o) == done[o] # None
ReadReturn(o) ==
  /\ rpc[o] = "wait" /\ Completed(o)
  /\ ret' = [ret EXCEPT ![o] = done[o]]
  /\ done' = [done EXCEPT ![o] = None]
  /\ rpc' = [rpc EXCEPT ![o] = "returned"]
  /\ UNCHANGED <<opState, opId, pinned, lockVars, chanVars, subVars, compVars,
                 kernVars, closeVars, stats>>

ReadAt(o) == ReadSkip(o) \/ ReadPin(o) \/ ReadRefused(o) \/ ReadAdmit(o)
             \/ ReadSend(o) \/ ReadReturn(o)

-----------------------------------------------------------------------------
(* submitLoop, submitBatch and enterSubmit. *)

\* The blocking select at the top of the loop.
SubReceive ==
  /\ spc = "idle" /\ submitCh # <<>>
  /\ pending' = <<Head(submitCh)>>
  /\ submitCh' = Tail(submitCh)
  /\ spc' = "gather"
  /\ UNCHANGED <<batch, remaining, taken, readVars, opVars, lockVars, workCh,
                 stopped, fatal, compVars, kernVars, closeVars, stats>>

\* Where the select goes when stopCh is closed.
StopIgnored == "idle"
AfterStop == "exited"

SubStop ==
  /\ spc = "idle" /\ stopped
  /\ spc' = AfterStop
  /\ UNCHANGED <<pending, batch, remaining, taken, readVars, opVars, lockVars,
                 chanVars, compVars, kernVars, closeVars, stats>>

\* One more operation that is available at once.
SubGather ==
  /\ spc = "gather" /\ Len(pending) < SqEntries /\ submitCh # <<>>
  /\ pending' = Append(pending, Head(submitCh))
  /\ submitCh' = Tail(submitCh)
  /\ UNCHANGED <<spc, batch, remaining, taken, readVars, opVars, lockVars,
                 workCh, stopped, fatal, compVars, kernVars, closeVars, stats>>

\* How many pending operations the SQ has room for, and submitBatch's check of
\* them before any is exposed.
BatchSize ==
  IF Len(pending) > SqEntries - Len(sq) THEN SqEntries - Len(sq) ELSE Len(pending)
Publishable(o) == opState[o] = "queued" /\ ops[opId[o]] = o
BatchValid == \A i \in 1 .. BatchSize : Publishable(pending[i])

\* r.outstanding++ for each operation of the batch.
CountedOncePerBatch == 1
Counted == BatchSize

\* Nothing more to gather: the SQEs are filled and, under Ring.mu, the batch is
\* checked and counted.  With no room in the SQ the loop would go to
\* waitForSQSpace, and with an operation in a wrong state it panics.
SubPublish ==
  LET head == SubSeq(pending, 1, BatchSize) IN
  /\ spc = "gather" /\ (Len(pending) = SqEntries \/ submitCh = <<>>)
  /\ spc' = IF BatchSize = 0 THEN "space" ELSE IF BatchValid THEN "store" ELSE "panic"
  /\ IF spc' = "store"
     THEN /\ batch' = head
          /\ pending' = SubSeq(pending, BatchSize + 1, Len(pending))
          /\ opState' = [o \in Reads |->
                           IF o \in Range(head) THEN "published" ELSE opState[o]]
          /\ outstanding' = outstanding + Counted
     ELSE UNCHANGED <<batch, pending, opState, outstanding>>
  /\ UNCHANGED <<remaining, taken, readVars, opId, pinned, done, ops, nextID,
                 closed, retired, history, chanVars, compVars, kernVars,
                 closeVars, stats>>

\* The release store of the SQ tail exposes the whole batch.
SubStoreTail ==
  /\ spc = "store"
  /\ sq' = sq \o batch
  /\ remaining' = Len(batch)
  /\ batch' = <<>>
  /\ stats' = [stats EXCEPT !["published"] = @ + Len(batch)]
  /\ spc' = "enter"
  /\ UNCHANGED <<pending, taken, readVars, opVars, lockVars, chanVars, compVars,
                 inflight, cq, served, closeVars>>

\* io_uring_enter: the kernel consumes a prefix of the SQ.
SubEnter ==
  /\ spc = "enter"
  /\ \E k \in 1 .. Len(sq) :
       /\ k <= remaining
       /\ k = remaining \/ "partial" \in Faults
       /\ inflight' = inflight \cup Range(SubSeq(sq, 1, k))
       /\ sq' = SubSeq(sq, k + 1, Len(sq))
       /\ taken' = k
  /\ stats' = [stats EXCEPT !["requested"] = @ + remaining]
  /\ spc' = "account"
  /\ UNCHANGED <<pending, batch, remaining, readVars, opVars, lockVars, chanVars,
                 compVars, cq, served, closeVars>>

\* io_uring_enter returns an errno or consumes nothing: the submitter panics.
SubEnterFails ==
  /\ spc = "enter" /\ "enterErr" \in Faults
  /\ stats' = [stats EXCEPT !["requested"] = @ + remaining]
  /\ spc' = "panic"
  /\ UNCHANGED <<pending, batch, remaining, taken, readVars, opVars, lockVars,
                 chanVars, compVars, kernVars, closeVars>>

\* enterSubmit's loop ends when the kernel has consumed the whole batch.
EnterOnce == TRUE
EnterDone == taken = remaining

\* accountSubmitResult, and enterSubmit's loop.
SubAccount ==
  /\ spc = "account"
  /\ stats' = [stats EXCEPT !["consumed"] = @ + taken,
                            !["partials"] = IF taken < remaining THEN @ + 1 ELSE @]
  /\ remaining' = remaining - taken
  /\ taken' = 0
  /\ spc' = IF EnterDone THEN "notify" ELSE "enter"
  /\ UNCHANGED <<pending, batch, readVars, opVars, lockVars, chanVars, compVars,
                 kernVars, closeVars>>

\* The non-blocking send that wakes an idle completer, and the loop's next turn.
SubNotify ==
  /\ spc = "notify"
  /\ workCh' = TRUE
  /\ spc' = IF pending = <<>> THEN "idle" ELSE "gather"
  /\ UNCHANGED <<pending, batch, remaining, taken, readVars, opVars, lockVars,
                 submitCh, stopped, fatal, compVars, kernVars, closeVars, stats>>

Submitter == SubReceive \/ SubStop \/ SubGather \/ SubPublish \/ SubStoreTail
             \/ SubEnter \/ SubEnterFails \/ SubAccount \/ SubNotify

-----------------------------------------------------------------------------
(* The kernel, as the code uses it: consumed reads complete in any order, and *)
(* a read whose CQE finds no room stays with the kernel until there is some.  *)

KernelComplete(o) ==
  /\ o \in inflight /\ Len(cq) < CqEntries
  /\ \E res \in Results :
       /\ served' = [served EXCEPT ![o] = res]
       /\ cq' = Append(cq, [id |-> opId[o], res |-> res])
  /\ inflight' = inflight \ {o}
  /\ UNCHANGED <<sq, readVars, opVars, lockVars, chanVars, subVars, compVars,
                 closeVars, stats>>

\* A CQE that answers no outstanding SQE: a repeated one, or an ID never used.
KernelSpurious ==
  /\ "spurious" \in Faults /\ Len(cq) < CqEntries
  /\ \/ \E o \in Reads : /\ served[o] # None
                         /\ cq' = Append(cq, [id |-> opId[o], res |-> served[o]])
     \/ \E res \in Results : cq' = Append(cq, [id |-> 0, res |-> res])
  /\ UNCHANGED <<sq, inflight, served, readVars, opVars, lockVars, chanVars,
                 subVars, compVars, closeVars, stats>>

-----------------------------------------------------------------------------
(* completeLoop, reap and finish. *)

\* reap reads head and tail; an empty CQ sends the loop to its lifecycle check.
CompReap ==
  /\ cpc = "reap"
  /\ limit' = Len(cq)
  /\ cpc' = IF cq = <<>> THEN "check" ELSE "finish"
  /\ UNCHANGED <<reaped, cur, readVars, opVars, lockVars, chanVars, subVars,
                 kernVars, closeVars, stats>>

NextCqe == cq[reaped + 1]
Known(id) == id \in Ids /\ ops[id] # None

\* finish, its Ring.mu section: the operation leaves the table.
CompFinish ==
  LET op == ops[NextCqe.id] IN
  /\ cpc = "finish" /\ Known(NextCqe.id)
  /\ IF opState[op] = "published" /\ outstanding > 0
     THEN /\ ops' = [ops EXCEPT ![NextCqe.id] = None]
          /\ retired' = Retire(retired, NextCqe.id, CqEntries)
          /\ history' = Append(history, NextCqe.id)
          /\ outstanding' = outstanding - 1
          /\ opState' = [opState EXCEPT ![op] = "terminal"]
          /\ cur' = [op |-> op, res |-> NextCqe.res]
          /\ cpc' = "deliver"
     ELSE /\ cpc' = "panic"
          /\ UNCHANGED <<ops, retired, history, outstanding, opState, cur>>
  /\ UNCHANGED <<limit, reaped, readVars, opId, pinned, done, nextID, closed,
                 chanVars, subVars, kernVars, closeVars, stats>>

\* finish on an ID the table does not hold: counted, then a panic.
CompUnknown ==
  /\ cpc = "finish" /\ ~Known(NextCqe.id)
  /\ IF NextCqe.id \in retired.set
     THEN stats' = [stats EXCEPT !["duplicates"] = @ + 1]
     ELSE stats' = [stats EXCEPT !["unknown"] = @ + 1]
  /\ cpc' = "panic"
  /\ UNCHANGED <<limit, reaped, cur, readVars, opVars, lockVars, chanVars,
                 subVars, kernVars, closeVars>>

\* finish after Ring.mu: unpin, release, and wake the caller (op.done holds one).
CompDeliver ==
  /\ cpc = "deliver" /\ done[cur.op] = None
  /\ pinned' = [pinned EXCEPT ![cur.op] = FALSE]
  /\ opState' = [opState EXCEPT ![cur.op] = "released"]
  /\ done' = [done EXCEPT ![cur.op] = Outcome[cur.res]]
  /\ stats' = [stats EXCEPT !["completed"] = @ + 1, !["unpins"] = @ + 1]
  /\ cur' = None
  /\ reaped' = reaped + 1
  /\ cpc' = IF reaped + 1 = limit THEN "head" ELSE "finish"
  /\ UNCHANGED <<limit, readVars, opId, lockVars, chanVars, subVars, kernVars,
                 closeVars>>

\* The store of the CQ head gives the drained slots back: those that reap saw.
HeadStoredAtTail == <<>>
Undrained == SubSeq(cq, limit + 1, Len(cq))
CompStoreHead ==
  /\ cpc = "head"
  /\ cq' = Undrained
  /\ stats' = [stats EXCEPT !["drained"] = @ + limit]
  /\ limit' = 0 /\ reaped' = 0
  /\ cpc' = "reap"
  /\ UNCHANGED <<cur, readVars, opVars, lockVars, chanVars, subVars, sq,
                 inflight, served, closeVars>>

\* The completer enters the kernel to wait only with something to wait for.
WaitAlways == TRUE
MustWait == outstanding > 0

\* The Ring.mu section of completeLoop.
CompCheck ==
  /\ cpc = "check"
  /\ \/ outstanding = 0 /\ closed /\ cpc' = "exited"
     \/ outstanding = 0 /\ ~closed /\ cpc' = "idle"
     \/ MustWait /\ cpc' = "wait"
  /\ UNCHANGED <<limit, reaped, cur, readVars, opVars, lockVars, chanVars,
                 subVars, kernVars, closeVars, stats>>

\* The select of an idle completer.
CompIdle ==
  /\ cpc = "idle"
  /\ \/ workCh /\ workCh' = FALSE /\ cpc' = "reap"
     \/ stopped /\ cpc' = "exited" /\ UNCHANGED workCh
  /\ UNCHANGED <<limit, reaped, cur, readVars, opVars, lockVars, submitCh,
                 stopped, fatal, subVars, kernVars, closeVars, stats>>

\* io_uring_enter waiting for a CQE: one is there, a signal, or an error.
CompWait ==
  /\ cpc = "wait"
  /\ \/ (cq # <<>> \/ "eintr" \in Faults) /\ cpc' = "reap" /\ UNCHANGED fatal
     \/ "waitErr" \in Faults /\ cpc' = "exited" /\ fatal' = TRUE
  /\ UNCHANGED <<limit, reaped, cur, readVars, opVars, lockVars, submitCh, workCh,
                 stopped, subVars, kernVars, closeVars, stats>>

Completer == CompReap \/ CompFinish \/ CompUnknown \/ CompDeliver
             \/ CompStoreHead \/ CompCheck \/ CompIdle \/ CompWait

-----------------------------------------------------------------------------
(* Close. *)

\* closeMu is taken; an earlier Close has finished, or the completer failed.
CloseBegin(c) ==
  /\ clpc[c] = "start" /\ closeMu = None
  /\ \/ /\ closed \/ fatal
        /\ clpc' = [clpc EXCEPT ![c] = "done"]
        /\ closeRet' = [closeRet EXCEPT ![c] = IF closed THEN "nil" ELSE "fatal"]
        /\ UNCHANGED closeMu
     \/ /\ ~closed /\ ~fatal
        /\ clpc' = [clpc EXCEPT ![c] = "decide"]
        /\ closeMu' = c
        /\ UNCHANGED closeRet
  /\ UNCHANGED <<mapped, readVars, opVars, lockVars, chanVars, subVars, compVars,
                 kernVars, stats>>

\* Close is permitted once every admitted operation has terminated.
DrainedByKernel == outstanding = 0
DrainedOfCqes == outstanding = 0 /\ cq = <<>> /\ \A i \in Ids : ops[i] = None
Drained == outstanding = 0 /\ \A i \in Ids : ops[i] = None

\* Under Ring.mu: refused while an operation is live, otherwise no ReadAt is
\* admitted from here on.
CloseDecide(c) ==
  /\ clpc[c] = "decide"
  /\ \/ /\ ~Drained
        /\ clpc' = [clpc EXCEPT ![c] = "done"]
        /\ closeRet' = [closeRet EXCEPT ![c] = "busy"]
        /\ closeMu' = None
        /\ UNCHANGED closed
     \/ /\ Drained
        /\ closed' = TRUE
        /\ clpc' = [clpc EXCEPT ![c] = "stop"]
        /\ UNCHANGED <<closeRet, closeMu>>
  /\ UNCHANGED <<mapped, readVars, opVars, ops, nextID, outstanding, retired,
                 history, chanVars, subVars, compVars, kernVars, stats>>

\* close(stopCh), and the broadcast nobody waits for.
CloseStop(c) ==
  /\ clpc[c] = "stop"
  /\ stopped' = TRUE
  /\ clpc' = [clpc EXCEPT ![c] = "join"]
  /\ UNCHANGED <<closeRet, closeMu, mapped, readVars, opVars, lockVars, submitCh,
                 workCh, fatal, subVars, compVars, kernVars, stats>>

\* <-doneCh and wg.Wait, then unmap and close the fd.
CompleterJoined == cpc = "exited"
LoopsJoined == spc = "exited" /\ cpc = "exited"
CloseJoin(c) ==
  /\ clpc[c] = "join" /\ LoopsJoined
  /\ mapped' = FALSE
  /\ clpc' = [clpc EXCEPT ![c] = "done"]
  /\ closeRet' = [closeRet EXCEPT ![c] = "nil"]
  /\ closeMu' = None
  /\ UNCHANGED <<readVars, opVars, lockVars, chanVars, subVars, compVars,
                 kernVars, stats>>

Close(c) == CloseBegin(c) \/ CloseDecide(c) \/ CloseStop(c) \/ CloseJoin(c)

-----------------------------------------------------------------------------
\* A panic in either goroutine ends the process; the others may still take
\* steps before it does.
Alive == spc # "panic" /\ cpc # "panic"

\* Every call has returned and both goroutines have exited or wait for work.
Quiet ==
  /\ \A o \in Reads : rpc[o] = "returned"
  /\ \A c \in Closers : clpc[c] = "done"
  /\ spc = "exited" \/ (spc = "idle" /\ ~stopped)
  /\ cpc = "exited" \/ (cpc = "idle" /\ ~workCh /\ ~stopped)

Finished == (~Alive \/ Quiet) /\ UNCHANGED vars

Next ==
  \/ \E o \in Reads : ReadAt(o) \/ KernelComplete(o)
  \/ \E c \in Closers : Close(c)
  \/ Submitter
  \/ Completer
  \/ KernelSpurious
  \/ Finished

Spec == Init /\ [][Next]_vars

\* The Go scheduler runs every goroutine that can run, and the kernel completes
\* every read it has consumed.  Nobody has to call ReadAt or Close.
Fairness ==
  /\ \A o \in Reads : /\ WF_vars(ReadRefused(o) \/ ReadAdmit(o) \/ ReadSend(o) \/ ReadReturn(o))
                      /\ WF_vars(KernelComplete(o))
  /\ \A c \in Closers : WF_vars(CloseDecide(c) \/ CloseStop(c) \/ CloseJoin(c))
  /\ WF_vars(Submitter)
  /\ WF_vars(Completer)

LiveSpec == Spec /\ Fairness

-----------------------------------------------------------------------------
(* Types. *)

Cqe == [id : 0 .. (IdMod - 1), res : Results]

ReadTypes ==
  /\ rpc \in [Reads -> {"start", "admit", "send", "wait", "returned"}]
  /\ ret \in [Reads -> {None} \cup Refusals \cup Range(Outcome)]
OpTypes ==
  /\ opState \in [Reads -> {"none", "pinnedLocal", "queued", "published", "terminal", "released"}]
  /\ opId \in [Reads -> 0 .. (IdMod - 1)]
  /\ pinned \in [Reads -> BOOLEAN]
  /\ done \in [Reads -> {None} \cup Range(Outcome)]
LockTypes ==
  /\ ops \in [Ids -> Reads \cup {None}]
  /\ nextID \in 0 .. (IdMod - 1) /\ outstanding \in Nat /\ closed \in BOOLEAN
  /\ history \in Seq(Ids)
ChanTypes ==
  /\ submitCh \in Seq(Reads) /\ Len(submitCh) <= Entries
  /\ workCh \in BOOLEAN /\ stopped \in BOOLEAN /\ fatal \in BOOLEAN
SubTypes ==
  /\ spc \in {"idle", "gather", "space", "store", "enter", "account", "notify", "exited", "panic"}
  /\ pending \in Seq(Reads) /\ batch \in Seq(Reads)
  /\ remaining \in Nat /\ taken \in Nat
CompTypes ==
  /\ cpc \in {"reap", "finish", "deliver", "head", "check", "idle", "wait", "exited", "panic"}
  /\ limit \in 0 .. CqEntries /\ reaped \in 0 .. CqEntries
  /\ cur \in {None} \cup [op : Reads, res : Results]
KernTypes ==
  /\ sq \in Seq(Reads) /\ inflight \in SUBSET Reads
  /\ cq \in Seq(Cqe) /\ Len(cq) <= CqEntries
  /\ served \in [Reads -> {None} \cup Results]
CloseTypes ==
  /\ clpc \in [Closers -> {"start", "decide", "stop", "join", "done"}]
  /\ closeRet \in [Closers -> {None, "nil", "fatal", "busy"}]
  /\ closeMu \in {None} \cup Closers /\ mapped \in BOOLEAN
StatTypes == stats \in [Counters -> Nat]

\* Every variable keeps its type; the queues keep their capacity.
TypeOK == ReadTypes /\ OpTypes /\ LockTypes /\ ChanTypes /\ SubTypes /\ CompTypes
          /\ KernTypes /\ CloseTypes /\ StatTypes

-----------------------------------------------------------------------------
(* Safety. *)

\* The operations whose buffer the kernel may write: exposed by the SQ tail and
\* not completed.
KernelOwned == Range(sq) \cup inflight

\* From the tail store to its terminal CQE a read's buffer stays pinned, its
\* operation stays in the table, and its caller stays in ReadAt.
KernelBuffersStayPinned ==
  \A o \in KernelOwned :
    /\ pinned[o] /\ rpc[o] = "wait"
    /\ opState[o] = "published" /\ ops[opId[o]] = o

\* A pinned buffer has an owner that will unpin it: its caller, the operation
\* table, or the completer between Ring.mu and the delivery.  Otherwise the
\* collector finds a leaked runtime.Pinner.
PinsHaveOwner ==
  \A o \in Reads : pinned[o] =>
    \/ rpc[o] = "admit"
    \/ opId[o] \in Ids /\ ops[opId[o]] = o
    \/ cur # None /\ cur.op = o

\* Ring.outstanding is exactly the number of published operations in the table;
\* the completer waits, idles or exits on it, and Close trusts it.
OutstandingIsExact ==
  outstanding = Cardinality({i \in Ids : ops[i] # None /\ opState[ops[i]] = "published"})

Occurrences(s, x) == Cardinality({i \in DOMAIN s : s[i] = x})
Waiting(o) == (IF rpc[o] = "send" THEN 1 ELSE 0)
              + Occurrences(submitCh, o) + Occurrences(pending, o)
UnfinishedIDs == [i \in 1 .. (Len(cq) - reaped) |-> cq[i + reaped].id]
Exposed(o) == Occurrences(batch, o) + Occurrences(sq, o)
              + (IF o \in inflight THEN 1 ELSE 0)
              + (IF cpc = "deliver" /\ cur.op = o THEN 0 ELSE Occurrences(UnfinishedIDs, opId[o]))

\* With a kernel that answers each SQE once, nothing is lost or doubled on the way:
\* a queued operation is in one place before the SQ, a published one in one place
\* between the batch and the CQEs still to be finished, any other operation nowhere.
\* None of the panics of submitLoop, submitBatch and finish, which watch over this,
\* is reached, and the SQ is never found full.
EveryOperationInOnePlace ==
  /\ Alive /\ spc # "space"
  /\ \A o \in Reads :
       /\ Waiting(o) = IF opState[o] = "queued" THEN 1 ELSE 0
       /\ opId[o] # 0 => Exposed(o) = IF opState[o] = "published" THEN 1 ELSE 0

\* A call returns what the kernel read for it, and os.File.ReadAt's EOF exactly
\* when that was fewer bytes than asked.
ReturnsItsOwnResult ==
  \A o \in Reads :
    /\ ret[o] = "nil" => served[o] = "full"
    /\ ret[o] = "EOF" => served[o] = "short"
    /\ ret[o] = "error" => served[o] = "errno"

\* Once a Close call returned nil, or the rings are unmapped, both goroutines
\* have exited, no operation is live and the kernel holds no buffer.
CloseLeavesNothing ==
  (~mapped \/ \E c \in Closers : closeRet[c] = "nil") =>
    /\ ~mapped /\ spc = "exited" /\ cpc = "exited"
    /\ submitCh = <<>> /\ pending = <<>> /\ KernelOwned = {} /\ cq = <<>>
    /\ \A i \in Ids : ops[i] = None

\* Close is refused as busy only while some call has not returned: an operation that
\* was delivered is out of the table and no longer counted, whatever the loops still
\* have to do for it.
CloseRefusedOnlyOverReads ==
  [][\A c \in Closers : closeRet[c] # "busy" /\ closeRet'[c] = "busy" =>
       \E o \in Reads : rpc[o] \in {"send", "wait"}]_vars

\* What the tests' requireReconciled and the harness's reconciliation compare
\* holds of the counters once Close returned nil and every call has returned.
CountersReconcileAfterClose ==
  (\E c \in Closers : closeRet[c] = "nil") /\ (\A o \in Reads : rpc[o] \in {"start", "returned"}) =>
    /\ stats["created"] = stats["admitted"] + stats["cleaned"]
    /\ stats["pins"] = stats["unpins"]
    /\ stats["published"] = stats["admitted"]
    /\ stats["consumed"] = stats["published"]
    /\ stats["completed"] = stats["published"]
    /\ stats["drained"] = stats["completed"]
    /\ (stats["partials"] = 0) = (stats["requested"] = stats["consumed"])

\* The tests' requireReconciled, called when every ReadAt has returned and
\* before Close: all published entries have been counted as consumed.
ReconciledWhenReadsReturn ==
  (\A o \in Reads : rpc[o] \in {"start", "returned"}) =>
    stats["consumed"] = stats["published"]

\* No ReadAt has returned "operation ID overflow": no ID was given out twice.
NoOverflow == \A o \in Reads : ret[o] # "overflow"

\* The last cap members of a sequence, and those before them.
Forgotten(h, cap) == IF Len(h) > cap THEN Len(h) - cap ELSE 0
Recent(h, cap) == {h[i] : i \in Forgotten(h, cap) + 1 .. Len(h)}

\* The map holds the IDs of the operations that completed last, as many as the CQ
\* has entries: appending, and then evicting by the cursor, forgets the oldest.
WindowIsRecent == NoOverflow => retired.set = Recent(history, CqEntries)

\* A CQE whose ID is not in the table is counted as a duplicate exactly if that
\* operation is one of those; one counted as unknown has an ID that was never given
\* out or that completed longer ago, and never that of an operation still to complete.
DuplicatesAreTold ==
  NoOverflow =>
    /\ stats["duplicates"] > 0 => NextCqe.id \in Recent(history, CqEntries)
    /\ stats["unknown"] > 0 =>
         NextCqe.id = 0 \/ \E i \in 1 .. Forgotten(history, CqEntries) : NextCqe.id = history[i]

\* After the completer failed there is an operation that will never complete,
\* so that no Close can succeed.
FatalKeepsRingOpen == fatal => outstanding > 0 /\ ~closed /\ mapped

-----------------------------------------------------------------------------
(* Liveness, with a kernel that completes what it consumed. *)

\* Every admitted read returns: no wake-up is lost between the submitter and
\* an idle completer, and nobody waits for a slot that is never freed.
AdmittedReadsReturn ==
  \A o \in Reads : rpc[o] \in {"send", "wait"} ~> rpc[o] = "returned"

\* A Close that was permitted finishes: both goroutines see the stop.
CloseFinishes == \A c \in Closers : clpc[c] = "stop" ~> clpc[c] = "done"
=============================================================================
