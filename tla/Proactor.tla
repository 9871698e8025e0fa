------------------------------ MODULE Proactor ------------------------------
(***************************************************************************)
(* The io_uring proactor of uringloop/proactor.py with the operations of   *)
(* uringloop/operation.py: the table of pending completions, the           *)
(* submitter that batches SQEs, the completion loop, cancellation,         *)
(* _stop_serving and close().                                              *)
(*                                                                         *)
(* Python code runs in one thread.  A call of the API is one action; the   *)
(* calls that wait for the kernel or that iterate over pending futures     *)
(* (select, _stop_serving, close) advance pc step by step, interleaved     *)
(* with the kernel.  The kernel and liburing are external: a submission    *)
(* queue, the requests in flight and a completion queue.                   *)
(***************************************************************************)
EXTENDS Integers, Sequences, FiniteSets, SequencesExt

CONSTANTS
    Entries,        \* size of the submission queue
    Files,          \* the sockets and files operations work on
    Kinds,          \* kinds of operation started
    MaxOps,         \* bound: operations started
    MaxUserData,    \* bound: user calls are made while nextUd is at most this
    MaxFaults,      \* bound: io_uring_submit calls that fail or take only a part
    PrepErrors      \* TRUE: filling an SQE may raise (read-only buffer, closed file)

ASSUME EntriesAssumption == Entries \in Nat \ {0}
ASSUME KindsAssumption   == Kinds \subseteq {"io", "accept", "sendfile"}
ASSUME BoundsAssumption  == MaxOps \in Nat /\ MaxUserData \in Nat /\ MaxFaults \in Nat
ASSUME PrepAssumption    == PrepErrors \in BOOLEAN

VARIABLES
    \* IoUringProactor and _ProactorSubmit
    nextUd,         \* _user_data_counter
    ops,            \* the operations started, each with the state of its future
    cache,          \* _cache: user_data -> [op, fut]; fut is FALSE for a cancellation
    pendingSubmit,  \* _pending_submit
    results,        \* _results: operations whose futures _run_operation completed
    stopped,        \* _stopped_serving
    pc,             \* where the Python thread is
    closing,        \* the thread is inside close()
    todo,           \* user_data of the copied cache values still to visit
    faults,         \* io_uring_submit calls so far that failed or took only a part
    \* liburing and the kernel (external)
    sq,             \* SQEs filled and not yet submitted
    slots,          \* what the SQE slots hold, the next one to be handed out first
    inflight,       \* requests the kernel works on
    cq,             \* CQEs posted and not yet seen
    pipe,           \* sendfile operations whose first splice moved data into the pipe
    hit,            \* history: user_data of requests a cancellation found in flight
    succeeded       \* history: user_data of CQEs posted with res >= 0

submitter == <<pendingSubmit, sq, slots, inflight>>
python    == <<nextUd, ops, cache, results, stopped, pc, closing, todo>>
kernel    == <<cq, pipe, hit, succeeded>>
vars      == <<python, submitter, kernel, faults>>

-----------------------------------------------------------------------------
(* Operations (operation.py).  A sendfile has the file-to-pipe splice in   *)
(* ud and pipe-to-socket in ud2.  A single-CQE operation has one key, here *)
(* in both places: its methods are those of a sendfile with ud = ud2.      *)

Operation(kind, f, u1, u2) ==
    [kind |-> kind, file |-> f, ud |-> u1, ud2 |-> u2, seen |-> {},
     pipes |-> IF kind = "sendfile" THEN "open" ELSE "none", fut |-> "pending"]

SingleCqeOperation(kind, f, u) == Operation(kind, f, u, u)

\* get_user_data: the first request whose CQE is not seen; 0 for None.
GetUserData(op) == IF op.ud \notin op.seen THEN op.ud
                   ELSE IF op.ud2 \notin op.seen THEN op.ud2 ELSE 0

\* Mutant: the pipes are closed with the first CQE.
MarkSeenEarly(op, u) ==
    [op EXCEPT !.seen = @ \cup {u}, !.pipes = IF @ = "open" THEN "closed" ELSE @]

\* mark_seen, which closes the pipes with the last CQE of a sendfile.
MarkSeen(op, u) ==
    LET seen == op.seen \cup {u}
    IN  [op EXCEPT !.seen = seen,
                   !.pipes = IF @ = "open" /\ {op.ud, op.ud2} \subseteq seen
                             THEN "closed" ELSE @]

\* Mutant: any successful CQE completes the future, the first splice's too.
OperateAtOnce(op, res) == IF res # "ok" THEN "exception" ELSE "result"

\* Mutant: an error is dropped.
OperateDropsError(op, res) == IF res = "ok" /\ op.ud2 \in op.seen THEN "result" ELSE op.fut

\* operate: the future of op after a CQE with this result.
Operate(op, res) == IF res # "ok" THEN "exception"
                    ELSE IF op.ud2 \in op.seen THEN "result" ELSE op.fut

-----------------------------------------------------------------------------
(* The submitter.                                                          *)

NoSqe == [ud |-> 0, opc |-> "nop", op |-> 0, target |-> 0]

\* Mutant: a key is drawn as soon as the table no longer holds it, like an object id().
NextUserDataReused(i) ==
    CHOOSE u \in 1 .. nextUd + 1 :
        /\ u \notin DOMAIN cache
        /\ Cardinality({v \in 1 .. u - 1 : v \notin DOMAIN cache}) = i

\* Mutant: both splices of a sendfile get the same key.
NextUserDataOnce(i) == nextUd

\* _next_user_data: the i-th key drawn after the present state (i = 0, 1).
NextUserData(i) == nextUd + i

\* io_uring_submit gives the kernel the first k of the queued entries.
Submitted(k) ==
    /\ sq' = SubSeq(sq, k + 1, Len(sq))
    /\ inflight' = inflight \o SubSeq(sq, 1, k)

\* Mutant: flush() is content with one io_uring_submit, however few entries it took.
FlushReturnsEarly(k) == k = IF pendingSubmit /\ Len(sq) > 0 THEN 1 ELSE 0

\* flush() returns normally having submitted k entries: all, or none if not pending.
FlushReturns(k) == k = IF pendingSubmit THEN Len(sq) ELSE 0

\* flush() raises after k entries: io_uring_submit failed or made no progress.
FlushRaises(k) == pendingSubmit /\ k \in 0 .. Len(sq) - 1

\* Another io_uring_submit that failed or took only a part.
Fault == faults < MaxFaults /\ faults' = faults + 1

\* The calls of io_uring_submit in a flush() that gets k entries through: one that takes
\* all of them, or one that takes a part and others for the rest.
OnceOrInParts(k) == UNCHANGED faults \/ (k > 1 /\ Fault)

\* flush() as a step of its own.
Flush ==
    /\ \E k \in 0 .. Len(sq) : FlushReturns(k) /\ Submitted(k) /\ OnceOrInParts(k)
    /\ pendingSubmit' = FALSE
    /\ UNCHANGED slots

FlushFails ==
    /\ \E k \in 0 .. Len(sq) : FlushRaises(k) /\ Submitted(k)
    /\ Fault
    /\ UNCHANGED <<pendingSubmit, slots>>

\* Mutant: one entry too many is taken to fit.
HasRoomOffByOne(n, k) ==
    \/ k = 0 /\ Len(sq) + n <= Entries + 1
    \/ Len(sq) + n > Entries + 1 /\ FlushReturns(k)

\* _get_sqe (n = 1) and ensure_capacity (n = 2): n free slots, after k entries were
\* flushed to make room.
HasRoom(n, k) ==
    \/ k = 0 /\ Len(sq) + n <= Entries
    \/ Len(sq) + n > Entries /\ FlushReturns(k) /\ Len(sq) - k + n <= Entries

\* The same calls when they raise; for the two slots of a sendfile also os.pipe(), which
\* is called once there is room.
NoRoom(n) ==
    /\ Len(sq) + n > Entries
    /\ \E k \in 0 .. Len(sq) :
          /\ Submitted(k)
          /\ pendingSubmit' = (pendingSubmit /\ k < Len(sq))
          /\ \/ FlushRaises(k) /\ Fault
             \/ FlushReturns(k) /\ (Len(sq) - k + n > Entries \/ n = 2) /\ OnceOrInParts(k)
    /\ UNCHANGED slots

\* Slots after the SQEs in new were handed out and filled.  Their contents only
\* matter where a slot may be handed out and left unfilled.
Remember(new) ==
    IF PrepErrors THEN SubSeq(slots \o new, Len(new) + 1, Len(slots) + Len(new)) ELSE slots

\* _prep for the SQEs in new, with room for n.
PrepWithin(n, new) ==
    /\ \E k \in 0 .. Len(sq) :
          /\ HasRoom(n, k)
          /\ sq' = SubSeq(sq, k + 1, Len(sq)) \o new
          /\ inflight' = inflight \o SubSeq(sq, 1, k)
          /\ OnceOrInParts(k)
    /\ slots' = Remember(new)

Prep(new) == PrepWithin(Len(new), new)

\* submit(): the table c with the requests of new registered.
Register(c, new, o, hasFuture) ==
    LET uds == {new[i].ud : i \in 1 .. Len(new)}
    IN  [u \in DOMAIN c \cup uds |->
            IF u \in uds THEN [op |-> o, fut |-> hasFuture] ELSE c[u]]

\* Mutant: the first CQE removes every entry of its operation.
PopOperation(c, u) == [v \in {w \in DOMAIN c : c[w].op # c[u].op} |-> c[v]]

\* Mutant: the entry is looked up and left in the table.
PopNothing(c, u) == c

\* _cache.pop
Pop(c, u) == [v \in DOMAIN c \ {u} |-> c[v]]

-----------------------------------------------------------------------------
(* Cancelling a future: _IoUringFuture.cancel and cancel_operation.        *)

\* Mutant: the future is marked cancelled before cancel() asks whether it is.
CancelTargetTooLate(op) == IF op.fut \in {"pending", "cancelled"} THEN 0 ELSE GetUserData(op)

\* What the cancellation asks the kernel to cancel; 0 if nothing is asked.
CancelTarget(op) == IF op.fut = "cancelled" THEN 0 ELSE GetUserData(op)

CancelSqe(o, target) ==
    [ud |-> NextUserData(0), opc |-> "cancel", op |-> o, target |-> target]

\* Future o, whose operation is op, is cancelled in the table c.
CancelFuture(o, op, c) ==
    /\ ops' = [ops EXCEPT ![o] = [op EXCEPT !.fut = IF @ = "pending" THEN "cancelled" ELSE @]]
    /\ \/ /\ CancelTarget(op) = 0
          /\ cache' = c
          /\ UNCHANGED <<nextUd, submitter, faults>>
       \/ /\ CancelTarget(op) # 0
          /\ LET new == <<CancelSqe(o, CancelTarget(op))>>
             IN  Prep(new) /\ cache' = Register(c, new, o, FALSE)
          /\ nextUd' = nextUd + 1
          /\ pendingSubmit' = TRUE

\* The call raises in _get_sqe: the future stays as it is.
CancelFutureRaises(op) ==
    /\ CancelTarget(op) # 0
    /\ NoRoom(1)
    /\ nextUd' = nextUd + 1

-----------------------------------------------------------------------------
(* Calls from the event loop and from user code, between two selects.      *)

Idle == pc = "idle" /\ nextUd <= MaxUserData

\* recv, recv_into, recvfrom, send, sendto, read, write, accept, connect, poll_add
StartOp(kind, f) ==
    /\ Idle /\ Len(ops) < MaxOps
    /\ kind # "sendfile"
    /\ LET u   == NextUserData(0)
           o   == Len(ops) + 1
           new == <<[ud |-> u, opc |-> "single", op |-> o, target |-> 0]>>
       IN  /\ Prep(new)
           /\ cache' = Register(cache, new, o, TRUE)
           /\ ops' = Append(ops, SingleCqeOperation(kind, f, u))
    /\ nextUd' = nextUd + 1
    /\ pendingSubmit' = TRUE
    /\ UNCHANGED <<results, stopped, pc, closing, todo, kernel>>

\* Mutant: no room is reserved for both entries, so the second may flush the first.
StartSendfileUnreserved(f) ==
    /\ Idle /\ Len(ops) < MaxOps /\ "sendfile" \in Kinds
    /\ LET o   == Len(ops) + 1
           f2p == [ud |-> nextUd, opc |-> "f2p", op |-> o, target |-> 0]
           p2s == [ud |-> nextUd + 1, opc |-> "p2s", op |-> o, target |-> 0]
       IN  /\ IF Len(sq) + 2 <= Entries
              THEN sq' = sq \o <<f2p, p2s>> /\ UNCHANGED inflight
              ELSE sq' = <<p2s>> /\ inflight' = inflight \o sq \o <<f2p>>
           /\ cache' = Register(cache, <<f2p, p2s>>, o, TRUE)
           /\ ops' = Append(ops, Operation("sendfile", f, nextUd, nextUd + 1))
    /\ nextUd' = nextUd + 2
    /\ pendingSubmit' = TRUE
    /\ UNCHANGED <<results, stopped, pc, closing, todo, kernel, slots, faults>>

StartSendfile(f) ==
    /\ Idle /\ Len(ops) < MaxOps
    /\ "sendfile" \in Kinds
    /\ LET u1  == NextUserData(0)
           u2  == NextUserData(1)
           o   == Len(ops) + 1
           new == <<[ud |-> u1, opc |-> "f2p", op |-> o, target |-> 0],
                    [ud |-> u2, opc |-> "p2s", op |-> o, target |-> 0]>>
       IN  /\ Prep(new)
           /\ cache' = Register(cache, new, o, TRUE)
           /\ ops' = Append(ops, Operation("sendfile", f, u1, u2))
    /\ nextUd' = nextUd + 2
    /\ pendingSubmit' = TRUE
    /\ UNCHANGED <<results, stopped, pc, closing, todo, kernel>>

\* The call raises for want of a slot or of a pipe; sendfile draws its keys afterwards.
StartRaises ==
    /\ Idle /\ Len(ops) < MaxOps
    /\ \/ Kinds # {"sendfile"} /\ NoRoom(1) /\ nextUd' = nextUd + 1
       \/ "sendfile" \in Kinds /\ NoRoom(2) /\ UNCHANGED nextUd
    /\ UNCHANGED <<ops, cache, results, stopped, pc, closing, todo, kernel>>

\* prep_fn raises: the slot handed out stays in the queue with its old contents.  A
\* sendfile has reserved two slots and drawn two keys by then; its pipe, which no
\* operation has, stays open and is not in the state.
StartPrepFails ==
    /\ PrepErrors
    /\ Idle
    /\ \E n \in 1 .. 2 :
          /\ \/ n = 1 /\ Kinds # {"sendfile"}
             \/ n = 2 /\ "sendfile" \in Kinds
          /\ PrepWithin(n, <<Head(slots)>>)
          /\ pendingSubmit' = (pendingSubmit /\ Len(sq) + n <= Entries)
          /\ nextUd' = nextUd + n
    /\ UNCHANGED <<ops, cache, results, stopped, pc, closing, todo, kernel>>

\* fut.cancel() by user code.
UserCancel(o) ==
    /\ Idle
    /\ ops[o].fut = "pending" \/ CancelTarget(ops[o]) # 0
    /\ CancelFuture(o, ops[o], cache)
    /\ UNCHANGED <<results, stopped, pc, closing, todo, kernel>>

UserCancelRaises(o) ==
    /\ Idle
    /\ CancelFutureRaises(ops[o])
    /\ UNCHANGED <<ops, cache, results, stopped, pc, closing, todo, kernel>>

-----------------------------------------------------------------------------
(* _stop_serving: a loop over a copy of the table.                         *)

StopServing(f) ==
    /\ Idle /\ f \notin stopped
    /\ stopped' = stopped \cup {f}
    /\ todo' = DOMAIN cache
    /\ pc' = "stopping"
    /\ UNCHANGED <<nextUd, ops, cache, results, closing, submitter, kernel, faults>>

\* Mutant: the loop cancels whatever is pending, on any socket.
ToStopAll == {u \in todo : cache[u].fut /\ ops[cache[u].op].fut = "pending"}

\* The entries of the copy whose future the loop still has to cancel.
ToStop == {u \in todo : /\ cache[u].fut
                        /\ ops[cache[u].op].file \in stopped
                        /\ ops[cache[u].op].fut = "pending"}

First(u, S) == u \in S /\ \A v \in S : u <= v

StopServingCancels ==
    /\ pc = "stopping"
    /\ \E u \in todo :
          /\ First(u, ToStop)
          /\ CancelFuture(cache[u].op, ops[cache[u].op], cache)
          /\ todo' = {v \in todo : v > u}
    /\ UNCHANGED <<results, stopped, pc, closing, kernel>>

StopServingRaises ==
    /\ pc = "stopping"
    /\ \E u \in todo : First(u, ToStop) /\ CancelFutureRaises(ops[cache[u].op])
    /\ pc' = "idle" /\ todo' = {}
    /\ UNCHANGED <<ops, cache, results, stopped, closing, kernel>>

StopServingReturns ==
    /\ pc = "stopping" /\ ToStop = {}
    /\ pc' = "idle" /\ todo' = {}
    /\ UNCHANGED <<nextUd, ops, cache, results, stopped, closing, submitter, kernel, faults>>

-----------------------------------------------------------------------------
(* select and _poll.  pc is "wait" in io_uring_wait_cqe, "waitT" in        *)
(* io_uring_wait_cqe_timeout and "drain" in the loop of io_uring_peek_cqe. *)

SelectPolls ==
    /\ pc = "idle" /\ results = {}
    /\ Flush
    /\ pc' \in {"wait", "waitT", "drain"}
    /\ UNCHANGED <<nextUd, ops, cache, results, stopped, closing, todo, kernel>>

SelectSkipsPoll ==
    /\ pc = "idle" /\ results # {}
    /\ results' = {}
    /\ UNCHANGED <<nextUd, ops, cache, stopped, pc, closing, todo, submitter, kernel, faults>>

SelectRaises ==
    /\ pc = "idle" /\ results = {}
    /\ FlushFails
    /\ UNCHANGED <<python, kernel>>

\* _poll returns, to select or to the loop of close().
PollReturns ==
    /\ pc' = IF closing THEN "closeloop" ELSE "idle"
    /\ results' = IF closing THEN results ELSE {}
    /\ UNCHANGED <<nextUd, ops, cache, stopped, closing, todo, submitter, kernel, faults>>

\* ETIME, or EINTR taken for it.
WaitTimesOut == pc = "waitT" /\ cq = <<>> /\ PollReturns

\* EAGAIN
DrainEnds == pc = "drain" /\ cq = <<>> /\ PollReturns

\* An exception leaves _poll, and select or close() with it: pc goes back to the caller.
Unwind == pc' = "idle" /\ closing' = FALSE /\ todo' = {}

\* A signal handler raises (KeyboardInterrupt) while the thread waits.
WaitInterrupted ==
    /\ pc \in {"wait", "waitT"} /\ cq = <<>>
    /\ Unwind
    /\ UNCHANGED <<nextUd, ops, cache, results, stopped, submitter, kernel, faults>>

\* A CQE is there: _handle_cqe, then io_uring_cqe_seen.
Reaping   == pc \in {"wait", "waitT", "drain"} /\ cq # <<>>
CqeSeen   == cq' = Tail(cq) /\ pc' = "drain" /\ UNCHANGED <<pipe, hit, succeeded>>
CachedOp  == cache[Head(cq).ud].op
MarkedOp  == MarkSeen(ops[CachedOp], Head(cq).ud)
Known     == Head(cq).ud \in DOMAIN cache

\* Not in the table: ignored.
CqeUnknown ==
    /\ Reaping /\ ~Known
    /\ CqeSeen
    /\ UNCHANGED <<nextUd, ops, cache, results, stopped, closing, todo, submitter, faults>>

\* The CQE of a cancellation; its error is reported or ignored.
CqeOfCancel ==
    /\ Reaping /\ Known /\ ~cache[Head(cq).ud].fut
    /\ cache' = Pop(cache, Head(cq).ud)
    /\ CqeSeen
    /\ UNCHANGED <<nextUd, ops, results, stopped, closing, todo, submitter, faults>>

\* Mutant: the CQE of a stopped socket is handled like any other.
ForStoppedNever == FALSE

ForStopped == Known /\ cache[Head(cq).ud].fut /\ ops[CachedOp].file \in stopped

\* The socket is stopped: the future is cancelled, with what is left of the operation.
CqeOfStopped ==
    /\ Reaping /\ ForStopped
    /\ CancelFuture(CachedOp, MarkedOp, Pop(cache, Head(cq).ud))
    /\ CqeSeen
    /\ UNCHANGED <<results, stopped, closing, todo>>

\* The cancellation raises: the entry is popped, the CQE stays in the queue.
CqeOfStoppedRaises ==
    /\ Reaping /\ ForStopped
    /\ CancelFutureRaises(MarkedOp)
    /\ ops' = [ops EXCEPT ![CachedOp] = MarkedOp]
    /\ cache' = Pop(cache, Head(cq).ud)
    /\ Unwind
    /\ UNCHANGED <<results, stopped, kernel>>

\* Mutant: a future that is done already is completed again.
CqeOfOperationAgain ==
    /\ Reaping /\ Known /\ cache[Head(cq).ud].fut /\ ~ForStopped
    /\ LET fut == Operate(MarkedOp, Head(cq).res)
       IN  /\ ops' = [ops EXCEPT ![CachedOp] = [MarkedOp EXCEPT !.fut = fut]]
           /\ results' = results \cup {CachedOp}
    /\ cache' = Pop(cache, Head(cq).ud)
    /\ CqeSeen
    /\ UNCHANGED <<nextUd, stopped, closing, todo, submitter, faults>>

\* _run_operation
CqeOfOperation ==
    /\ Reaping /\ Known /\ cache[Head(cq).ud].fut /\ ~ForStopped
    /\ LET o    == CachedOp
           op   == MarkedOp
           fut  == IF op.fut = "pending" THEN Operate(op, Head(cq).res) ELSE op.fut
       IN  /\ ops' = [ops EXCEPT ![o] = [op EXCEPT !.fut = fut]]
           /\ results' = IF fut # op.fut THEN results \cup {o} ELSE results
    /\ cache' = Pop(cache, Head(cq).ud)
    /\ CqeSeen
    /\ UNCHANGED <<nextUd, stopped, closing, todo, submitter, faults>>

-----------------------------------------------------------------------------
(* close()                                                                 *)

CloseBegins ==
    /\ Idle
    /\ closing' = TRUE /\ todo' = DOMAIN cache /\ pc' = "cancelling"
    /\ UNCHANGED <<nextUd, ops, cache, results, stopped, submitter, kernel, faults>>

\* Mutant: close() cancels nothing and only waits.
ToCancelNone == {}

ToCancel == {u \in todo : cache[u].fut}

CloseCancels ==
    /\ pc = "cancelling"
    /\ \E u \in todo :
          /\ First(u, ToCancel)
          /\ CancelFuture(cache[u].op, ops[cache[u].op], cache)
          /\ todo' = {v \in todo : v > u}
    /\ UNCHANGED <<results, stopped, pc, closing, kernel>>

\* An OSError is reported and the loop goes on; any other exception leaves close().
CloseCancelFails ==
    /\ pc = "cancelling"
    /\ \E u \in todo :
          /\ First(u, ToCancel)
          /\ CancelFutureRaises(ops[cache[u].op])
          /\ \/ pendingSubmit /\ todo' = {v \in todo : v > u} /\ UNCHANGED <<pc, closing>>
             \/ Unwind
    /\ UNCHANGED <<ops, cache, results, stopped, kernel>>

CloseCancelled ==
    /\ pc = "cancelling" /\ ToCancel = {}
    /\ pc' = "closeloop" /\ todo' = {}
    /\ UNCHANGED <<nextUd, ops, cache, results, stopped, closing, submitter, kernel, faults>>

ClosePolls ==
    /\ pc = "closeloop" /\ DOMAIN cache # {}
    /\ Flush
    /\ pc' = "waitT"
    /\ UNCHANGED <<nextUd, ops, cache, results, stopped, closing, todo, kernel>>

ClosePollRaises ==
    /\ pc = "closeloop" /\ DOMAIN cache # {}
    /\ FlushFails
    /\ Unwind
    /\ UNCHANGED <<nextUd, ops, cache, results, stopped, kernel>>

\* Mutant: close() does not wait for the table to empty.
CloseExitsAtOnce ==
    /\ pc = "closeloop"
    /\ pc' = "closed" /\ closing' = FALSE /\ results' = {}
    /\ UNCHANGED <<nextUd, ops, cache, stopped, todo, submitter, kernel, faults>>

\* io_uring_queue_exit: whatever is queued goes away with the ring.
CloseExits ==
    /\ pc = "closeloop" /\ DOMAIN cache = {}
    /\ pc' = "closed" /\ closing' = FALSE /\ results' = {}
    /\ UNCHANGED <<nextUd, ops, cache, stopped, todo, submitter, kernel, faults>>

\* close() of a closed proactor, __del__ included.
CloseAgain == pc = "closed" /\ UNCHANGED vars

-----------------------------------------------------------------------------
(* The kernel (external).                                                  *)

Post(i, res) ==
    /\ inflight' = RemoveAt(inflight, i)
    /\ cq' = Append(cq, [ud |-> inflight[i].ud, res |-> res])
    /\ succeeded' = IF res = "ok" THEN succeeded \cup {inflight[i].ud} ELSE succeeded
    /\ UNCHANGED <<python, pendingSubmit, sq, slots, faults>>

CompleteSingle(i, res) ==
    /\ inflight[i].opc \in {"single", "nop"}
    /\ Post(i, res)
    /\ UNCHANGED <<pipe, hit>>

\* The file-to-pipe splice; at the end of the file it succeeds and writes nothing.
CompleteF2p(i, res) ==
    /\ inflight[i].opc = "f2p"
    /\ Post(i, res)
    /\ pipe' \in {pipe} \cup (IF res = "ok" THEN {pipe \cup {inflight[i].op}} ELSE {})
    /\ UNCHANGED hit

\* Two splices that went to the kernel in different submissions are not linked: the first
\* may have moved data, which it is bound to report as a success, before it completes.
MoveUnlinked(i) ==
    /\ faults > 0
    /\ inflight[i].opc = "f2p"
    /\ inflight' = [inflight EXCEPT ![i].opc = "moved"]
    /\ pipe' = pipe \cup {inflight[i].op}
    /\ UNCHANGED <<python, pendingSubmit, sq, slots, cq, hit, succeeded, faults>>

CompleteMoved(i, res) ==
    /\ inflight[i].opc = "moved" /\ res = "ok"
    /\ Post(i, res)
    /\ UNCHANGED <<pipe, hit>>

\* The pipe-to-socket splice waits until the pipe, whose write end the process holds
\* open, has data: a hard link starts it even when the first splice fails.
CompleteP2s(i, res) ==
    /\ inflight[i].opc = "p2s"
    /\ \/ inflight[i].op \in pipe
       \/ inflight[i].ud \in hit /\ res = "err"
    /\ Post(i, res)
    /\ UNCHANGED <<pipe, hit>>

Complete(i, res) ==
    \/ CompleteSingle(i, res) \/ CompleteF2p(i, res)
    \/ CompleteMoved(i, res) \/ CompleteP2s(i, res)

\* A cancellation finds its target in flight (res may still be EALREADY) or not (ENOENT).
ExecCancel(i) ==
    /\ inflight[i].opc = "cancel"
    /\ \/ /\ \E j \in 1 .. Len(inflight) :
                inflight[j].opc # "cancel" /\ inflight[j].ud = inflight[i].target
          /\ hit' = hit \cup {inflight[i].target}
          /\ \E res \in {"ok", "err"} : Post(i, res)
       \/ /\ \A j \in 1 .. Len(inflight) :
                inflight[j].opc # "cancel" => inflight[j].ud # inflight[i].target
          /\ UNCHANGED hit
          /\ Post(i, "noent")
    /\ UNCHANGED pipe

-----------------------------------------------------------------------------
Init ==
    /\ nextUd = 1 /\ ops = <<>> /\ cache = <<>> /\ pendingSubmit = FALSE
    /\ results = {} /\ stopped = {} /\ pc = "idle" /\ closing = FALSE /\ todo = {}
    /\ faults = 0
    /\ sq = <<>> /\ slots = [i \in 1 .. Entries |-> NoSqe] /\ inflight = <<>> /\ cq = <<>>
    /\ pipe = {} /\ hit = {} /\ succeeded = {}

HandleCqe == CqeUnknown \/ CqeOfCancel \/ CqeOfStopped \/ CqeOfOperation

\* The steps the thread takes on its own once the event loop runs or a call is under way.
LoopStep ==
    \/ StopServingCancels \/ StopServingReturns
    \/ SelectPolls \/ SelectSkipsPoll \/ WaitTimesOut \/ DrainEnds \/ HandleCqe
    \/ CloseCancels \/ CloseCancelled \/ ClosePolls \/ CloseExits

\* Exceptions: failed submissions and signals.
LoopRaises ==
    \/ StopServingRaises \/ SelectRaises \/ WaitInterrupted \/ CqeOfStoppedRaises
    \/ CloseCancelFails \/ ClosePollRaises

Call ==
    \/ \E f \in Files : StartSendfile(f) \/ StopServing(f)
    \/ \E kind \in Kinds, f \in Files : StartOp(kind, f)
    \/ StartRaises \/ StartPrepFails
    \/ \E o \in 1 .. Len(ops) : UserCancel(o) \/ UserCancelRaises(o)
    \/ CloseBegins \/ CloseAgain

Kernel ==
    \E i \in 1 .. Len(inflight) :
        \/ ExecCancel(i) \/ MoveUnlinked(i)
        \/ \E res \in {"ok", "err"} : Complete(i, res)

Next == Call \/ LoopStep \/ LoopRaises \/ Kernel

Spec == Init /\ [][Next]_vars

\* The event loop keeps running and the kernel carries out cancellations; no other
\* request is ever bound to complete.
CompleteHit == \E i \in 1 .. Len(inflight), res \in {"ok", "err"} :
                    inflight[i].ud \in hit /\ Complete(i, res)

FairSpec ==
    /\ Spec
    /\ WF_vars(LoopStep)
    /\ WF_vars(\E i \in 1 .. Len(inflight) : ExecCancel(i))
    /\ WF_vars(CompleteHit)
-----------------------------------------------------------------------------
(* Properties.                                                             *)

Sqes == [ud : Nat, opc : {"single", "f2p", "moved", "p2s", "cancel", "nop"}, op : Nat,
         target : Nat]
Cqes == [ud : Nat, res : {"ok", "err", "noent"}]
OpRecords ==
    [kind : {"io", "accept", "sendfile"}, file : Files, ud : Nat, ud2 : Nat,
     seen : SUBSET Nat, pipes : {"none", "open", "closed"},
     fut : {"pending", "result", "exception", "cancelled"}]

\* The type invariant: every entry of the table names an operation that was started,
\* the submission queue never holds more than its slots, and a copy of the table is
\* only being walked inside _stop_serving and close().
TypeOK ==
    /\ nextUd \in Nat \ {0}
    /\ ops \in Seq(OpRecords)
    /\ DOMAIN cache \subseteq Nat
    /\ cache \in [DOMAIN cache -> [op : 1 .. Len(ops), fut : BOOLEAN]]
    /\ pendingSubmit \in BOOLEAN
    /\ results \subseteq 1 .. Len(ops)
    /\ stopped \subseteq Files
    /\ pc \in {"idle", "stopping", "wait", "waitT", "drain", "cancelling", "closeloop", "closed"}
    /\ closing \in BOOLEAN
    /\ todo \subseteq DOMAIN cache
    /\ pc \notin {"stopping", "cancelling"} => todo = {}
    /\ faults \in 0 .. MaxFaults
    /\ sq \in Seq(Sqes) /\ Len(sq) <= Entries
    /\ slots \in Seq(Sqes) /\ Len(slots) = Entries
    /\ inflight \in Seq(Sqes)
    /\ cq \in Seq(Cqes)
    /\ pipe \subseteq Nat /\ hit \subseteq Nat /\ succeeded \subseteq Nat

\* Key 0 is never drawn: only a slot that was never filled has it.
Distinct(s)  == \A i, j \in 1 .. Len(s) : s[i].ud = s[j].ud => i = j \/ s[i].ud = 0
Apart(s, t)  == \A i \in 1 .. Len(s), j \in 1 .. Len(t) : s[i].ud = t[j].ud => s[i].ud = 0
UdsOf(s)     == {s[i].ud : i \in 1 .. Len(s)}

UniqueIn(s, t, c) ==
    /\ Distinct(s) /\ Distinct(t) /\ Distinct(c)
    /\ Apart(s, t) /\ Apart(s, c) /\ Apart(t, c)

\* No two requests between _prep and io_uring_cqe_seen carry the same user_data, so a
\* CQE tells which request it completes (the comment on _user_data_counter).
UniqueUserData == UniqueIn(sq, inflight, cq)

PinnedIn(c, s) == \A i \in 1 .. Len(s) :
                     /\ s[i].ud \in DOMAIN c
                     /\ c[s[i].ud] = [op |-> s[i].op, fut |-> s[i].opc # "cancel"]

\* While the kernel may touch the memory of a request, the table keeps the request
\* (its buffers, sockaddr, msghdr) and its operation alive, under its user_data.
RequestsPinned == PinnedIn(cache, sq) /\ PinnedIn(cache, inflight)

\* Conversely an entry of the table always has a request queued, in flight or completed:
\* no entry is left for which close() would wait in vain.
NothingForgotten == DOMAIN cache \subseteq UdsOf(sq) \cup UdsOf(inflight) \cup UdsOf(cq)

\* A pending future is still attached to a request that will complete or cancel it, and
\* unless its socket was stopped this is the last one of its operation, whose CQE alone
\* can bring the result, whatever order the CQEs of two unlinked splices come in.
PendingHasRequest ==
    \A o \in 1 .. Len(ops) : ops[o].fut = "pending" =>
        \E u \in {ops[o].ud, ops[o].ud2} :
            /\ u \in DOMAIN cache /\ cache[u] = [op |-> o, fut |-> TRUE]
            /\ ops[o].file \notin stopped => u = ops[o].ud2

\* The pipe of a sendfile is closed exactly when both splices are over: never under a
\* splice that the kernel still has, and never left open with nobody to close it.
PipesFollowSplices ==
    \A o \in 1 .. Len(ops) : ops[o].kind = "sendfile" =>
        /\ ops[o].pipes = "closed" =>
              {ops[o].ud, ops[o].ud2} \cap (UdsOf(sq) \cup UdsOf(inflight)) = {}
        /\ ops[o].pipes = "open" => {ops[o].ud, ops[o].ud2} \cap DOMAIN cache # {}

\* A future has a result only if the kernel reported success for the last request of the
\* operation, and for a sendfile only if the first splice moved data: a sendfile whose
\* first splice failed, or met the end of the file, never reports a count.
ResultsAreTrue ==
    \A o \in 1 .. Len(ops) : ops[o].fut = "result" =>
        ops[o].ud2 \in succeeded /\ (ops[o].kind = "sendfile" => o \in pipe)

\* A cancellation only ever reaches the operation it was meant for: no request of a
\* future that nobody cancelled is found by an ASYNC_CANCEL.
OnlyCancelledAreHit ==
    \A o \in 1 .. Len(ops) :
        (ops[o].ud \in hit \/ ops[o].ud2 \in hit) => ops[o].fut # "pending"

\* The thread never goes to sleep over SQEs it has not submitted: the flush of _poll and
\* the pending flag lose none, so a waiter cannot wait for a request nobody sent.
SleepsOnlyWhenFlushed == pc \in {"wait", "waitT"} => sq = <<>>

\* Linked SQEs cannot cross submission boundaries: as long as every io_uring_submit took
\* all that was queued, the two splices of a sendfile are both queued or both submitted.
LinkedTogether ==
    faults = 0 => \A o \in 1 .. Len(ops) : ops[o].kind = "sendfile" =>
                      (ops[o].ud \in UdsOf(sq) <=> ops[o].ud2 \in UdsOf(sq))

\* When close() has released the ring, the kernel holds no request, every future is
\* done, every pipe is closed, and a later fut.cancel() asks nothing of the ring.
ClosedIsQuiet ==
    pc = "closed" =>
        /\ sq = <<>> /\ inflight = <<>>
        /\ \A o \in 1 .. Len(ops) :
              ops[o].fut # "pending" /\ ops[o].pipes # "open" /\ GetUserData(ops[o]) = 0

\* A future that is done stays as it is, whatever CQEs and cancellations come later.
DoneIsFinal ==
    [][\A o \in 1 .. Len(ops) : ops[o].fut # "pending" => ops'[o].fut = ops[o].fut]_vars

\* Once _stop_serving was called for a socket, no operation on it ever delivers a result.
StoppedNeverDelivers ==
    [][\A o \in 1 .. Len(ops) :
          ops[o].file \in stopped /\ ops[o].fut = "pending" => ops'[o].fut \in {"pending", "cancelled"}]_vars

\* _stop_serving is exact: when it returns (one that raises has drawn a key), no future on
\* a stopped socket is pending, and neither it nor the completion loop ever cancels a
\* future on another socket.
StopServingIsExact ==
    [][/\ pc = "stopping" /\ pc' = "idle" /\ nextUd' = nextUd =>
             \A o \in 1 .. Len(ops) : ops[o].file \in stopped => ops[o].fut # "pending"
       /\ pc # "idle" /\ ~closing =>
             \A o \in 1 .. Len(ops) :
                ops[o].fut = "pending" /\ ops'[o].fut = "cancelled" => ops[o].file \in stopped]_vars

Released(o) == o <= Len(ops) /\ {ops[o].ud, ops[o].ud2} \cap DOMAIN cache = {}

\* A cancelled operation is given back by the kernel: cancelling what get_user_data
\* names is enough to release all its requests ("you only need to remove the first
\* unfinished one").
CancelReleases ==
    \A o \in 1 .. MaxOps : (o <= Len(ops) /\ ops[o].fut = "cancelled") ~> Released(o)

\* close() ends: with the ring released, or with the exception of a signal handler.
CloseEnds == closing ~> ~closing

=============================================================================
