---------------------------- MODULE FutureProofs ----------------------------
(* Operations and their futures, proved for every value of the constants.  *)
(* The first part, about what a step may do to a future and what is true   *)
(* of an operation, includes prep functions that raise; the second, about  *)
(* pipes, sleeping, closing and linked splices, excludes them.             *)
EXTENDS OwnershipProofs

\* A future keeps its state, is cancelled while pending, or is completed while pending
\* on a socket that is not stopped.
FutureMoves ==
    \A o \in 1 .. Len(ops) :
        \/ ops'[o].fut = ops[o].fut
        \/ ops[o].fut = "pending" /\ ops'[o].fut = "cancelled"
        \/ ops[o].fut = "pending" /\ ops[o].file \notin stopped

\* The kernel changes neither the thread's state nor what the thread has queued.
LEMMA KernelLeaves ==
    ASSUME Kernel
    PROVE  UNCHANGED <<python, pendingSubmit, sq, slots, faults>>
BY DEF Kernel, ExecCancel, MoveUnlinked, Complete, CompleteSingle, CompleteF2p, CompleteMoved,
       CompleteP2s, Post

\* Where one operation is replaced, only its future can move.
LEMMA ReplaceMoves ==
    ASSUME ops \in Seq(OpRecords), NEW o \in 1 .. Len(ops), NEW op,
           ops' = [ops EXCEPT ![o] = op],
           \/ op.fut = ops[o].fut
           \/ ops[o].fut = "pending" /\ op.fut = "cancelled"
           \/ ops[o].fut = "pending" /\ ops[o].file \notin stopped
    PROVE  FutureMoves
<1>1. \A p \in 1 .. Len(ops) : ops'[p] = IF p = o THEN op ELSE ops[p]
  OBVIOUS
<1> QED
  BY <1>1 DEF FutureMoves

\* fut.cancel() moves a pending future to cancelled and leaves any other.
LEMMA CancelMoves ==
    ASSUME ops \in Seq(OpRecords), NEW o \in 1 .. Len(ops), NEW op \in OpRecords, NEW c,
           op.fut = ops[o].fut, CancelFuture(o, op, c)
    PROVE  FutureMoves
<1> DEFINE new == [op EXCEPT !.fut = IF @ = "pending" THEN "cancelled" ELSE @]
<1>1. ops' = [ops EXCEPT ![o] = new]
  BY DEF CancelFuture
<1>2. new.fut = IF op.fut = "pending" THEN "cancelled" ELSE op.fut
  BY DEF OpRecords
<1> HIDE DEF new
<1> QED
  BY <1>1, <1>2, ReplaceMoves

\* mark_seen leaves the future alone.
LEMMA MarkSeenFuture ==
    ASSUME NEW op \in OpRecords, NEW u
    PROVE  MarkSeen(op, u).fut = op.fut
BY DEF OpRecords, MarkSeen

\* Starting an operation adds a future and moves none.
LEMMA AppendMoves ==
    ASSUME ops \in Seq(OpRecords), NEW op \in OpRecords, ops' = Append(ops, op)
    PROVE  FutureMoves
<1>1. \A p \in 1 .. Len(ops) : ops'[p] = ops[p]
  BY AppendProperties
<1> QED
  BY <1>1 DEF FutureMoves

\* The calls user code makes.
LEMMA CallMoves == ASSUME TypeOK, Call PROVE FutureMoves
<1>0. ops \in Seq(OpRecords) /\ nextUd \in Nat /\ \A o \in 1 .. Len(ops) : ops[o] \in OpRecords
  BY TypeParts
<1>1. ASSUME NEW kind \in {"io", "accept", "sendfile"}, NEW f \in Files,
             NEW u1 \in Nat, NEW u2 \in Nat, ops' = Append(ops, Operation(kind, f, u1, u2))
      PROVE  FutureMoves
  <2>1. Operation(kind, f, u1, u2) \in OpRecords
    BY DEF Operation, OpRecords
  <2> QED
    BY <1>0, <1>1, <2>1, AppendMoves
<1>2. NextUserData(0) \in Nat /\ NextUserData(1) \in Nat
  BY <1>0 DEF NextUserData
<1>3. ASSUME NEW f \in Files, StartSendfile(f) PROVE FutureMoves
  BY <1>1, <1>2, <1>3 DEF StartSendfile
<1>4. ASSUME NEW kind \in Kinds, NEW f \in Files, StartOp(kind, f) PROVE FutureMoves
  BY <1>1, <1>2, <1>4, KindsAssumption DEF StartOp, SingleCqeOperation
<1>5. ASSUME NEW o \in 1 .. Len(ops), UserCancel(o) PROVE FutureMoves
  BY <1>0, <1>5, CancelMoves DEF UserCancel
<1>6. ASSUME UNCHANGED ops PROVE FutureMoves
  BY <1>6 DEF FutureMoves
<1>7. CASE \/ StartRaises \/ StartPrepFails \/ CloseBegins \/ CloseAgain
           \/ \E f \in Files : StopServing(f)
           \/ \E o \in 1 .. Len(ops) : UserCancelRaises(o)
  <2>1. UNCHANGED ops
    BY <1>7 DEF StartRaises, StartPrepFails, CloseBegins, CloseAgain, StopServing,
                UserCancelRaises, vars, python
  <2> QED
    BY <1>6, <2>1
<1> QED
  BY <1>3, <1>4, <1>5, <1>7 DEF Call

\* _handle_cqe.
LEMMA CqeMoves ==
    ASSUME TypeOK, HandleCqe \/ CqeOfStoppedRaises
    PROVE  FutureMoves
<1>0. ops \in Seq(OpRecords)
  BY TypeParts
<1>1. CASE CqeUnknown \/ CqeOfCancel
  BY <1>1 DEF CqeUnknown, CqeOfCancel, FutureMoves
<1>2. ASSUME Reaping, Known
      PROVE  /\ CachedOp \in 1 .. Len(ops) /\ MarkedOp \in OpRecords
             /\ ops[CachedOp] \in OpRecords /\ MarkedOp.fut = ops[CachedOp].fut
  <2>1. /\ CachedOp \in 1 .. Len(ops) /\ ops[CachedOp] \in OpRecords /\ MarkedOp \in OpRecords
    BY <1>2, CqeParts
  <2> QED
    BY <2>1, MarkSeenFuture DEF MarkedOp
<1>3. CASE CqeOfStopped
  <2>1. Reaping /\ Known /\ CancelFuture(CachedOp, MarkedOp, Pop(cache, Head(cq).ud))
    BY <1>3 DEF CqeOfStopped, ForStopped
  <2> QED
    BY <1>0, <1>2, <2>1, CancelMoves
<1>4. CASE CqeOfStoppedRaises
  <2>1. Reaping /\ Known /\ ops' = [ops EXCEPT ![CachedOp] = MarkedOp]
    BY <1>4 DEF CqeOfStoppedRaises, ForStopped
  <2> QED
    BY <1>0, <1>2, <2>1, ReplaceMoves
<1>5. CASE CqeOfOperation
  <2> DEFINE fut == IF MarkedOp.fut = "pending" THEN Operate(MarkedOp, Head(cq).res) ELSE MarkedOp.fut
             new == [MarkedOp EXCEPT !.fut = fut]
  <2>1. /\ Reaping /\ Known /\ ops' = [ops EXCEPT ![CachedOp] = new]
        /\ ops[CachedOp].file \notin stopped
    BY <1>5 DEF CqeOfOperation, ForStopped
  <2>2. /\ CachedOp \in 1 .. Len(ops) /\ MarkedOp \in OpRecords
        /\ MarkedOp.fut = ops[CachedOp].fut
    BY <1>2, <2>1
  <2>3. new.fut = fut
    BY <2>2 DEF OpRecords
  <2>4. new.fut = ops[CachedOp].fut \/ ops[CachedOp].fut = "pending"
    BY <2>2, <2>3
  <2> HIDE DEF new
  <2> QED
    BY <1>0, <2>1, <2>2, <2>4, ReplaceMoves
<1> QED
  BY <1>1, <1>3, <1>4, <1>5 DEF HandleCqe

\* Every step.
LEMMA StepMoves == ASSUME TypeOK, [Next]_vars PROVE FutureMoves
<1>0. /\ ops \in Seq(OpRecords)
      /\ \A u \in DOMAIN cache : /\ cache[u].op \in 1 .. Len(ops)
                                 /\ ops[cache[u].op] \in OpRecords
  BY TypeParts
<1>1. CASE UNCHANGED vars \/ Kernel
  <2>1. UNCHANGED ops
    BY <1>1, KernelLeaves DEF vars, python
  <2> QED
    BY <2>1 DEF FutureMoves
<1>2. CASE Call
  BY <1>2, CallMoves
<1>3. CASE HandleCqe \/ CqeOfStoppedRaises
  BY <1>3, CqeMoves
<1>4. CASE StopServingCancels \/ CloseCancels
  <2>1. PICK u \in todo : CancelFuture(cache[u].op, ops[cache[u].op], cache)
    BY <1>4 DEF StopServingCancels, CloseCancels
  <2>2. u \in DOMAIN cache
    BY DEF TypeOK
  <2> QED
    BY <1>0, <2>1, <2>2, CancelMoves
<1>5. CASE \/ StopServingRaises \/ StopServingReturns \/ CloseCancelFails \/ CloseCancelled
           \/ SelectPolls \/ SelectSkipsPoll \/ SelectRaises \/ WaitTimesOut \/ DrainEnds
           \/ WaitInterrupted \/ ClosePolls \/ ClosePollRaises \/ CloseExits
  <2>1. UNCHANGED ops
    BY <1>5 DEF StopServingRaises, StopServingReturns, CloseCancelFails, CloseCancelled,
                SelectPolls, SelectSkipsPoll, SelectRaises, WaitTimesOut, DrainEnds, PollReturns,
                WaitInterrupted, ClosePolls, ClosePollRaises, CloseExits, python
  <2> QED
    BY <2>1 DEF FutureMoves
<1> QED
  BY <1>1, <1>2, <1>3, <1>4, <1>5 DEF Next, LoopStep, LoopRaises

\* A done future is final: no later CQE or cancellation changes what cancel(), set_result
\* or set_exception made of it.
THEOREM DoneStaysDone == Spec => DoneIsFinal
<1>1. TypeOK /\ [Next]_vars =>
          [\A o \in 1 .. Len(ops) : ops[o].fut # "pending" => ops'[o].fut = ops[o].fut]_vars
  BY StepMoves DEF FutureMoves
<1> QED
  BY <1>1, TypeCorrect, PTL DEF Spec, DoneIsFinal

\* After _stop_serving(f) no operation on f delivers a result or an error any more: its
\* future can only be cancelled.
THEOREM StoppedStaysSilent == Spec => StoppedNeverDelivers
<1>1. TypeOK /\ [Next]_vars =>
          [\A o \in 1 .. Len(ops) : ops[o].file \in stopped /\ ops[o].fut = "pending"
               => ops'[o].fut \in {"pending", "cancelled"}]_vars
  BY StepMoves DEF FutureMoves
<1> QED
  BY <1>1, TypeCorrect, PTL DEF Spec, StoppedNeverDelivers

-----------------------------------------------------------------------------
(* Operations, their requests and their futures.  The invariant says what  *)
(* every key, SQE and CQE stands for.                                      *)

Keys(op) == {op.ud, op.ud2}

\* Keys are drawn once, for one operation; the two splices of a sendfile have one each.
KeysInv ==
    /\ \A o \in 1 .. Len(ops) :
          /\ ops[o].ud \in 1 .. nextUd - 1 /\ ops[o].ud2 \in 1 .. nextUd - 1
          /\ ops[o].kind = "sendfile" <=> ops[o].ud # ops[o].ud2
    /\ \A o, p \in 1 .. Len(ops) : Keys(ops[o]) \cap Keys(ops[p]) # {} => o = p

\* The table c has the request of a key exactly until mark_seen; its other entries are
\* cancellations.  P are the operations and n is the next key.
TableIs(P, c, n) ==
    /\ DOMAIN c \subseteq 1 .. n - 1
    /\ \A o \in 1 .. Len(P) : \A u \in Keys(P[o]) :
          /\ u \in P[o].seen <=> u \notin DOMAIN c
          /\ u \in DOMAIN c => c[u].op = o /\ c[u].fut = TRUE
    /\ \A u \in DOMAIN c : c[u].fut => u \in Keys(P[c[u].op])

TableInv == TableIs(ops, cache, nextUd)

\* The SQEs that may be queued, in flight or left in a slot: a request of an operation
\* under its key, or the cancellation of an operation that is no longer pending.
MeantSqes ==
    {e \in Sqes :
        /\ e.ud \in 0 .. nextUd - 1
        /\ e.opc = "nop" => e.ud = 0
        /\ e.opc # "nop" => e.op \in 1 .. Len(ops)
        /\ e.opc = "single" => ops[e.op].kind # "sendfile" /\ e.ud = ops[e.op].ud
        /\ e.opc = "f2p" => ops[e.op].kind = "sendfile" /\ e.ud = ops[e.op].ud
        /\ e.opc = "moved" => ops[e.op].kind = "sendfile" /\ e.ud = ops[e.op].ud
        /\ e.opc = "p2s" => ops[e.op].kind = "sendfile" /\ e.ud = ops[e.op].ud2
        /\ e.opc = "cancel" =>
              /\ ops[e.op].fut # "pending"
              /\ e.target \in Keys(ops[e.op])
              /\ \A o \in 1 .. Len(ops) : e.ud \notin Keys(ops[o])}

QueuesIn(T) == sq \in Seq(T) /\ inflight \in Seq(T) /\ slots \in Seq(T)

\* What the CQEs in the queue report; the second splice succeeds only on a filled pipe.
CompletionsInv ==
    \A j \in 1 .. Len(cq) :
        /\ cq[j].ud \in 0 .. nextUd - 1
        /\ cq[j].res = "ok" => cq[j].ud \in succeeded
        /\ \A o \in 1 .. Len(ops) :
              ops[o].kind = "sendfile" /\ cq[j].ud = ops[o].ud2 /\ cq[j].res = "ok" => o \in pipe

\* A cancellation has found only requests of futures that are no longer pending.
KernelInv ==
    /\ hit \subseteq 1 .. nextUd - 1
    /\ \A o \in 1 .. Len(ops) : Keys(ops[o]) \cap hit # {} => ops[o].fut # "pending"

\* A pending future has a CQE to come, and that of its last request unless its socket was
\* stopped; a result needs the success of the last request, on a filled pipe; the pipes of
\* a sendfile are open until both CQEs were seen.  The pipes of the operations in mv have
\* been filled.
FutureIs(o, op, st, su, mv) ==
    /\ op.fut = "pending" => ~(Keys(op) \subseteq op.seen)
    /\ op.fut = "pending" /\ op.file \notin st => op.ud2 \notin op.seen
    /\ op.fut = "result" => op.ud2 \in su /\ (op.kind = "sendfile" => o \in mv)
    /\ op.pipes = "open" => ~(Keys(op) \subseteq op.seen)
    /\ op.pipes = "closed" => Keys(op) \subseteq op.seen

FuturesInv == \A o \in 1 .. Len(ops) : FutureIs(o, ops[o], stopped, succeeded, pipe)

\* What the loop of _stop_serving has passed is not pending on a stopped socket.
WalkInv ==
    /\ pc = "stopping" => \A o \in 1 .. Len(ops) :
          ops[o].fut = "pending" /\ ops[o].file \in stopped => Keys(ops[o]) \cap todo # {}
    /\ pc = "cancelling" => closing

OperationInv ==
    /\ KeysInv /\ TableInv /\ QueuesIn(MeantSqes) /\ CompletionsInv /\ KernelInv
    /\ FuturesInv /\ WalkInv

-----------------------------------------------------------------------------
(* How the operations grow.                                                *)

\* b is the operation a some steps later.
Later(a, b) ==
    /\ b.kind = a.kind /\ b.file = a.file /\ b.ud = a.ud /\ b.ud2 = a.ud2
    /\ a.seen \subseteq b.seen
    /\ b.fut = a.fut \/ a.fut = "pending"

\* An operation as it is started.
Fresh(op) ==
    /\ Keys(op) \subseteq nextUd .. nextUd' - 1
    /\ op.kind = "sendfile" <=> op.ud # op.ud2
    /\ op.seen = {} /\ op.fut = "pending" /\ op.pipes # "closed"

Grow ==
    /\ nextUd' \in Nat /\ nextUd <= nextUd'
    /\ Len(ops') \in {Len(ops), Len(ops) + 1}
    /\ \A o \in 1 .. Len(ops) : Later(ops[o], ops'[o])
    /\ Len(ops') = Len(ops) + 1 => Fresh(ops'[Len(ops) + 1])

\* The keys drawn stay drawn, and a key drawn later is another one.
LEMMA KeyRange ==
    ASSUME NEW n \in Nat, NEW m \in Nat, n <= m
    PROVE  /\ 1 .. n - 1 \subseteq 1 .. m - 1
           /\ \A u \in n .. m - 1 : /\ u \notin 1 .. n - 1 /\ u \in 0 .. m - 1
                                    /\ n # 0 => u \in 1 .. m - 1
OBVIOUS

\* Where the operations do not change.
LEMMA GrowSame ==
    ASSUME TypeOK, UNCHANGED ops, nextUd' \in Nat, nextUd <= nextUd'
    PROVE  Grow
BY TypeParts DEF Grow, Later

\* Where one operation is replaced by a later one.
LEMMA GrowReplace ==
    ASSUME TypeOK, NEW o \in 1 .. Len(ops), NEW op, Later(ops[o], op),
           ops' = [ops EXCEPT ![o] = op], nextUd' \in Nat, nextUd <= nextUd'
    PROVE  Grow
<1>1. ops \in Seq(OpRecords) /\ Len(ops) \in Nat
  BY TypeParts
<1>2. Len(ops') = Len(ops) /\ \A p \in 1 .. Len(ops) : ops'[p] = IF p = o THEN op ELSE ops[p]
  BY <1>1
<1>3. \A p \in 1 .. Len(ops) : Later(ops[p], ops'[p])
  BY <1>2 DEF Later
<1>4. \A n \in Nat : n # n + 1
  OBVIOUS
<1> QED
  BY <1>1, <1>2, <1>3, <1>4, Zenon DEF Grow

\* Where an operation is started.
LEMMA GrowStart ==
    ASSUME TypeOK, NEW kind, NEW f, NEW u1, NEW u2,
           Operation(kind, f, u1, u2) \in OpRecords,
           ops' = Append(ops, Operation(kind, f, u1, u2)),
           nextUd' \in Nat, nextUd <= nextUd',
           u1 \in nextUd .. nextUd' - 1, u2 \in nextUd .. nextUd' - 1,
           kind = "sendfile" <=> u1 # u2
    PROVE  Grow
<1> DEFINE op == Operation(kind, f, u1, u2)
<1>1. ops \in Seq(OpRecords) /\ Len(ops) \in Nat /\ nextUd \in Nat
  BY TypeParts
<1>2. /\ Len(ops') = Len(ops) + 1 /\ \A p \in 1 .. Len(ops) : ops'[p] = ops[p]
      /\ ops'[Len(ops) + 1] = op
  BY <1>1, AppendProperties
<1>3. Fresh(op)
  BY DEF Fresh, Operation, Keys
<1> HIDE DEF op
<1> QED
  BY <1>1, <1>2, <1>3 DEF Grow, Later

\* An operation was there before, or is the one that was started.
LEMMA GrowCases ==
    ASSUME TypeOK, Grow, NEW o \in 1 .. Len(ops')
    PROVE  \/ o \in 1 .. Len(ops) /\ Later(ops[o], ops'[o])
           \/ o = Len(ops) + 1 /\ Fresh(ops'[o])
<1>1. Len(ops) \in Nat
  BY TypeParts
<1> QED
  BY <1>1 DEF Grow

\* Keys stay unique.
LEMMA GrowKeys ==
    ASSUME TypeOK, KeysInv, Grow
    PROVE  KeysInv'
<1>0. nextUd \in Nat /\ Len(ops) \in Nat
  BY TypeParts
<1>1. \A o \in 1 .. Len(ops') : \/ o \in 1 .. Len(ops) /\ Later(ops[o], ops'[o])
                                \/ o = Len(ops) + 1 /\ Fresh(ops'[o])
  BY GrowCases
<1>2. ASSUME NEW o \in 1 .. Len(ops')
      PROVE  /\ ops'[o].ud \in 1 .. nextUd' - 1 /\ ops'[o].ud2 \in 1 .. nextUd' - 1
             /\ ops'[o].kind = "sendfile" <=> ops'[o].ud # ops'[o].ud2
  <2>0. nextUd' \in Nat /\ nextUd <= nextUd' /\ nextUd >= 1
    BY TypeParts DEF Grow
  <2>1. CASE o \in 1 .. Len(ops) /\ Later(ops[o], ops'[o])
    BY <1>0, <2>0, <2>1 DEF Later, KeysInv
  <2>2. CASE Fresh(ops'[o])
    BY <1>0, <2>0, <2>2 DEF Fresh, Keys
  <2> QED
    BY <1>1, <2>1, <2>2
<1>3. ASSUME NEW o \in 1 .. Len(ops'), NEW p \in 1 .. Len(ops'),
             Keys(ops'[o]) \cap Keys(ops'[p]) # {}
      PROVE  o = p
  <2>1. CASE o \in 1 .. Len(ops) /\ p \in 1 .. Len(ops)
    BY <1>3, <2>1 DEF Grow, Later, Keys, KeysInv
  <2>2. ASSUME NEW a \in 1 .. Len(ops), NEW b, Fresh(ops'[b])
        PROVE  Keys(ops'[a]) \cap Keys(ops'[b]) = {}
    BY <1>0, <2>2 DEF Grow, Later, Fresh, Keys, KeysInv
  <2> QED
    BY <1>1, <1>3, <2>1, <2>2
<1> QED
  BY <1>2, <1>3 DEF KeysInv

\* What an SQE stands for stays true.
LEMMA GrowMeant ==
    ASSUME TypeOK, Grow
    PROVE  MeantSqes \subseteq MeantSqes'
<1>0. nextUd \in Nat /\ nextUd' \in Nat /\ nextUd <= nextUd' /\ Len(ops) \in Nat
  BY TypeParts DEF Grow
<1> SUFFICES ASSUME NEW e \in MeantSqes PROVE e \in MeantSqes'
  OBVIOUS
<1>1. e \in Sqes /\ e.ud \in 0 .. nextUd' - 1
  BY <1>0 DEF MeantSqes, Sqes
<1>2. e.opc # "nop" => e.op \in 1 .. Len(ops) /\ e.op \in 1 .. Len(ops') /\ Later(ops[e.op], ops'[e.op])
  BY <1>0 DEF MeantSqes, Grow
<1>3. e.opc = "cancel" => \A o \in 1 .. Len(ops') : e.ud \notin Keys(ops'[o])
  <2> SUFFICES ASSUME e.opc = "cancel", NEW o \in 1 .. Len(ops') PROVE e.ud \notin Keys(ops'[o])
    OBVIOUS
  <2>1. CASE o \in 1 .. Len(ops)
    BY <2>1 DEF MeantSqes, Grow, Later, Keys
  <2>2. CASE o = Len(ops) + 1 /\ Fresh(ops'[o])
    BY <1>0, <2>2 DEF MeantSqes, Fresh
  <2> QED
    BY <1>0, <2>1, <2>2 DEF Grow
<1>4. e.opc = "cancel" =>
          /\ ops'[e.op].fut # "pending"
          /\ e.target \in Keys(ops'[e.op])
  BY <1>2 DEF MeantSqes, Later, Keys
<1>5. /\ e.opc = "nop" => e.ud = 0
      /\ e.opc = "single" => ops'[e.op].kind # "sendfile" /\ e.ud = ops'[e.op].ud
      /\ e.opc = "f2p" => ops'[e.op].kind = "sendfile" /\ e.ud = ops'[e.op].ud
      /\ e.opc = "moved" => ops'[e.op].kind = "sendfile" /\ e.ud = ops'[e.op].ud
      /\ e.opc = "p2s" => ops'[e.op].kind = "sendfile" /\ e.ud = ops'[e.op].ud2
  BY <1>2 DEF MeantSqes, Later
<1> QED
  BY <1>1, <1>2, <1>3, <1>4, <1>5 DEF MeantSqes

\* What a CQE stands for stays true while it waits in the queue.
LEMMA GrowCompletions ==
    ASSUME TypeOK, CompletionsInv, Grow, cq' = cq, succeeded \subseteq succeeded',
           pipe \subseteq pipe'
    PROVE  CompletionsInv'
<1>0. nextUd \in Nat /\ nextUd' \in Nat /\ nextUd <= nextUd'
  BY TypeParts DEF Grow
<1>1. ASSUME NEW j \in 1 .. Len(cq)
      PROVE  cq[j].ud \in 0 .. nextUd' - 1 /\ (cq[j].res = "ok" => cq[j].ud \in succeeded')
  BY <1>0 DEF CompletionsInv
<1>2. ASSUME NEW j \in 1 .. Len(cq), NEW o \in 1 .. Len(ops'),
             ops'[o].kind = "sendfile", cq[j].ud = ops'[o].ud2, cq[j].res = "ok"
      PROVE  o \in pipe'
  <2>1. CASE o \in 1 .. Len(ops) /\ Later(ops[o], ops'[o])
    BY <1>2, <2>1 DEF CompletionsInv, Later
  <2>2. CASE Fresh(ops'[o])
    <3>1. cq[j].ud \in 0 .. nextUd - 1 /\ cq[j].ud \in nextUd .. nextUd' - 1
      BY <1>2, <2>2 DEF CompletionsInv, Fresh, Keys
    <3> QED
      BY <1>0, <3>1
  <2> QED
    BY <2>1, <2>2, GrowCases
<1> QED
  BY <1>1, <1>2 DEF CompletionsInv

\* So does what the kernel has done.
LEMMA GrowKernel ==
    ASSUME TypeOK, KernelInv, Grow, UNCHANGED hit
    PROVE  KernelInv'
<1>0. nextUd \in Nat /\ nextUd' \in Nat /\ nextUd <= nextUd'
  BY TypeParts DEF Grow
<1>1. hit \subseteq 1 .. nextUd' - 1
  <2>1. hit \subseteq 1 .. nextUd - 1
    BY DEF KernelInv
  <2> QED
    BY <1>0, <2>1, KeyRange
<1>2. ASSUME NEW o \in 1 .. Len(ops'), Keys(ops'[o]) \cap hit # {}
      PROVE  ops'[o].fut # "pending"
  <2>1. CASE o \in 1 .. Len(ops) /\ Later(ops[o], ops'[o])
    BY <1>2, <2>1 DEF KernelInv, Later, Keys
  <2>2. CASE Fresh(ops'[o])
    <3>1. \A u \in Keys(ops'[o]) : u \notin 1 .. nextUd - 1
      BY <1>0, <2>2 DEF Fresh
    <3> QED
      BY <1>2, <3>1 DEF KernelInv, Keys
  <2> QED
    BY <2>1, <2>2, GrowCases
<1> QED
  BY <1>1, <1>2 DEF KernelInv

-----------------------------------------------------------------------------
(* The table, as lemmas about operations P, a table c and the next key n.  *)

UniqueKeys(P) == \A o, p \in 1 .. Len(P) : Keys(P[o]) \cap Keys(P[p]) # {} => o = p
KeysBelow(P, n) == \A o \in 1 .. Len(P) : Keys(P[o]) \subseteq 1 .. n - 1

\* A key that is drawn and not used.
LEMMA TableLater ==
    ASSUME NEW P, NEW c, NEW n \in Nat, NEW m \in Nat, n <= m, TableIs(P, c, n)
    PROVE  TableIs(P, c, m)
<1>1. DOMAIN c \subseteq 1 .. n - 1
  BY DEF TableIs
<1>2. DOMAIN c \subseteq 1 .. m - 1
  BY <1>1
<1> QED
  BY <1>2 DEF TableIs

\* The table does not look at futures.
LEMMA TableAgree ==
    ASSUME NEW P, NEW Q, NEW c, NEW n, TableIs(P, c, n), Len(Q) = Len(P),
           \A u \in DOMAIN c : c[u].op \in 1 .. Len(P),
           \A o \in 1 .. Len(P) : Keys(Q[o]) = Keys(P[o]) /\ Q[o].seen = P[o].seen
    PROVE  TableIs(Q, c, n)
BY DEF TableIs

\* A cancellation is registered under a key of its own.
LEMMA TableCancel ==
    ASSUME NEW P, NEW c, NEW n \in Nat \ {0}, TableIs(P, c, n), KeysBelow(P, n),
           NEW e, e.ud = n, NEW o
    PROVE  TableIs(P, Register(c, <<e>>, o, FALSE), n + 1)
<1> DEFINE d == Register(c, <<e>>, o, FALSE)
<1>1. DOMAIN d = DOMAIN c \cup {n} /\ d[n].fut = FALSE /\ \A u \in DOMAIN c \ {n} : d[u] = c[u]
  BY DEF Register
<1>2. DOMAIN c \subseteq 1 .. n - 1
  BY DEF TableIs
<1>3. n \notin DOMAIN c /\ \A p \in 1 .. Len(P) : n \notin Keys(P[p])
  BY <1>2 DEF KeysBelow
<1>4. DOMAIN d \subseteq 1 .. (n + 1) - 1
  <2>1. n \in 1 .. (n + 1) - 1 /\ 1 .. n - 1 \subseteq 1 .. (n + 1) - 1
    OBVIOUS
  <2> QED
    BY <1>1, <1>2, <2>1
<1> HIDE DEF d
<1>5. \A p \in 1 .. Len(P) : \A u \in Keys(P[p]) :
          (u \in DOMAIN d <=> u \in DOMAIN c) /\ (u \in DOMAIN c => d[u] = c[u])
  BY <1>1, <1>3
<1>6. \A u \in DOMAIN d : d[u].fut => u \in DOMAIN c /\ d[u] = c[u]
  BY <1>1
<1>7. TableIs(P, d, n + 1)
  BY <1>4, <1>5, <1>6 DEF TableIs
<1> QED
  BY <1>7 DEF d

\* submit() registers the requests of a new operation.
LEMMA TableStart ==
    ASSUME NEW P \in Seq(OpRecords), NEW op \in OpRecords, NEW c, NEW n \in Nat \ {0}, NEW m \in Nat,
           NEW new, TableIs(P, c, n), KeysBelow(P, n), n <= m,
           \A u \in DOMAIN c : c[u].op \in 1 .. Len(P),
           op.seen = {}, Keys(op) = {new[i].ud : i \in 1 .. Len(new)}, Keys(op) \subseteq n .. m - 1
    PROVE  TableIs(Append(P, op), Register(c, new, Len(P) + 1, TRUE), m)
<1> DEFINE d == Register(c, new, Len(P) + 1, TRUE)
           Q == Append(P, op)
<1>0. Len(P) \in Nat
  OBVIOUS
<1>1. /\ DOMAIN d = DOMAIN c \cup Keys(op)
      /\ \A u \in Keys(op) : d[u] = [op |-> Len(P) + 1, fut |-> TRUE]
      /\ \A u \in DOMAIN c \ Keys(op) : d[u] = c[u]
  BY DEF Register
<1>2. /\ Len(Q) = Len(P) + 1 /\ Q[Len(P) + 1] = op /\ \A p \in 1 .. Len(P) : Q[p] = P[p]
      /\ \A p \in 1 .. Len(Q) : p \in 1 .. Len(P) \/ p = Len(P) + 1
  BY <1>0, AppendProperties
<1> HIDE DEF d, Q
<1>3. DOMAIN c \subseteq 1 .. n - 1
  BY DEF TableIs
<1>r. /\ 1 .. n - 1 \subseteq 1 .. m - 1
      /\ \A u \in Keys(op) : u \notin 1 .. n - 1 /\ u \in 1 .. m - 1
  BY KeyRange
<1>4. \A u \in Keys(op) : u \notin DOMAIN c /\ \A p \in 1 .. Len(P) : u \notin Keys(P[p])
  BY <1>3, <1>r DEF KeysBelow
<1>5. DOMAIN d \subseteq 1 .. m - 1
  BY <1>1, <1>3, <1>r
<1>6. ASSUME NEW p \in 1 .. Len(Q), NEW u \in Keys(Q[p])
      PROVE  /\ u \in Q[p].seen <=> u \notin DOMAIN d
             /\ u \in DOMAIN d => d[u].op = p /\ d[u].fut = TRUE
  <2>1. CASE p \in 1 .. Len(P)
    <3>1. u \in Keys(P[p]) /\ u \notin Keys(op) /\ Q[p] = P[p]
      BY <1>2, <1>4, <2>1
    <3>2. (u \in DOMAIN d <=> u \in DOMAIN c) /\ (u \in DOMAIN c => d[u] = c[u])
      BY <1>1, <3>1
    <3> QED
      BY <2>1, <3>1, <3>2 DEF TableIs
  <2>2. CASE p = Len(P) + 1
    BY <1>1, <1>2, <2>2
  <2> QED
    BY <1>2, <2>1, <2>2
<1>7. ASSUME NEW u \in DOMAIN d, d[u].fut PROVE u \in Keys(Q[d[u].op])
  <2>1. CASE u \in Keys(op)
    BY <1>1, <1>2, <2>1
  <2>2. CASE u \notin Keys(op)
    BY <1>1, <1>2, <1>7, <2>2 DEF TableIs
  <2> QED
    BY <2>1, <2>2
<1>8. TableIs(Q, d, m)
  BY <1>5, <1>6, <1>7 DEF TableIs
<1> QED
  BY <1>8 DEF d, Q

\* The CQE of a cancellation removes its entry.
LEMMA TablePopCancel ==
    ASSUME NEW P, NEW c, NEW n, TableIs(P, c, n), NEW u \in DOMAIN c, ~c[u].fut
    PROVE  TableIs(P, Pop(c, u), n)
<1>1. DOMAIN Pop(c, u) = DOMAIN c \ {u} /\ \A v \in DOMAIN c \ {u} : Pop(c, u)[v] = c[v]
  BY DEF Pop
<1>2. \A o \in 1 .. Len(P) : u \notin Keys(P[o])
  BY DEF TableIs
<1> QED
  BY <1>1, <1>2 DEF TableIs

\* The CQE of an operation removes its entry and marks the request seen.
LEMMA TablePopMark ==
    ASSUME NEW P, NEW Q, NEW c, NEW n, TableIs(P, c, n), NEW u \in DOMAIN c, c[u].fut,
           UniqueKeys(P), \A v \in DOMAIN c : c[v].op \in 1 .. Len(P),
           Len(Q) = Len(P), \A o \in 1 .. Len(P) : Keys(Q[o]) = Keys(P[o]),
           \A o \in 1 .. Len(P) :
              Q[o].seen = IF o = c[u].op THEN P[o].seen \cup {u} ELSE P[o].seen
    PROVE  TableIs(Q, Pop(c, u), n)
<1>1. DOMAIN Pop(c, u) = DOMAIN c \ {u} /\ \A v \in DOMAIN c \ {u} : Pop(c, u)[v] = c[v]
  BY DEF Pop
<1>2. \A o \in 1 .. Len(P) : u \in Keys(P[o]) <=> o = c[u].op
  BY DEF TableIs
<1>3. ASSUME NEW o \in 1 .. Len(Q), NEW v \in Keys(Q[o])
      PROVE  /\ v \in Q[o].seen <=> v \notin DOMAIN Pop(c, u)
             /\ v \in DOMAIN Pop(c, u) => Pop(c, u)[v].op = o /\ Pop(c, u)[v].fut = TRUE
  <2>1. v \in Keys(P[o]) /\ o \in 1 .. Len(P)
    OBVIOUS
  <2>2. CASE v = u
    BY <1>1, <1>2, <2>1, <2>2
  <2>3. CASE v # u
    <3>1. v \in Q[o].seen <=> v \in P[o].seen
      BY <2>1, <2>3
    <3> QED
      BY <1>1, <2>1, <2>3, <3>1 DEF TableIs
  <2> QED
    BY <2>2, <2>3
<1>4. DOMAIN Pop(c, u) \subseteq 1 .. n - 1
  BY <1>1 DEF TableIs
<1>5. \A v \in DOMAIN Pop(c, u) : Pop(c, u)[v].fut => v \in Keys(Q[Pop(c, u)[v].op])
  BY <1>1 DEF TableIs
<1> QED
  BY <1>3, <1>4, <1>5 DEF TableIs

-----------------------------------------------------------------------------
(* The queues, whose entries stay in a set T.                              *)

\* A sequence is one over any set that has its elements.
LEMMA Retype ==
    ASSUME NEW S, NEW T, NEW s \in Seq(S), \A i \in 1 .. Len(s) : s[i] \in T
    PROVE  s \in Seq(T)
<1>1. Len(s) \in Nat /\ s \in [1 .. Len(s) -> S]
  BY LenProperties
<1>2. s \in [1 .. Len(s) -> T]
  BY <1>1
<1> QED
  BY <1>1, <1>2, SeqDef

\* io_uring_submit moves entries and makes none.
LEMMA SubmittedIn ==
    ASSUME NEW T, sq \in Seq(T), inflight \in Seq(T), NEW k \in 0 .. Len(sq), Submitted(k)
    PROVE  sq' \in Seq(T) /\ inflight' \in Seq(T)
<1>1. SubSeq(sq, 1, k) \in Seq(T) /\ SubSeq(sq, k + 1, Len(sq)) \in Seq(T)
  BY SplitType
<1> QED
  BY <1>1, ConcatProperties DEF Submitted

\* _prep adds the new entries only.
LEMMA PrepWithinIn ==
    ASSUME NEW T, sq \in Seq(T), inflight \in Seq(T), slots \in Seq(T),
           NEW new \in Seq(T), NEW n, PrepWithin(n, new)
    PROVE  sq' \in Seq(T) /\ inflight' \in Seq(T) /\ slots' \in Seq(T)
<1>1. PICK k \in 0 .. Len(sq) : /\ sq' = SubSeq(sq, k + 1, Len(sq)) \o new
                                /\ inflight' = inflight \o SubSeq(sq, 1, k)
  BY DEF PrepWithin
<1>2. SubSeq(sq, 1, k) \in Seq(T) /\ SubSeq(sq, k + 1, Len(sq)) \in Seq(T)
  BY SplitType
<1>3. sq' \in Seq(T) /\ inflight' \in Seq(T)
  BY <1>1, <1>2, ConcatProperties
<1>4. slots' \in Seq(T)
  <2>1. CASE ~PrepErrors
    BY <2>1 DEF PrepWithin, Remember
  <2>2. CASE PrepErrors
    <3> DEFINE all == slots \o new
    <3>1. all \in Seq(T) /\ Len(all) = Len(slots) + Len(new)
      BY ConcatProperties
    <3>2. slots' = SubSeq(all, Len(new) + 1, Len(all))
      BY <2>2, <3>1 DEF PrepWithin, Remember
    <3>3. Len(new) \in 0 .. Len(all)
      BY <3>1
    <3> HIDE DEF all
    <3> QED
      BY <3>1, <3>2, <3>3, SplitType
  <2> QED
    BY <2>1, <2>2
<1> QED
  BY <1>3, <1>4

\* What a step does to the queues when it adds no request: nothing, a submission, or a
\* slot that is handed out and not filled.
QueueStep ==
    \/ UNCHANGED <<sq, inflight, slots>>
    \/ (\E k \in 0 .. Len(sq) : Submitted(k)) /\ UNCHANGED slots
    \/ \E n \in 1 .. 2 : PrepWithin(n, <<Head(slots)>>)

\* Such a step keeps every entry in T.
LEMMA QueueStepIn ==
    ASSUME NEW T, sq \in Seq(T), inflight \in Seq(T), slots \in Seq(T), slots # <<>>, QueueStep
    PROVE  sq' \in Seq(T) /\ inflight' \in Seq(T) /\ slots' \in Seq(T)
<1>1. CASE UNCHANGED <<sq, inflight, slots>>
  BY <1>1
<1>2. CASE (\E k \in 0 .. Len(sq) : Submitted(k)) /\ UNCHANGED slots
  BY <1>2, SubmittedIn
<1>3. CASE \E n \in 1 .. 2 : PrepWithin(n, <<Head(slots)>>)
  <2>1. Head(slots) \in T
    OBVIOUS
  <2>2. <<Head(slots)>> \in Seq(T)
    BY <2>1
  <2> QED
    BY <1>3, <2>2, PrepWithinIn
<1> QED
  BY <1>1, <1>2, <1>3 DEF QueueStep

\* An entry that meant something still does after a step.
LEMMA StillMeant ==
    ASSUME TypeOK, Grow, QueuesIn(MeantSqes)
    PROVE  sq \in Seq(MeantSqes') /\ inflight \in Seq(MeantSqes') /\ slots \in Seq(MeantSqes')
<1>1. MeantSqes \subseteq MeantSqes'
  BY GrowMeant
<1> QED
  BY <1>1, SeqMonotonic DEF QueuesIn

-----------------------------------------------------------------------------
(* Steps that start, cancel and complete nothing.                          *)

QuietStep ==
    /\ UNCHANGED <<ops, cache, cq, pipe, hit, succeeded>>
    /\ nextUd' \in Nat /\ nextUd <= nextUd' /\ stopped \subseteq stopped'
    /\ QueueStep

QuietAction ==
    \/ StartRaises \/ StartPrepFails \/ CloseBegins
    \/ \E f \in Files : StopServing(f)
    \/ \E o \in 1 .. Len(ops) : UserCancelRaises(o)
    \/ StopServingRaises \/ StopServingReturns \/ CloseCancelFails \/ CloseCancelled
    \/ SelectPolls \/ SelectSkipsPoll \/ SelectRaises \/ WaitTimesOut \/ DrainEnds
    \/ WaitInterrupted \/ ClosePolls \/ ClosePollRaises \/ CloseExits
    \/ UNCHANGED vars

\* The quiet actions of the proactor.
LEMMA QuietActions == ASSUME TypeOK, QuietAction PROVE QuietStep
<1>0. nextUd \in Nat /\ nextUd <= nextUd
  BY DEF TypeOK
<1>1. ASSUME NEW n, NoRoom(n) PROVE (\E k \in 0 .. Len(sq) : Submitted(k)) /\ UNCHANGED slots
  BY <1>1 DEF NoRoom
<1>2. CASE \/ StartRaises \/ StopServingRaises \/ CloseCancelFails
           \/ \E o \in 1 .. Len(ops) : UserCancelRaises(o)
  <2>1. /\ \E n : NoRoom(n)
        /\ nextUd' \in {nextUd, nextUd + 1}
        /\ UNCHANGED <<ops, cache, stopped, kernel>>
    BY <1>2 DEF StartRaises, StopServingRaises, CloseCancelFails, UserCancelRaises, CancelFutureRaises
  <2> QED
    BY <1>0, <1>1, <2>1 DEF QuietStep, QueueStep, kernel
<1>3. CASE StartPrepFails
  <2>1. /\ \E n \in 1 .. 2 : PrepWithin(n, <<Head(slots)>>) /\ nextUd' = nextUd + n
        /\ UNCHANGED <<ops, cache, stopped, kernel>>
    BY <1>3 DEF StartPrepFails
  <2>2. nextUd' \in Nat /\ nextUd <= nextUd'
    BY <1>0, <2>1
  <2> QED
    BY <2>1, <2>2 DEF QuietStep, QueueStep, kernel
<1>4. CASE SelectPolls \/ SelectRaises \/ ClosePolls \/ ClosePollRaises
  <2>1. Flush \/ FlushFails
    BY <1>4 DEF SelectPolls, ClosePolls, SelectRaises, ClosePollRaises
  <2>2. (\E k \in 0 .. Len(sq) : Submitted(k)) /\ UNCHANGED slots
    BY <2>1 DEF Flush, FlushFails
  <2>3. UNCHANGED <<nextUd, ops, cache, stopped, kernel>>
    BY <1>4 DEF SelectPolls, ClosePolls, SelectRaises, ClosePollRaises, python
  <2> QED
    BY <1>0, <2>2, <2>3 DEF QuietStep, QueueStep, kernel
<1>5. CASE \/ CloseBegins \/ StopServingReturns \/ CloseCancelled \/ SelectSkipsPoll
           \/ WaitTimesOut \/ DrainEnds \/ WaitInterrupted \/ CloseExits \/ UNCHANGED vars
  <2>1. UNCHANGED <<nextUd, ops, cache, stopped, submitter, kernel>>
    BY <1>5 DEF CloseBegins, StopServingReturns, CloseCancelled, SelectSkipsPoll, WaitTimesOut,
                DrainEnds, PollReturns, WaitInterrupted, CloseExits, vars, python
  <2> QED
    BY <1>0, <2>1 DEF QuietStep, QueueStep, kernel, submitter
<1>6. ASSUME NEW f \in Files, StopServing(f) PROVE QuietStep
  BY <1>0, <1>6 DEF StopServing, QuietStep, QueueStep, kernel, submitter
<1> QED
  BY <1>2, <1>3, <1>4, <1>5, <1>6 DEF QuietAction

\* They keep what every key, SQE and CQE stands for.
LEMMA QuietKeeps ==
    ASSUME TypeOK, OperationInv, QuietStep
    PROVE  /\ KeysInv' /\ TableInv' /\ QueuesIn(MeantSqes)' /\ CompletionsInv' /\ KernelInv'
           /\ FuturesInv'
<1>1. Grow
  BY GrowSame DEF QuietStep
<1>2. KeysInv'
  BY <1>1, GrowKeys DEF OperationInv
<1>3. TableInv'
  <2>1. nextUd \in Nat /\ nextUd' \in Nat /\ nextUd <= nextUd' /\ TableIs(ops, cache, nextUd)
    BY TypeParts DEF QuietStep, OperationInv, TableInv
  <2>2. TableIs(ops, cache, nextUd')
    BY <2>1, TableLater
  <2> QED
    BY <2>2 DEF TableInv, QuietStep
<1>4. QueuesIn(MeantSqes)'
  <2>1. sq \in Seq(MeantSqes') /\ inflight \in Seq(MeantSqes') /\ slots \in Seq(MeantSqes')
    BY <1>1, StillMeant DEF OperationInv
  <2>2. slots # <<>>
    BY EntriesAssumption DEF TypeOK
  <2>3. sq' \in Seq(MeantSqes') /\ inflight' \in Seq(MeantSqes') /\ slots' \in Seq(MeantSqes')
    BY <2>1, <2>2, QueueStepIn DEF QuietStep
  <2> QED
    BY <2>3 DEF QueuesIn
<1>5. CompletionsInv'
  BY <1>1, GrowCompletions DEF OperationInv, QuietStep
<1>6. KernelInv'
  BY <1>1, GrowKernel DEF OperationInv, QuietStep
<1>7. FuturesInv'
  BY DEF OperationInv, QuietStep, FuturesInv, FutureIs
<1> QED
  BY <1>2, <1>3, <1>4, <1>5, <1>6, <1>7

-----------------------------------------------------------------------------
(* Starting an operation.                                                  *)

\* A request of operation o of this kind with keys u1 and u2.
RequestOf(e, o, kind, u1, u2) ==
    /\ e \in Sqes /\ e.op = o
    /\ \/ e.opc = "single" /\ kind # "sendfile" /\ e.ud = u1
       \/ e.opc = "f2p" /\ kind = "sendfile" /\ e.ud = u1
       \/ e.opc = "p2s" /\ kind = "sendfile" /\ e.ud = u2

\* The six parts of the invariant, after an operation was started.
LEMMA StartKeeps ==
    ASSUME TypeOK, OperationInv, NEW kind \in {"io", "accept", "sendfile"}, NEW f \in Files,
           NEW u1 \in Nat, NEW u2 \in Nat, NEW new \in Seq(Sqes),
           nextUd' \in Nat, nextUd <= nextUd',
           u1 \in nextUd .. nextUd' - 1, u2 \in nextUd .. nextUd' - 1,
           kind = "sendfile" <=> u1 # u2,
           {new[i].ud : i \in 1 .. Len(new)} = {u1, u2},
           \A i \in 1 .. Len(new) : RequestOf(new[i], Len(ops) + 1, kind, u1, u2),
           Prep(new), cache' = Register(cache, new, Len(ops) + 1, TRUE),
           ops' = Append(ops, Operation(kind, f, u1, u2)),
           UNCHANGED <<stopped, kernel>>
    PROVE  /\ KeysInv' /\ TableInv' /\ QueuesIn(MeantSqes)' /\ CompletionsInv' /\ KernelInv'
           /\ FuturesInv'
<1> DEFINE op == Operation(kind, f, u1, u2)
           o  == Len(ops) + 1
<1>0. /\ ops \in Seq(OpRecords) /\ Len(ops) \in Nat /\ nextUd \in Nat \ {0}
      /\ \A u \in DOMAIN cache : cache[u].op \in 1 .. Len(ops)
  BY TypeParts
<1>a. /\ op \in OpRecords /\ op.kind = kind /\ op.file = f /\ op.ud = u1 /\ op.ud2 = u2
      /\ op.seen = {} /\ op.fut = "pending" /\ op.pipes # "closed"
  BY DEF Operation, OpRecords
<1>b. Len(ops') = o /\ ops'[o] = op /\ \A p \in 1 .. Len(ops) : ops'[p] = ops[p]
  BY <1>0, <1>a, AppendProperties
<1>1. Grow
  BY <1>a, GrowStart
<1>c. cq' = cq /\ succeeded' = succeeded /\ UNCHANGED <<cq, pipe, hit>>
  BY DEF kernel
<1>2. KeysInv'
  BY <1>1, GrowKeys DEF OperationInv
<1>3. TableInv'
  <2>1. TableIs(ops, cache, nextUd) /\ KeysBelow(ops, nextUd)
    BY DEF OperationInv, TableInv, KeysInv, KeysBelow, Keys
  <2>2. Keys(op) = {new[i].ud : i \in 1 .. Len(new)} /\ Keys(op) \subseteq nextUd .. nextUd' - 1
    BY <1>a DEF Keys
  <2> HIDE DEF op
  <2>3. TableIs(Append(ops, op), Register(cache, new, o, TRUE), nextUd')
    BY <1>0, <1>a, <2>1, <2>2, TableStart
  <2> QED
    BY <2>3 DEF TableInv, op
<1> HIDE DEF op
<1>4. QueuesIn(MeantSqes)'
  <2>1. sq \in Seq(MeantSqes') /\ inflight \in Seq(MeantSqes') /\ slots \in Seq(MeantSqes')
    BY <1>1, StillMeant DEF OperationInv
  <2>2. ASSUME NEW i \in 1 .. Len(new) PROVE new[i] \in MeantSqes'
    <3>1. RequestOf(new[i], o, kind, u1, u2)
      OBVIOUS
    <3>2. o \in 1 .. Len(ops')
      BY <1>0, <1>b
    <3>3. new[i].ud \in 0 .. nextUd' - 1
      <4>1. \A u \in nextUd .. nextUd' - 1 : u \in 0 .. nextUd' - 1
        BY <1>0, KeyRange
      <4> QED
        BY <3>1, <4>1 DEF RequestOf
    <3> HIDE DEF o
    <3> QED
      BY <1>a, <1>b, <3>1, <3>2, <3>3 DEF MeantSqes, RequestOf
  <2>3. new \in Seq(MeantSqes')
    BY <2>2, Retype
  <2>4. PrepWithin(Len(new), new)
    BY DEF Prep
  <2>5. sq' \in Seq(MeantSqes') /\ inflight' \in Seq(MeantSqes') /\ slots' \in Seq(MeantSqes')
    BY <2>1, <2>3, <2>4, PrepWithinIn
  <2> QED
    BY <2>5 DEF QueuesIn
<1>5. CompletionsInv'
  BY <1>1, <1>c, GrowCompletions DEF OperationInv
<1>6. KernelInv'
  BY <1>1, <1>c, GrowKernel DEF OperationInv
<1>7. FuturesInv'
  <2> SUFFICES ASSUME NEW p \in 1 .. Len(ops')
               PROVE  FutureIs(p, ops'[p], stopped', succeeded', pipe')
    BY DEF FuturesInv
  <2>1. CASE p \in 1 .. Len(ops)
    BY <1>b, <1>c, <2>1 DEF OperationInv, FuturesInv
  <2>2. CASE p = o
    BY <1>a, <1>b, <2>2 DEF Keys, FutureIs
  <2> QED
    BY <1>0, <1>b, <2>1, <2>2
<1> QED
  BY <1>2, <1>3, <1>4, <1>5, <1>6, <1>7

-----------------------------------------------------------------------------
(* Cancelling a future.                                                    *)

\* What fut.cancel() makes of the operation.
LEMMA CancelledOp ==
    ASSUME TypeOK, NEW o \in 1 .. Len(ops), NEW op \in OpRecords, NEW c, CancelFuture(o, op, c)
    PROVE  /\ Len(ops') = Len(ops) /\ \A p \in 1 .. Len(ops) : p # o => ops'[p] = ops[p]
           /\ ops'[o].kind = op.kind /\ ops'[o].file = op.file /\ ops'[o].ud = op.ud
           /\ ops'[o].ud2 = op.ud2 /\ ops'[o].seen = op.seen /\ ops'[o].pipes = op.pipes
           /\ ops'[o].fut = IF op.fut = "pending" THEN "cancelled" ELSE op.fut
<1> DEFINE new == [op EXCEPT !.fut = IF @ = "pending" THEN "cancelled" ELSE @]
<1>1. ops \in Seq(OpRecords) /\ ops' = [ops EXCEPT ![o] = new]
  BY TypeParts DEF CancelFuture
<1>2. /\ new.kind = op.kind /\ new.file = op.file /\ new.ud = op.ud /\ new.ud2 = op.ud2
      /\ new.seen = op.seen /\ new.pipes = op.pipes
      /\ new.fut = IF op.fut = "pending" THEN "cancelled" ELSE op.fut
  BY DEF OpRecords
<1> HIDE DEF new
<1>3. Len(ops') = Len(ops) /\ \A p \in 1 .. Len(ops) : ops'[p] = IF p = o THEN new ELSE ops[p]
  BY <1>1
<1> QED
  BY <1>2, <1>3

\* fut.cancel() lets the operations grow.
LEMMA CancelGrows ==
    ASSUME TypeOK, NEW o \in 1 .. Len(ops), NEW op \in OpRecords, Later(ops[o], op), NEW c,
           op.fut = ops[o].fut, CancelFuture(o, op, c)
    PROVE  Grow /\ nextUd' \in {nextUd, nextUd + 1}
<1>1. nextUd \in Nat /\ Len(ops) \in Nat
  BY TypeParts
<1>2. nextUd' \in {nextUd, nextUd + 1}
  BY DEF CancelFuture
<1>3. Len(ops') = Len(ops) /\ \A p \in 1 .. Len(ops) : Later(ops[p], ops'[p])
  BY CancelledOp DEF Later
<1>4. nextUd' \in Nat /\ nextUd <= nextUd'
  BY <1>1, <1>2
<1>5. \A n \in Nat : n # n + 1
  OBVIOUS
<1>6. Grow
  BY <1>1, <1>3, <1>4, <1>5, Zenon DEF Grow
<1> QED
  BY <1>2, <1>6

\* The cancellation it queues is meant for the operation.
LEMMA CancelQueues ==
    ASSUME TypeOK, OperationInv, NEW o \in 1 .. Len(ops), NEW op \in OpRecords,
           Later(ops[o], op), op.fut = ops[o].fut, NEW c, CancelFuture(o, op, c)
    PROVE  QueuesIn(MeantSqes)'
<1>0. nextUd \in Nat \ {0} /\ Len(ops) \in Nat
  BY TypeParts
<1>1. sq \in Seq(MeantSqes') /\ inflight \in Seq(MeantSqes') /\ slots \in Seq(MeantSqes')
  BY CancelGrows, StillMeant DEF OperationInv
<1>2. CASE CancelTarget(op) = 0
  <2>1. UNCHANGED <<sq, inflight, slots>>
    BY <1>2 DEF CancelFuture, submitter
  <2> QED
    BY <1>1, <2>1 DEF QueuesIn
<1>3. CASE CancelTarget(op) # 0
  <2> DEFINE e == CancelSqe(o, CancelTarget(op))
  <2>1. Prep(<<e>>) /\ nextUd' = nextUd + 1
    BY <1>3 DEF CancelFuture
  <2>2. /\ e \in Sqes /\ e.ud = nextUd /\ e.opc = "cancel" /\ e.op = o
        /\ e.target = CancelTarget(op)
    <3>1. CancelTarget(op) \in Nat
      BY OperationType, 0 \in Nat
    <3> QED
      BY <1>0, <3>1 DEF CancelSqe, Sqes, NextUserData
  <2> HIDE DEF e
  <2>3. /\ Len(ops') = Len(ops) /\ ops'[o].ud = op.ud /\ ops'[o].ud2 = op.ud2
        /\ ops'[o].seen = op.seen /\ ops'[o].fut # "pending"
    BY CancelledOp
  <2>4. e.target \in Keys(ops'[o])
    BY <1>3, <2>2, <2>3 DEF CancelTarget, GetUserData, Keys
  <2>5. \A p \in 1 .. Len(ops') : e.ud \notin Keys(ops'[p])
    <3>1. \A p \in 1 .. Len(ops) : Keys(ops'[p]) = Keys(ops[p]) /\ Keys(ops[p]) \subseteq 1 .. nextUd - 1
      BY CancelGrows DEF Grow, Later, Keys, OperationInv, KeysInv
    <3>2. nextUd \notin 1 .. nextUd - 1
      BY <1>0
    <3> QED
      BY <2>2, <2>3, <3>1, <3>2
  <2>6. e.ud \in 0 .. nextUd' - 1
    BY <1>0, <2>1, <2>2
  <2>7. e \in MeantSqes'
    BY <2>2, <2>3, <2>4, <2>5, <2>6 DEF MeantSqes
  <2>8. <<e>> \in Seq(MeantSqes') /\ PrepWithin(Len(<<e>>), <<e>>)
    BY <2>1, <2>7 DEF Prep
  <2>9. sq' \in Seq(MeantSqes') /\ inflight' \in Seq(MeantSqes') /\ slots' \in Seq(MeantSqes')
    BY <1>1, <2>8, PrepWithinIn
  <2> QED
    BY <2>9 DEF QueuesIn
<1> QED
  BY <1>2, <1>3

\* The entry it registers is no request of an operation.
LEMMA CancelTable ==
    ASSUME TypeOK, OperationInv, NEW o \in 1 .. Len(ops), NEW op \in OpRecords,
           Later(ops[o], op), op.fut = ops[o].fut, NEW c, CancelFuture(o, op, c),
           \A u \in DOMAIN c : c[u].op \in 1 .. Len(ops),
           TableIs([ops EXCEPT ![o] = op], c, nextUd)
    PROVE  TableInv'
<1> DEFINE P == [ops EXCEPT ![o] = op]
<1>0. nextUd \in Nat \ {0} /\ ops \in Seq(OpRecords)
  BY TypeParts
<1>1. Len(P) = Len(ops) /\ \A p \in 1 .. Len(ops) : P[p] = IF p = o THEN op ELSE ops[p]
  BY <1>0
<1> HIDE DEF P
<1>2. TableIs(ops', c, nextUd)
  <2>1. TableIs(P, c, nextUd)
    BY DEF P
  <2>2. /\ Len(ops') = Len(P)
        /\ \A p \in 1 .. Len(P) : Keys(ops'[p]) = Keys(P[p]) /\ ops'[p].seen = P[p].seen
    BY <1>1, CancelledOp DEF Keys
  <2>3. \A u \in DOMAIN c : c[u].op \in 1 .. Len(P)
    BY <1>1
  <2> QED
    BY <2>1, <2>2, <2>3, TableAgree
<1>3. CASE CancelTarget(op) = 0
  BY <1>2, <1>3 DEF CancelFuture, TableInv
<1>4. CASE CancelTarget(op) # 0
  <2> DEFINE e == CancelSqe(o, CancelTarget(op))
  <2>1. cache' = Register(c, <<e>>, o, FALSE) /\ nextUd' = nextUd + 1
    BY <1>4 DEF CancelFuture
  <2>2. e.ud = nextUd
    BY <1>0 DEF CancelSqe, NextUserData
  <2> HIDE DEF e
  <2>3. KeysBelow(ops', nextUd)
    <3>1. \A p \in 1 .. Len(ops) : Keys(ops'[p]) = Keys(ops[p]) /\ Keys(ops[p]) \subseteq 1 .. nextUd - 1
      BY CancelGrows DEF Grow, Later, Keys, OperationInv, KeysInv
    <3> QED
      BY <3>1, CancelledOp DEF KeysBelow
  <2>4. TableIs(ops', Register(c, <<e>>, o, FALSE), nextUd + 1)
    BY <1>0, <1>2, <2>2, <2>3, TableCancel
  <2> QED
    BY <2>1, <2>4 DEF TableInv
<1> QED
  BY <1>3, <1>4

\* The six parts of the invariant, after a future was cancelled.
LEMMA CancelKeeps ==
    ASSUME TypeOK, OperationInv, NEW o \in 1 .. Len(ops), CancelFuture(o, ops[o], cache),
           UNCHANGED <<stopped, kernel>>
    PROVE  /\ KeysInv' /\ TableInv' /\ QueuesIn(MeantSqes)' /\ CompletionsInv' /\ KernelInv'
           /\ FuturesInv'
<1>0. /\ ops \in Seq(OpRecords) /\ ops[o] \in OpRecords
      /\ \A u \in DOMAIN cache : cache[u].op \in 1 .. Len(ops)
  BY TypeParts
<1>a. Later(ops[o], ops[o])
  BY DEF Later
<1>1. Grow
  BY <1>0, <1>a, CancelGrows
<1>c. cq' = cq /\ succeeded' = succeeded /\ UNCHANGED <<cq, pipe, hit>>
  BY DEF kernel
<1>2. KeysInv'
  BY <1>1, GrowKeys DEF OperationInv
<1>3. TableInv'
  <2>1. [ops EXCEPT ![o] = ops[o]] = ops
    BY <1>0
  <2>2. TableIs([ops EXCEPT ![o] = ops[o]], cache, nextUd)
    BY <2>1 DEF OperationInv, TableInv
  <2> QED
    BY <1>0, <1>a, <2>2, CancelTable
<1>4. QueuesIn(MeantSqes)'
  BY <1>0, <1>a, CancelQueues
<1>5. CompletionsInv'
  BY <1>1, <1>c, GrowCompletions DEF OperationInv
<1>6. KernelInv'
  BY <1>1, <1>c, GrowKernel DEF OperationInv
<1>7. FuturesInv'
  <2>1. /\ Len(ops') = Len(ops)
        /\ \A p \in 1 .. Len(ops) :
              /\ ops'[p].fut = ops[p].fut \/ ops'[p].fut = "cancelled"
              /\ ops'[p].kind = ops[p].kind /\ ops'[p].file = ops[p].file /\ ops'[p].ud = ops[p].ud /\ ops'[p].ud2 = ops[p].ud2
              /\ ops'[p].seen = ops[p].seen /\ ops'[p].pipes = ops[p].pipes
    BY <1>0, CancelledOp
  <2> QED
    BY <1>c, <2>1 DEF OperationInv, FuturesInv, FutureIs, Keys
<1> QED
  BY <1>2, <1>3, <1>4, <1>5, <1>6, <1>7

-----------------------------------------------------------------------------
(* Handling a CQE.                                                         *)

\* The rest of the queue stands for what it stood for, after a CQE was consumed.
LEMMA SeenCompletions ==
    ASSUME TypeOK, CompletionsInv, Grow, Len(ops') = Len(ops),
           cq # <<>>, cq' = Tail(cq), UNCHANGED <<succeeded, pipe>>
    PROVE  CompletionsInv'
<1>0. /\ nextUd \in Nat /\ nextUd' \in Nat /\ nextUd <= nextUd'
      /\ cq \in Seq(Cqes) /\ Len(cq) \in Nat
  BY TypeParts DEF Grow, TypeOK
<1>1. \A j \in 1 .. Len(cq') : cq'[j] = cq[j + 1] /\ j + 1 \in 1 .. Len(cq)
  BY <1>0, HeadTailProperties
<1>2. \A o \in 1 .. Len(ops) : Later(ops[o], ops'[o])
  BY DEF Grow
<1>3. ASSUME NEW j \in 1 .. Len(cq')
      PROVE  cq'[j].ud \in 0 .. nextUd' - 1 /\ (cq'[j].res = "ok" => cq'[j].ud \in succeeded')
  BY <1>0, <1>1 DEF CompletionsInv
<1>4. ASSUME NEW j \in 1 .. Len(cq'), NEW o \in 1 .. Len(ops'),
             ops'[o].kind = "sendfile", cq'[j].ud = ops'[o].ud2, cq'[j].res = "ok"
      PROVE  o \in pipe'
  BY <1>1, <1>2, <1>4 DEF CompletionsInv, Later
<1> QED
  BY <1>3, <1>4 DEF CompletionsInv

\* What mark_seen does to an operation.
LEMMA MarkFields ==
    ASSUME NEW op \in OpRecords, NEW u
    PROVE  LET m == MarkSeen(op, u)
           IN  /\ Later(op, m) /\ m.fut = op.fut /\ m.seen = op.seen \cup {u}
               /\ m.pipes = IF op.pipes = "open" /\ Keys(op) \subseteq m.seen
                            THEN "closed" ELSE op.pipes
BY DEF OpRecords, MarkSeen, Later, Keys

\* The CQE of a request: its operation, its place in the table, and what it reports.
LEMMA CqeMeans ==
    ASSUME TypeOK, OperationInv, Reaping, Known, cache[Head(cq).ud].fut
    PROVE  LET u  == Head(cq).ud
               op == ops[CachedOp]
           IN  /\ u \in Keys(op) /\ u \notin op.seen
               /\ Head(cq).res = "ok" => u \in succeeded
               /\ Head(cq).res = "ok" /\ op.kind = "sendfile" /\ u = op.ud2 => CachedOp \in pipe
               /\ TableIs([ops EXCEPT ![CachedOp] = MarkedOp], Pop(cache, u), nextUd)
<1> DEFINE u == Head(cq).ud
           o == CachedOp
           Q == [ops EXCEPT ![o] = MarkedOp]
<1>0. /\ ops \in Seq(OpRecords) /\ o \in 1 .. Len(ops) /\ ops[o] \in OpRecords
      /\ \A v \in DOMAIN cache : cache[v].op \in 1 .. Len(ops)
      /\ cq \in Seq(Cqes) /\ cq # <<>>
  BY TypeParts, CqeParts DEF Reaping, TypeOK
<1>1. u \in DOMAIN cache /\ cache[u].op = o /\ cache[u].fut
  BY DEF Known, CachedOp
<1>2. u \in Keys(ops[o]) /\ u \notin ops[o].seen
  BY <1>0, <1>1 DEF OperationInv, TableInv, TableIs
<1>3. Head(cq) = cq[1] /\ 1 \in 1 .. Len(cq)
  BY <1>0
<1>4. Head(cq).res = "ok" => u \in succeeded
  BY <1>3 DEF OperationInv, CompletionsInv
<1>5. Head(cq).res = "ok" /\ ops[o].kind = "sendfile" /\ u = ops[o].ud2 => o \in pipe
  BY <1>0, <1>3 DEF OperationInv, CompletionsInv
<1>6. TableIs(Q, Pop(cache, u), nextUd)
  <2>1. /\ Later(ops[o], MarkedOp) /\ MarkedOp.seen = ops[o].seen \cup {u}
    BY <1>0, MarkFields DEF MarkedOp
  <2>2. Len(Q) = Len(ops) /\ \A p \in 1 .. Len(ops) : Q[p] = IF p = o THEN MarkedOp ELSE ops[p]
    BY <1>0
  <2> HIDE DEF Q
  <2>3. /\ \A p \in 1 .. Len(ops) : Keys(Q[p]) = Keys(ops[p])
        /\ \A p \in 1 .. Len(ops) :
              Q[p].seen = IF p = cache[u].op THEN ops[p].seen \cup {u} ELSE ops[p].seen
    BY <1>1, <2>1, <2>2 DEF Later, Keys
  <2>4. UniqueKeys(ops) /\ TableIs(ops, cache, nextUd)
    BY DEF OperationInv, KeysInv, UniqueKeys, TableInv
  <2> HIDE DEF u, o
  <2> QED
    BY <1>0, <1>1, <2>2, <2>3, <2>4, TablePopMark
<1> QED
  BY <1>2, <1>4, <1>5, <1>6

\* The pipes of a marked operation, and of one whose future moved as well.
LEMMA MarkedFuture ==
    ASSUME NEW o, NEW op \in OpRecords, NEW st, NEW su, NEW mv, FutureIs(o, op, st, su, mv),
           NEW u \in Keys(op), NEW new, Keys(new) = Keys(op), new.kind = op.kind,
           new.ud = op.ud, new.ud2 = op.ud2, new.file = op.file, new.seen = op.seen \cup {u},
           new.pipes = IF op.pipes = "open" /\ Keys(op) \subseteq new.seen THEN "closed" ELSE op.pipes,
           new.fut = "pending" => /\ op.fut = "pending" /\ ~(Keys(op) \subseteq new.seen)
                                  /\ u # op.ud2 \/ op.file \in st,
           new.fut = "result" => \/ op.fut = "result"
                                 \/ op.ud2 \in su /\ (op.kind = "sendfile" => o \in mv)
    PROVE  FutureIs(o, new, st, su, mv)
<1>1. new.pipes = "open" => ~(Keys(new) \subseteq new.seen)
  <2>1. op.pipes \in {"none", "open", "closed"}
    BY DEF OpRecords
  <2> QED
    BY <2>1
<1>2. new.pipes = "closed" => Keys(new) \subseteq new.seen
  BY DEF FutureIs
<1>3. new.fut = "pending" => ~(Keys(new) \subseteq new.seen)
  OBVIOUS
<1>4. new.fut = "pending" /\ new.file \notin st => new.ud2 \notin new.seen
  BY DEF FutureIs
<1>5. new.fut = "result" => new.ud2 \in su /\ (new.kind = "sendfile" => o \in mv)
  BY DEF FutureIs
<1> QED
  BY <1>1, <1>2, <1>3, <1>4, <1>5 DEF FutureIs

\* Replacing one operation keeps the futures of the others.
LEMMA ReplaceFutures ==
    ASSUME FuturesInv, Len(ops') = Len(ops), NEW o \in 1 .. Len(ops),
           \A p \in 1 .. Len(ops) : p # o => ops'[p] = ops[p],
           FutureIs(o, ops'[o], stopped, succeeded, pipe), UNCHANGED <<stopped, succeeded, pipe>>
    PROVE  FuturesInv'
BY DEF FuturesInv

\* A CQE that belongs to no operation, or to a cancellation.
LEMMA OtherCqeKeeps ==
    ASSUME TypeOK, OperationInv, CqeUnknown \/ CqeOfCancel
    PROVE  /\ KeysInv' /\ TableInv' /\ QueuesIn(MeantSqes)' /\ CompletionsInv' /\ KernelInv'
           /\ FuturesInv'
<1> DEFINE u == Head(cq).ud
<1>0. /\ UNCHANGED <<nextUd, ops, sq, inflight, slots, pipe, hit, succeeded, stopped>>
      /\ cq # <<>> /\ cq' = Tail(cq)
  BY DEF CqeUnknown, CqeOfCancel, CqeSeen, Reaping, submitter
<1>1. Grow /\ Len(ops') = Len(ops)
  <2>1. nextUd \in Nat /\ nextUd <= nextUd
    BY TypeParts
  <2> QED
    BY <1>0, <2>1, GrowSame
<1>2. TableInv'
  <2>1. CASE CqeUnknown
    BY <2>1 DEF CqeUnknown, OperationInv, TableInv
  <2>2. CASE CqeOfCancel
    <3>1. u \in DOMAIN cache /\ ~cache[u].fut /\ cache' = Pop(cache, u)
      BY <2>2 DEF CqeOfCancel, Known
    <3>2. TableIs(ops, Pop(cache, u), nextUd)
      BY <3>1, TablePopCancel DEF OperationInv, TableInv
    <3> QED
      BY <1>0, <3>1, <3>2 DEF TableInv
  <2> QED
    BY <2>1, <2>2
<1>3. KeysInv'
  BY <1>1, GrowKeys DEF OperationInv
<1>4. QueuesIn(MeantSqes)'
  BY <1>0, <1>1, StillMeant DEF OperationInv, QueuesIn
<1>5. CompletionsInv' /\ KernelInv'
  BY <1>0, <1>1, SeenCompletions, GrowKernel DEF OperationInv
<1>6. FuturesInv'
  BY <1>0 DEF OperationInv, FuturesInv
<1> QED
  BY <1>2, <1>3, <1>4, <1>5, <1>6

\* _run_operation.
LEMMA OperationCqeKeeps ==
    ASSUME TypeOK, OperationInv, CqeOfOperation
    PROVE  /\ KeysInv' /\ TableInv' /\ QueuesIn(MeantSqes)' /\ CompletionsInv' /\ KernelInv'
           /\ FuturesInv'
<1> DEFINE u   == Head(cq).ud
           o   == CachedOp
           fut == IF MarkedOp.fut = "pending" THEN Operate(MarkedOp, Head(cq).res) ELSE MarkedOp.fut
           new == [MarkedOp EXCEPT !.fut = fut]
<1>0. /\ UNCHANGED <<nextUd, sq, inflight, slots, pipe, hit, succeeded, stopped>>
      /\ cq # <<>> /\ cq' = Tail(cq) /\ cache' = Pop(cache, u)
      /\ ops' = [ops EXCEPT ![o] = new]
      /\ Reaping /\ Known /\ cache[u].fut /\ ops[o].file \notin stopped
  BY DEF CqeOfOperation, CqeSeen, Reaping, submitter, ForStopped
<1>1. /\ ops \in Seq(OpRecords) /\ o \in 1 .. Len(ops) /\ ops[o] \in OpRecords
      /\ MarkedOp \in OpRecords /\ nextUd \in Nat
      /\ \A v \in DOMAIN cache : cache[v].op \in 1 .. Len(ops)
  BY <1>0, TypeParts, CqeParts
<1>2. /\ u \in Keys(ops[o]) /\ u \notin ops[o].seen
      /\ Head(cq).res = "ok" => u \in succeeded
      /\ Head(cq).res = "ok" /\ ops[o].kind = "sendfile" /\ u = ops[o].ud2 => o \in pipe
      /\ TableIs([ops EXCEPT ![o] = MarkedOp], Pop(cache, u), nextUd)
  BY <1>0, CqeMeans
<1>3. /\ Later(ops[o], MarkedOp) /\ MarkedOp.fut = ops[o].fut
      /\ MarkedOp.seen = ops[o].seen \cup {u}
      /\ MarkedOp.pipes = IF ops[o].pipes = "open" /\ Keys(ops[o]) \subseteq MarkedOp.seen
                          THEN "closed" ELSE ops[o].pipes
  BY <1>1, MarkFields DEF MarkedOp
<1>4. /\ new.kind = MarkedOp.kind /\ new.file = MarkedOp.file /\ new.ud = MarkedOp.ud
      /\ new.ud2 = MarkedOp.ud2 /\ new.seen = MarkedOp.seen /\ new.pipes = MarkedOp.pipes
      /\ new.fut = fut
  BY <1>1 DEF OpRecords
<1>5. /\ fut = "pending" => /\ ops[o].fut = "pending" /\ u # ops[o].ud2
                             /\ ~(Keys(ops[o]) \subseteq MarkedOp.seen)
      /\ fut = "result" => \/ ops[o].fut = "result"
                           \/ /\ ops[o].ud2 \in succeeded
                              /\ ops[o].kind = "sendfile" => o \in pipe
  <2>1. FutureIs(o, ops[o], stopped, succeeded, pipe)
    BY <1>1 DEF OperationInv, FuturesInv
  <2>2. MarkedOp.ud2 = ops[o].ud2
    BY <1>3 DEF Later
  <2> QED
    BY <1>0, <1>2, <1>3, <2>1, <2>2 DEF Operate, FutureIs, Keys
<1> HIDE DEF new, u, o
<1>6. Len(ops') = Len(ops) /\ \A p \in 1 .. Len(ops) : ops'[p] = IF p = o THEN new ELSE ops[p]
  BY <1>0, <1>1
<1>7. Grow
  <2>1. Later(ops[o], new)
    BY <1>3, <1>4 DEF Later
  <2>2. nextUd' \in Nat /\ nextUd <= nextUd'
    BY <1>0, <1>1
  <2> QED
    BY <1>0, <1>1, <2>1, <2>2, GrowReplace
<1>8. TableInv'
  <2> DEFINE P == [ops EXCEPT ![o] = MarkedOp]
             c == Pop(cache, u)
  <2>1. Len(P) = Len(ops) /\ \A p \in 1 .. Len(ops) : P[p] = IF p = o THEN MarkedOp ELSE ops[p]
    BY <1>1
  <2>2. TableIs(P, c, nextUd)
    BY <1>2
  <2>3. \A v \in DOMAIN c : c[v].op \in 1 .. Len(ops)
    BY <1>1 DEF Pop
  <2> HIDE DEF P, c
  <2>4. /\ Len(ops') = Len(P)
        /\ \A p \in 1 .. Len(P) : Keys(ops'[p]) = Keys(P[p]) /\ ops'[p].seen = P[p].seen
    BY <1>4, <1>6, <2>1 DEF Keys
  <2>5. TableIs(ops', c, nextUd)
    BY <2>1, <2>2, <2>3, <2>4, TableAgree
  <2> QED
    BY <1>0, <2>5 DEF TableInv, c
<1>9. KeysInv'
  BY <1>7, GrowKeys DEF OperationInv
<1>10. QueuesIn(MeantSqes)'
  BY <1>0, <1>7, StillMeant DEF OperationInv, QueuesIn
<1>11. CompletionsInv' /\ KernelInv'
  BY <1>0, <1>6, <1>7, SeenCompletions, GrowKernel DEF OperationInv
<1>12. FuturesInv'
  <2>1. FutureIs(o, ops[o], stopped, succeeded, pipe)
    BY <1>1 DEF OperationInv, FuturesInv
  <2>2. FutureIs(o, new, stopped, succeeded, pipe)
    <3>1. /\ Keys(new) = Keys(ops[o]) /\ new.kind = ops[o].kind /\ new.ud = ops[o].ud
          /\ new.ud2 = ops[o].ud2 /\ new.file = ops[o].file /\ new.seen = ops[o].seen \cup {u}
          /\ new.pipes = IF ops[o].pipes = "open" /\ Keys(ops[o]) \subseteq new.seen
                         THEN "closed" ELSE ops[o].pipes
      BY <1>3, <1>4 DEF Later, Keys
    <3>2. /\ new.fut = "pending" => /\ ops[o].fut = "pending" /\ u # ops[o].ud2
                                    /\ ~(Keys(ops[o]) \subseteq new.seen)
          /\ new.fut = "result" => \/ ops[o].fut = "result"
                                   \/ /\ ops[o].ud2 \in succeeded
                                      /\ ops[o].kind = "sendfile" => o \in pipe
      BY <1>4, <1>5
    <3> QED
      BY <1>1, <1>2, <2>1, <3>1, <3>2, MarkedFuture
  <2> QED
    BY <1>0, <1>1, <1>6, <2>2, ReplaceFutures DEF OperationInv
<1> QED
  BY <1>8, <1>9, <1>10, <1>11, <1>12

\* The CQE of a stopped socket, whose future is cancelled with what is left of it.
LEMMA StoppedCqeKeeps ==
    ASSUME TypeOK, OperationInv, CqeOfStopped
    PROVE  /\ KeysInv' /\ TableInv' /\ QueuesIn(MeantSqes)' /\ CompletionsInv' /\ KernelInv'
           /\ FuturesInv'
<1> DEFINE u == Head(cq).ud
           o == CachedOp
           c == Pop(cache, u)
<1>0. /\ UNCHANGED <<pipe, hit, succeeded, stopped>>
      /\ cq # <<>> /\ cq' = Tail(cq) /\ CancelFuture(o, MarkedOp, c)
      /\ Reaping /\ Known /\ cache[u].fut
  BY DEF CqeOfStopped, CqeSeen, Reaping, ForStopped
<1>1. /\ ops \in Seq(OpRecords) /\ o \in 1 .. Len(ops) /\ ops[o] \in OpRecords
      /\ MarkedOp \in OpRecords /\ nextUd \in Nat
      /\ \A v \in DOMAIN cache : cache[v].op \in 1 .. Len(ops)
  BY <1>0, TypeParts, CqeParts
<1>2. /\ u \in Keys(ops[o])
      /\ TableIs([ops EXCEPT ![o] = MarkedOp], c, nextUd)
  BY <1>0, CqeMeans
<1>3. /\ Later(ops[o], MarkedOp) /\ MarkedOp.fut = ops[o].fut
      /\ MarkedOp.seen = ops[o].seen \cup {u}
      /\ MarkedOp.pipes = IF ops[o].pipes = "open" /\ Keys(ops[o]) \subseteq MarkedOp.seen
                          THEN "closed" ELSE ops[o].pipes
  BY <1>1, MarkFields DEF MarkedOp
<1>4. \A v \in DOMAIN c : c[v].op \in 1 .. Len(ops)
  BY <1>1 DEF Pop
<1> HIDE DEF u, o, c
<1>6. Grow
  BY <1>0, <1>1, <1>3, CancelGrows
<1>7. TableInv'
  BY <1>0, <1>1, <1>2, <1>3, <1>4, CancelTable
<1>9. KeysInv'
  BY <1>6, GrowKeys DEF OperationInv
<1>10. QueuesIn(MeantSqes)'
  BY <1>0, <1>1, <1>3, CancelQueues
<1>11. Len(ops') = Len(ops) /\ \A p \in 1 .. Len(ops) : p # o => ops'[p] = ops[p]
  BY <1>0, <1>1, CancelledOp
<1>12. CompletionsInv' /\ KernelInv'
  BY <1>0, <1>6, <1>11, SeenCompletions, GrowKernel DEF OperationInv
<1>13. FuturesInv'
  <2> DEFINE new == ops'[o]
  <2>1. FutureIs(o, ops[o], stopped, succeeded, pipe)
    BY <1>1 DEF OperationInv, FuturesInv
  <2>2. /\ new.kind = MarkedOp.kind /\ new.file = MarkedOp.file /\ new.ud = MarkedOp.ud
        /\ new.ud2 = MarkedOp.ud2 /\ new.seen = MarkedOp.seen /\ new.pipes = MarkedOp.pipes
        /\ new.fut = IF MarkedOp.fut = "pending" THEN "cancelled" ELSE MarkedOp.fut
    BY <1>0, <1>1, CancelledOp
  <2> HIDE DEF new
  <2>3. /\ Keys(new) = Keys(ops[o]) /\ new.kind = ops[o].kind /\ new.ud = ops[o].ud
        /\ new.ud2 = ops[o].ud2 /\ new.file = ops[o].file /\ new.seen = ops[o].seen \cup {u}
        /\ new.pipes = IF ops[o].pipes = "open" /\ Keys(ops[o]) \subseteq new.seen
                       THEN "closed" ELSE ops[o].pipes
    BY <1>3, <2>2 DEF Later, Keys
  <2>4. new.fut # "pending" /\ (new.fut = "result" => ops[o].fut = "result")
    BY <1>3, <2>2
  <2>5. FutureIs(o, new, stopped, succeeded, pipe)
    BY <1>1, <1>2, <2>1, <2>3, <2>4, MarkedFuture
  <2> QED
    BY <1>0, <1>1, <1>11, <2>5, ReplaceFutures DEF OperationInv, new
<1> QED
  BY <1>7, <1>9, <1>10, <1>12, <1>13

\* The same when the cancellation raises: the future stays pending, with the request that
\* was to be cancelled.
LEMMA StoppedRaisesKeeps ==
    ASSUME TypeOK, OperationInv, CqeOfStoppedRaises
    PROVE  /\ KeysInv' /\ TableInv' /\ QueuesIn(MeantSqes)' /\ CompletionsInv' /\ KernelInv'
           /\ FuturesInv'
<1> DEFINE u == Head(cq).ud
           o == CachedOp
           c == Pop(cache, u)
<1>0. /\ UNCHANGED <<cq, pipe, hit, succeeded, stopped>>
      /\ CancelFutureRaises(MarkedOp) /\ cache' = c /\ ops' = [ops EXCEPT ![o] = MarkedOp]
      /\ Reaping /\ Known /\ cache[u].fut /\ ops[o].file \in stopped
  BY DEF CqeOfStoppedRaises, ForStopped, kernel
<1>1. /\ ops \in Seq(OpRecords) /\ o \in 1 .. Len(ops) /\ ops[o] \in OpRecords
      /\ MarkedOp \in OpRecords /\ nextUd \in Nat
  BY <1>0, TypeParts, CqeParts
<1>2. /\ u \in Keys(ops[o])
      /\ TableIs([ops EXCEPT ![o] = MarkedOp], c, nextUd)
  BY <1>0, CqeMeans
<1>3. /\ Later(ops[o], MarkedOp) /\ MarkedOp.fut = ops[o].fut
      /\ MarkedOp.seen = ops[o].seen \cup {u}
      /\ MarkedOp.pipes = IF ops[o].pipes = "open" /\ Keys(ops[o]) \subseteq MarkedOp.seen
                          THEN "closed" ELSE ops[o].pipes
  BY <1>1, MarkFields DEF MarkedOp
<1>4. CancelTarget(MarkedOp) # 0 /\ NoRoom(1) /\ nextUd' = nextUd + 1
  BY <1>0 DEF CancelFutureRaises
<1>5. nextUd' \in Nat /\ nextUd <= nextUd'
  BY <1>1, <1>4
<1> HIDE DEF u, o, c
<1>6. Grow
  BY <1>0, <1>1, <1>3, <1>5, GrowReplace
<1>7. TableInv'
  <2>1. TableIs(ops', cache', nextUd)
    BY <1>0, <1>2
  <2> QED
    BY <1>1, <1>5, <2>1, TableLater DEF TableInv
<1>8. KeysInv'
  BY <1>6, GrowKeys DEF OperationInv
<1>9. QueuesIn(MeantSqes)'
  <2>1. (\E k \in 0 .. Len(sq) : Submitted(k)) /\ UNCHANGED slots
    BY <1>4 DEF NoRoom
  <2>2. sq \in Seq(MeantSqes') /\ inflight \in Seq(MeantSqes') /\ slots \in Seq(MeantSqes')
    BY <1>6, StillMeant DEF OperationInv
  <2>3. sq' \in Seq(MeantSqes') /\ inflight' \in Seq(MeantSqes')
    BY <2>1, <2>2, SubmittedIn
  <2> QED
    BY <2>1, <2>2, <2>3 DEF QueuesIn
<1>10. CompletionsInv' /\ KernelInv'
  BY <1>0, <1>6, GrowCompletions, GrowKernel DEF OperationInv
<1>11. FuturesInv'
  <2>1. FutureIs(o, ops[o], stopped, succeeded, pipe)
    BY <1>1 DEF OperationInv, FuturesInv
  <2>2. ~(Keys(ops[o]) \subseteq MarkedOp.seen)
    BY <1>3, <1>4 DEF Later, CancelTarget, GetUserData, Keys
  <2>3. FutureIs(o, MarkedOp, stopped, succeeded, pipe)
    <3>1. /\ Keys(MarkedOp) = Keys(ops[o]) /\ MarkedOp.kind = ops[o].kind
          /\ MarkedOp.ud = ops[o].ud /\ MarkedOp.ud2 = ops[o].ud2 /\ MarkedOp.file = ops[o].file
      BY <1>3 DEF Later, Keys
    <3> QED
      BY <1>0, <1>1, <1>2, <1>3, <2>1, <2>2, <3>1, MarkedFuture
  <2>4. /\ Len(ops') = Len(ops) /\ ops'[o] = MarkedOp
        /\ \A p \in 1 .. Len(ops) : p # o => ops'[p] = ops[p]
    BY <1>0, <1>1
  <2> QED
    BY <1>0, <1>1, <2>3, <2>4, ReplaceFutures DEF OperationInv
<1> QED
  BY <1>7, <1>8, <1>9, <1>10, <1>11

-----------------------------------------------------------------------------
(* The kernel.                                                             *)

\* Whose key an SQE has.
LEMMA MeantOp ==
    ASSUME TypeOK, OperationInv, NEW e \in MeantSqes, NEW o \in 1 .. Len(ops)
    PROVE  /\ e.ud \in Keys(ops[o]) => e.opc \notin {"cancel", "nop"} /\ e.op = o
           /\ ops[o].kind = "sendfile" /\ e.ud = ops[o].ud2 => e.opc = "p2s" /\ e.op = o
           /\ e.opc = "cancel" /\ e.target \in Keys(ops[o]) => e.op = o
<1>1. nextUd \in Nat /\ e.opc \in {"single", "f2p", "moved", "p2s", "cancel", "nop"}
  BY TypeParts DEF MeantSqes, Sqes
<1>2. ASSUME e.ud \in Keys(ops[o]) PROVE e.opc \notin {"cancel", "nop"} /\ e.op = o
  <2>1. e.opc # "nop"
    BY <1>1, <1>2 DEF MeantSqes, OperationInv, KeysInv, Keys
  <2>2. e.opc # "cancel"
    BY <1>2 DEF MeantSqes
  <2>3. e.op \in 1 .. Len(ops) /\ e.ud \in Keys(ops[e.op])
    BY <1>1, <2>1, <2>2 DEF MeantSqes, Keys
  <2>4. e.op = o
    BY <1>2, <2>3 DEF OperationInv, KeysInv
  <2> QED
    BY <2>1, <2>2, <2>4
<1>3. ASSUME ops[o].kind = "sendfile", e.ud = ops[o].ud2 PROVE e.opc = "p2s" /\ e.op = o
  <2>1. e.opc \notin {"cancel", "nop"} /\ e.op = o
    BY <1>2, <1>3 DEF Keys
  <2>2. ops[o].ud # ops[o].ud2
    BY <1>3 DEF OperationInv, KeysInv
  <2> QED
    BY <1>1, <1>3, <2>1, <2>2 DEF MeantSqes
<1>4. ASSUME e.opc = "cancel", e.target \in Keys(ops[o]) PROVE e.op = o
  BY <1>4 DEF MeantSqes, OperationInv, KeysInv
<1> QED
  BY <1>2, <1>3, <1>4

\* What the futures and the queue stand for does not suffer when a pipe is filled.
LEMMA PipeGrows ==
    ASSUME OperationInv, UNCHANGED <<ops, stopped>>, succeeded \subseteq succeeded',
           pipe \subseteq pipe'
    PROVE  FuturesInv'
BY DEF OperationInv, FuturesInv, FutureIs

\* An unlinked splice that moves data.
LEMMA MovedKeeps ==
    ASSUME TypeOK, OperationInv, NEW i \in 1 .. Len(inflight), MoveUnlinked(i)
    PROVE  OperationInv'
<1> DEFINE m == [inflight[i] EXCEPT !.opc = "moved"]
<1>1. /\ m \in Sqes /\ m.opc = "moved" /\ inflight[i].opc = "f2p" /\ m.ud = inflight[i].ud
      /\ m.op = inflight[i].op
      /\ inflight' = [inflight EXCEPT ![i] = m] /\ pipe \subseteq pipe'
      /\ UNCHANGED <<python, sq, slots, cq, hit, succeeded>>
  BY MovedParts
<1> HIDE DEF m
<1>2. UNCHANGED <<nextUd, ops, cache, stopped, pc, closing, todo>>
  BY <1>1 DEF python
<1>3. MeantSqes' = MeantSqes
  BY <1>2 DEF MeantSqes
<1>4. sq \in Seq(MeantSqes) /\ inflight \in Seq(MeantSqes) /\ slots \in Seq(MeantSqes)
  BY DEF OperationInv, QueuesIn
<1>5. m \in MeantSqes
  <2>1. inflight[i] \in MeantSqes
    BY <1>4, ElementOfSeq
  <2> QED
    BY <1>1, <2>1 DEF MeantSqes
<1>6. QueuesIn(MeantSqes)'
  <2>1. inflight' \in Seq(MeantSqes)
    BY <1>1, <1>4, <1>5, ExceptSeq
  <2> QED
    BY <1>1, <1>3, <1>4, <2>1 DEF QueuesIn
<1>7. CompletionsInv' /\ KernelInv'
  BY <1>1, <1>2 DEF OperationInv, CompletionsInv, KernelInv
<1>8. KeysInv' /\ TableInv' /\ WalkInv'
  BY <1>2 DEF OperationInv, KeysInv, TableInv, WalkInv
<1>9. FuturesInv'
  BY <1>1, <1>2, PipeGrows
<1> QED
  BY <1>6, <1>7, <1>8, <1>9 DEF OperationInv

\* The second splice succeeds on a filled pipe, and a cancellation finds only what was
\* meant to be cancelled.
LEMMA KernelKeeps ==
    ASSUME TypeOK, OperationInv, Kernel
    PROVE  OperationInv'
<1> SUFFICES ASSUME NEW i \in 1 .. Len(inflight),
                    ExecCancel(i) \/ \E res \in {"ok", "err"} : Complete(i, res)
             PROVE  OperationInv'
  BY MovedKeeps DEF Kernel
<1>1. ExecCancel(i) \/ \E res \in {"ok", "err"} : Complete(i, res)
  OBVIOUS
<1> DEFINE e == inflight[i]
<1>2. \E res \in {"ok", "err", "noent"} :
          /\ Post(i, res)
          /\ hit' = hit \/ (e.opc = "cancel" /\ hit' = hit \cup {e.target})
          /\ pipe \subseteq pipe'
          /\ e.opc = "p2s" /\ res = "ok" => e.op \in pipe
  BY <1>1 DEF ExecCancel, Complete, CompleteSingle, CompleteF2p, CompleteMoved, CompleteP2s
<1>3. PICK res \in {"ok", "err", "noent"} :
          /\ Post(i, res)
          /\ hit' = hit \/ (e.opc = "cancel" /\ hit' = hit \cup {e.target})
          /\ pipe \subseteq pipe'
          /\ e.opc = "p2s" /\ res = "ok" => e.op \in pipe
  BY <1>2
<1>4. /\ inflight' = RemoveAt(inflight, i) /\ cq' = Append(cq, [ud |-> e.ud, res |-> res])
      /\ succeeded' = IF res = "ok" THEN succeeded \cup {e.ud} ELSE succeeded
      /\ UNCHANGED <<nextUd, ops, cache, stopped, pc, closing, todo, sq, slots>>
  BY <1>3 DEF Post, python
<1>5. /\ sq \in Seq(MeantSqes) /\ inflight \in Seq(MeantSqes) /\ slots \in Seq(MeantSqes)
      /\ cq \in Seq(Cqes) /\ Len(cq) \in Nat /\ nextUd \in Nat \ {0} /\ Len(ops) \in Nat
  BY TypeParts DEF OperationInv, QueuesIn, TypeOK
<1>6. e \in MeantSqes
  BY <1>5, ElementOfSeq
<1> HIDE DEF e
<1>7. [ud |-> e.ud, res |-> res] \in Cqes
  BY <1>6 DEF Cqes, MeantSqes, Sqes
<1>8. /\ Len(cq') = Len(cq) + 1 /\ cq'[Len(cq) + 1] = [ud |-> e.ud, res |-> res]
      /\ \A j \in 1 .. Len(cq) : cq'[j] = cq[j]
  BY <1>4, <1>5, <1>7, AppendProperties
<1>9. ASSUME NEW o \in 1 .. Len(ops), ops[o].kind = "sendfile", e.ud = ops[o].ud2, res = "ok"
      PROVE  o \in pipe
  BY <1>3, <1>6, <1>9, MeantOp
<1>10. CompletionsInv'
  <2> SUFFICES ASSUME NEW j \in 1 .. Len(cq')
               PROVE  /\ cq'[j].ud \in 0 .. nextUd - 1
                      /\ cq'[j].res = "ok" => cq'[j].ud \in succeeded'
                      /\ \A o \in 1 .. Len(ops) :
                            ops[o].kind = "sendfile" /\ cq'[j].ud = ops[o].ud2 /\ cq'[j].res = "ok"
                                => o \in pipe'
    BY <1>4 DEF CompletionsInv
  <2>0. succeeded \subseteq succeeded' /\ pipe \subseteq pipe'
    BY <1>3, <1>4
  <2>1. CASE j \in 1 .. Len(cq)
    BY <1>8, <2>0, <2>1 DEF OperationInv, CompletionsInv
  <2>2. CASE j = Len(cq) + 1
    <3>1. cq'[j].ud = e.ud /\ cq'[j].res = res
      BY <1>8, <2>2
    <3>2. e.ud \in 0 .. nextUd - 1
      BY <1>6 DEF MeantSqes
    <3> QED
      BY <1>4, <1>9, <2>0, <3>1, <3>2
  <2>3. j \in 1 .. Len(cq) \/ j = Len(cq) + 1
    BY <1>5, <1>8
  <2> QED
    BY <2>1, <2>2, <2>3
<1>11. KernelInv'
  <2>1. hit' \subseteq 1 .. nextUd - 1
    <3>1. e.opc = "cancel" => e.target \in 1 .. nextUd - 1
      BY <1>6 DEF MeantSqes, OperationInv, KeysInv, Keys
    <3>2. hit \subseteq 1 .. nextUd - 1
      BY DEF OperationInv, KernelInv
    <3>3. \A u \in hit' : u \in hit \/ (e.opc = "cancel" /\ u = e.target)
      BY <1>3
    <3> QED
      BY <3>1, <3>2, <3>3
  <2>2. ASSUME NEW o \in 1 .. Len(ops), Keys(ops[o]) \cap hit' # {}
        PROVE  ops[o].fut # "pending"
    <3>1. CASE hit' = hit
      BY <2>2, <3>1 DEF OperationInv, KernelInv
    <3>2. CASE e.opc = "cancel" /\ hit' = hit \cup {e.target} /\ e.target \in Keys(ops[o])
      <4>1. e.op = o
        BY <1>6, <3>2, MeantOp
      <4> QED
        BY <1>6, <3>2, <4>1 DEF MeantSqes
    <3>3. CASE hit' = hit \cup {e.target} /\ e.target \notin Keys(ops[o])
      BY <2>2, <3>3 DEF OperationInv, KernelInv, Keys
    <3> QED
      BY <1>3, <3>1, <3>2, <3>3
  <2> QED
    BY <1>4, <2>1, <2>2 DEF KernelInv
<1>12. KeysInv' /\ TableInv' /\ WalkInv'
  BY <1>4 DEF OperationInv, KeysInv, TableInv, WalkInv
<1>13. QueuesIn(MeantSqes)'
  <2>1. MeantSqes' = MeantSqes
    BY <1>4 DEF MeantSqes
  <2>2. inflight' \in Seq(MeantSqes)
    BY <1>4, <1>5, RemoveAtType
  <2> QED
    BY <1>4, <1>5, <2>1, <2>2 DEF QueuesIn
<1>14. FuturesInv'
  BY <1>3, <1>4, PipeGrows
<1> QED
  BY <1>10, <1>11, <1>12, <1>13, <1>14 DEF OperationInv

-----------------------------------------------------------------------------
(* The invariant.                                                          *)

\* The walk of _stop_serving passes no pending future on a stopped socket.
LEMMA WalkKeeps ==
    ASSUME TypeOK, OperationInv, [Next]_vars
    PROVE  WalkInv'
<1>0. ops \in Seq(OpRecords) /\ \A v \in DOMAIN cache : v \in Nat /\ cache[v].op \in 1 .. Len(ops)
  BY TypeParts DEF TableOK
<1>1. ASSUME NEW o \in 1 .. Len(ops), ops[o].fut = "pending"
      PROVE  Keys(ops[o]) \cap DOMAIN cache # {}
  <2>1. ~(Keys(ops[o]) \subseteq ops[o].seen)
    BY <1>1 DEF OperationInv, FuturesInv, FutureIs
  <2> QED
    BY <2>1 DEF OperationInv, TableInv, TableIs
<1>2. ASSUME NEW f \in Files, StopServing(f) PROVE WalkInv'
  BY <1>1, <1>2 DEF StopServing, WalkInv
<1>3. CASE StopServingCancels
  <2>1. PICK u \in todo : /\ First(u, ToStop)
                          /\ CancelFuture(cache[u].op, ops[cache[u].op], cache)
                          /\ todo' = {v \in todo : v > u}
    BY <1>3 DEF StopServingCancels
  <2>2. UNCHANGED <<stopped, pc, closing>> /\ pc = "stopping" /\ u \in DOMAIN cache
    BY <1>3 DEF StopServingCancels, TypeOK
  <2> DEFINE c == cache[u].op
  <2>3. c \in 1 .. Len(ops) /\ ops[c] \in OpRecords
    BY <2>2, TypeParts
  <2>4. /\ Len(ops') = Len(ops) /\ \A p \in 1 .. Len(ops) : p # c => ops'[p] = ops[p]
        /\ ops'[c].fut # "pending"
    BY <2>1, <2>3, CancelledOp
  <2> HIDE DEF c
  <2>5. ASSUME NEW o \in 1 .. Len(ops'), ops'[o].fut = "pending", ops'[o].file \in stopped'
        PROVE  Keys(ops'[o]) \cap todo' # {}
    <3>1. o \in 1 .. Len(ops) /\ o # c /\ ops'[o] = ops[o]
      BY <2>4, <2>5
    <3>2. PICK v \in Keys(ops[o]) : v \in todo
      BY <2>2, <2>5, <3>1 DEF OperationInv, WalkInv
    <3>3. v \in DOMAIN cache
      BY <3>2 DEF TypeOK
    <3>4. v \in ToStop /\ cache[v].op = o
      BY <2>2, <2>5, <3>1, <3>2, <3>3 DEF ToStop, OperationInv, TableInv, TableIs
    <3>5. u <= v /\ u # v
      BY <2>1, <3>1, <3>4 DEF First, c
    <3>6. u \in Nat /\ v \in Nat
      BY <1>0, <2>2, <3>3
    <3> QED
      BY <2>1, <3>1, <3>2, <3>5, <3>6
  <2> QED
    BY <2>2, <2>5 DEF WalkInv
<1>4. CASE UNCHANGED vars
  BY <1>4 DEF OperationInv, WalkInv, vars, python
<1>5. CASE Kernel
  <2>1. UNCHANGED python
    BY <1>5, KernelLeaves
  <2> QED
    BY <2>1 DEF OperationInv, WalkInv, python
<1>6. CASE CloseBegins \/ CloseCancels \/ CloseCancelFails
  <2>1. (pc' = "cancelling" /\ closing') \/ pc' = "idle"
    BY <1>6 DEF CloseBegins, CloseCancels, CloseCancelFails, Unwind, OperationInv, WalkInv, TypeOK
  <2> QED
    BY <2>1 DEF WalkInv
<1>7. CASE \/ StopServingReturns \/ StopServingRaises \/ CloseCancelled \/ CloseExits \/ CloseAgain
           \/ SelectPolls \/ SelectSkipsPoll \/ SelectRaises \/ WaitTimesOut \/ DrainEnds
           \/ WaitInterrupted \/ ClosePolls \/ ClosePollRaises
  <2>1. pc' \in {"idle", "wait", "waitT", "drain", "closeloop", "closed"}
    BY <1>7 DEF StopServingReturns, StopServingRaises, CloseCancelled, CloseExits, CloseAgain,
                SelectPolls, SelectSkipsPoll, SelectRaises, WaitTimesOut, DrainEnds, PollReturns,
                WaitInterrupted, ClosePolls, ClosePollRaises, Unwind, vars, python
  <2> QED
    BY <2>1 DEF WalkInv
<1>8. CASE HandleCqe \/ CqeOfStoppedRaises
  <2>1. pc' \in {"idle", "drain"}
    BY <1>8 DEF HandleCqe, CqeUnknown, CqeOfCancel, CqeOfStopped, CqeOfStoppedRaises,
                CqeOfOperation, CqeSeen, Unwind
  <2> QED
    BY <2>1 DEF WalkInv
<1>9. CASE \/ StartRaises \/ StartPrepFails
           \/ \E f \in Files : StartSendfile(f)
           \/ \E kind \in Kinds, f \in Files : StartOp(kind, f)
           \/ \E o \in 1 .. Len(ops) : UserCancel(o) \/ UserCancelRaises(o)
  <2>1. pc' = "idle"
    BY <1>9 DEF StartRaises, StartPrepFails, StartSendfile, StartOp, SingleCqeOperation,
                UserCancel, UserCancelRaises, Idle
  <2> QED
    BY <2>1 DEF WalkInv
<1> QED
  BY <1>2, <1>3, <1>4, <1>5, <1>6, <1>7, <1>8, <1>9 DEF Next, Call, LoopStep, LoopRaises, HandleCqe

\* The two calls that start an operation.
LEMMA StartCalls ==
    ASSUME TypeOK, OperationInv,
           \/ \E f \in Files : StartSendfile(f)
           \/ \E kind \in Kinds, f \in Files : StartOp(kind, f)
    PROVE  /\ KeysInv' /\ TableInv' /\ QueuesIn(MeantSqes)' /\ CompletionsInv' /\ KernelInv'
           /\ FuturesInv'
<1> DEFINE Kept == /\ KeysInv' /\ TableInv' /\ QueuesIn(MeantSqes)' /\ CompletionsInv'
                   /\ KernelInv' /\ FuturesInv'
           o    == Len(ops) + 1
<1>0. nextUd \in Nat \ {0} /\ o \in Nat
  BY TypeParts
<1>1. NextUserData(0) = nextUd /\ NextUserData(1) = nextUd + 1
  BY <1>0 DEF NextUserData
<1>2. ASSUME NEW f \in Files, StartSendfile(f) PROVE Kept
  <2> DEFINE s1  == [ud |-> nextUd, opc |-> "f2p", op |-> o, target |-> 0]
             s2  == [ud |-> nextUd + 1, opc |-> "p2s", op |-> o, target |-> 0]
             new == <<s1, s2>>
  <2>1. /\ Prep(new) /\ cache' = Register(cache, new, o, TRUE)
        /\ ops' = Append(ops, Operation("sendfile", f, nextUd, nextUd + 1))
        /\ nextUd' = nextUd + 2 /\ UNCHANGED <<stopped, kernel>>
    BY <1>1, <1>2 DEF StartSendfile
  <2>2. /\ RequestOf(s1, o, "sendfile", nextUd, nextUd + 1) /\ s1.ud = nextUd
        /\ RequestOf(s2, o, "sendfile", nextUd, nextUd + 1) /\ s2.ud = nextUd + 1
    BY <1>0 DEF RequestOf, Sqes
  <2> HIDE DEF s1, s2, o
  <2>3. new \in Seq(Sqes) /\ Len(new) = 2 /\ new[1] = s1 /\ new[2] = s2
    BY <2>2 DEF RequestOf
  <2> HIDE DEF new
  <2>4. \A i \in 1 .. Len(new) : i = 1 \/ i = 2
    BY <2>3
  <2>5. {new[i].ud : i \in 1 .. Len(new)} = {nextUd, nextUd + 1}
    <3>1. 1 \in 1 .. Len(new) /\ 2 \in 1 .. Len(new)
      BY <2>3
    <3> QED
      BY <2>2, <2>3, <2>4, <3>1
  <2>6. \A i \in 1 .. Len(new) : RequestOf(new[i], o, "sendfile", nextUd, nextUd + 1)
    BY <2>2, <2>3, <2>4
  <2>7. /\ nextUd' \in Nat /\ nextUd <= nextUd' /\ nextUd \in Nat /\ nextUd + 1 \in Nat
        /\ nextUd \in nextUd .. nextUd' - 1 /\ nextUd + 1 \in nextUd .. nextUd' - 1
        /\ nextUd # nextUd + 1
    BY <1>0, <2>1
  <2> QED
    BY <2>1, <2>3, <2>5, <2>6, <2>7, StartKeeps DEF o
<1>3. ASSUME NEW kind \in Kinds, NEW f \in Files, StartOp(kind, f) PROVE Kept
  <2> DEFINE s1  == [ud |-> nextUd, opc |-> "single", op |-> o, target |-> 0]
             new == <<s1>>
  <2>1. /\ Prep(new) /\ cache' = Register(cache, new, o, TRUE)
        /\ ops' = Append(ops, Operation(kind, f, nextUd, nextUd))
        /\ nextUd' = nextUd + 1 /\ UNCHANGED <<stopped, kernel>> /\ kind # "sendfile"
    BY <1>1, <1>3 DEF StartOp, SingleCqeOperation
  <2>2. RequestOf(s1, o, kind, nextUd, nextUd) /\ s1.ud = nextUd
    BY <1>0, <2>1 DEF RequestOf, Sqes
  <2> HIDE DEF s1, o
  <2>3. new \in Seq(Sqes) /\ Len(new) = 1 /\ new[1] = s1
    BY <2>2 DEF RequestOf
  <2> HIDE DEF new
  <2>4. {new[i].ud : i \in 1 .. Len(new)} = {nextUd, nextUd}
    BY <2>2, <2>3
  <2>5. \A i \in 1 .. Len(new) : RequestOf(new[i], o, kind, nextUd, nextUd)
    BY <2>2, <2>3
  <2>6. /\ nextUd' \in Nat /\ nextUd <= nextUd' /\ nextUd \in Nat
        /\ nextUd \in nextUd .. nextUd' - 1
    BY <1>0, <2>1
  <2>7. kind \in {"io", "accept", "sendfile"}
    BY KindsAssumption
  <2> QED
    BY <2>1, <2>3, <2>4, <2>5, <2>6, <2>7, StartKeeps DEF o
<1> QED
  BY <1>2, <1>3

\* What every key, SQE, CQE and future stands for is kept by every step.
LEMMA OperationInvariant == Spec => []OperationInv
<1>1. Init => OperationInv
  <2> SUFFICES ASSUME Init PROVE OperationInv
    OBVIOUS
  <2>1. Len(ops) = 0 /\ Len(cq) = 0 /\ DOMAIN cache = {} /\ 1 .. 0 = {}
    BY DEF Init
  <2>2. NoSqe \in MeantSqes
    BY DEF NoSqe, MeantSqes, Sqes, Init
  <2>3. QueuesIn(MeantSqes)
    BY <2>2, EntriesAssumption DEF Init, QueuesIn
  <2>4. KeysInv /\ TableInv /\ CompletionsInv /\ FuturesInv
    BY <2>1 DEF KeysInv, TableInv, TableIs, CompletionsInv, FuturesInv
  <2>5. KernelInv /\ WalkInv
    BY <2>1 DEF Init, KernelInv, WalkInv
  <2> QED
    BY <2>3, <2>4, <2>5 DEF OperationInv
<1>2. TypeOK /\ OperationInv /\ [Next]_vars => OperationInv'
  <2> SUFFICES ASSUME TypeOK, OperationInv, [Next]_vars PROVE OperationInv'
    OBVIOUS
  <2>0. WalkInv'
    BY WalkKeeps
  <2>1. CASE QuietAction
    BY <2>0, <2>1, QuietActions, QuietKeeps DEF OperationInv
  <2>2. CASE \/ \E f \in Files : StartSendfile(f)
             \/ \E kind \in Kinds, f \in Files : StartOp(kind, f)
    BY <2>0, <2>2, StartCalls DEF OperationInv
  <2>3. CASE \/ \E o \in 1 .. Len(ops) : UserCancel(o)
             \/ StopServingCancels \/ CloseCancels
    <3>1. \E o \in 1 .. Len(ops) : CancelFuture(o, ops[o], cache) /\ UNCHANGED <<stopped, kernel>>
      <4>1. CASE \E o \in 1 .. Len(ops) : UserCancel(o)
        BY <4>1 DEF UserCancel
      <4>2. CASE StopServingCancels \/ CloseCancels
        BY <4>2, TypeParts DEF StopServingCancels, CloseCancels, TypeOK
      <4> QED
        BY <2>3, <4>1, <4>2
    <3> QED
      BY <2>0, <3>1, CancelKeeps DEF OperationInv
  <2>4. CASE HandleCqe \/ CqeOfStoppedRaises
    BY <2>0, <2>4, OtherCqeKeeps, OperationCqeKeeps, StoppedCqeKeeps, StoppedRaisesKeeps
       DEF HandleCqe, OperationInv
  <2>5. CASE Kernel
    BY <2>5, KernelKeeps
  <2>6. CASE CloseAgain
    BY <2>1, <2>6 DEF CloseAgain, QuietAction
  <2> QED
    BY <2>1, <2>2, <2>3, <2>4, <2>5, <2>6 DEF Next, Call, LoopStep, LoopRaises, QuietAction
<1> QED
  BY <1>1, <1>2, TypeCorrect, PTL DEF Spec

-----------------------------------------------------------------------------
(* The theorems.                                                           *)

\* No future is orphaned: while it is pending, the table has a request whose CQE will
\* complete or cancel it, through every raised cancellation, failed submission and failed
\* prep_fn; unless the socket was stopped this is the last request of the operation.
THEOREM PendingStaysAttached == Spec => []PendingHasRequest
<1>1. TypeOK /\ OperationInv => PendingHasRequest
  <2> SUFFICES ASSUME TypeOK, OperationInv, NEW o \in 1 .. Len(ops), ops[o].fut = "pending"
               PROVE  \E u \in Keys(ops[o]) :
                         /\ u \in DOMAIN cache /\ cache[u] = [op |-> o, fut |-> TRUE]
                         /\ ops[o].file \notin stopped => u = ops[o].ud2
    BY DEF PendingHasRequest, Keys
  <2>1. FutureIs(o, ops[o], stopped, succeeded, pipe)
    BY DEF OperationInv, FuturesInv
  <2>2. PICK u \in Keys(ops[o]) :
            u \notin ops[o].seen /\ (ops[o].file \notin stopped => u = ops[o].ud2)
    BY <2>1 DEF FutureIs, Keys
  <2>3. u \in DOMAIN cache /\ cache[u].op = o /\ cache[u].fut = TRUE
    BY <2>2 DEF OperationInv, TableInv, TableIs
  <2>4. cache[u] \in [op : 1 .. Len(ops), fut : BOOLEAN]
    BY <2>3 DEF TypeOK
  <2>5. cache[u] = [op |-> o, fut |-> TRUE]
    BY <2>3, <2>4
  <2> QED
    BY <2>2, <2>3, <2>5
<1> QED
  BY <1>1, TypeCorrect, OperationInvariant, PTL

\* A result is only ever set when the kernel reported success for the last request of the
\* operation, and for a sendfile only when its first splice had moved data: the success of
\* the second never hides the failure of the first, linked or not.
THEOREM ResultsStayTrue == Spec => []ResultsAreTrue
<1>1. OperationInv => ResultsAreTrue
  BY DEF OperationInv, FuturesInv, FutureIs, ResultsAreTrue
<1> QED
  BY <1>1, OperationInvariant, PTL

\* An ASYNC_CANCEL never finds a request of a future that nobody cancelled, not even one
\* that a stale slot sends again or that arrives after its target is gone.
THEOREM CancelsStayAimed == Spec => []OnlyCancelledAreHit
<1>1. OperationInv => OnlyCancelledAreHit
  BY DEF OperationInv, KernelInv, OnlyCancelledAreHit, Keys
<1> QED
  BY <1>1, OperationInvariant, PTL

\* Where a step can cancel a pending future outside user code and close().
LEMMA CancelsOnlyStopped ==
    ASSUME TypeOK, OperationInv, [Next]_vars, pc # "idle", ~closing,
           NEW o \in 1 .. Len(ops), ops[o].fut = "pending", ops'[o].fut = "cancelled"
    PROVE  ops[o].file \in stopped
<1>0. /\ ops \in Seq(OpRecords) /\ \A p \in 1 .. Len(ops) : ops[p] \in OpRecords
      /\ \A v \in DOMAIN cache : cache[v].op \in 1 .. Len(ops)
  BY TypeParts
<1>1. ASSUME UNCHANGED ops PROVE FALSE
  BY <1>1
<1>2. CASE QuietAction \/ CloseAgain \/ Kernel
  <2>1. UNCHANGED ops
    BY <1>2, QuietActions, KernelLeaves DEF QuietStep, CloseAgain, vars, python
  <2> QED
    BY <1>1, <2>1
<1>3. CASE \/ \E f \in Files : StartSendfile(f)
           \/ \E kind \in Kinds, f \in Files : StartOp(kind, f)
           \/ \E p \in 1 .. Len(ops) : UserCancel(p)
  BY <1>3 DEF StartSendfile, StartOp, SingleCqeOperation, UserCancel, Idle
<1>4. CASE CloseCancels
  BY <1>4 DEF CloseCancels, OperationInv, WalkInv
<1>5. CASE StopServingCancels
  <2>1. PICK u \in todo : /\ u \in ToStop
                          /\ CancelFuture(cache[u].op, ops[cache[u].op], cache)
    BY <1>5 DEF StopServingCancels, First
  <2>2. u \in DOMAIN cache
    BY DEF TypeOK
  <2>3. o = cache[u].op
    BY <1>0, <2>1, <2>2, CancelledOp
  <2> QED
    BY <2>1, <2>3 DEF ToStop
<1>6. CASE CqeUnknown \/ CqeOfCancel
  BY <1>1, <1>6 DEF CqeUnknown, CqeOfCancel
<1>7. CASE CqeOfStopped
  <2>1. /\ Reaping /\ Known /\ CancelFuture(CachedOp, MarkedOp, Pop(cache, Head(cq).ud))
        /\ ops[CachedOp].file \in stopped
    BY <1>7 DEF CqeOfStopped, ForStopped
  <2>2. CachedOp \in 1 .. Len(ops) /\ MarkedOp \in OpRecords
    BY <2>1, CqeParts
  <2>3. o = CachedOp
    BY <2>1, <2>2, CancelledOp
  <2> QED
    BY <2>1, <2>3
<1>8. CASE CqeOfStoppedRaises
  <2>1. /\ Reaping /\ Known /\ ops' = [ops EXCEPT ![CachedOp] = MarkedOp]
    BY <1>8 DEF CqeOfStoppedRaises, ForStopped
  <2>2. /\ CachedOp \in 1 .. Len(ops) /\ MarkedOp.fut = ops[CachedOp].fut
    BY <2>1, CqeParts, MarkSeenFuture DEF MarkedOp
  <2>3. ops'[o].fut = ops[o].fut
    BY <1>0, <2>1, <2>2
  <2> QED
    BY <2>3
<1>9. CASE CqeOfOperation
  <2> DEFINE fut == IF MarkedOp.fut = "pending" THEN Operate(MarkedOp, Head(cq).res) ELSE MarkedOp.fut
             new == [MarkedOp EXCEPT !.fut = fut]
  <2>1. /\ Reaping /\ Known /\ ops' = [ops EXCEPT ![CachedOp] = new]
    BY <1>9 DEF CqeOfOperation
  <2>2. /\ CachedOp \in 1 .. Len(ops) /\ MarkedOp \in OpRecords
        /\ MarkedOp.fut = ops[CachedOp].fut
    BY <2>1, CqeParts, MarkSeenFuture DEF MarkedOp
  <2>3. new.fut = fut
    BY <2>2 DEF OpRecords
  <2>4. ops[CachedOp].fut = "pending" => new.fut # "cancelled"
    BY <2>2, <2>3 DEF Operate
  <2> HIDE DEF new
  <2>5. ops'[o] = IF o = CachedOp THEN new ELSE ops[o]
    BY <1>0, <2>1, <2>2
  <2> QED
    BY <2>4, <2>5
<1> QED
  BY <1>2, <1>3, <1>4, <1>5, <1>6, <1>7, <1>8, <1>9
     DEF Next, Call, LoopStep, LoopRaises, HandleCqe, QuietAction

\* _stop_serving cancels every pending future of its socket before it returns, and
\* outside close() the loop cancels futures of stopped sockets only.
THEOREM StopServingStaysExact == Spec => StopServingIsExact
<1>1. ASSUME TypeOK, OperationInv, [Next]_vars, pc = "stopping", pc' = "idle", nextUd' = nextUd,
             NEW o \in 1 .. Len(ops), ops[o].file \in stopped, ops[o].fut = "pending"
      PROVE  FALSE
  <2>0. nextUd \in Nat
    BY <1>1, TypeParts
  <2>1. StopServingReturns
    <3>1. ~StopServingRaises
      BY <1>1, <2>0 DEF StopServingRaises, CancelFutureRaises
    <3>2. ~StopServingCancels /\ ~UNCHANGED vars /\ ~Kernel
      BY <1>1, KernelLeaves DEF StopServingCancels, vars, python
    <3>3. ~Call
      BY <1>1 DEF Call, StartSendfile, StartOp, SingleCqeOperation, StartRaises,
                  StartPrepFails, StopServing, UserCancel, UserCancelRaises, CloseBegins,
                  CloseAgain, Idle
    <3>4. ~HandleCqe /\ ~CqeOfStoppedRaises
      BY <1>1 DEF HandleCqe, CqeUnknown, CqeOfCancel, CqeOfStopped, CqeOfStoppedRaises,
                  CqeOfOperation, Reaping
    <3> QED
      BY <1>1, <3>1, <3>2, <3>3, <3>4
         DEF Next, LoopStep, LoopRaises, SelectPolls, SelectSkipsPoll, SelectRaises, WaitTimesOut,
             DrainEnds, WaitInterrupted, CloseCancels, CloseCancelFails, CloseCancelled,
             ClosePolls, ClosePollRaises, CloseExits
  <2>2. PICK u \in Keys(ops[o]) : u \in todo
    BY <1>1 DEF OperationInv, WalkInv
  <2>3. cache[u].op = o /\ cache[u].fut = TRUE
    BY <1>1, <2>2 DEF TypeOK, OperationInv, TableInv, TableIs
  <2>4. u \in ToStop
    BY <1>1, <2>2, <2>3 DEF ToStop
  <2> QED
    BY <2>1, <2>4 DEF StopServingReturns
<1>2. TypeOK /\ OperationInv /\ [Next]_vars =>
          [/\ pc = "stopping" /\ pc' = "idle" /\ nextUd' = nextUd =>
                 \A o \in 1 .. Len(ops) : ops[o].file \in stopped => ops[o].fut # "pending"
           /\ pc # "idle" /\ ~closing =>
                 \A o \in 1 .. Len(ops) :
                    ops[o].fut = "pending" /\ ops'[o].fut = "cancelled" => ops[o].file \in stopped]_vars
  BY <1>1, CancelsOnlyStopped
<1> QED
  BY <1>2, TypeCorrect, OperationInvariant, PTL DEF Spec, StopServingIsExact

\* The pipes of a sendfile are closed exactly when both splices are over.
THEOREM PipesFollow ==
    ASSUME ~PrepErrors
    PROVE  Spec => []PipesFollowSplices
<1>1. OperationInv /\ RequestsPinned => PipesFollowSplices
  <2> SUFFICES ASSUME OperationInv, RequestsPinned, NEW o \in 1 .. Len(ops)
               PROVE  /\ ops[o].pipes = "closed" =>
                            Keys(ops[o]) \cap (UdsOf(sq) \cup UdsOf(inflight)) = {}
                      /\ ops[o].pipes = "open" => Keys(ops[o]) \cap DOMAIN cache # {}
    BY DEF PipesFollowSplices, Keys
  <2>1. UdsOf(sq) \cup UdsOf(inflight) \subseteq DOMAIN cache
    BY DEF RequestsPinned, PinnedIn, UdsOf
  <2>2. \A u \in Keys(ops[o]) : u \in ops[o].seen <=> u \notin DOMAIN cache
    BY DEF OperationInv, TableInv, TableIs
  <2>3. FutureIs(o, ops[o], stopped, succeeded, pipe)
    BY DEF OperationInv, FuturesInv
  <2> QED
    BY <2>1, <2>2, <2>3 DEF FutureIs
<1> QED
  BY <1>1, OperationInvariant, RequestsStayPinned, PTL

-----------------------------------------------------------------------------
(* The submission queue and the thread.                                    *)

\* What is queued will be submitted: the pending flag is up while the queue holds
\* anything, the thread waits with an empty queue, and a closed ring has an empty table.
SubmitInv ==
    /\ pendingSubmit \/ sq = <<>>
    /\ pc \in {"wait", "waitT"} => sq = <<>>
    /\ pc = "closed" => DOMAIN cache = {}

\* A submission of everything leaves nothing.
LEMMA SubmittedAll ==
    ASSUME sq \in Seq(Sqes), Submitted(Len(sq))
    PROVE  sq' = <<>>
<1>1. Len(sq) \in Nat
  OBVIOUS
<1>2. Len(sq) + 1 \in Int /\ Len(sq) \in Int /\ Len(sq) < Len(sq) + 1
  BY <1>1
<1> QED
  BY <1>2, SubSeqEmpty DEF Submitted

\* A submission of nothing leaves everything.
LEMMA SubmittedNone ==
    ASSUME sq \in Seq(Sqes), Submitted(0)
    PROVE  sq' = sq
<1>1. sq' = SubSeq(sq, 1, Len(sq))
  BY DEF Submitted
<1> QED
  BY <1>1, SubSeqFull

\* flush() that returns leaves an empty queue.
LEMMA FlushEmpties ==
    ASSUME TypeOK, SubmitInv, Flush
    PROVE  sq' = <<>>
<1>1. sq \in Seq(Sqes) /\ pendingSubmit \in BOOLEAN
  BY DEF TypeOK
<1>2. PICK k \in 0 .. Len(sq) : FlushReturns(k) /\ Submitted(k)
  BY DEF Flush
<1>3. CASE pendingSubmit
  BY <1>1, <1>2, <1>3, SubmittedAll DEF FlushReturns
<1>4. CASE ~pendingSubmit
  BY <1>1, <1>2, <1>4, SubmittedNone DEF FlushReturns, SubmitInv
<1> QED
  BY <1>1, <1>3, <1>4

\* A call that finds no room may flush; the flag stays up while anything is queued.
LEMMA NoRoomFlag ==
    ASSUME TypeOK, SubmitInv, NEW n, NoRoom(n)
    PROVE  pendingSubmit' \/ sq' = <<>>
<1>1. sq \in Seq(Sqes) /\ pendingSubmit \in BOOLEAN /\ Len(sq) \in Nat
  BY DEF TypeOK
<1>2. PICK k \in 0 .. Len(sq) :
          Submitted(k) /\ pendingSubmit' = (pendingSubmit /\ k < Len(sq))
  BY DEF NoRoom
<1>3. CASE k = Len(sq)
  BY <1>1, <1>2, <1>3, SubmittedAll
<1>4. CASE k # Len(sq)
  <2>1. k < Len(sq) /\ sq # <<>>
    BY <1>1, <1>4
  <2> QED
    BY <1>2, <2>1 DEF SubmitInv
<1> QED
  BY <1>3, <1>4

\* Every step keeps SubmitInv where filling an SQE does not raise.
LEMMA SubmitKeeps ==
    ASSUME ~PrepErrors, TypeOK, SubmitInv, [Next]_vars
    PROVE  SubmitInv'
<1>1. CASE \/ \E f \in Files : StartSendfile(f)
           \/ \E kind \in Kinds, f \in Files : StartOp(kind, f)
  <2>1. pendingSubmit' /\ pc' = "idle"
    BY <1>1 DEF StartSendfile, StartOp, SingleCqeOperation, Idle
  <2> QED
    BY <2>1 DEF SubmitInv
<1>2. ASSUME NEW o, NEW op, NEW c, CancelFuture(o, op, c), pc' \notin {"wait", "waitT", "closed"}
      PROVE  SubmitInv'
  <2>1. pendingSubmit' \/ UNCHANGED <<sq, pendingSubmit>>
    BY <1>2 DEF CancelFuture, submitter
  <2> QED
    BY <1>2, <2>1 DEF SubmitInv
<1>3. CASE \E o \in 1 .. Len(ops) : UserCancel(o)
  BY <1>2, <1>3 DEF UserCancel, Idle
<1>4. CASE StopServingCancels \/ CloseCancels
  <2>1. pc' \in {"stopping", "cancelling"}
    BY <1>4 DEF StopServingCancels, CloseCancels
  <2> QED
    BY <1>2, <1>4, <2>1 DEF StopServingCancels, CloseCancels
<1>5. CASE CqeOfStopped
  BY <1>2, <1>5 DEF CqeOfStopped, CqeSeen
<1>6. ASSUME NEW n, NoRoom(n), pc' \notin {"wait", "waitT", "closed"} PROVE SubmitInv'
  BY <1>6, NoRoomFlag DEF SubmitInv
<1>7. CASE StartRaises \/ \E o \in 1 .. Len(ops) : UserCancelRaises(o)
  <2>1. pc' = "idle" /\ \E n : NoRoom(n)
    BY <1>7 DEF StartRaises, UserCancelRaises, CancelFutureRaises, Idle
  <2> QED
    BY <1>6, <2>1
<1>8. CASE StopServingRaises \/ CloseCancelFails \/ CqeOfStoppedRaises
  <2>1. pc' \in {"idle", "cancelling"} /\ NoRoom(1)
    BY <1>8 DEF StopServingRaises, CloseCancelFails, CqeOfStoppedRaises, CancelFutureRaises, Unwind
  <2> QED
    BY <1>6, <2>1
<1>9. CASE SelectPolls \/ ClosePolls
  <2>1. Flush /\ pc' \in {"wait", "waitT", "drain"}
    BY <1>9 DEF SelectPolls, ClosePolls
  <2> QED
    BY <2>1, FlushEmpties DEF SubmitInv
<1>10. CASE SelectRaises \/ ClosePollRaises
  <2>1. pendingSubmit' = pendingSubmit /\ pendingSubmit /\ pc' = "idle"
    BY <1>10 DEF SelectRaises, ClosePollRaises, FlushFails, FlushRaises, Unwind, python
  <2> QED
    BY <2>1 DEF SubmitInv
<1>11. CASE \/ StopServingReturns \/ CloseCancelled \/ SelectSkipsPoll \/ WaitTimesOut \/ DrainEnds
            \/ WaitInterrupted \/ CloseExits \/ CloseBegins \/ CqeUnknown \/ CqeOfCancel
            \/ CqeOfOperation \/ (\E f \in Files : StopServing(f))
  <2>1. /\ UNCHANGED <<pendingSubmit, sq>>
        /\ \/ pc' \in {"idle", "stopping", "drain", "cancelling", "closeloop"}
           \/ pc' = "closed" /\ DOMAIN cache' = {}
    BY <1>11 DEF StopServingReturns, CloseCancelled, SelectSkipsPoll, WaitTimesOut, DrainEnds,
                 WaitInterrupted, CloseExits, CloseBegins, CqeUnknown, CqeOfCancel, CqeOfOperation,
                 StopServing, PollReturns, Unwind, CqeSeen, submitter
  <2> QED
    BY <2>1 DEF SubmitInv
<1>12. CASE UNCHANGED vars \/ CloseAgain \/ Kernel
  <2>1. UNCHANGED <<pendingSubmit, sq, pc, cache>>
    BY <1>12, KernelLeaves DEF vars, python, submitter, CloseAgain
  <2> QED
    BY <2>1 DEF SubmitInv
<1>13. CASE StartPrepFails
  BY <1>13 DEF StartPrepFails
<1> QED
  BY <1>1, <1>3, <1>4, <1>5, <1>7, <1>8, <1>9, <1>10, <1>11, <1>12, <1>13
     DEF Next, Call, LoopStep, LoopRaises, HandleCqe

\* The invariant of the submission queue.
LEMMA SubmitInvariant ==
    ASSUME ~PrepErrors
    PROVE  Spec => []SubmitInv
<1>1. Init => SubmitInv
  BY DEF Init, SubmitInv
<1>2. TypeOK /\ SubmitInv /\ [Next]_vars => SubmitInv'
  BY SubmitKeeps
<1> QED
  BY <1>1, <1>2, TypeCorrect, PTL DEF Spec

\* The thread never sleeps in io_uring_wait_cqe over an SQE it has not submitted, however
\* often flush() raised before.
THEOREM SleepsFlushed ==
    ASSUME ~PrepErrors
    PROVE  Spec => []SleepsOnlyWhenFlushed
<1>1. SubmitInv => SleepsOnlyWhenFlushed
  BY DEF SubmitInv, SleepsOnlyWhenFlushed
<1> QED
  BY <1>1, SubmitInvariant, PTL

\* A closed proactor has given everything back: no request is queued or with the kernel,
\* every future is done and every pipe closed.
THEOREM CloseStaysQuiet ==
    ASSUME ~PrepErrors
    PROVE  Spec => []ClosedIsQuiet
<1>1. TypeOK /\ SubmitInv /\ OperationInv /\ RequestsPinned => ClosedIsQuiet
  <2> SUFFICES ASSUME TypeOK, SubmitInv, OperationInv, RequestsPinned, pc = "closed"
               PROVE  /\ sq = <<>> /\ inflight = <<>>
                      /\ \A o \in 1 .. Len(ops) :
                            /\ ops[o].fut # "pending" /\ ops[o].pipes # "open"
                            /\ GetUserData(ops[o]) = 0
    BY DEF ClosedIsQuiet
  <2>1. DOMAIN cache = {}
    BY DEF SubmitInv
  <2>2. ASSUME NEW s \in Seq(Sqes), PinnedIn(cache, s) PROVE s = <<>>
    <3>1. s # <<>> => 1 \in 1 .. Len(s)
      OBVIOUS
    <3> QED
      BY <2>1, <2>2, <3>1 DEF PinnedIn
  <2>3. sq = <<>> /\ inflight = <<>>
    BY <2>2 DEF RequestsPinned, TypeOK
  <2>4. ASSUME NEW o \in 1 .. Len(ops)
        PROVE  ops[o].fut # "pending" /\ ops[o].pipes # "open" /\ GetUserData(ops[o]) = 0
    <3>1. ops[o].ud \in ops[o].seen /\ ops[o].ud2 \in ops[o].seen
      BY <2>1 DEF OperationInv, TableInv, TableIs, Keys
    <3>2. FutureIs(o, ops[o], stopped, succeeded, pipe)
      BY DEF OperationInv, FuturesInv
    <3> QED
      BY <3>1, <3>2 DEF FutureIs, GetUserData, Keys
  <2> QED
    BY <2>3, <2>4
<1> QED
  BY <1>1, TypeCorrect, SubmitInvariant, OperationInvariant, RequestsStayPinned, PTL

-----------------------------------------------------------------------------
(* Linked SQEs.                                                            *)

\* The keys queued after a step: those of the new requests, with those queued before or
\* without them, never with some of them.
AllOrNone(new) == UdsOf(sq') = new \/ UdsOf(sq') = UdsOf(sq) \cup new

\* flush() that returns takes all or none.
LEMMA FlushAllOrNone ==
    ASSUME TypeOK, NEW k \in 0 .. Len(sq), FlushReturns(k)
    PROVE  /\ SubSeq(sq, k + 1, Len(sq)) \in {<<>>, sq}
           /\ Submitted(k) => AllOrNone({})
<1>1. sq \in Seq(Sqes) /\ Len(sq) \in Nat
  BY DEF TypeOK
<1>2. CASE k = Len(sq)
  <2>1. Len(sq) + 1 \in Int /\ Len(sq) \in Int /\ Len(sq) < Len(sq) + 1
    BY <1>1
  <2>2. SubSeq(sq, k + 1, Len(sq)) = <<>>
    BY <1>2, <2>1, SubSeqEmpty
  <2> QED
    BY <2>2, UdsEmpty DEF Submitted, AllOrNone
<1>3. CASE k = 0
  <2>1. SubSeq(sq, k + 1, Len(sq)) = sq
    BY <1>1, <1>3, SubSeqFull
  <2> QED
    BY <2>1 DEF Submitted, AllOrNone
<1> QED
  BY <1>2, <1>3 DEF FlushReturns

\* _prep takes all or none to make room.
LEMMA PrepAllOrNone ==
    ASSUME TypeOK, NEW new \in Seq(Sqes), Prep(new), faults' = 0
    PROVE  AllOrNone(UdsOf(new)) /\ faults = 0
<1>1. sq \in Seq(Sqes) /\ faults = 0
  <2>1. \E k : OnceOrInParts(k)
    BY DEF Prep, PrepWithin
  <2> QED
    BY <2>1, FaultsType DEF TypeOK, SubmitterOK
<1>2. PICK k \in 0 .. Len(sq) : /\ HasRoom(Len(new), k)
                                /\ sq' = SubSeq(sq, k + 1, Len(sq)) \o new
  BY DEF Prep, PrepWithin
<1>3. SubSeq(sq, k + 1, Len(sq)) = <<>> \/ SubSeq(sq, k + 1, Len(sq)) = sq
  <2>1. CASE k = 0
    BY <1>1, <2>1, SubSeqFull
  <2>2. CASE FlushReturns(k)
    BY <2>2, FlushAllOrNone
  <2> QED
    BY <1>2, <2>1, <2>2 DEF HasRoom
<1>4. CASE SubSeq(sq, k + 1, Len(sq)) = sq
  <2>1. sq' = sq \o new
    BY <1>2, <1>4
  <2>2. UdsOf(sq \o new) = UdsOf(sq) \cup UdsOf(new)
    BY <1>1, UdsConcat
  <2> QED
    BY <1>1, <2>1, <2>2 DEF AllOrNone
<1>5. CASE SubSeq(sq, k + 1, Len(sq)) = <<>>
  <2>1. sq' = new
    BY <1>2, <1>5, ConcatEmptySeq
  <2> QED
    BY <1>1, <2>1 DEF AllOrNone
<1> QED
  BY <1>1, <1>3, <1>4, <1>5

\* So does a call that finds no room, unless a submission failed or took only a part.
LEMMA NoRoomAllOrNone ==
    ASSUME TypeOK, NEW n, NoRoom(n), faults' = 0
    PROVE  AllOrNone({}) /\ faults = 0
<1>1. faults \in Nat /\ faults + 1 # 0
  BY BoundsAssumption DEF TypeOK
<1>2. PICK k \in 0 .. Len(sq) : Submitted(k) /\ FlushReturns(k) /\ faults = 0
  BY <1>1 DEF NoRoom, Fault, OnceOrInParts
<1> QED
  BY <1>2, FlushAllOrNone

\* The splices stay together when the queue is taken as a whole and new entries come whole.
LEMMA LinkKeeps ==
    ASSUME TypeOK, OperationInv, LinkedTogether, Grow, faults = 0,
           NEW new, new \subseteq nextUd .. nextUd' - 1, AllOrNone(new),
           Len(ops') = Len(ops) + 1 => Keys(ops'[Len(ops) + 1]) \subseteq new
    PROVE  LinkedTogether'
<1>0. nextUd \in Nat \ {0} /\ nextUd' \in Nat /\ nextUd <= nextUd' /\ Len(ops) \in Nat
  BY TypeParts DEF Grow
<1>1. \A u \in new : u \notin 1 .. nextUd - 1
  BY <1>0, KeyRange
<1> SUFFICES ASSUME NEW o \in 1 .. Len(ops'), ops'[o].kind = "sendfile"
             PROVE  ops'[o].ud \in UdsOf(sq') <=> ops'[o].ud2 \in UdsOf(sq')
  BY DEF LinkedTogether, UdsOf
<1>2. CASE o \in 1 .. Len(ops) /\ Later(ops[o], ops'[o])
  <2>1. ops[o].kind = "sendfile" /\ ops'[o].ud = ops[o].ud /\ ops'[o].ud2 = ops[o].ud2
    BY <1>2 DEF Later
  <2>2. ops[o].ud \notin new /\ ops[o].ud2 \notin new
    BY <1>1, <1>2 DEF OperationInv, KeysInv
  <2>3. ops[o].ud \in UdsOf(sq) <=> ops[o].ud2 \in UdsOf(sq)
    BY <1>2, <2>1 DEF LinkedTogether
  <2> QED
    BY <2>1, <2>2, <2>3 DEF AllOrNone
<1>3. CASE o = Len(ops) + 1 /\ Fresh(ops'[o])
  <2>1. Len(ops') = Len(ops) + 1
    BY <1>0, <1>3 DEF Grow
  <2> QED
    BY <1>3, <2>1 DEF AllOrNone, Keys
<1> QED
  BY <1>2, <1>3, GrowCases

\* Every step keeps them together while every submission takes all that is queued.
LEMMA LinkSteps ==
    ASSUME ~PrepErrors, TypeOK, OperationInv, LinkedTogether, [Next]_vars
    PROVE  LinkedTogether'
<1> SUFFICES ASSUME faults' = 0 PROVE LinkedTogether'
  BY DEF LinkedTogether
<1>0. /\ nextUd \in Nat \ {0} /\ Len(ops) \in Nat /\ ops \in Seq(OpRecords)
      /\ faults \in Nat /\ faults + 1 # 0 /\ Len(ops) # Len(ops) + 1
  <2>1. \A n \in Nat : n # n + 1 /\ n + 1 # 0
    OBVIOUS
  <2>2. nextUd \in Nat \ {0} /\ Len(ops) \in Nat /\ ops \in Seq(OpRecords) /\ faults \in Nat
    BY TypeParts, BoundsAssumption DEF TypeOK
  <2> QED
    BY <2>1, <2>2
<1>1. ASSUME UNCHANGED ops, nextUd' \in Nat, nextUd <= nextUd', AllOrNone({}), faults = 0
      PROVE  LinkedTogether'
  <2>1. Grow /\ Len(ops') # Len(ops) + 1
    BY <1>0, <1>1, GrowSame
  <2>2. {} \subseteq nextUd .. nextUd' - 1
    OBVIOUS
  <2> QED
    BY <1>1, <2>1, <2>2, LinkKeeps
<1>2. ASSUME NEW kind \in {"io", "accept", "sendfile"}, NEW f \in Files,
             NEW u1 \in Nat, NEW u2 \in Nat, NEW new \in Seq(Sqes),
             nextUd' \in Nat, nextUd <= nextUd',
             u1 \in nextUd .. nextUd' - 1, u2 \in nextUd .. nextUd' - 1,
             kind = "sendfile" <=> u1 # u2, UdsOf(new) = {u1, u2}, Prep(new),
             ops' = Append(ops, Operation(kind, f, u1, u2))
      PROVE  LinkedTogether'
  <2> DEFINE op == Operation(kind, f, u1, u2)
  <2>1. op \in OpRecords /\ op.ud = u1 /\ op.ud2 = u2
    BY DEF Operation, OpRecords
  <2>2. Grow
    BY <1>2, <2>1, GrowStart
  <2>3. ops'[Len(ops) + 1] = op
    BY <1>0, <1>2, <2>1, AppendProperties
  <2> HIDE DEF op
  <2>4. Keys(ops'[Len(ops) + 1]) \subseteq UdsOf(new)
    BY <1>2, <2>1, <2>3 DEF Keys
  <2>5. AllOrNone(UdsOf(new)) /\ faults = 0
    BY <1>2, PrepAllOrNone
  <2>6. UdsOf(new) \subseteq nextUd .. nextUd' - 1
    BY <1>2
  <2> QED
    BY <2>2, <2>4, <2>5, <2>6, LinkKeeps
<1>3. ASSUME NEW f \in Files, StartSendfile(f) PROVE LinkedTogether'
  <2> DEFINE o   == Len(ops) + 1
             s1  == [ud |-> nextUd, opc |-> "f2p", op |-> o, target |-> 0]
             s2  == [ud |-> nextUd + 1, opc |-> "p2s", op |-> o, target |-> 0]
             new == <<s1, s2>>
  <2>1. /\ Prep(new) /\ ops' = Append(ops, Operation("sendfile", f, nextUd, nextUd + 1))
        /\ nextUd' = nextUd + 2
    BY <1>0, <1>3 DEF StartSendfile, NextUserData
  <2>2. s1 \in Sqes /\ s2 \in Sqes /\ s1.ud = nextUd /\ s2.ud = nextUd + 1
    BY <1>0 DEF Sqes
  <2> HIDE DEF s1, s2
  <2>3. new \in Seq(Sqes) /\ Len(new) = 2 /\ new[1] = s1 /\ new[2] = s2
    BY <2>2
  <2> HIDE DEF new
  <2>4. UdsOf(new) = {nextUd, nextUd + 1}
    <3>1. 1 .. Len(new) = {1, 2}
      BY <2>3
    <3> QED
      BY <2>2, <2>3, <3>1 DEF UdsOf
  <2>5. /\ nextUd' \in Nat /\ nextUd <= nextUd' /\ nextUd \in Nat /\ nextUd + 1 \in Nat
        /\ nextUd \in nextUd .. nextUd' - 1 /\ nextUd + 1 \in nextUd .. nextUd' - 1
        /\ nextUd # nextUd + 1
    BY <1>0, <2>1
  <2> QED
    BY <1>2, <2>1, <2>3, <2>4, <2>5
<1>4. ASSUME NEW kind \in Kinds, NEW f \in Files, StartOp(kind, f) PROVE LinkedTogether'
  <2> DEFINE o   == Len(ops) + 1
             s1  == [ud |-> nextUd, opc |-> "single", op |-> o, target |-> 0]
             new == <<s1>>
  <2>1. /\ Prep(new) /\ ops' = Append(ops, Operation(kind, f, nextUd, nextUd))
        /\ nextUd' = nextUd + 1 /\ kind # "sendfile"
    BY <1>0, <1>4 DEF StartOp, SingleCqeOperation, NextUserData
  <2>2. s1 \in Sqes /\ s1.ud = nextUd
    BY <1>0 DEF Sqes
  <2> HIDE DEF s1
  <2>3. new \in Seq(Sqes) /\ Len(new) = 1 /\ new[1] = s1
    BY <2>2
  <2> HIDE DEF new
  <2>4. UdsOf(new) = {nextUd, nextUd}
    <3>1. 1 .. Len(new) = {1}
      BY <2>3
    <3> QED
      BY <2>2, <2>3, <3>1 DEF UdsOf
  <2>5. /\ nextUd' \in Nat /\ nextUd <= nextUd' /\ nextUd \in Nat
        /\ nextUd \in nextUd .. nextUd' - 1 /\ kind \in {"io", "accept", "sendfile"}
    BY <1>0, <2>1, KindsAssumption
  <2> QED
    BY <1>2, <2>1, <2>3, <2>4, <2>5
<1>5. ASSUME NEW o \in 1 .. Len(ops), NEW op \in OpRecords, NEW c, Later(ops[o], op),
             op.fut = ops[o].fut, CancelFuture(o, op, c)
      PROVE  LinkedTogether'
  <2>1. Grow /\ Len(ops') # Len(ops) + 1
    BY <1>0, <1>5, CancelGrows, CancelledOp
  <2>2. CASE CancelTarget(op) = 0
    <3>1. UNCHANGED <<sq, faults>>
      BY <1>5, <2>2 DEF CancelFuture, submitter
    <3>2. AllOrNone({}) /\ {} \subseteq nextUd .. nextUd' - 1
      BY <3>1 DEF AllOrNone
    <3> QED
      BY <2>1, <3>1, <3>2, LinkKeeps
  <2>3. CASE CancelTarget(op) # 0
    <3> DEFINE e   == CancelSqe(o, CancelTarget(op))
               new == <<e>>
    <3>1. Prep(new) /\ nextUd' = nextUd + 1
      BY <1>5, <2>3 DEF CancelFuture
    <3>2. e \in Sqes /\ e.ud = nextUd
      <4>1. CancelTarget(op) \in Nat
        BY <1>5, OperationType, 0 \in Nat
      <4> QED
        BY <1>0, <4>1 DEF CancelSqe, Sqes, NextUserData
    <3> HIDE DEF e
    <3>3. new \in Seq(Sqes) /\ Len(new) = 1 /\ new[1] = e
      BY <3>2
    <3> HIDE DEF new
    <3>4. UdsOf(new) = {nextUd}
      <4>1. 1 .. Len(new) = {1}
        BY <3>3
      <4> QED
        BY <3>2, <3>3, <4>1 DEF UdsOf
    <3>5. UdsOf(new) \subseteq nextUd .. nextUd' - 1
      BY <1>0, <3>1, <3>4
    <3>6. AllOrNone(UdsOf(new)) /\ faults = 0
      BY <3>1, <3>3, PrepAllOrNone
    <3> QED
      BY <2>1, <3>5, <3>6, LinkKeeps
  <2> QED
    BY <2>2, <2>3
<1>6. CASE \/ \E o \in 1 .. Len(ops) : UserCancel(o)
           \/ StopServingCancels \/ CloseCancels
  <2>1. \E o \in 1 .. Len(ops) : CancelFuture(o, ops[o], cache)
    <3>1. CASE \E o \in 1 .. Len(ops) : UserCancel(o)
      BY <3>1 DEF UserCancel
    <3>2. CASE StopServingCancels \/ CloseCancels
      BY <3>2, TypeParts DEF StopServingCancels, CloseCancels, TypeOK
    <3> QED
      BY <1>6, <3>1, <3>2
  <2>2. \A o \in 1 .. Len(ops) : ops[o] \in OpRecords /\ Later(ops[o], ops[o])
    BY TypeParts DEF Later
  <2> QED
    BY <1>5, <2>1, <2>2
<1>7. CASE CqeOfStopped
  <2>1. Reaping /\ Known /\ CancelFuture(CachedOp, MarkedOp, Pop(cache, Head(cq).ud))
    BY <1>7 DEF CqeOfStopped, ForStopped
  <2>2. /\ CachedOp \in 1 .. Len(ops) /\ MarkedOp \in OpRecords /\ ops[CachedOp] \in OpRecords
    BY <2>1, CqeParts
  <2>3. Later(ops[CachedOp], MarkedOp) /\ MarkedOp.fut = ops[CachedOp].fut
    BY <2>2, MarkFields DEF MarkedOp
  <2> QED
    BY <1>5, <2>1, <2>2, <2>3
<1>8. ASSUME NEW n, NoRoom(n), nextUd' \in {nextUd, nextUd + 1}, Grow, Len(ops') = Len(ops)
      PROVE  LinkedTogether'
  <2>1. AllOrNone({}) /\ faults = 0 /\ {} \subseteq nextUd .. nextUd' - 1
    BY <1>8, NoRoomAllOrNone
  <2> QED
    BY <1>0, <1>8, <2>1, LinkKeeps
<1>9. CASE \/ StartRaises \/ StopServingRaises \/ CloseCancelFails
           \/ \E o \in 1 .. Len(ops) : UserCancelRaises(o)
  <2>1. UNCHANGED ops /\ nextUd' \in {nextUd, nextUd + 1} /\ \E n : NoRoom(n)
    BY <1>9 DEF StartRaises, StopServingRaises, CloseCancelFails, UserCancelRaises,
                CancelFutureRaises
  <2>2. Grow
    <3>1. nextUd' \in Nat /\ nextUd <= nextUd'
      BY <1>0, <2>1
    <3> QED
      BY <2>1, <3>1, GrowSame
  <2> QED
    BY <1>8, <2>1, <2>2
<1>10. CASE CqeOfStoppedRaises
  <2>1. /\ Reaping /\ Known /\ ops' = [ops EXCEPT ![CachedOp] = MarkedOp]
        /\ NoRoom(1) /\ nextUd' = nextUd + 1
    BY <1>10 DEF CqeOfStoppedRaises, ForStopped, CancelFutureRaises
  <2>2. /\ CachedOp \in 1 .. Len(ops) /\ MarkedOp \in OpRecords /\ ops[CachedOp] \in OpRecords
    BY <2>1, CqeParts
  <2>3. Later(ops[CachedOp], MarkedOp) /\ nextUd' \in Nat /\ nextUd <= nextUd'
    BY <1>0, <2>1, <2>2, MarkFields DEF MarkedOp
  <2>4. Len(ops') = Len(ops)
    BY <1>0, <2>1, <2>2
  <2>5. Grow
    BY <1>0, <2>1, <2>2, <2>3, GrowReplace
  <2> QED
    BY <1>8, <2>1, <2>4, <2>5
<1>11. CASE SelectPolls \/ ClosePolls \/ SelectRaises \/ ClosePollRaises
  <2>1. Flush \/ FlushFails
    BY <1>11 DEF SelectPolls, ClosePolls, SelectRaises, ClosePollRaises
  <2>2. ~FlushFails
    BY <1>0 DEF FlushFails, Fault
  <2>3. faults = 0 /\ \E k \in 0 .. Len(sq) : FlushReturns(k) /\ Submitted(k)
    BY <1>0, <2>1, <2>2 DEF Flush, OnceOrInParts, Fault
  <2>4. UNCHANGED <<ops, nextUd>>
    BY <1>11 DEF SelectPolls, ClosePolls, SelectRaises, ClosePollRaises, python
  <2> QED
    BY <1>0, <1>1, <2>3, <2>4, FlushAllOrNone
<1>12. CASE CqeOfOperation
  <2>1. /\ Reaping /\ Known /\ UNCHANGED <<sq, faults, nextUd>>
        /\ \E fut : ops' = [ops EXCEPT ![CachedOp] = [MarkedOp EXCEPT !.fut = fut]]
    BY <1>12 DEF CqeOfOperation, submitter
  <2>2. PICK fut : ops' = [ops EXCEPT ![CachedOp] = [MarkedOp EXCEPT !.fut = fut]]
    BY <2>1
  <2>3. /\ CachedOp \in 1 .. Len(ops) /\ MarkedOp \in OpRecords /\ ops[CachedOp] \in OpRecords
    BY <2>1, CqeParts
  <2>4. Later(ops[CachedOp], MarkedOp)
    BY <2>3, MarkFields DEF MarkedOp
  <2> DEFINE new == [MarkedOp EXCEPT !.fut = fut]
  <2>5. new.kind = MarkedOp.kind /\ new.ud = MarkedOp.ud /\ new.ud2 = MarkedOp.ud2
    BY <2>3 DEF OpRecords
  <2> HIDE DEF new
  <2>6. Len(ops') = Len(ops) /\ \A o \in 1 .. Len(ops) : ops'[o] = IF o = CachedOp THEN new ELSE ops[o]
    BY <1>0, <2>2, <2>3 DEF new
  <2>7. \A o \in 1 .. Len(ops) : /\ ops'[o].kind = ops[o].kind /\ ops'[o].ud = ops[o].ud
                                 /\ ops'[o].ud2 = ops[o].ud2
    BY <2>4, <2>5, <2>6 DEF Later
  <2> QED
    BY <2>1, <2>6, <2>7 DEF LinkedTogether, UdsOf
<1>13. CASE \/ StopServingReturns \/ CloseCancelled \/ SelectSkipsPoll \/ WaitTimesOut \/ DrainEnds
            \/ WaitInterrupted \/ CloseExits \/ CloseBegins \/ CqeUnknown \/ CqeOfCancel
            \/ (\E f \in Files : StopServing(f)) \/ CloseAgain \/ Kernel \/ UNCHANGED vars
  <2>1. UNCHANGED <<ops, sq, faults>>
    BY <1>13, KernelLeaves DEF StopServingReturns, CloseCancelled, SelectSkipsPoll, WaitTimesOut, DrainEnds,
                 WaitInterrupted, CloseExits, CloseBegins, CqeUnknown, CqeOfCancel, StopServing,
                 CloseAgain, PollReturns, submitter, vars, python
  <2>2. ops' = ops /\ sq' = sq /\ faults' = faults
    BY <2>1
  <2>3. UdsOf(sq)' = UdsOf(sq)
    BY <2>2 DEF UdsOf
  <2> QED
    BY <2>2, <2>3 DEF LinkedTogether
<1>14. CASE StartPrepFails
  BY <1>14 DEF StartPrepFails
<1> QED
  BY <1>3, <1>4, <1>6, <1>7, <1>9, <1>10, <1>11, <1>12, <1>13, <1>14
     DEF Next, Call, LoopStep, LoopRaises, HandleCqe

\* ensure_capacity keeps linked SQEs in one submission: as long as every io_uring_submit
\* took all that was queued, the two splices of a sendfile are queued together or
\* submitted together.
THEOREM LinkedStayTogether ==
    ASSUME ~PrepErrors
    PROVE  Spec => []LinkedTogether
<1>1. Init => LinkedTogether
  BY DEF Init, LinkedTogether
<1>2. TypeOK /\ OperationInv /\ LinkedTogether /\ [Next]_vars => LinkedTogether'
  BY LinkSteps
<1> QED
  BY <1>1, <1>2, TypeCorrect, OperationInvariant, PTL DEF Spec

=============================================================================
