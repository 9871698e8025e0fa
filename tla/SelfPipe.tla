------------------------------ MODULE SelfPipe ------------------------------
(***************************************************************************)
(* The event loop of uringloop/loop.py and the self-pipe that wakes it:    *)
(* run_forever with its setup and cleanup, one iteration after another,    *)
(* and threads that hand over work with call_soon_threadsafe.              *)
(*                                                                         *)
(* BaseEventLoop and BaseProactorEventLoop are external.  Of the proactor  *)
(* only what Proactor establishes is used: select submits everything       *)
(* queued before it waits, and a CQE completes its future once.            *)
(***************************************************************************)
EXTENDS Integers, Sequences, SequencesExt

CONSTANTS
    Threads,    \* threads that call call_soon_threadsafe
    MaxCalls,   \* bound: such calls
    MaxRuns     \* bound: run_forever calls

ASSUME SelfPipeAssumption == MaxCalls \in Nat /\ MaxRuns \in Nat

VARIABLES
    pc,         \* where the thread of the loop is
    ready,      \* _ready: <<"work", 0>>, or <<"read", f>> for _loop_self_reading(f)
    ntodo,      \* handles this iteration has still to run
    stopping,   \* _stopping
    selfFut,    \* _self_reading_future; 0 for None
    fut,        \* the futures of the reads started so far
    runs,       \* run_forever calls
    calls,      \* call_soon_threadsafe calls
    caller,     \* thread -> TRUE between call_soon and _write_to_self
    queued, inflight, cq,   \* requests of the proactor: <<"recv", f>> and <<"cancel", f>>
    bytes       \* bytes in the self-pipe

vars == <<pc, ready, ntodo, stopping, selfFut, fut, runs, calls, caller,
          queued, inflight, cq, bytes>>

-----------------------------------------------------------------------------
(* The reading of the self-pipe.                                           *)

StartRead ==
    /\ fut' = Append(fut, "pending")
    /\ queued' = queued \cup {<<"recv", Len(fut) + 1>>}
    /\ selfFut' = Len(fut) + 1

\* _loop_self_reading: goes on only for the read that is still the current one.
LoopSelfReading(f) ==
    IF selfFut = f /\ (f # 0 => fut[f] # "cancelled")
    THEN StartRead ELSE UNCHANGED <<selfFut, fut, queued>>

\* Mutant: nothing reads the self-pipe.
SetupForgets == selfFut = 0 /\ UNCHANGED ready

\* _run_forever_setup: asserts that _self_reading_future is None.
Setup ==
    /\ selfFut = 0
    /\ ready' = Append(ready, <<"read", 0>>)

\* Mutant: the future is dropped without being cancelled.
CleanupDropsFuture == selfFut' = 0 /\ UNCHANGED <<fut, ready, queued>>

\* _run_forever_cleanup: a pending read is cancelled, which schedules its callback and
\* an ASYNC_CANCEL; a read that is done is only forgotten.
Cleanup ==
    /\ selfFut' = 0
    /\ IF selfFut # 0 /\ fut[selfFut] = "pending"
       THEN /\ fut' = [fut EXCEPT ![selfFut] = "cancelled"]
            /\ ready' = Append(ready, <<"read", selfFut>>)
            /\ queued' = queued \cup {<<"cancel", selfFut>>}
       ELSE UNCHANGED <<fut, ready, queued>>

-----------------------------------------------------------------------------
(* run_forever and _run_once.                                              *)

RunForever ==
    /\ pc = "out" /\ runs < MaxRuns
    /\ pc' = "timeout" /\ runs' = runs + 1
    /\ Setup
    /\ UNCHANGED <<ntodo, stopping, selfFut, fut, calls, caller, queued, inflight, cq, bytes>>

\* The timeout is 0 if there is something to run, otherwise none at all; select submits
\* what is queued, and waits only without a timeout.
Select ==
    /\ pc = "timeout"
    /\ pc' = IF ready # <<>> \/ stopping THEN "drain" ELSE "wait"
    /\ queued' = {} /\ inflight' = inflight \cup queued
    /\ UNCHANGED <<ready, ntodo, stopping, selfFut, fut, runs, calls, caller, cq, bytes>>

\* A CQE completes its future, unless it was cancelled, and schedules the callback.
HandleCqe ==
    /\ pc \in {"wait", "drain"} /\ cq # <<>>
    /\ pc' = "drain" /\ cq' = Tail(cq)
    /\ LET f == Head(cq)[2]
       IN  IF Head(cq)[1] = "recv" /\ fut[f] = "pending"
           THEN /\ fut' = [fut EXCEPT ![f] = "result"]
                /\ ready' = Append(ready, <<"read", f>>)
           ELSE UNCHANGED <<fut, ready>>
    /\ UNCHANGED <<ntodo, stopping, selfFut, runs, calls, caller, queued, inflight, bytes>>

SelectReturns ==
    /\ pc = "drain" /\ cq = <<>>
    /\ pc' = "handles" /\ ntodo' = Len(ready)
    /\ UNCHANGED <<ready, stopping, selfFut, fut, runs, calls, caller, queued, inflight,
                   cq, bytes>>

\* A handle runs; work may call stop().
RunHandle ==
    /\ pc = "handles" /\ ntodo > 0
    /\ ntodo' = ntodo - 1 /\ ready' = Tail(ready)
    /\ \/ /\ Head(ready)[1] = "work"
          /\ stopping' \in {stopping, TRUE}
          /\ UNCHANGED <<selfFut, fut, queued>>
       \/ /\ Head(ready)[1] = "read"
          /\ LoopSelfReading(Head(ready)[2])
          /\ UNCHANGED stopping
    /\ UNCHANGED <<pc, runs, calls, caller, inflight, cq, bytes>>

IterationEnds ==
    /\ pc = "handles" /\ ntodo = 0 /\ ~stopping
    /\ pc' = "timeout"
    /\ UNCHANGED <<ready, ntodo, stopping, selfFut, fut, runs, calls, caller, queued,
                   inflight, cq, bytes>>

LeaveRunForever ==
    /\ pc' = "out" /\ stopping' = FALSE /\ ntodo' = 0
    /\ Cleanup
    /\ UNCHANGED <<runs, calls, caller, inflight, cq, bytes>>

Stopped == pc = "handles" /\ ntodo = 0 /\ stopping /\ LeaveRunForever

\* The exception of a signal handler leaves run_forever, possibly with handles not run.
Interrupted == pc \in {"wait", "handles"} /\ LeaveRunForever

-----------------------------------------------------------------------------
(* Other threads.                                                          *)

CallSoonThreadsafe(t) ==
    /\ ~caller[t] /\ calls < MaxCalls
    /\ ready' = Append(ready, <<"work", 0>>)
    /\ caller' = [caller EXCEPT ![t] = TRUE] /\ calls' = calls + 1
    /\ UNCHANGED <<pc, ntodo, stopping, selfFut, fut, runs, queued, inflight, cq, bytes>>

WriteToSelf(t) ==
    /\ caller[t]
    /\ caller' = [caller EXCEPT ![t] = FALSE] /\ bytes' = bytes + 1
    /\ UNCHANGED <<pc, ready, ntodo, stopping, selfFut, fut, runs, calls, queued, inflight, cq>>

-----------------------------------------------------------------------------
(* The kernel: a read takes all bytes there are; a cancellation ends its   *)
(* target, if it is still there, with ECANCELED.                           *)

KernelReads(f) ==
    /\ <<"recv", f>> \in inflight /\ bytes > 0
    /\ bytes' = 0
    /\ inflight' = inflight \ {<<"recv", f>>} /\ cq' = Append(cq, <<"recv", f>>)
    /\ UNCHANGED <<pc, ready, ntodo, stopping, selfFut, fut, runs, calls, caller, queued>>

KernelCancels(f) ==
    /\ <<"cancel", f>> \in inflight
    /\ inflight' = inflight \ {<<"recv", f>>, <<"cancel", f>>}
    /\ cq' = cq \o (IF <<"recv", f>> \in inflight THEN <<<<"recv", f>>>> ELSE <<>>)
                \o <<<<"cancel", f>>>>
    /\ UNCHANGED <<pc, ready, ntodo, stopping, selfFut, fut, runs, calls, caller, queued, bytes>>

-----------------------------------------------------------------------------
Init ==
    /\ pc = "out" /\ ready = <<>> /\ ntodo = 0 /\ stopping = FALSE
    /\ selfFut = 0 /\ fut = <<>> /\ runs = 0 /\ calls = 0
    /\ caller = [t \in Threads |-> FALSE]
    /\ queued = {} /\ inflight = {} /\ cq = <<>> /\ bytes = 0

LoopStep == Select \/ HandleCqe \/ SelectReturns \/ RunHandle \/ IterationEnds \/ Stopped

KernelStep == \E f \in 1 .. Len(fut) : KernelReads(f) \/ KernelCancels(f)

Next ==
    \/ RunForever \/ LoopStep \/ Interrupted \/ KernelStep
    \/ \E t \in Threads : CallSoonThreadsafe(t) \/ WriteToSelf(t)

Spec == Init /\ [][Next]_vars

\* The threads go on, and the kernel completes a read that has data and carries out
\* cancellations.  Nobody need call run_forever, stop or a signal handler.
FairSpec ==
    /\ Spec
    /\ WF_vars(LoopStep) /\ WF_vars(KernelStep)
    /\ \A t \in Threads : WF_vars(WriteToSelf(t))

-----------------------------------------------------------------------------
\* No wakeup is lost: if the loop sleeps without a timeout while work of another thread is
\* ready, that thread has still to write its byte, or a CQE has come, or the byte is there
\* and a read is in flight to find it, be it one that an earlier run cancelled.
NoLostWakeup ==
    pc = "wait" /\ ready # <<>> =>
        \/ \E t \in Threads : caller[t]
        \/ cq # <<>>
        \/ bytes > 0 /\ \E f \in 1 .. Len(fut) : <<"recv", f>> \in inflight

\* There is one reader: over any number of runs, stops and exceptions, a read that is
\* neither done nor cancelled is the one _self_reading_future names, and outside
\* run_forever there is none, as _run_forever_setup asserts.
OneReader ==
    /\ \A f \in DOMAIN fut : fut[f] = "pending" => f = selfFut
    /\ pc = "out" => selfFut = 0

\* Work handed over by a thread is run, unless run_forever ends before.
WorkRuns ==
    (pc # "out" /\ Contains(ready, <<"work", 0>>))
        ~> (pc = "out" \/ ~Contains(ready, <<"work", 0>>))
=============================================================================
