----------------------------- MODULE WritePipe ------------------------------
(***************************************************************************)
(* _IoUringWritePipeTransport of uringloop/loop.py: the transport of a     *)
(* subprocess's stdin or of any write pipe.  It polls the pipe for         *)
(* POLLHUP | POLLERR beside the writes, and closes itself when the poll    *)
(* ends.  _ProactorBaseWritePipeTransport (write, close, abort and         *)
(* _loop_writing), the proactor and the kernel are external.               *)
(*                                                                         *)
(* The bytes written are the numbers 1, 2, 3, ... in order.                *)
(***************************************************************************)
EXTENDS Integers, Sequences, SequencesExt

CONSTANTS
    MaxBytes,       \* bound: bytes written
    MaxReady        \* bound: callbacks waiting when abort() is called

ASSUME WritePipeAssumption == MaxBytes \in Nat /\ MaxReady \in Nat

VARIABLES
    pollFut,    \* the future of poll_add: "pending", "done" or "cancelled"
    readFut,    \* _read_fut is not None
    wfut,       \* the futures of the sends so far: [st, data, took], took being the result
    writeFut,   \* _write_fut, an index of wfut; 0 for None
    buffer,     \* _buffer; empty for None
    closing,    \* _closing, which is also _conn_lost > 0
    lost,       \* how connection_lost was called: "no", "closed", "aborted", "broken"
    ready,      \* callbacks of the loop: <<name, argument>>
    failed,     \* an assertion failed
    written,    \* bytes write() accepted
    stream,     \* bytes the kernel took, in order
    queued,     \* requests not yet submitted: sends, and 0 for the poll
    sending,    \* sends in flight
    todo,       \* callbacks this iteration of the loop has still to run
    hup         \* the read end is closed

vars == <<pollFut, readFut, wfut, writeFut, buffer, closing, lost, ready, failed, written,
          stream, queued, sending, todo, hup>>

-----------------------------------------------------------------------------
(* The base class.  A future that is done schedules its callback; so does  *)
(* one that is cancelled.                                                  *)

TransportVars == <<pollFut, readFut, wfut, writeFut, buffer, closing>>

\* _read_fut.cancel() and _read_fut = None; r is the queue of callbacks so far.
CancelPoll(r) ==
    /\ readFut' = FALSE
    /\ IF readFut /\ pollFut = "pending"
       THEN pollFut' = "cancelled" /\ ready' = Append(r, <<"pipe_closed", 0>>)
       ELSE pollFut' = pollFut /\ ready' = r

\* close(): pending writes go on, the poll is cancelled.
CloseTransport(r) ==
    IF closing THEN ready' = r /\ UNCHANGED TransportVars
    ELSE /\ closing' = TRUE
         /\ CancelPoll(IF writeFut = 0 THEN Append(r, <<"connection_lost", "closed">>) ELSE r)
         /\ UNCHANGED <<wfut, writeFut, buffer>>

\* _force_close: a pending write is cancelled too.
ForceClose(why, r) ==
    IF closing /\ lost # "no" THEN ready' = r /\ UNCHANGED TransportVars
    ELSE LET cancels == writeFut # 0 /\ wfut[writeFut].st = "pending"
         IN  /\ closing' = TRUE /\ writeFut' = 0 /\ buffer' = <<>>
             /\ wfut' = IF cancels THEN [wfut EXCEPT ![writeFut].st = "cancelled"] ELSE wfut
             /\ CancelPoll(Append(IF cancels THEN Append(r, <<"loop_writing", writeFut>>) ELSE r,
                                  <<"connection_lost", why>>))

Send(data) ==
    /\ wfut' = Append(wfut, [st |-> "pending", data |-> data, took |-> 0])
    /\ writeFut' = Len(wfut) + 1
    /\ queued' = queued \cup {Len(wfut) + 1}

\* write() of the next n bytes; after close() it drops them.
Write(n) ==
    /\ written + n <= MaxBytes /\ ~closing
    /\ written' = written + n
    /\ LET data == [i \in 1 .. n |-> written + i]
       IN  IF writeFut = 0 THEN Send(data) /\ UNCHANGED buffer
           ELSE buffer' = buffer \o data /\ UNCHANGED <<wfut, writeFut, queued>>
    /\ UNCHANGED <<pollFut, readFut, closing, lost, ready, failed, stream, sending, todo, hup>>

Close ==
    /\ CloseTransport(ready)
    /\ UNCHANGED <<lost, failed, written, stream, queued, sending, todo, hup>>

Abort ==
    /\ Len(ready) < MaxReady
    /\ ForceClose("aborted", ready)
    /\ UNCHANGED <<lost, failed, written, stream, queued, sending, todo, hup>>

-----------------------------------------------------------------------------
(* The callbacks, in the order of the loop's queue.                        *)

Callback(name) == todo > 0 /\ Head(ready)[1] = name /\ todo' = todo - 1

\* Mutant: select() does not submit.
SelectIdles ==
    /\ todo = 0 /\ todo' = Len(ready)
    /\ UNCHANGED <<TransportVars, lost, ready, failed, written, stream, queued, sending, hup>>

\* An iteration begins: select() submits what is queued, then the callbacks that are
\* ready now are run.
Select ==
    /\ todo = 0 /\ todo' = Len(ready)
    /\ queued' = {} /\ sending' = sending \cup (queued \ {0})
    /\ UNCHANGED <<TransportVars, lost, ready, failed, written, stream, hup>>

\* _loop_writing(f): goes on with the buffer whatever number of bytes f reports.
LoopWriting ==
    /\ Callback("loop_writing")
    /\ LET f == Head(ready)[2]
       IN  \/ /\ f # writeFut
              /\ failed' = (failed \/ ~(writeFut = 0 /\ closing))
              /\ ready' = Tail(ready) /\ UNCHANGED <<TransportVars, queued>>
           \/ /\ f = writeFut /\ wfut[f].st = "done" /\ buffer # <<>>
              /\ Send(buffer) /\ buffer' = <<>> /\ ready' = Tail(ready)
              /\ UNCHANGED <<pollFut, readFut, closing, failed>>
           \/ /\ f = writeFut /\ wfut[f].st = "done" /\ buffer = <<>>
              /\ writeFut' = 0
              /\ ready' = Tail(ready) \o
                             (IF closing THEN <<<<"connection_lost", "closed">>>> ELSE <<>>)
              /\ UNCHANGED <<pollFut, readFut, wfut, buffer, closing, failed, queued>>
           \/ /\ f = writeFut /\ wfut[f].st = "error"
              /\ ForceClose("broken", Tail(ready))
              /\ UNCHANGED <<failed, queued>>
    /\ UNCHANGED <<lost, written, stream, sending, hup>>

ConnectionLost ==
    /\ Callback("connection_lost")
    /\ lost' = IF lost = "no" THEN Head(ready)[2] ELSE lost
    /\ ready' = Tail(ready)
    /\ UNCHANGED <<TransportVars, failed, written, stream, queued, sending, hup>>

\* Mutant: an idle transport waits for the next write to fail.
HangUpIfWriting ==
    IF writeFut # 0 THEN ForceClose("broken", Tail(ready))
    ELSE ready' = Tail(ready) /\ UNCHANGED TransportVars

\* The poll ended by itself, on a transport not closing.
HangUp ==
    IF writeFut # 0 THEN ForceClose("broken", Tail(ready)) ELSE CloseTransport(Tail(ready))

\* Mutant: no check of _closing.
PipeClosedUnchecked ==
    /\ Callback("pipe_closed")
    /\ IF pollFut = "cancelled"
       THEN ready' = Tail(ready) /\ UNCHANGED <<TransportVars, failed>>
       ELSE HangUp /\ failed' = (failed \/ ~readFut)
    /\ UNCHANGED <<lost, written, stream, queued, sending, hup>>

\* _pipe_closed with its two assertions on _read_fut.
PipeClosed ==
    /\ Callback("pipe_closed")
    /\ \/ /\ pollFut = "cancelled"
          /\ ready' = Tail(ready) /\ UNCHANGED <<TransportVars, failed>>
       \/ /\ pollFut = "done" /\ closing
          /\ failed' = (failed \/ readFut)
          /\ ready' = Tail(ready) /\ UNCHANGED TransportVars
       \/ /\ pollFut = "done" /\ ~closing
          /\ failed' = (failed \/ ~readFut)
          /\ HangUp
    /\ UNCHANGED <<lost, written, stream, queued, sending, hup>>

-----------------------------------------------------------------------------
(* The kernel and the peer.                                                *)

PeerCloses ==
    /\ ~hup /\ hup' = TRUE
    /\ UNCHANGED <<pollFut, readFut, wfut, writeFut, buffer, closing, lost, ready, failed,
                   written, stream, queued, sending, todo>>

PollCompletes ==
    /\ hup /\ pollFut = "pending" /\ 0 \notin queued
    /\ pollFut' = "done" /\ ready' = Append(ready, <<"pipe_closed", 0>>)
    /\ UNCHANGED <<readFut, wfut, writeFut, buffer, closing, lost, failed, written, stream,
                   queued, sending, todo, hup>>

\* A send ends with a count or an error; its future takes it unless it was cancelled.
SendEnds(f, st, n) ==
    /\ f \in sending /\ sending' = sending \ {f}
    /\ stream' = stream \o SubSeq(wfut[f].data, 1, n)
    /\ IF wfut[f].st = "pending"
       THEN /\ wfut' = [wfut EXCEPT ![f].st = st, ![f].took = n]
            /\ ready' = Append(ready, <<"loop_writing", f>>)
       ELSE UNCHANGED <<wfut, ready>>
    /\ UNCHANGED <<pollFut, readFut, writeFut, buffer, closing, lost, failed, written, queued,
                   todo, hup>>

\* A pipe that is nearly full takes a part.
SendCompletes(f) == ~hup /\ \E n \in 1 .. Len(wfut[f].data) : SendEnds(f, "done", n)

\* EPIPE, or ECANCELED.
SendFails(f) == (hup \/ wfut[f].st = "cancelled") /\ SendEnds(f, "error", 0)

-----------------------------------------------------------------------------
\* The transport after __init__: nothing written, the poll armed.
Init ==
    /\ pollFut = "pending" /\ readFut = TRUE /\ wfut = <<>> /\ writeFut = 0 /\ buffer = <<>>
    /\ closing = FALSE /\ lost = "no" /\ ready = <<>> /\ failed = FALSE
    /\ written = 0 /\ stream = <<>> /\ queued = {0} /\ sending = {} /\ todo = 0
    /\ hup = FALSE

RunCallback == LoopWriting \/ ConnectionLost \/ PipeClosed

Next ==
    \/ \E n \in 1 .. MaxBytes : Write(n)
    \/ Close \/ Abort \/ Select \/ RunCallback \/ PeerCloses \/ PollCompletes
    \/ \E f \in 1 .. Len(wfut) : SendCompletes(f) \/ SendFails(f)

Spec == Init /\ [][Next]_vars

\* The loop runs its callbacks, and the kernel reports a closed read end to the poll and
\* to every send.  The peer need not read, nor close.
FairSpec ==
    /\ Spec
    /\ WF_vars(Select) /\ WF_vars(RunCallback) /\ WF_vars(PollCompletes)
    /\ \A f \in 1 .. MaxBytes : WF_vars(f \in 1 .. Len(wfut) /\ SendFails(f))

-----------------------------------------------------------------------------
\* The assertions of _pipe_closed and of _loop_writing hold in every order of close(),
\* abort(), writes, hang-ups and callbacks that were scheduled before.
AssertionsHold == ~failed

\* The bytes the kernel took; and those that sends were given and, as their results say,
\* did not take.
Taken == {stream[i] : i \in 1 .. Len(stream)}
Unsent(x) == IF x.st = "done" THEN {x.data[i] : i \in x.took + 1 .. Len(x.data)} ELSE {}
LeftOver == UNION {Unsent(wfut[f]) : f \in 1 .. Len(wfut)}

\* When connection_lost has been called, and so the descriptor closed, the transport is
\* over: no poll and no send is pending on the descriptor; no request that names it waits
\* in the submission queue, which the kernel would apply to whatever file gets the same
\* number next; the kernel has taken bytes in the order they were written and none twice;
\* and those it lacks of the bytes up to some point, after close() of all bytes, are
\* exactly those a short send reported: _loop_writing, which ignores its count, never
\* writes them, and loses no others.
LostIsTheEnd ==
    lost # "no" =>
        /\ pollFut # "pending" /\ \A f \in DOMAIN wfut : wfut[f].st # "pending"
        /\ queued = {}
        /\ \A i, j \in 1 .. Len(stream) : i < j => stream[i] < stream[j]
        /\ \E p \in 0 .. written :
               /\ LeftOver = (1 .. p) \ Taken /\ Taken \subseteq 1 .. p
               /\ lost = "closed" => p = written

\* The protocol hears of a closed read end, whether the transport is idle, writing, or
\* closing with a write that the peer never reads.
HangUpIsReported == hup ~> lost # "no"
=============================================================================
