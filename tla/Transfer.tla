------------------------------ MODULE Transfer ------------------------------
(***************************************************************************)
(* Byte counts: sock_sendall of uringloop/loop.py over sends that may take *)
(* fewer bytes than they are given, and sendfile of uringloop/proactor.py, *)
(* a splice from the file into a fresh pipe linked to a splice from the    *)
(* pipe into the socket, under _sock_sendfile_native of                    *)
(* BaseProactorEventLoop (external).  A byte is its position in the buffer *)
(* or in the file.                                                         *)
(***************************************************************************)
EXTENDS Integers, Sequences

CONSTANTS
    MaxSize,    \* bound: bytes of the buffer or of the file
    PipeSize,   \* capacity of a pipe (64 KiB)
    ShortSplice \* TRUE: a splice into the socket may move less than the pipe holds

VARIABLES
    job,        \* "sendall" or "sendfile"
    data,       \* the bytes to be sent
    offset,     \* sendfile: offset of _sock_sendfile_native
    view,       \* sendall: what is left, and the bytes of one index of the memoryview
    pipe,       \* sendfile: bytes in the pipe
    told,       \* bytes that the futures so far reported as sent
    step,       \* "loop", "sending", "f2p" (the pipe is filled), "returned" or "raised"
    stream      \* bytes the kernel took

vars == <<job, data, offset, view, pipe, told, step, stream>>

Least(a, b) == IF a < b THEN a ELSE b

\* memoryview(data).cast("B")
Cast(bytes, width) == [bytes |-> bytes, width |-> 1]

\* Mutant: the whole buffer is sent again.
SliceNothing(v, sent) == IF sent = Len(v.bytes) THEN [v EXCEPT !.bytes = <<>>] ELSE v

\* view[sent:]
Slice(v, sent) == [v EXCEPT !.bytes = SubSeq(v.bytes, sent * v.width + 1, Len(v.bytes))]

InitSendall ==
    \E items \in 0 .. MaxSize, width \in 1 .. MaxSize :
        /\ job = "sendall" /\ items * width <= MaxSize
        /\ data = [i \in 1 .. items * width |-> i]
        /\ view = Cast(data, width) /\ offset = 0

\* The part of the file from off on, count bytes of it if count is not 0.
InitSendfile ==
    \E size, off, count \in 0 .. MaxSize :
        LET end == IF count = 0 THEN size ELSE Least(off + count, size)
        IN  /\ job = "sendfile" /\ off <= size
            /\ data = [i \in 1 .. end - off |-> off + i] /\ offset = off
            /\ view = [bytes |-> <<>>, width |-> 1]

Init ==
    /\ InitSendall \/ InitSendfile
    /\ pipe = <<>> /\ told = 0 /\ step = "loop" /\ stream = <<>>

Go(what, from, to) == job = what /\ step = from /\ step' = to /\ UNCHANGED <<job, data>>

-----------------------------------------------------------------------------
(* sock_sendall                                                            *)

Send ==
    /\ Go("sendall", "loop", "sending") /\ view.bytes # <<>>
    /\ UNCHANGED <<offset, view, pipe, told, stream>>

\* The send takes n bytes.
SendEnds(n) ==
    /\ Go("sendall", "sending", "loop")
    /\ stream' = stream \o SubSeq(view.bytes, 1, n) /\ told' = told + n
    /\ view' = Slice(view, n)
    /\ UNCHANGED <<offset, pipe>>

\* An error, or a cancellation, which the kernel may carry out after it took n bytes.
SendRaises(n) ==
    /\ Go("sendall", "sending", "raised")
    /\ stream' = stream \o SubSeq(view.bytes, 1, n)
    /\ UNCHANGED <<offset, view, pipe, told>>

Return ==
    /\ Go("sendall", "loop", "returned") /\ view.bytes = <<>>
    /\ UNCHANGED <<offset, view, pipe, told, stream>>

-----------------------------------------------------------------------------
(* sendfile                                                                *)

\* What _sock_sendfile_native asks for next: the part that is left.
Block == IF data = <<>> THEN 0 ELSE data[Len(data)] - offset

\* The first splice: no more than the call asks for and the pipe holds.
FileToPipe ==
    /\ Go("sendfile", "loop", "f2p") /\ Block > 0
    /\ pipe' = [i \in 1 .. Least(Block, PipeSize) |-> offset + i]
    /\ UNCHANGED <<offset, view, told, stream>>

\* SendfileOperation.operate: only the CQE that finds p2s_done sets the result.
Operate(f2pRes, p2sRes) == p2sRes

\* The second splice; what is left in the pipe is lost when mark_seen closes it, and
\* _sock_sendfile_native does not look at the result.
PipeToSocket(n) ==
    /\ Go("sendfile", "f2p", "loop") /\ n <= Len(pipe) /\ (ShortSplice \/ n = Len(pipe))
    /\ stream' = stream \o SubSeq(pipe, 1, n) /\ pipe' = <<>>
    /\ told' = told + Operate(Len(pipe), n)
    /\ offset' = offset + Block
    /\ UNCHANGED view

\* Either splice fails, and so does the future.
SpliceFails ==
    /\ Go("sendfile", "loop", "raised") \/ Go("sendfile", "f2p", "raised")
    /\ Block > 0
    /\ UNCHANGED <<offset, view, pipe, told, stream>>

SendfileReturns ==
    /\ Go("sendfile", "loop", "returned") /\ Block <= 0
    /\ UNCHANGED <<offset, view, pipe, told, stream>>

-----------------------------------------------------------------------------
Next ==
    \/ Send \/ Return \/ FileToPipe \/ SpliceFails \/ SendfileReturns
    \/ \E n \in 1 .. Len(view.bytes) : SendEnds(n)
    \/ \E n \in 0 .. Len(view.bytes) : SendRaises(n)
    \/ \E n \in 1 .. PipeSize : PipeToSocket(n)

Spec == Init /\ [][Next]_vars

\* The peer gets the bytes to be sent in order, none twice and none left out before
\* others, also when a later send fails or is cancelled; the futures have reported what
\* the kernel took; and sock_sendall returns only when that is everything.
SentInOrder ==
    /\ Len(stream) <= Len(data) /\ stream = SubSeq(data, 1, Len(stream))
    /\ step # "raised" => told = Len(stream)
    /\ job = "sendall" /\ step = "returned" => stream = data

\* sock_sendfile returns when the part of the file asked for has been sent.
SendfileIsComplete == job = "sendfile" /\ step = "returned" => stream = data
=============================================================================
