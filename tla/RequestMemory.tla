---------------------------- MODULE RequestMemory ---------------------------
(***************************************************************************)
(* The memory behind one request of uringloop: what the prep functions of  *)
(* lib.py let the kernel point to, which Python objects keep it alive, a   *)
(* user who drops or resizes a buffer and drops or cancels the future, and *)
(* the socket address that goes to or comes from the kernel.               *)
(*                                                                         *)
(* A pointer stored in a C struct keeps nothing alive: only a field of a   *)
(* Python object does.  An export of a buffer, by ffi.from_buffer or       *)
(* memoryview, keeps it from being resized.  Proactor shows that the table *)
(* has the entry of a request until its CQE is handled.                    *)
(***************************************************************************)
EXTENDS SockAddr

VARIABLES
    kind,       \* the request
    stage,      \* "call", "queued", "kernel", "completed", "handled"
    holds,      \* who is alive: "user" (of the buffer), "future", "frame", "entry", "cancel"
    cancelled,  \* the future is cancelled
    moved,      \* the buffer has been resized since its address was taken
    addr,       \* the address the caller gave, or the peer has; NoAddr for a kind without
    seen        \* the address the kernel, or the caller, sees; NoAddr before

vars == <<kind, stage, holds, moved, cancelled, addr, seen>>

NoAddr == [family |-> "none"]

Transfers == {"send", "write", "recv", "read"}
Datagrams == {"sendto", "recvfrom"}
Kinds == Transfers \cup Datagrams \cup {"accept", "connect"}
GivesAddress == {"connect", "sendto"}
GetsAddress == {"accept", "recvfrom"}

\* What the kernel dereferences between submission and completion.
PointedTo(k) ==
    CASE k \in Transfers -> {"bytes"}
      [] k \in Datagrams -> {"msghdr", "iovec", "bytes", "sockaddr"}
      [] k = "accept"    -> {"sockaddr", "addrlen"}
      [] k = "connect"   -> {"sockaddr"}

\* Mutant: the iovec is kept only by the msghdr that points to it.
RequestFieldsNoIovec(k) ==
    CASE k \in Transfers -> {"bytes", "export"}
      [] k \in Datagrams -> {"bytes", "sockaddr", "msghdr", "export"}
      [] k = "accept"    -> {"sockaddr", "addrlen"}
      [] k = "connect"   -> {"sockaddr"}

\* The fields of a request after its prep function: _buffer_cdata and _iov_base are
\* exports.
RequestFields(k) ==
    CASE k \in Transfers -> {"bytes", "export"}
      [] k \in Datagrams -> {"bytes", "sockaddr", "msghdr", "iovec", "export"}
      [] k = "accept"    -> {"sockaddr", "addrlen"}
      [] k = "connect"   -> {"sockaddr"}

\* The fields of an operation; send() gives it a memoryview of the buffer.
OperationFields(k) ==
    CASE k \in {"send", "write"} -> {"bytes", "export"}
      [] k \in {"recv", "read"}  -> {"bytes"}
      [] k \in Datagrams         -> {"bytes", "sockaddr"}
      [] OTHER                   -> {"sockaddr"}

\* A table entry has the request and the operation, a future the operation, the entry of
\* a cancellation the operation only.
HeldBy(h, k) ==
    CASE h = "user" -> {"bytes"}
      [] h \in {"frame", "entry"} -> RequestFields(k) \cup OperationFields(k)
      [] h \in {"future", "cancel"} -> OperationFields(k)

Alive == UNION {HeldBy(h, kind) : h \in holds}

-----------------------------------------------------------------------------
Init ==
    /\ kind \in Kinds /\ stage = "call" /\ moved = FALSE /\ cancelled = FALSE
    /\ holds = {"user", "frame"} /\ seen = NoAddr
    /\ addr \in IF kind \in GivesAddress \cup GetsAddress THEN Addresses ELSE {NoAddr}

\* _prep and submit: the entry takes over from the frame of the call, which returns the
\* future.
Submit ==
    /\ stage = "call" /\ stage' = "queued"
    /\ holds' = (holds \ {"frame"}) \cup {"entry", "future"}
    /\ UNCHANGED <<kind, moved, cancelled, addr, seen>>

Flush ==
    /\ stage = "queued" /\ stage' = "kernel"
    /\ UNCHANGED <<kind, holds, moved, cancelled, addr, seen>>

\* The kernel has read the address it was given, with the length it was given.
KernelCompletes ==
    /\ stage = "kernel" /\ stage' = "completed"
    /\ seen' = IF kind \in GivesAddress
               THEN KernelReads(addr.family, NewReadableSockaddr(addr), GetSockaddrSize)
               ELSE seen
    /\ UNCHANGED <<kind, holds, moved, cancelled, addr>>

\* _handle_cqe pops the entry, and _result parses the address the kernel has written.
HandleCqe ==
    /\ stage = "completed" /\ stage' = "handled"
    /\ holds' = holds \ {"entry"}
    /\ seen' = IF kind \in GetsAddress /\ ~cancelled
               THEN ParseAddr(addr.family, KernelWrites(addr)) ELSE seen
    /\ UNCHANGED <<kind, moved, cancelled, addr>>

\* fut.cancel() while the operation has not been seen, and the CQE of the cancellation.
Cancel ==
    /\ stage \in {"queued", "kernel", "completed"} /\ ~cancelled
    /\ holds' = holds \cup {"cancel"} /\ cancelled' = TRUE
    /\ UNCHANGED <<kind, stage, moved, addr, seen>>

CancelHandled ==
    /\ "cancel" \in holds /\ holds' = holds \ {"cancel"}
    /\ UNCHANGED <<kind, stage, moved, cancelled, addr, seen>>

\* The user drops the buffer or the future; the entry refers to the future, too.
UserDrops(what) ==
    /\ what \in {"user", "future"} /\ what \in holds
    /\ what = "future" => stage = "handled"
    /\ holds' = holds \ {what}
    /\ UNCHANGED <<kind, stage, moved, cancelled, addr, seen>>

\* bytearray.extend: BufferError while an export is alive.
UserResizes ==
    /\ "user" \in holds /\ stage # "call" /\ "export" \notin Alive
    /\ kind \notin {"accept", "connect"}
    /\ moved' = TRUE
    /\ UNCHANGED <<kind, stage, holds, cancelled, addr, seen>>

Next ==
    \/ Submit \/ Flush \/ KernelCompletes \/ HandleCqe \/ Cancel \/ CancelHandled
    \/ UserResizes
    \/ \E what \in {"user", "future"} : UserDrops(what)

Spec == Init /\ [][Next]_vars

-----------------------------------------------------------------------------
\* Whatever the user drops, resizes or cancels: everything the kernel can reach through a
\* queued or submitted request is kept alive by some Python object, and the buffer stays
\* where it was when its address was taken; when the request is over, its msghdr, iovec
\* and address length go at once, although the future or a cancellation still names its
\* operation, and the buffer can be resized again once these are gone, too.
MemoryFollowsRequest ==
    /\ stage \in {"queued", "kernel"} => PointedTo(kind) \subseteq Alive /\ ~moved
    /\ stage = "handled" =>
           /\ Alive \subseteq OperationFields(kind) \cup {"bytes"}
           /\ holds \subseteq {"user"} => Alive \subseteq {"bytes"}

\* What arrives of an address: the bytes of flowinfo, which the kernel has in network byte
\* order, are swapped; a path that is empty or begins with a NUL goes to the kernel with
\* all of sun_path, and comes back empty.  Everything else arrives as it is.
Arrived(a) ==
    CASE a.family = "inet"  -> a
      [] a.family = "inet6" -> [a EXCEPT !.flow = htons(a.flow)]
      [] a.family = "unix"  ->
             IF a.path # <<>> /\ a.path[1] # 0 THEN a
             ELSE [a EXCEPT !.path = IF kind \in GivesAddress
                                     THEN a.path \o Zeros(SunPath - Len(a.path)) ELSE <<>>]

\* The kernel connects or sends to the address the caller gave, and the caller is told the
\* address of the peer, but for flowinfo and for paths that are no names of files: port,
\* address, scope and the names of files arrive exactly, the others as Arrived says.
AddressesArrive == seen = NoAddr \/ seen = Arrived(addr)

\* parse_ipv6_addr, for an accept: the flowinfo the caller is told is that of the peer.
FlowinfoIsHostOrder ==
    stage = "handled" /\ kind = "accept" /\ ~cancelled /\ addr.family = "inet6"
        => seen.flow = addr.flow
=============================================================================
