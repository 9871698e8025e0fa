----------------------------- MODULE NativeRing -----------------------------
(***************************************************************************)
(* The native ring of src/uringcore_liburing.c: a Ring owns the requests   *)
(* it has prepared through a doubly linked list and one reference each,    *)
(* and puts their addresses in SQEs.                                       *)
(*                                                                         *)
(* The extension holds the GIL, so a call is atomic except where the       *)
(* kernel returns EINTR: PyErr_CheckSignals then runs Python signal        *)
(* handlers, which may call any method of the same ring, and be            *)
(* interrupted themselves.  stack holds the submit and reap calls that     *)
(* are interrupted in this way, innermost last.                            *)
(***************************************************************************)
EXTENDS Integers, Sequences, FiniteSets, SequencesExt

CONSTANTS
    SqEntries,      \* sq_entries of every ring
    MaxRequests,    \* bound: requests prepared
    MaxCompletions, \* max_completions of every reap call
    MaxDepth,       \* bound: interrupted calls at once
    MaxGeneration   \* bound: the ring is reinitialised while generation is below this

ASSUME RingAssumption ==
    /\ SqEntries \in Nat \ {0} /\ MaxCompletions \in Nat \ {0}
    /\ MaxRequests \in Nat /\ MaxDepth \in Nat /\ MaxGeneration \in Nat

VARIABLES
    initialized, generation,
    list,           \* request_head .. request_tail
    pending, prepared,
    made,           \* requests allocated so far; they are numbered 1 .. made
    state,          \* request -> its lifecycle state
    refs,           \* request -> its reference count
    userRefs,       \* request -> references Python code holds
    stack,          \* interrupted calls
    broken,         \* SystemErrors raised and system calls on a closed ring
    sq, inflight, cq    \* the ring in the kernel (external)

vars == <<initialized, generation, list, pending, prepared, made, state, refs, userRefs,
          stack, broken, sq, inflight, cq>>

Requests == 1 .. MaxRequests
Frame(call, got) == [call |-> call, generation |-> generation, got |-> got]

\* The done getter.
Done(r) == state[r] \in {"completed", "cancelled"}

-----------------------------------------------------------------------------
(* Preparing requests.                                                     *)

\* Mutant: the ring takes no reference of its own.
LinkWithoutReference(r) ==
    /\ list' = Append(list, r)
    /\ pending' = pending + 1 /\ prepared' = prepared + 1
    /\ refs' = [refs EXCEPT ![r] = 1]

\* Mutant: the request is linked at the head.
LinkAtHead(r) ==
    /\ list' = <<r>> \o list
    /\ pending' = pending + 1 /\ prepared' = prepared + 1
    /\ refs' = [refs EXCEPT ![r] = 2]

\* request_link, on a request that tp_alloc returned with one reference.
Link(r) ==
    /\ list' = Append(list, r)
    /\ pending' = pending + 1 /\ prepared' = prepared + 1
    /\ refs' = [refs EXCEPT ![r] = 2]

PrepareNop ==
    /\ initialized /\ made < MaxRequests /\ Len(sq) < SqEntries
    /\ LET r == made + 1
       IN  /\ Link(r)
           /\ state' = [state EXCEPT ![r] = "prepared"]
           /\ userRefs' = [userRefs EXCEPT ![r] = 1]
           /\ sq' = Append(sq, r)
           /\ made' = r
    /\ UNCHANGED <<initialized, generation, stack, broken, inflight, cq>>

\* Python drops a reference; at zero the request is freed.
DropReference(r) ==
    /\ userRefs[r] > 0
    /\ userRefs' = [userRefs EXCEPT ![r] = @ - 1]
    /\ refs' = [refs EXCEPT ![r] = @ - 1]
    /\ UNCHANGED <<initialized, generation, list, pending, prepared, made, state, stack,
                   broken, sq, inflight, cq>>

-----------------------------------------------------------------------------
(* submit()                                                                *)

\* The requests of l that are in T, in the order of l.
Select(l, T) ==
    LET part[i \in 0 .. Len(l)] ==
            IF i = 0 THEN <<>>
            ELSE IF l[i] \in T THEN Append(part[i - 1], l[i]) ELSE part[i - 1]
    IN  part[Len(l)]

PreparedInList(l) == Select(l, {r \in Requests : state[r] = "prepared"})

\* The first k prepared requests of the list.
ToMark(k) == {PreparedInList(list)[i] : i \in 1 .. k}

\* Walks the list after io_uring_submit took k entries.
MarkSubmitted(k) ==
    LET n == IF k <= Len(PreparedInList(list)) THEN k ELSE Len(PreparedInList(list))
    IN  /\ state' = [r \in Requests |-> IF r \in ToMark(n) THEN "submitted" ELSE state[r]]
        /\ prepared' = prepared - n
        /\ broken' = IF n = k THEN broken ELSE broken \cup {"submitted more than prepared"}

\* io_uring_submit with the calls in below still interrupted under this one: it takes
\* k entries, fails, or is interrupted.
SubmitOnce(below) ==
    \/ /\ ~initialized
       /\ broken' = broken \cup {"system call on a closed ring"}
       /\ stack' = below
       /\ UNCHANGED <<state, prepared, sq, inflight>>
    \/ /\ initialized
       /\ \E k \in 0 .. Len(sq) :
             /\ MarkSubmitted(k)
             /\ sq' = SubSeq(sq, k + 1, Len(sq))
             /\ inflight' = inflight \cup {sq[i] : i \in 1 .. k}
       /\ stack' = below
    \/ /\ initialized
       /\ \/ stack' = below
          \/ Len(below) < MaxDepth /\ stack' = Append(below, Frame("submit", {}))
       /\ UNCHANGED <<state, prepared, broken, sq, inflight>>

Submit ==
    /\ initialized
    /\ SubmitOnce(stack)
    /\ UNCHANGED <<initialized, generation, list, pending, made, refs, userRefs, cq>>

-----------------------------------------------------------------------------
(* reap()                                                                  *)

\* Mutant: a reaped request stays in the list.
UnlinkNothing(rs) == UNCHANGED <<list, pending>>

\* request_unlink of reaped requests: the ring's reference is dropped, the list
\* completed has taken one.
UnlinkAll(rs) ==
    /\ list' = Select(list, Requests \ rs)
    /\ pending' = pending - Cardinality(rs)

CompleteAll(rs) == state' = [r \in Requests |-> IF r \in rs THEN "completed" ELSE state[r]]

\* reap returns the list completed: its references are the caller's.
GiveToCaller(got) ==
    /\ userRefs' = [r \in Requests |-> IF r \in got THEN userRefs[r] + 1 ELSE userRefs[r]]
    /\ UNCHANGED refs

\* Mutant: reap raises and forgets to release the list completed.
LeakCompleted(got) == UNCHANGED <<refs, userRefs>>

\* reap raises: the list completed is dropped, and the completions in it not returned.
DropCompleted(got) ==
    /\ refs' = [r \in Requests |-> IF r \in got THEN refs[r] - 1 ELSE refs[r]]
    /\ UNCHANGED userRefs

\* The loop of reap, when got was reaped before and below is interrupted under the call:
\* it takes the first m CQEs, then ends, is interrupted or fails.
ReapLoop(below, got) ==
    \/ /\ ~initialized
       /\ broken' = broken \cup {"system call on a closed ring"}
       /\ stack' = below
       /\ UNCHANGED <<list, pending, state, refs, userRefs, cq>>
    \/ /\ initialized
       /\ \E m \in 0 .. Len(cq) :
          LET new == {cq[i] : i \in 1 .. m}
              n   == m + Cardinality(got)
          IN  /\ n <= MaxCompletions
              /\ cq' = SubSeq(cq, m + 1, Len(cq))
              /\ CompleteAll(new)
              /\ UnlinkAll(new)
              /\ broken' = IF \A r \in new : r \in ToSet(list) /\ state[r] = "submitted"
                           THEN broken ELSE broken \cup {"not a submitted request"}
              /\ \/ /\ m = Len(cq) \/ n = MaxCompletions
                    /\ stack' = below
                    /\ GiveToCaller(got \cup new)
                 \/ /\ n < MaxCompletions /\ Len(below) < MaxDepth
                    /\ stack' = Append(below, Frame("reap", got \cup new))
                    /\ UNCHANGED <<refs, userRefs>>
                 \/ /\ n < MaxCompletions
                    /\ stack' = below
                    /\ DropCompleted(got \cup new)

Reap ==
    /\ initialized
    /\ ReapLoop(stack, {})
    /\ UNCHANGED <<initialized, generation, prepared, made, sq, inflight>>

-----------------------------------------------------------------------------
(* ring_close_resources, by close(), __exit__, tp_dealloc and __init__.    *)

\* Mutant: only prepared requests are cancelled.
ReleasePrepared ==
    /\ state' = [r \in Requests |-> IF r \in ToSet(list) /\ state[r] = "prepared"
                                    THEN "cancelled" ELSE state[r]]
    /\ refs' = [r \in Requests |-> IF r \in ToSet(list) THEN refs[r] - 1 ELSE refs[r]]
    /\ list' = <<>> /\ pending' = 0 /\ prepared' = 0
    /\ sq' = <<>> /\ inflight' = {} /\ cq' = <<>>

\* Mutant: the requests an interrupted reap has completed are cancelled too.
ReleaseCompleted ==
    /\ state' = [r \in Requests |-> IF r <= made THEN "cancelled" ELSE state[r]]
    /\ refs' = [r \in Requests |-> IF r \in ToSet(list) THEN refs[r] - 1 ELSE refs[r]]
    /\ list' = <<>> /\ pending' = 0 /\ prepared' = 0
    /\ sq' = <<>> /\ inflight' = {} /\ cq' = <<>>

\* The kernel's ring goes away and every request of the list is cancelled.
ReleaseRequests ==
    /\ state' = [r \in Requests |-> IF r \in ToSet(list) THEN "cancelled" ELSE state[r]]
    /\ refs' = [r \in Requests |-> IF r \in ToSet(list) THEN refs[r] - 1 ELSE refs[r]]
    /\ list' = <<>> /\ pending' = 0 /\ prepared' = 0
    /\ sq' = <<>> /\ inflight' = {} /\ cq' = <<>>

\* close(), or an __init__ whose io_uring_queue_init_params fails.
Close ==
    /\ ReleaseRequests
    /\ initialized' = FALSE
    /\ generation' = IF initialized THEN generation + 1 ELSE generation
    /\ UNCHANGED <<made, userRefs, stack, broken>>

\* __init__ of a ring that may be open: the old one is closed first.
Reinit ==
    /\ generation < MaxGeneration
    /\ ReleaseRequests
    /\ initialized' = TRUE
    /\ generation' = IF initialized THEN generation + 2 ELSE generation + 1
    /\ UNCHANGED <<made, userRefs, stack, broken>>

-----------------------------------------------------------------------------
(* The signal handlers of the innermost interrupted call come to an end.   *)

Interrupted == stack # <<>>
Top         == stack[Len(stack)]
Below       == SubSeq(stack, 1, Len(stack) - 1)

\* Mutant: the call goes on without looking at the ring.
RingUnchangedAssumed == TRUE

RingUnchanged == initialized /\ generation = Top.generation

\* They return and the ring is the same: the system call is made again.
ResumeSubmit ==
    /\ Interrupted /\ Top.call = "submit" /\ RingUnchanged
    /\ SubmitOnce(Below)
    /\ UNCHANGED <<initialized, generation, list, pending, made, refs, userRefs, cq>>

ResumeReap ==
    /\ Interrupted /\ Top.call = "reap" /\ RingUnchanged
    /\ ReapLoop(Below, Top.got)
    /\ UNCHANGED <<initialized, generation, prepared, made, sq, inflight>>

\* A handler raises (at any time), or the ring changed under the call, or the repeated
\* system call fails: the call raises.
CallRaises ==
    /\ Interrupted
    /\ DropCompleted(Top.got)
    /\ stack' = Below
    /\ UNCHANGED <<initialized, generation, list, pending, prepared, made, state,
                   broken, sq, inflight, cq>>

-----------------------------------------------------------------------------
\* The kernel (external) completes a request, in any order.
KernelCompletes ==
    /\ \E r \in inflight : inflight' = inflight \ {r} /\ cq' = Append(cq, r)
    /\ UNCHANGED <<initialized, generation, list, pending, prepared, made, state, refs,
                   userRefs, stack, broken, sq>>

Init ==
    /\ initialized = TRUE /\ generation = 1
    /\ list = <<>> /\ pending = 0 /\ prepared = 0 /\ made = 0
    /\ state = [r \in Requests |-> "none"]
    /\ refs = [r \in Requests |-> 0] /\ userRefs = [r \in Requests |-> 0]
    /\ stack = <<>> /\ broken = {}
    /\ sq = <<>> /\ inflight = {} /\ cq = <<>>

Next ==
    \/ PrepareNop \/ Submit \/ Reap \/ Close \/ Reinit
    \/ \E r \in Requests : DropReference(r)
    \/ ResumeSubmit \/ ResumeReap \/ CallRaises
    \/ KernelCompletes

Spec == Init /\ [][Next]_vars

-----------------------------------------------------------------------------
(* Properties.                                                             *)

InKernel == ToSet(sq) \cup inflight \cup ToSet(cq)

\* The type invariant.
TypeOK ==
    /\ initialized \in BOOLEAN /\ generation \in Nat
    /\ list \in Seq(Requests) /\ pending \in Nat /\ prepared \in Nat
    /\ made \in 0 .. MaxRequests
    /\ state \in [Requests -> {"none", "prepared", "submitted", "completed", "cancelled"}]
    /\ refs \in [Requests -> Nat] /\ userRefs \in [Requests -> Nat]
    /\ stack \in Seq([call : {"submit", "reap"}, generation : Nat, got : SUBSET Requests])
    /\ broken \subseteq {"submitted more than prepared", "not a submitted request",
                         "system call on a closed ring"}
    /\ sq \in Seq(Requests) /\ inflight \subseteq Requests /\ cq \in Seq(Requests)

\* The ring's list holds exactly the requests whose address is in an SQE, in the kernel
\* or in a CQE, each once: none is lost, and none is kept that cannot complete.
OwnsWhatKernelHas ==
    /\ ToSet(list) = InKernel
    /\ Len(list) = Len(sq) + Cardinality(inflight) + Len(cq)
    /\ Cardinality(InKernel) = Len(list)

\* Reference counts add up: the ring, an interrupted reap and Python code account for
\* every reference, so a request is freed exactly when nobody uses it.
ReferencesAddUp ==
    \A r \in Requests :
        refs[r] = userRefs[r] + (IF r \in ToSet(list) THEN 1 ELSE 0)
                  + Cardinality({i \in 1 .. Len(stack) : r \in stack[i].got})

\* The prepared requests of the list, in order, are those in the submission queue: the
\* walk of submit() marks the requests that io_uring_submit took, and no others; and
\* pending and prepared count the list, across interrupted and nested calls.
WalkMarksTheRightOnes ==
    /\ PreparedInList(list) = sq
    /\ \A r \in inflight \cup ToSet(cq) : state[r] = "submitted"
    /\ pending = Len(list) /\ prepared = Len(sq)

\* No SystemError is raised, and no system call is made on a ring that was closed while
\* the call was interrupted.
NeverBroken == broken = {}

\* After the ring is closed no request is left prepared or submitted: each is done, even
\* if a reap that completed it was interrupted.
ClosedLeavesAllDone == ~initialized => \A r \in 1 .. made : Done(r)

\* A terminal state is final: closing the ring does not cancel what has completed.
TerminalIsFinal == [][\A r \in Requests : Done(r) => state'[r] = state[r]]_vars

=============================================================================
