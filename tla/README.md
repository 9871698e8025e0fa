# A TLA+ verification of uringloop

uringloop is an asyncio event loop for Linux whose proactor is built on io_uring.
This directory models the parts of it that keep state shared with the kernel,
model-checks them with TLC and proves with TLAPS, for every value of the constants, all
safety properties that the runs find to hold. Source paths below are relative to the
repository.

## The system

| Component | State | Operations | Interacts with |
|---|---|---|---|
| **Proactor** (`uringloop/proactor.py`, `IoUringProactor`) | `_cache` (user_data to operation, future and request), `_results`, `_stopped_serving`, the key counter | `recv` ... `connect`, `sendfile`, `poll_add`, `cancel_operation`, `select`, `_poll`, `_handle_cqe`, `_stop_serving`, `close` | called by the event loop; owns the submitter; completes futures |
| **Submitter** (`_ProactorSubmit`) | `_unsubmitted`, `_pending_submit`, the ring's submission queue | `_get_sqe`, `ensure_capacity`, `_prep`, `submit`, `flush` | writes into the proactor's `_cache`; calls liburing |
| **Futures** (`_IoUringFuture`) | the asyncio future, its operation | `cancel` | asks the proactor for an ASYNC_CANCEL before it is cancelled itself |
| **Operations** (`uringloop/operation.py`) | which CQEs were seen; for sendfile two linked splices and a pipe | `get_user_data`, `mark_seen`, `all_seen`, `operate` | driven by `_handle_cqe` |
| **Requests** (`uringloop/request.py`) | buffers, sockaddr, msghdr that the kernel reads and writes | none | kept alive by `_cache` until their CQE |
| **liburing wrappers** (`uringloop/lib.py`) | none | queue calls, `io_uring_prep_*`, socket address conversions | kernel |
| **Event loop** (`uringloop/loop.py`) | self-pipe reading future, transports, child watches | `sock_sendall`, unix connections and servers, subprocesses, write pipes | asyncio; calls the proactor |
| **Native ring** (`src/uringcore_liburing.c`) | a doubly linked list of requests, `pending`, `prepared`, `generation`, reference counts | `prepare_nop`, `submit`, `reap`, `close`, `__init__`, `__enter__`, `__exit__` | kernel; Python signal handlers |
| Policy, logging, types, build | none of their own | | |

All Python code of the loop runs in one thread. What makes it hard:

- the kernel completes requests at any time and in any order, also while a loop over
  the table is running, after a future was cancelled and before a cancellation arrives;
- the kernel works on memory that only the table keeps alive;
- submission is deferred and batched, so that a call may have to flush in the middle
  (full queue), and a flush may take a part of the queue or fail;
- a sendfile is two linked requests with two completions, one future and one pipe;
- `select`, `_stop_serving` and `close()` can be left by an exception at several points;
- the asyncio base classes were written for Windows: they expect writes that are never
  short, and a descriptor is closed while its requests may still be in the queue;
- threads wake the loop through a pipe whose read is itself a request, cancelled and
  restarted with every `run_forever`;
- in the C extension, an interrupted system call runs signal handlers, which may call
  the same ring again, close it or reinitialise it.

What makes each component correct:

- **Proactor**: a completion reaches the operation it belongs to and no other; every
  request the kernel may touch is pinned; no table entry, pending future or pipe is
  forgotten; a done future is final; `_stop_serving` is exact; `close()` ends and leaves
  nothing behind.
- **Submitter**: no queued entry is lost or sent late; linked entries go together; the
  queue is never overrun.
- **Native ring**: the list is exactly what the kernel has; references and counters add
  up; a terminal state is final.
- **Event loop**: no wakeup of another thread is lost; every byte is sent once and in
  order; a hang-up and the end of a child are reported; no descriptor is closed while a
  request for it waits to be submitted; a call that fails leaves no child.
- **liburing wrappers**: the kernel sees the address the caller gave and the caller the
  one the kernel wrote; all memory a request points to is kept by the request.

The field `hazards` of `PROJECT.json` lists, line by line, what can go wrong and is
hard to test, with the properties that would notice.

## Modules

| Module | Content |
|---|---|
| `Proactor` | proactor, submitter, futures and operations, with an external kernel; properties at the end |
| `MCProactor` | TLC instances of it, with the symmetry of files |
| `ProactorProofs` | lemmas on sequences and on the operators of `Proactor`; type correctness |
| `OwnershipProofs` | unique keys, pinned requests, no forgotten entry; the refinement of `RequestLife` |
| `FutureProofs` | futures, cancellations, pipes, submission, close and linked splices |
| `NativeRing`, `MCNativeRing` | the C extension, and its TLC instance |
| `NativeRingProofs` | all its properties, and its refinement of `RequestLife` |
| `RequestLife`, `RequestLifeProofs` | what both rings promise about a request, and a proof that the promise keeps memory alive |
| `ProactorLife`, `NativeLife` | the refinement mappings from `Proactor` and from `NativeRing` to it |
| `RequestMemory` | which Python objects keep alive what a request points to, and the address it carries |
| `SockAddr` | conversions of socket addresses, byte by byte: operators only, used by `RequestMemory` |
| `Transfer` | byte counts: `sock_sendall`, and `sendfile` with a bounded pipe under the event loop's loop |
| `SelfPipe` | `run_forever`, the self-pipe and other threads |
| `WritePipe` | the write-pipe transport with its poll |
| `SelfPipeProofs`, `WritePipeProofs` | the safety properties of these two |
| `ChildWatch` | subprocesses, pidfd and `_child_exited` |
| `UnixConnection`, `UnixServer` | `create_unix_connection`, `create_unix_server` |
| `MCCalls` | one TLC instance for `Transfer`, `RequestMemory`, `UnixServer`, `UnixConnection` and `ChildWatch` |
| `CallsProofs` | the safety properties of these five, and the inductive invariant of each |

Definitions whose comment begins with "Mutant" are faulty versions of the definition
that follows them. No specification uses them; each replaces that definition in a
mutation run, which shows that a property can fail (field `mutants` of `PROJECT.json`).

### Proactor

| Model | Code |
|---|---|
| `cache` | `_cache`; `fut = FALSE` is the entry of a cancellation, whose future is `None` |
| `ops[o]` | an operation with its future: `seen` is `cqe_received` / `f2p_done`, `p2s_done`; `pipes` is `pipes_closed` |
| `sq`, `slots` | SQEs handed out and not submitted; what the slots of the queue hold |
| `inflight`, `cq` | the kernel's requests and the CQEs not yet seen |
| `pc`, `closing`, `todo` | where the thread is: between calls, in a wait of `_poll`, draining, in `_stop_serving`, in one of the loops of `close()`; the copied values still to visit |
| `hit`, `succeeded` | history, for properties only: requests found by a cancellation, and CQEs with `res >= 0` |

A call that neither waits nor iterates is one action: starting an operation includes
drawing the key, making room (with a flush, if the queue is full), filling the SQE,
registering it and setting `_pending_submit`. Where such a call can raise there is a
second action with what has happened by then (`StartRaises`, `StartPrepFails`,
`UserCancelRaises`, `CqeOfStoppedRaises`, ...). `_unsubmitted` is empty between calls
and has no variable. `_poll` is a flush, then one action per CQE; `_handle_cqe` has an
action for each of its branches. Operations with one CQE differ only in data, which is
abstracted; accepts are kept apart because their result is a descriptor. Of a CQE's
`res` the model keeps whether it is negative, and for a cancellation ENOENT.

The loop of `flush()` is one step with several outcomes: it returns with the queue empty,
after one `io_uring_submit` or (`OnceOrInParts`) after one that took a part and others
that took the rest, or it raises with a part submitted. `faults` counts the submissions
that failed or took only a part.

The kernel takes what `io_uring_submit` gives it, may complete a request at any time,
with or without success, and executes cancellations at any time. A pipe-to-socket
splice completes only when the pipe has data or a cancellation found it: the splices
are hard-linked, so it is started even if the first one failed, and the process itself
holds the write end of the pipe. Two splices that went to the kernel in different
submissions are not linked: the first may move data (`MoveUnlinked`) and be overtaken by
the second, whose CQE then comes first. The completion queue is unbounded.

### NativeRing

The extension holds the GIL, so a call is atomic except at `PyErr_CheckSignals`. `stack`
holds the interrupted calls with the generation they noted and, for `reap`, the requests
they have completed. While it is non-empty every method may be called by a handler, and
may be interrupted in turn. `refs` is `ob_refcnt`, and `userRefs` the references that
Python code has; `broken` collects the conditions for which the code raises
`SystemError`, and system calls on a closed ring.

### RequestLife

The abstract specification: a request is queued, then with the kernel, then completed,
then gone, under a key drawn once, and its owner drops its memory only when it has
completed, or with the whole ring. One call of the owner may queue, submit and consume
several requests at once, because the code does. `ProactorLife` maps keys to
`user_data` and `held` to the table; `NativeLife` maps keys to requests and `held` to the
list of the ring. `ImplementsLife` is the full abstract `Spec`, so every step of the code is
a step the promise allows, or none. The extension alone may give up (`MayGiveUp`):
`close()` releases the ring with requests in it, where the proactor waits for them.
The promise does not say when something must complete; `proactor_live` does.

### The event loop

The modules of `uringloop/loop.py` are separate because the parts share no state
but the queue of the loop. Each has an external asyncio base class, kernel and proactor;
of the proactor they use what `Proactor` establishes: `select` submits what is queued
before it waits, and a CQE completes its future at most once. (One `select` may differ,
see Restrictions.)

| Model | Code |
|---|---|
| `SelfPipe!ready`, `ntodo` | `_ready` and the `ntodo` of `_run_once`; a handle is work of a thread or `_loop_self_reading(f)` |
| `SelfPipe!selfFut`, `fut` | `_self_reading_future`, and all reads ever started, so that old ones can still take a byte |
| `SelfPipe!Setup`, `Cleanup` | `_run_forever_setup`, `_run_forever_cleanup`, as a base class of CPython 3.13 calls them |
| `WritePipe!readFut`, `pollFut` | `_read_fut`, and the future of `poll_add` it names |
| `WritePipe!queued`, `todo` | requests not yet submitted; callbacks of this iteration: both matter because `connection_lost` closes the descriptor |
| `ChildWatch!make` | where `_make_subprocess_transport` is: waiting for the pipes, ending after a failure, returned, raised |
| `ChildWatch!LoopCloses` | `close()` of the proactor cancels the poll, and `close()` of the loop drops all callbacks |
| `UnixServer!arg`, `st` | the arguments of each call, and how it ended: `invalid` is a path that cannot be looked up, `refused` a `bind` refused for another reason than EADDRINUSE, `unserved` a `listen` that failed |
| `UnixServer!node` | what the path names: nothing, a regular file, an unserved socket, or the socket of a call |
| `UnixConnection!req`, `runnable` | the connect request, and whether the task's step is due in this iteration |

### RequestMemory, SockAddr, Transfer

`RequestMemory` gives for each kind of request the objects the kernel dereferences and
the fields that keep them; a pointer inside a C struct keeps nothing. Exports of a buffer
are kept apart from the buffer, because they also keep it from being resized. `SockAddr`
has the functions of `lib.py` as operators over bytes of `Base` values, two of them to a
word, on a little-endian host, and the kernel's own reading of a struct as the reference.
A `connect` or `sendto` carries an address through them to the kernel, an `accept` or
`recvfrom` from the kernel to the caller. `Transfer` numbers the bytes, so that a gap or
a repetition shows.

`MCCalls` has the variables of these and of `UnixServer`, `UnixConnection` and
`ChildWatch`. They share no state, so its initial state picks one of them and leaves the
others idle: the run is the union of five small ones.

## Runs

| Run | Instance | Shows |
|---|---|---|
| `proactor_core` | 2 operations (`io`, `sendfile`), 2 slots, 1 file, 1 failed or partial submission | nine invariants, below, and `RequestLife` implemented |
| `proactor_stop` | 2 operations (`accept`, `sendfile`) on 2 sockets, 1 failed or partial submission, prep functions may raise | a stopped socket is silent, stopping is exact, no orphaned future, no false success |
| `proactor_prep` | the operations of core, prep functions may raise, one key more | `DoneIsFinal` |
| `proactor_live` | 2 operations of one CQE, fairness | `CancelReleases`, `CloseEnds` |
| `native_ring` | 4 requests, 2 slots, 2 nested interruptions, 1 reinitialisation | ownership, references, counters, finality, and `RequestLife` implemented |
| `self_pipe` | 2 threads, 3 calls, 3 runs of the loop, fairness | no lost wakeup, one reader, work is run |
| `write_pipe` | 4 bytes in writes of every size, fairness | three properties, below |
| `calls` | transfers of 5 bytes, every kind of request and address, 3 racing servers, every connection, 1 child with fairness | nine properties, below |
| `sendfile_cancel` | 1 sendfile, fairness | **violated**: `CancelReleases` |
| `stale_sqe` | 2 operations, prep functions may raise | **violated**: `UniqueUserData` |
| `flowinfo` | every kind of request, bytes of 2 values | **violated**: `FlowinfoIsHostOrder` |
| `sendfile_large` | a file of 3 bytes, a pipe of 2 | **violated**: `SendfileIsComplete` |

`proactor_core` checks that keys are unique (`UniqueUserData`), that requests are pinned
and none is forgotten (`RequestsPinned`, `NothingForgotten`), that pipes are closed with
the second splice and neither before nor never (`PipesFollowSplices`), that cancellations
hit only what was cancelled (`OnlyCancelledAreHit`), that the thread never sleeps over
unsent entries (`SleepsOnlyWhenFlushed`), that linked entries stay together
(`LinkedTogether`), that a closed proactor is quiet (`ClosedIsQuiet`), and that all of
this implements the abstract specification (`ImplementsLife`). `proactor_stop` checks that
a stopped socket delivers nothing more (`StoppedNeverDelivers`), and that `_stop_serving`
cancels every future on it and no other (`StopServingIsExact`); also that a pending future
still has the request that will complete it (`PendingHasRequest`), and that a result means
success of the last request and, for a sendfile, that the first splice moved data
(`ResultsAreTrue`), although slots of raising prep functions are submitted with their old
contents and splices may lose their link. `proactor_prep` goes further with such slots:
with two of them the queue is full while CQEs are handled, and a cancellation raises there
(`CqeOfStoppedRaises`). It checks that a done future is final (`DoneIsFinal`).

`write_pipe` checks that the assertions of `_pipe_closed` and `_loop_writing` hold
(`AssertionsHold`), that when `connection_lost` closes the descriptor nothing is pending
on it or waiting to be submitted, and the kernel has the bytes in order up to some point,
after `close()` to the last, but for exactly those a short send reported as not taken,
which `_loop_writing` never writes (`LostIsTheEnd`), and that a hang-up is reported
(`HangUpIsReported`). `calls` checks that bytes are sent in order and counted right
(`SentInOrder`), that memory lives and stays in place as long as its request and no longer
(`MemoryFollowsRequest`), what becomes of an address on its way (`AddressesArrive`), which
calls leave the socket they opened open and which close it, and that none does while a
request for it is queued (`SocketsFollowCalls`), and that racing servers leave a path that
is served (`PathIsServed`); for a subprocess, that the loop never blocks in `waitpid`
(`WaitpidNeverBlocks`), that the pidfd lives exactly as long as its poll
(`PidfdFollowsPoll`), that the end of a child is reported whoever waits for it
(`ExitIsReported`), and that a failed call ends and leaves no child (`FailedMakeEnds`).

**Bounds.** `Entries = 2` makes the queue fill up with two calls and still fits a linked
pair; one sendfile and a cancellation already force a flush in the middle of a call. Two
operations give every pair of kinds and every order of their up to four completions and
their cancellations. `MaxUserData` bounds the keys drawn by calls; the loops of
`_stop_serving` and `close()` and the completion loop may go beyond it. One failed or
partial submission (`MaxFaults`) is enough to leave a part of the queue behind or to
unlink a pair; the instances of core and stop have 1.3 and 1.4 million states. The one of
prep, 1.5 million, has 5.3 million with a failed or partial submission, and `DoneIsFinal`,
`PendingHasRequest` and `ResultsAreTrue` pass there too. In `native_ring` two interrupted
calls are needed for a nested reap to complete what an outer one has not seen, and four
requests for requests in every state at once. In `self_pipe` three runs let a read
cancelled by the first take a byte meant for the second or third, and three calls let work
arrive before, during and after a read. In `write_pipe` four bytes give a pending send, a
buffered write behind it and one more; `MaxReady` bounds the callbacks that repeated
`abort()` calls would pile up. In `calls`, three servers let a third one bind the path
between another's removal and its bind, and one of them has any arguments; five bytes and
a pipe of three give transfers that fit and that do not; `SunPath = 3` gives names and
abstract names shorter than and as long as `sun_path`, and `Flows = {0, 1}` a flowinfo
that changes when its bytes are swapped. `ChildWatch` and `UnixConnection` have no
counters: their inputs are enumerated whole.

**Fairness** (`FairSpec`). The event loop keeps calling `select` and the calls under way
go on (`WF(LoopStep)`): asyncio's `_run_once` does so, and `close()` loops by itself. The
kernel executes queued cancellations, and completes a request a cancellation has found:
that is what IORING_OP_ASYNC_CANCEL promises. Nothing else is fair: no ordinary request
is ever bound to complete, no user call to be made, and the steps that raise are never
forced. In `SelfPipe` the threads go on once they have called, and the kernel completes
a read that has data; nobody need call `run_forever` or `stop`. In `WritePipe` and
`ChildWatch` the loop runs its callbacks and resumes its tasks, and the kernel reports a
closed read end to the poll and to every send, and the end of a child to its poll; the
peer need not read or close, and a child that is not killed need not end. Deadlock is
checked for `Proactor` and `NativeRing`; the other modules model calls that end, or
loops that may stop for good (`CHECK_DEADLOCK FALSE`).

**Violations.** These runs document where the code does not do what its comments and
documents say; the details are under `findings` in `PROJECT.json`.

- *Cancelled sendfile.* Cancelling only the first unfinished splice is not enough with
  hard links. The second splice never completes, and `close()` never returns.
- *Stale SQE.* A prep function that raises leaves its slot in the queue. The next
  submission sends the slot's old request again, under a key that may be in flight.
- *Flowinfo.* A comment takes `sin6_flowinfo` to be in host byte order, but the kernel
  keeps it in network byte order: an accept reports it with its bytes swapped.
- *Large sendfile.* The loop counts what it asked for, the pipe passes what it holds.

**Sockets left open.** `SocketsFollowCalls` says what the code does, and that is not
always to close. A call that opened a socket for its path and fails leaves it open when
`protocol_factory` or the constructor of the transport raises (`loop.py:114`), when the
path of a server is empty, so that `path[0]` raises IndexError (`:153`), or has a NUL in
it, so that `os.stat` raises ValueError (`:155`), when `listen` fails (`:187`), and when
the task is cancelled in `sleep(0)` (`:188`), where the server listens already. It is
closed, by the `except` clauses or by the transport, when `bind`, the connect or the
handshake fails or is cancelled. Nor does the code claim anything of the descriptor of an
accept whose future was cancelled or whose socket was stopped: nobody wraps or closes it.

**Restrictions.** Some passing runs hold under a restriction that the code does not
justify; without it TLC finds the property violated, or the model would have to follow
the code into undefined behaviour.

- `SelfPipe` assumes a base class that calls `_run_forever_setup` and
  `_run_forever_cleanup`, as from CPython 3.13 on. The package admits 3.12, where nothing
  would then read the self-pipe: the mutant `SetupForgets` is that case, and a loop that
  sleeps is not woken.
- `PidfdFollowsPoll` is about loops that are not closed. Closing the loop clears its
  queue of callbacks, and so drops the one that would close the pidfd.
- `ChildWatch` has no poll that ends with an error of the kernel. `_child_exited` does not
  look at the exception of the future, so `WaitpidNeverBlocks` is about polls that report
  the end of the child.
- After an exception in a wait, the next `select` finds `_results` not empty and returns
  them without submitting (`SelectSkipsPoll` of `Proactor`). `SelfPipe`, `UnixConnection`
  and `WritePipe` leave out this one call. In the first two it changes nothing that is
  claimed: it does not sleep, and the next call, before which nothing more than callbacks
  is run, submits; a connect is queued by such a callback, and so waits for that next
  call in any case. In `WritePipe` it would matter for a program that catches the
  exception of `run_forever`, writes to a pipe or aborts it, and runs the loop again:
  `connection_lost` may then be run before the queue is submitted.
- `Proactor` has no calls after `close()`. `_check_closed`, which would refuse them, has
  no caller.

## Proofs

Every invariant and every action property of a passing run is a theorem, for every value
of the constants. The field `theorems` of `PROJECT.json` lists them. Each follows the
same argument: an inductive invariant holds initially and is kept by each action, and
implies the property. What differs is why the property is not inductive by itself.

| Module | Invariant | Theorems |
|---|---|---|
| `ProactorProofs` | `TypeOK` | `TypeCorrect` |
| `OwnershipProofs` | `OwnershipInv` | `KeysUnique`, `RequestsStayPinned`, `ProactorImplements` |
| | `NothingForgotten` | `NothingIsForgotten` |
| `FutureProofs` | `OperationInv` | `PendingStaysAttached`, `ResultsStayTrue`, `CancelsStayAimed`, `StopServingStaysExact`, `PipesFollow` |
| | `SubmitInv` | `SleepsFlushed`, `CloseStaysQuiet` |
| | `TypeOK` | `DoneStaysDone`, `StoppedStaysSilent` |
| | `LinkedTogether`, `OperationInv` | `LinkedStayTogether` |
| `RequestLifeProofs` | `Promise` | `PromiseKept` |
| `NativeRingProofs` | `RingInv` | `RingTypes`, `RingOwnsWhatKernelHas`, `RingReferences`, `WalkIsRight`, `RingNeverBroken`, `ClosedIsDone`, `TerminalStaysFinal`, `NativeImplements` |
| `SelfPipeProofs` | `PipeInv` | `ReaderIsOne`, `WakeupsArrive` |
| `WritePipeProofs` | `PipeInv`, `DataInv` | `AssertionsNeverFail`, `LostStaysTheEnd` |
| `CallsProofs` | one for each part | `WaitpidReturns`, `PidfdIsOpen`, `RaisedLeavesNoChild`, `SocketsStayWithCalls`, `PathStaysServed`, `MemoryStaysInPlace`, `SendsStayInOrder`, `AddressesStayExact` |

**Assumptions.** The modules assume of their constants only that bounds are natural
numbers, flags Booleans, `Entries`, `SunPath` and the base of a byte positive, a flowinfo
a word, `Kinds` among the three kinds, and that what a path names before the calls of
`UnixServer` is the socket of none of them. Some theorems about `Proactor` assume more,
and TLC shows that they have to: `~PrepErrors` in `KeysUnique`, `RequestsStayPinned`,
`PipesFollow`, `SleepsFlushed`, `CloseStaysQuiet`, `LinkedStayTogether` and
`ProactorImplements`. A prep function that raises leaves its slot with the old request,
which is sent again (`stale_sqe`), under a key that may be in use. In the instance of
`proactor_prep`, TLC finds every one of these properties violated. The other theorems
about `Proactor` include such functions.

**Types.** Beyond types, `TypeOK` of `Proactor` says that the queue never holds more than
its slots, that each table entry names a started operation, and that the copies walked by
`_stop_serving` and `close()` only hold entries still in the table. Each operator has a
typing lemma (`PrepType`, `NoRoomType`, `FlushType`, `CancelFutureType`, ...) and each
group of actions one lemma built on them.

**Ownership.** Neither `UniqueUserData` nor `RequestsPinned` is inductive: popping the
entry of a CQE unpins no request only because no queued or submitted request has the key
of that CQE, and a new key is fresh only because all keys in the table and in the
completion queue were drawn before. `OwnershipInv` joins these facts. It is written with
its five parts as parameters (`Own(s, t, c, q, n)`), so that submitting, adding, popping,
consuming and completing are each a lemma on constants (`OwnSubmit`, `OwnAdd`, `OwnPop`,
`OwnSeen`, `OwnPost`), and a step of the proactor composes them. `ProactorImplements`
uses the same lemmas for the abstract step: what is pinned is held, and a key is fresh in
`RequestLife` because it is in none of the five parts. `NothingForgotten` is inductive
with `TypeOK` alone, since an entry is only made for an SQE just queued and only popped
by a CQE; it includes every kind of failure.

**Operations.** `OperationInv` says what a slot, a queue or the kernel can hold at all
(`MeantSqes`): a request of an operation under its key, or the cancellation of an
operation whose future is not pending, aimed at a second splice only after the first was
seen. That is what makes stale slots harmless for futures: what is sent a second time is
still meant for the same operation. It joins that to the table, which has a key exactly
until `mark_seen`, to what the CQEs of the two splices report, in either order, and to the
data in the pipe: a second splice only succeeds when the first has moved some, and then
the first is bound to report success. `PendingHasRequest`, `ResultsAreTrue`,
`OnlyCancelledAreHit` and `PipesFollowSplices` follow from it; `StopServingIsExact` needs
its part about the loop of `_stop_serving` (`WalkInv`): whatever is still pending on a
stopped socket is still to be visited. `StepMoves` shows from `TypeOK` alone how a step
may move each future (`FutureMoves`): only a pending one is settled, and on a stopped
socket only by cancelling it. `SubmitInv` adds that the pending flag is up while the queue
holds anything, also after a flush that failed; `ClosedIsQuiet` needs it together with
`OperationInv` and `RequestsPinned`.

**The abstract specification.** `Promise` says that everything queued or with the kernel
is held, that nothing is held for a request that is over, and that the stages are
disjoint. It is inductive as it stands; `OwnerKeeps`, `KernelKeeps` and `GiveUpKeeps` are
its cases. With `ProactorImplements` and `NativeImplements` it gives a second,
independent account of `RequestsPinned` and of `OwnsWhatKernelHas`.

**The C extension.** `RingInv` says where each request is (`Places`), that its state tells
so (`States`), that the counters count (`Counts`), what interrupted calls have completed
(`Frames`) and who has the references (`References`). The walk in `submit` marks the right
requests only because list and queue are both in the order of allocation: `Places` has
both increasing, and a lemma shows that an increasing sequence is determined by its
elements. The walk is a recursive function over the list; what it returns is shown by
induction through the least counterexample (`Least`), for the library's induction
theorems take an operator as a parameter. A reap that was interrupted may resume in a
ring that was closed, or closed and opened again, meanwhile; `Frames` says that what it
had completed is no longer in the list, so nothing is unlinked or released twice.

**The self-pipe.** A sleeping loop is woken only because a read is under way and
submitted. `Reading` says that in a running loop the first read is due, or a read is over
and its callback is due, or a read is on its way; `Sleeping` that a loop that waits has
submitted its read and that work has left a byte, a CQE or a thread about to write.

**Write pipes.** `PipeInv` follows the callbacks in the queue: a `_loop_writing` is for
the current send, which is over, or for a transport closed by force, and `connection_lost`
is scheduled when no send is current and runs in a later iteration than it was scheduled,
so that a `select` submits before the descriptor is closed. `DataInv` adds that stream,
pending send and buffer are consecutive stretches of what was written, up to what earlier
sends reported as not taken.

**Calls.** `ChildInv` says which callback can be in the queue for each state of the poll;
`ReapedInv` adds to it for a call whose pipes failed, and gives the safety part of
`FailedMakeEnds` (`RaisedLeavesNoChild`). `PathOK` says that a path once bound names the
socket of a call that bound it, or nothing where a call that removed what was there has
yet to bind, or was refused (`Owing`). `TransferInv` says that the
view, or the content of the pipe, is the stretch after what the peer has. `AddressInv` has
nothing but the address from the call to the kernel and back: the work is in lemmas on
the conversions of `SockAddr`, byte by byte, for every base and length.

**Only model-checked.** Liveness, because the prover handles neither fairness nor
`ENABLED`: `CancelReleases` and `CloseEnds` of `Proactor`, `WorkRuns` of `SelfPipe`,
`HangUpIsReported` of `WritePipe`, `ExitIsReported` and `FailedMakeEnds` of `ChildWatch`.
And the four violated properties, which are false.

## Not modelled

- Data other than addresses and byte counts; the text of reports. That the CQE of a
  cancellation may precede that of its target is modelled, the report it causes is not.
- Exceptions of `_result`, a `KeyboardInterrupt` outside the waits of `_poll`, overflow
  of the completion queue, allocation failures in the extension, `io_uring_queue_init`
  that fails.
- What an SQE prepared after `close()` does: the C library is then undefined.
- The two descriptors of `os.pipe()` in `sendfile`, when filling the first splice raises
  (`StartPrepFails`): no operation has them by then, and they are lost. That `os.pipe()`
  itself raises is modelled (`StartRaises`).
- A poll that ends with an error of the kernel, a self-pipe read that cannot be started,
  a socket that cannot be opened, a unix path longer than `sun_path`.
- Files that other programs put under the path of a unix server.
- Policy, package interface, logging, types and build: no behaviour of their own.

## Plan

The plan is carried out: each component with state is modelled, and what holds of it in
every state or step is proved. What could still be added:

- what is left of ownership when a prep function raises: a pinned entry for each request
  whose future is pending is proved (`PendingStaysAttached`), a bound on what a stale slot
  can send is not;
- one module that composes `Proactor` with the parts of the event loop, instead of stating
  in each what it uses of the proactor.
