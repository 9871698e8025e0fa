----------------------------- MODULE ChildWatch -----------------------------
(***************************************************************************)
(* Subprocesses in uringloop/loop.py: _make_subprocess_transport, the      *)
(* pidfd that _watch_child polls through io_uring, and its callback        *)
(* _child_exited, beside a user who closes the transport, code elsewhere   *)
(* that waits for children, and the closing of the loop.                   *)
(*                                                                         *)
(* _UnixSubprocessTransport, the proactor and the kernel are external.     *)
(***************************************************************************)
EXTENDS Sequences

VARIABLES
    child,      \* "running", "killed", "zombie" or "reaped"
    pidfd,      \* "none", "open" or "closed"
    poll,       \* the future of poll_add: "none", "pending", "done", "cancelled"
    ready,      \* callbacks: <<"child_exited">>, <<"process_exited", returncode>>
    returncode, \* what the transport knows: "none", "status" or "255"
    make,       \* where _make_subprocess_transport is, and after it its caller
    loop,       \* "open", "interrupted" (an exception left close()) or "closed"
    blocked     \* waitpid was called for a child that runs

vars == <<child, pidfd, poll, ready, returncode, make, loop, blocked>>

-----------------------------------------------------------------------------
(* _make_subprocess_transport and _watch_child.                            *)

Make(from, to) == make = from /\ make' = to /\ loop # "closed"

\* Mutant: the pidfd is closed as soon as the poll is queued.
WatchChildCloses ==
    /\ Make("start", "waiting") /\ pidfd' = "closed" /\ poll' = "pending"
    /\ UNCHANGED <<child, ready, returncode, loop, blocked>>

WatchChild ==
    /\ child # "reaped"
    /\ Make("start", "waiting") /\ pidfd' = "open" /\ poll' = "pending"
    /\ UNCHANGED <<child, ready, returncode, loop, blocked>>

\* pidfd_open or poll_add raises, outside the try: the child is on its own.
WatchChildRaises ==
    /\ Make("start", "unwatched") /\ pidfd' \in {"none", "open"}
    /\ UNCHANGED <<child, poll, ready, returncode, loop, blocked>>

\* The waiter ends: the pipes are connected, or SystemExit or KeyboardInterrupt is raised.
MakeReturns ==
    /\ Make("waiting", "returned") \/ Make("waiting", "interrupted")
    /\ UNCHANGED <<child, pidfd, poll, ready, returncode, loop, blocked>>

\* transp.close(): Popen.poll() reaps a child that has ended, or the child is killed.
CloseTransport ==
    child' = CASE returncode = "none" /\ child = "zombie"  -> "reaped"
               [] returncode = "none" /\ child = "running" -> "killed"
               [] OTHER -> child

\* Mutant: the transport is not closed.
MakeFailsUnclosed ==
    /\ Make("waiting", "ending")
    /\ UNCHANGED <<child, pidfd, poll, ready, returncode, loop, blocked>>

\* The pipes could not be connected, or the task was cancelled.
MakeFails ==
    /\ Make("waiting", "ending") /\ CloseTransport
    /\ UNCHANGED <<pidfd, poll, ready, returncode, loop, blocked>>

\* transp._wait() returns and the failure is raised, or the task is cancelled in it.
MakeRaises ==
    /\ returncode # "none" /\ Make("ending", "raised")
    /\ UNCHANGED <<child, pidfd, poll, ready, returncode, loop, blocked>>

MakeCancelledAgain ==
    /\ Make("ending", "abandoned")
    /\ UNCHANGED <<child, pidfd, poll, ready, returncode, loop, blocked>>

-----------------------------------------------------------------------------
(* The callbacks.                                                          *)

Callback(name) == ready # <<>> /\ Head(ready)[1] = name /\ loop # "closed"

\* os.waitpid: 255 stands for a status somebody else has read.
Waitpid ==
    /\ blocked' = (blocked \/ child \in {"running", "killed"})
    /\ child' = IF child = "zombie" THEN "reaped" ELSE child
    /\ ready' = Append(Tail(ready),
                       <<"process_exited", IF child = "reaped" THEN "255" ELSE "status">>)

\* Mutant: no check of fut.cancelled().
ChildExitedUnchecked ==
    /\ Callback("child_exited") /\ pidfd' = "closed"
    /\ Waitpid
    /\ UNCHANGED <<poll, returncode, make, loop>>

\* Mutant: ChildProcessError is not caught.
ChildExitedRaises ==
    /\ Callback("child_exited") /\ pidfd' = "closed"
    /\ IF poll = "cancelled" \/ child = "reaped"
       THEN ready' = Tail(ready) /\ UNCHANGED <<child, blocked>> ELSE Waitpid
    /\ UNCHANGED <<poll, returncode, make, loop>>

\* _child_exited
ChildExited ==
    /\ Callback("child_exited") /\ pidfd' = "closed"
    /\ \/ poll = "cancelled" /\ ready' = Tail(ready) /\ UNCHANGED <<child, blocked>>
       \/ poll = "done" /\ Waitpid
    /\ UNCHANGED <<poll, returncode, make, loop>>

\* transp._process_exited
ProcessExited ==
    /\ Callback("process_exited")
    /\ returncode' = Head(ready)[2] /\ ready' = Tail(ready)
    /\ UNCHANGED <<child, pidfd, poll, make, loop, blocked>>

-----------------------------------------------------------------------------
(* The kernel, the user, other code of the program, and the loop.          *)

ChildExits ==
    /\ child \in {"running", "killed"} /\ child' = "zombie"
    /\ UNCHANGED <<pidfd, poll, ready, returncode, make, loop, blocked>>

\* os.wait() elsewhere, or SIGCHLD ignored.
ReapedElsewhere ==
    /\ child = "zombie" /\ child' = "reaped"
    /\ UNCHANGED <<pidfd, poll, ready, returncode, make, loop, blocked>>

PollCompletes ==
    /\ poll = "pending" /\ child \in {"zombie", "reaped"} /\ loop # "closed"
    /\ poll' = "done" /\ ready' = Append(ready, <<"child_exited">>)
    /\ UNCHANGED <<child, pidfd, returncode, make, loop, blocked>>

UserCloses ==
    /\ Make("returned", "closed") /\ CloseTransport
    /\ UNCHANGED <<pidfd, poll, ready, returncode, loop, blocked>>

\* close() of the loop: the proactor cancels the poll, then all callbacks are dropped;
\* an exception in between leaves them in the queue of a loop that is not closed.
LoopCloses ==
    /\ loop # "closed" /\ poll # "none"
    /\ poll' = IF poll = "pending" THEN "cancelled" ELSE poll
    /\ \/ loop' = "closed" /\ ready' = <<>>
       \/ /\ loop' = "interrupted"
          /\ ready' = IF poll = "pending" THEN Append(ready, <<"child_exited">>) ELSE ready
    /\ UNCHANGED <<child, pidfd, returncode, make, blocked>>

-----------------------------------------------------------------------------
Init ==
    /\ child = "running" /\ pidfd = "none" /\ poll = "none" /\ ready = <<>>
    /\ returncode = "none" /\ make = "start" /\ loop = "open"
    /\ blocked = FALSE

Next ==
    \/ WatchChild \/ WatchChildRaises \/ MakeReturns \/ MakeFails
    \/ MakeRaises \/ MakeCancelledAgain
    \/ ChildExited \/ ProcessExited
    \/ ChildExits \/ ReapedElsewhere \/ PollCompletes \/ UserCloses \/ LoopCloses

Spec == Init /\ [][Next]_vars

RunCallback == ChildExited \/ ProcessExited

KilledChildExits == child = "killed" /\ ChildExits

\* The loop runs callbacks and resumes tasks, the kernel completes the poll of a child
\* that has ended, and a killed child ends.  A child that is not killed need not end.
Fairness ==
    /\ WF_vars(RunCallback) /\ WF_vars(MakeRaises)
    /\ WF_vars(PollCompletes) /\ WF_vars(KilledChildExits)

-----------------------------------------------------------------------------
\* waitpid never blocks the loop: when _child_exited calls it, the child has ended.
WaitpidNeverBlocks == ~blocked

\* The pidfd is open as long as the kernel may poll it, and closed once the poll is over
\* and its callback has run.
PidfdFollowsPoll ==
    /\ poll = "pending" => pidfd = "open"
    /\ poll \in {"done", "cancelled"} /\ loop # "closed" /\ pidfd = "open"
           => ready # <<>> /\ Head(ready)[1] = "child_exited"

\* A child that has ended is reported, whoever waits for it, unless the loop is closed.
ExitIsReported ==
    (poll # "none" /\ child \in {"zombie", "reaped"}) ~> (returncode # "none" \/ loop # "open")

\* A call whose pipes failed comes to its end and leaves no child: the child is killed,
\* polled, waited for and reported, and only then the failure is raised.
FailedMakeEnds ==
    /\ make = "ending" ~> (make # "ending" \/ loop # "open")
    /\ [](make = "raised" => child = "reaped")
=============================================================================
