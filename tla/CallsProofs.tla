----------------------------- MODULE CallsProofs -----------------------------
(* Proofs about the calls of the library that MCCalls puts side by side: a *)
(* subprocess with its watch, a connection, servers on one path, a request *)
(* with its memory and a transfer of bytes.                                *)
EXTENDS MCCalls, Integers, Sequences, SequenceTheorems, TLAPS

-----------------------------------------------------------------------------
(* A subprocess.                                                           *)

\* The queue of the loop has at most one callback of the watch.
Exited     == <<"child_exited">>
Reported   == {<<"process_exited", "255">>, <<"process_exited", "status">>}
ChildTyped ==
    /\ child \in {"running", "killed", "zombie", "reaped"}
    /\ pidfd \in {"none", "open", "closed"}
    /\ poll \in {"none", "pending", "done", "cancelled"}
    /\ loop \in {"open", "interrupted", "closed"}
    /\ ready = <<>> \/ \E x \in {Exited} \cup Reported : ready = <<x>>

\* Before the poll there is nothing to run; while it is pending the pidfd is open; once it
\* is over, its callback waits in the queue unless it has run and closed the pidfd; and it
\* is not done before the child has ended.
ChildInv ==
    /\ ChildTyped /\ blocked = FALSE
    /\ make = "start" => poll = "none"
    /\ poll = "none" => ready = <<>>
    /\ poll = "pending" => pidfd = "open" /\ ready = <<>>
    /\ poll = "done" => child \in {"zombie", "reaped"}
    /\ poll \in {"done", "cancelled"} /\ loop # "closed" /\ pidfd = "open" => ready = <<Exited>>
    /\ ready = <<Exited>> => pidfd = "open"

\* What the operators on sequences make of such a queue.
LEMMA ShortQueue ==
    ASSUME NEW x
    PROVE  /\ Append(<<>>, x) = <<x>> /\ Tail(<<x>>) = <<>> /\ Head(<<x>>) = x
           /\ <<x>> # <<>>
OBVIOUS

\* The kinds of callbacks differ.
LEMMA CallbackKinds ==
    /\ Exited[1] = "child_exited" /\ Exited \notin Reported
    /\ \A x \in Reported : x[1] = "process_exited" /\ x # Exited
BY DEF Exited, Reported

\* A step of the subprocess keeps the invariant.
LEMMA ChildStep ==
    ASSUME ChildInv, Child!Next
    PROVE  ChildInv'
<1>0. ChildTyped /\ blocked = FALSE
  BY DEF ChildInv
<1>1. CASE Child!WatchChild
  BY <1>1 DEF Child!WatchChild, Child!Make, ChildInv, ChildTyped, Exited
<1>2. CASE Child!WatchChildRaises
  BY <1>2, ShortQueue DEF Child!WatchChildRaises, Child!Make, ChildInv, ChildTyped
<1>3. CASE Child!MakeReturns \/ Child!MakeRaises \/ Child!MakeCancelledAgain
  <2>1. /\ make' # "start"
        /\ UNCHANGED <<child, pidfd, poll, ready, returncode, loop, blocked>>
    BY <1>3 DEF Child!MakeReturns, Child!MakeRaises, Child!MakeCancelledAgain, Child!Make
  <2> QED
    BY <2>1 DEF ChildInv, ChildTyped
<1>4. CASE Child!MakeFails \/ Child!UserCloses
  <2>1. /\ make' # "start"
        /\ child' = child \/ (child \in {"zombie", "running"} /\ child' \in {"reaped", "killed"}
                              /\ (child = "zombie" => child' = "reaped"))
        /\ UNCHANGED <<pidfd, poll, ready, returncode, loop, blocked>>
    BY <1>4 DEF Child!MakeFails, Child!UserCloses, Child!Make, Child!CloseTransport
  <2> QED
    BY <2>1 DEF ChildInv, ChildTyped
<1>5. CASE Child!ChildExited
  <2>1. /\ ready # <<>> /\ Head(ready)[1] = "child_exited" /\ loop # "closed" /\ pidfd' = "closed"
        /\ UNCHANGED <<poll, returncode, make, loop>>
    BY <1>5 DEF Child!ChildExited, Child!Callback
  <2>2. ready = <<Exited>>
    BY <1>0, <2>1, ShortQueue, CallbackKinds DEF ChildTyped
  <2>3. poll \in {"done", "cancelled"}
    BY <1>0, <2>2, ShortQueue DEF ChildInv, ChildTyped
  <2>4. /\ blocked' = FALSE /\ child' \in {child, "reaped"}
        /\ ready' = <<>> \/ \E x \in Reported : ready' = <<x>>
    <3>1. CASE poll = "cancelled" /\ ready' = Tail(ready) /\ UNCHANGED <<child, blocked>>
      BY <1>0, <2>2, <3>1, ShortQueue
    <3>2. CASE poll = "done" /\ Child!Waitpid
      <4>1. child \in {"zombie", "reaped"}
        BY <3>2 DEF ChildInv
      <4>2. blocked' = (FALSE \/ child \in {"running", "killed"})
        BY <1>0, <3>2 DEF Child!Waitpid
      <4>3. \E x \in Reported : ready' = Append(Tail(ready), x)
        BY <3>2 DEF Child!Waitpid, Reported
      <4>4. Tail(ready) = <<>>
        BY <2>2, ShortQueue
      <4>5. child' \in {child, "reaped"}
        BY <3>2 DEF Child!Waitpid
      <4> QED
        BY <4>1, <4>2, <4>3, <4>4, <4>5, ShortQueue
    <3> QED
      BY <1>5, <3>1, <3>2 DEF Child!ChildExited
  <2>5. ready' # <<Exited>>
    BY <2>4, CallbackKinds, ShortQueue
  <2>6. ChildTyped'
    BY <1>0, <2>1, <2>4 DEF ChildTyped
  <2> QED
    BY <2>1, <2>3, <2>4, <2>5, <2>6 DEF ChildInv
<1>6. CASE Child!ProcessExited
  <2>1. /\ ready # <<>> /\ Head(ready)[1] = "process_exited" /\ ready' = Tail(ready)
        /\ UNCHANGED <<child, pidfd, poll, make, loop, blocked>>
    BY <1>6 DEF Child!ProcessExited, Child!Callback
  <2>2. PICK x \in {Exited} \cup Reported : ready = <<x>>
    BY <1>0, <2>1 DEF ChildTyped
  <2>3. x # Exited /\ ready' = <<>> /\ ready # <<Exited>>
    BY <2>1, <2>2, ShortQueue, CallbackKinds
  <2> QED
    BY <2>1, <2>3, ShortQueue DEF ChildInv, ChildTyped
<1>7. CASE Child!ChildExits \/ Child!ReapedElsewhere
  BY <1>7 DEF Child!ChildExits, Child!ReapedElsewhere, ChildInv, ChildTyped
<1>8. CASE Child!PollCompletes
  <2>1. /\ poll = "pending" /\ child \in {"zombie", "reaped"} /\ loop # "closed"
        /\ poll' = "done" /\ ready' = Append(ready, Exited)
        /\ UNCHANGED <<child, pidfd, returncode, make, loop, blocked>>
    BY <1>8 DEF Child!PollCompletes, Exited
  <2>2. pidfd = "open" /\ ready = <<>> /\ make # "start"
    BY <2>1 DEF ChildInv
  <2>3. ready' = <<Exited>>
    BY <2>1, <2>2, ShortQueue
  <2> QED
    BY <2>1, <2>2, <2>3 DEF ChildInv, ChildTyped
<1>9. CASE Child!LoopCloses
  <2>1. /\ loop # "closed" /\ poll # "none"
        /\ poll' = (IF poll = "pending" THEN "cancelled" ELSE poll)
        /\ \/ loop' = "closed" /\ ready' = <<>>
           \/ /\ loop' = "interrupted"
              /\ ready' = IF poll = "pending" THEN Append(ready, Exited) ELSE ready
        /\ UNCHANGED <<child, pidfd, returncode, make, blocked>>
    BY <1>9 DEF Child!LoopCloses, Exited
  <2>2. CASE loop' = "closed" /\ ready' = <<>>
    BY <2>1, <2>2, ShortQueue DEF ChildInv, ChildTyped
  <2>3. CASE loop' = "interrupted" /\ poll = "pending"
    <3>1. ready' = <<Exited>> /\ pidfd = "open"
      BY <2>1, <2>3, ShortQueue DEF ChildInv
    <3> QED
      BY <2>1, <2>3, <3>1 DEF ChildInv, ChildTyped
  <2>4. CASE loop' = "interrupted" /\ poll # "pending"
    <3>1. ready' = ready /\ poll' = poll
      BY <2>1, <2>4
    <3> QED
      BY <2>1, <2>4, <3>1 DEF ChildInv, ChildTyped
  <2> QED
    BY <2>1, <2>2, <2>3, <2>4
<1> QED
  BY <1>1, <1>2, <1>3, <1>4, <1>5, <1>6, <1>7, <1>8, <1>9 DEF Child!Next

\* The invariant holds whenever the call is a subprocess.
LEMMA ChildInvariant == Spec => [](call = "child" => ChildInv)
<1>1. Init => (call = "child" => ChildInv)
  <2> SUFFICES ASSUME Init, call = "child" PROVE ChildInv
    OBVIOUS
  <2>1. Child!Init
    BY DEF Init
  <2> QED
    BY <2>1, ShortQueue DEF Child!Init, ChildInv, ChildTyped
<1>2. (call = "child" => ChildInv) /\ [Next]_vars => (call = "child" => ChildInv)'
  <2> SUFFICES ASSUME call = "child" => ChildInv, [Next]_vars, call' = "child" PROVE ChildInv'
    OBVIOUS
  <2>1. call' = call
    BY DEF Next, TransferNext, RequestNext, ServerNext, ConnectionNext, ChildNext, vars
  <2>2. Child!Next \/ UNCHANGED ChildVars
    BY <2>1 DEF Next, TransferNext, RequestNext, ServerNext, ConnectionNext, ChildNext, vars
  <2>3. CASE UNCHANGED ChildVars
    BY <2>1, <2>3 DEF ChildVars, ChildInv, ChildTyped
  <2> QED
    BY <2>1, <2>2, <2>3, ChildStep
<1> QED
  BY <1>1, <1>2, PTL DEF Spec

\* waitpid never blocks the loop: when _child_exited calls it, the child has ended.
THEOREM WaitpidReturns == Spec => []WaitpidNeverBlocks
<1>1. (call = "child" => ChildInv) => WaitpidNeverBlocks
  BY DEF ChildInv, WaitpidNeverBlocks, Child!WaitpidNeverBlocks
<1> QED
  BY <1>1, ChildInvariant, PTL

\* The pidfd is open as long as the kernel may poll it, and closed once the poll is over
\* and its callback has run, in every order of exits, closings and callbacks.
THEOREM PidfdIsOpen == Spec => []PidfdFollowsPoll
<1>1. (call = "child" => ChildInv) => PidfdFollowsPoll
  BY ShortQueue, CallbackKinds DEF ChildInv, PidfdFollowsPoll, Child!PidfdFollowsPoll
<1> QED
  BY <1>1, ChildInvariant, PTL

\* What the transport is told of a child, and so a failure that is raised, comes after
\* waitpid.
ReapedInv ==
    /\ (\E x \in Reported : ready = <<x>>) => child = "reaped"
    /\ returncode # "none" => child = "reaped"
    /\ make = "raised" => child = "reaped"

\* A child that is reaped stays so, and waitpid reaps it before anything is told.
LEMMA ReapedStep ==
    ASSUME ChildInv, ReapedInv, Child!Next
    PROVE  ReapedInv'
<1>0. ChildTyped
  BY DEF ChildInv
<1>1. CASE \/ Child!WatchChild \/ Child!WatchChildRaises \/ Child!MakeReturns
           \/ Child!MakeCancelledAgain \/ Child!ChildExits \/ Child!ReapedElsewhere
  <2>1. /\ ready' = ready /\ returncode' = returncode
        /\ make' # "raised" \/ make' = make
        /\ child = "reaped" => child' = "reaped"
    BY <1>1 DEF Child!WatchChild, Child!WatchChildRaises, Child!MakeReturns, Child!Make,
                Child!MakeCancelledAgain, Child!ChildExits, Child!ReapedElsewhere
  <2> QED
    BY <2>1 DEF ReapedInv
<1>2. CASE Child!MakeFails \/ Child!UserCloses
  <2>1. /\ ready' = ready /\ returncode' = returncode /\ make' # "raised"
        /\ child = "reaped" => child' = "reaped"
    BY <1>2 DEF Child!MakeFails, Child!UserCloses, Child!Make, Child!CloseTransport
  <2> QED
    BY <2>1 DEF ReapedInv
<1>3. CASE Child!MakeRaises
  BY <1>3 DEF Child!MakeRaises, Child!Make, ReapedInv
<1>4. CASE Child!ChildExited
  <2>1. returncode' = returncode /\ make' = make /\ ready = <<Exited>>
    BY <1>0, <1>4, ShortQueue, CallbackKinds
       DEF Child!ChildExited, Child!Callback, ChildTyped
  <2>2. \/ ready' = <<>> /\ child' = child
        \/ child' = "reaped"
    <3>1. CASE poll = "cancelled" /\ ready' = Tail(ready) /\ UNCHANGED <<child, blocked>>
      BY <2>1, <3>1, ShortQueue
    <3>2. CASE poll = "done" /\ Child!Waitpid
      BY <3>2 DEF Child!Waitpid, ChildInv
    <3> QED
      BY <1>4, <3>1, <3>2 DEF Child!ChildExited
  <2> QED
    BY <2>1, <2>2, ShortQueue DEF ReapedInv
<1>5. CASE Child!ProcessExited
  <2>1. /\ ready # <<>> /\ Head(ready)[1] = "process_exited" /\ ready' = Tail(ready)
        /\ UNCHANGED <<child, make>>
    BY <1>5 DEF Child!ProcessExited, Child!Callback
  <2>2. PICK x \in {Exited} \cup Reported : ready = <<x>>
    BY <1>0, <2>1 DEF ChildTyped
  <2>3. x \in Reported /\ ready' = <<>>
    BY <2>1, <2>2, ShortQueue, CallbackKinds
  <2>4. child' = "reaped"
    BY <2>1, <2>2, <2>3 DEF ReapedInv
  <2> QED
    BY <2>4 DEF ReapedInv
<1>6. CASE Child!PollCompletes \/ Child!LoopCloses
  <2>1. UNCHANGED <<child, make, returncode>>
    BY <1>6 DEF Child!PollCompletes, Child!LoopCloses
  <2>2. ready' \in {ready, <<>>, <<Exited>>}
    <3>1. poll = "pending" => ready = <<>>
      BY DEF ChildInv
    <3>2. ready' \in {ready, <<>>} \/ (poll = "pending" /\ ready' = Append(ready, Exited))
      BY <1>6 DEF Child!PollCompletes, Child!LoopCloses, Exited
    <3> QED
      BY <3>1, <3>2, ShortQueue
  <2>3. \A x \in Reported : <<x>> # <<Exited>> /\ <<x>> # <<>>
    BY ShortQueue, CallbackKinds
  <2> QED
    BY <2>1, <2>2, <2>3 DEF ReapedInv
<1> QED
  BY <1>1, <1>2, <1>3, <1>4, <1>5, <1>6 DEF Child!Next

\* When _make_subprocess_transport raises the failure of its pipes, it leaves no child: the
\* child has ended and been waited for.  The safety part of FailedMakeEnds.
THEOREM RaisedLeavesNoChild == Spec => [](call = "child" /\ make = "raised" => child = "reaped")
<1>1. Init => (call = "child" => ReapedInv)
  <2> SUFFICES ASSUME Init, call = "child" PROVE ReapedInv
    OBVIOUS
  <2>1. Child!Init
    BY DEF Init
  <2> QED
    BY <2>1, ShortQueue DEF Child!Init, ReapedInv
<1>2. (call = "child" => ChildInv) /\ (call = "child" => ReapedInv) /\ [Next]_vars
          => (call = "child" => ReapedInv)'
  <2> SUFFICES ASSUME call = "child" => ChildInv /\ ReapedInv, [Next]_vars, call' = "child"
               PROVE  ReapedInv'
    OBVIOUS
  <2>1. call' = call
    BY DEF Next, TransferNext, RequestNext, ServerNext, ConnectionNext, ChildNext, vars
  <2>2. Child!Next \/ UNCHANGED ChildVars
    BY <2>1 DEF Next, TransferNext, RequestNext, ServerNext, ConnectionNext, ChildNext, vars
  <2>3. CASE UNCHANGED ChildVars
    BY <2>1, <2>3 DEF ChildVars, ReapedInv
  <2> QED
    BY <2>1, <2>2, <2>3, ReapedStep
<1>3. (call = "child" => ReapedInv) => (call = "child" /\ make = "raised" => child = "reaped")
  BY DEF ReapedInv
<1> QED
  BY <1>1, <1>2, <1>3, ChildInvariant, PTL DEF Spec

-----------------------------------------------------------------------------
(* create_unix_connection.                                                 *)

\* The sockets follow the state of the call; and before the task goes on with an outcome,
\* the connect request has left the submission queue.
ConnectionInv ==
    /\ own = IF ~arg.path \/ st \in {"call", "rejected"} THEN "none"
             ELSE IF st = "raised" THEN "closed" ELSE "open"
    /\ given = IF ~arg.path /\ st = "raised" THEN "closed" ELSE "open"
    /\ st = "call" => req = "none" /\ outcome = "none"
    /\ st = "connect" => arg.path
    /\ st # "connect" => req # "queued"
    /\ runnable => outcome # "none" /\ req # "queued"
    /\ runnable \in BOOLEAN

\* A step of the connection keeps the invariant.
LEMMA ConnectionStep ==
    ASSUME ConnectionInv, Connection!Next
    PROVE  ConnectionInv'
<1>1. CASE Connection!Reject
  BY <1>1 DEF Connection!Reject, ConnectionInv
<1>2. CASE Connection!Begin
  BY <1>2 DEF Connection!Begin, ConnectionInv, Connection!BadArguments
<1>3. CASE Connection!Completes
  BY <1>3 DEF Connection!Completes, ConnectionInv, Connection!BadArguments
<1>4. CASE Connection!Cancel
  BY <1>4 DEF Connection!Cancel, ConnectionInv, Connection!BadArguments
<1>5. CASE Connection!Select
  BY <1>5 DEF Connection!Select, ConnectionInv, Connection!BadArguments
<1>6. CASE Connection!Connected
  BY <1>6 DEF Connection!Connected, ConnectionInv, Connection!BadArguments
<1>7. CASE Connection!ConnectFails
  BY <1>7 DEF Connection!ConnectFails, ConnectionInv, Connection!BadArguments
<1>8. CASE Connection!Return
  BY <1>8 DEF Connection!Return, ConnectionInv, Connection!BadArguments
<1>9. CASE Connection!TransportFails
  BY <1>9 DEF Connection!TransportFails, ConnectionInv, Connection!BadArguments
<1>10. CASE Connection!FactoryRaises
  BY <1>10 DEF Connection!FactoryRaises, ConnectionInv, Connection!BadArguments
<1> QED
  BY <1>1, <1>2, <1>3, <1>4, <1>5, <1>6, <1>7, <1>8, <1>9, <1>10 DEF Connection!Next

\* The invariant holds whenever the call is a connection.
LEMMA ConnectionInvariant == Spec => [](call = "connection" => ConnectionInv)
<1>1. Init => (call = "connection" => ConnectionInv)
  <2> SUFFICES ASSUME Init, call = "connection" PROVE ConnectionInv
    OBVIOUS
  <2>1. Connection!Init
    BY DEF Init
  <2> QED
    BY <2>1 DEF Connection!Init, ConnectionInv
<1>2. (call = "connection" => ConnectionInv) /\ [Next]_vars => (call = "connection" => ConnectionInv)'
  <2> SUFFICES ASSUME call = "connection" => ConnectionInv, [Next]_vars, call' = "connection"
               PROVE  ConnectionInv'
    OBVIOUS
  <2>1. call' = call
    BY DEF Next, TransferNext, RequestNext, ServerNext, ConnectionNext, ChildNext, vars
  <2>2. Connection!Next \/ UNCHANGED ConnectionVars
    BY <2>1 DEF Next, TransferNext, RequestNext, ServerNext, ConnectionNext, ChildNext, vars
  <2>3. CASE UNCHANGED ConnectionVars
    BY <2>1, <2>3 DEF ConnectionVars, ConnectionInv, Connection!BadArguments
  <2> QED
    BY <2>1, <2>2, <2>3, ConnectionStep
<1> QED
  BY <1>1, <1>2, PTL DEF Spec

-----------------------------------------------------------------------------
(* create_unix_server, any number of calls.                                *)

\* The calls that have bound the path, however they go on.
Bound(c) ==
    /\ serverSt[c] \in {"bound", "sleep", "returned", "cancelled", "unserved"}
    /\ serverArg[c].path = "file"

\* A call that may still bind the path, or was refused after it had removed what was there.
Owing(c) == (serverSt[c] = "bind" /\ serverArg[c].path = "file") \/ serverSt[c] = "refused"

\* A call with a path has an open socket from the check of its arguments on, unless bind
\* fails, and no other call has any.
CallOK(c) ==
    /\ serverSt[c] = "call" => sock[c] = "none"
    /\ serverSt[c] # "call" =>
           sock[c] = IF Server!BadArguments(serverArg[c]) \/ serverArg[c].path = "none" THEN "none"
                     ELSE IF serverSt[c] \in {"raised", "refused"} THEN "closed" ELSE "open"
    /\ serverSt[c] \notin {"call", "raised"} => ~Server!BadArguments(serverArg[c])
    /\ serverSt[c] \in {"stat", "remove", "bind"} => serverArg[c].path # "none"
    /\ serverSt[c] = "remove" => serverArg[c].path = "file"

\* The path names the socket of no call but one that has bound it; and once some call has,
\* it names such a socket, or nothing while another call owes it one.
PathOK ==
    /\ node \in Calls => Bound(node)
    /\ (\E c \in Calls : Bound(c)) =>
           node \in Calls \/ (node = Absent /\ \E d \in Calls : Owing(d))

ServerStates == {"call", "stat", "remove", "bind", "bound", "sleep", "returned", "cancelled",
                 "raised", "refused", "invalid", "unserved"}

ServerInv ==
    /\ serverSt \in [Calls -> ServerStates]
    /\ sock \in [Calls -> {"none", "open", "closed"}]
    /\ \A c \in Calls : CallOK(c)
    /\ PathOK

\* A step of one call leaves the others where they are.
LEMMA OneCall ==
    ASSUME ServerInv, NEW c \in Calls, NEW from, NEW to, Server!Go(c, from, to)
    PROVE  /\ serverArg' = serverArg /\ serverSt[c] = from /\ serverSt'[c] = to
           /\ \A d \in Calls : d # c => serverSt'[d] = serverSt[d]
BY DEF Server!Go, ServerInv

\* A step of one call that leaves the path alone, unless it gives up to bind it.
LEMMA PathKept ==
    ASSUME ServerInv, NEW c \in Calls, NEW from, NEW to, Server!Go(c, from, to), node' = node,
           from = "bound" => to \in {"sleep", "returned", "unserved"},
           from = "sleep" => to \in {"returned", "cancelled"},
           from \notin {"returned", "cancelled", "refused", "unserved"},
           from = "bind" /\ serverArg[c].path = "file"
               => to = "refused" \/ (to = "raised" /\ node # Absent),
           from \notin {"bound", "sleep"} /\ serverArg[c].path = "file"
               => to \notin {"bound", "sleep", "returned", "cancelled", "unserved"}
    PROVE  PathOK'
<1>1. /\ serverArg' = serverArg /\ serverSt[c] = from /\ serverSt'[c] = to
      /\ \A d \in Calls : d # c => serverSt'[d] = serverSt[d]
  BY OneCall
<1>2. \A d \in Calls : Bound(d) => Bound(d)'
  BY <1>1 DEF Bound
<1>3. \A d \in Calls : Bound(d)' => Bound(d)
  BY <1>1 DEF Bound
<1>4. \A d \in Calls : Owing(d) /\ node = Absent => Owing(d)'
  BY <1>1 DEF Owing
<1>5. node' \in Calls => Bound(node)'
  <2>1. node \in Calls => Bound(node)
    BY DEF ServerInv, PathOK
  <2> QED
    BY <1>2, <2>1 DEF Bound
<1>6. (\E d \in Calls : Bound(d)') => \E d \in Calls : Bound(d)
  BY <1>3
<1>7. node \in Calls \/ (node = Absent /\ \E d \in Calls : Owing(d))
      => node' \in Calls \/ (node' = Absent /\ \E d \in Calls : Owing(d)')
  BY <1>4
<1> QED
  BY <1>5, <1>6, <1>7 DEF ServerInv, PathOK

\* A step of one call that changes no socket but its own.
LEMMA CallsKept ==
    ASSUME ServerInv, NEW c \in Calls, NEW from, NEW to, Server!Go(c, from, to),
           \A d \in Calls : d # c => sock'[d] = sock[d], CallOK(c)'
    PROVE  \A d \in Calls : CallOK(d)'
<1>1. /\ serverArg' = serverArg
      /\ \A d \in Calls : d # c => serverSt'[d] = serverSt[d]
  BY OneCall
<1>2. ASSUME NEW d \in Calls, d # c PROVE CallOK(d)'
  <2>1. CallOK(d)
    BY DEF ServerInv
  <2>2. serverSt'[d] = serverSt[d] /\ sock'[d] = sock[d] /\ serverArg'[d] = serverArg[d]
    BY <1>1, <1>2
  <2> QED
    BY <2>1, <2>2 DEF CallOK, Server!BadArguments
<1> QED
  BY <1>2

\* A step of one call.
LEMMA ServerGoes ==
    ASSUME ServerInv, NEW c \in Calls, NEW from, NEW to \in ServerStates, Server!Go(c, from, to),
           sock' = sock \/ sock' = [sock EXCEPT ![c] = "open"] \/ sock' = [sock EXCEPT ![c] = "closed"],
           CallOK(c)', PathOK'
    PROVE  ServerInv'
<1>1. serverSt' \in [Calls -> ServerStates]
  BY DEF Server!Go, ServerInv
<1>2. sock' \in [Calls -> {"none", "open", "closed"}] /\ \A d \in Calls : d # c => sock'[d] = sock[d]
  BY DEF ServerInv
<1>3. \A d \in Calls : CallOK(d)'
  BY <1>2, CallsKept
<1> QED
  BY <1>1, <1>2, <1>3 DEF ServerInv

\* Every operation of one call keeps the invariant.
LEMMA ServerStep ==
    ASSUME ServerInv, NEW c \in Calls,
           \/ Server!RejectArguments(c) \/ Server!OpenSocket(c) \/ Server!Stat(c)
           \/ Server!StatRaises(c) \/ Server!Remove(c) \/ Server!Bind(c)
           \/ Server!BindFails(c) \/ Server!Serve(c) \/ Server!ServeRaises(c)
           \/ Server!Return(c)
    PROVE  ServerInv'
<1>0. CallOK(c) /\ sock \in [Calls -> {"none", "open", "closed"}] /\ PathOK
  BY DEF ServerInv
<1>1. CASE Server!RejectArguments(c)
  <2>1. /\ Server!Go(c, "call", "raised") /\ Server!BadArguments(serverArg[c])
        /\ sock' = sock /\ node' = node
    BY <1>1 DEF Server!RejectArguments
  <2>2. /\ serverArg' = serverArg /\ serverSt[c] = "call" /\ serverSt'[c] = "raised"
    BY <2>1, OneCall
  <2>3. CallOK(c)'
    BY <1>0, <2>1, <2>2 DEF CallOK, Server!BadArguments
  <2>4. PathOK'
    BY <2>1, PathKept
  <2> QED
    BY <2>1, <2>3, <2>4, ServerGoes DEF ServerStates
<1>2. CASE Server!OpenSocket(c)
  <2>1. ~Server!BadArguments(serverArg[c]) /\ node' = node
    BY <1>2 DEF Server!OpenSocket
  <2>2. CASE serverArg[c].path = "none" /\ Server!Go(c, "call", "bound") /\ sock' = sock
    <3>1. serverArg' = serverArg /\ serverSt[c] = "call" /\ serverSt'[c] = "bound"
      BY <2>2, OneCall
    <3>2. CallOK(c)'
      BY <1>0, <2>1, <2>2, <3>1 DEF CallOK, Server!BadArguments
    <3>3. PathOK'
      BY <2>1, <2>2, PathKept
    <3> QED
      BY <2>2, <3>2, <3>3, ServerGoes DEF ServerStates
  <2>3. CASE /\ \/ serverArg[c].path \in {"file", "nul"} /\ Server!Go(c, "call", "stat")
                \/ serverArg[c].path = "abstract" /\ Server!Go(c, "call", "bind")
                \/ serverArg[c].path = "empty" /\ Server!Go(c, "call", "invalid")
             /\ sock' = [sock EXCEPT ![c] = "open"]
    <3>1. PICK to \in {"stat", "bind", "invalid"} :
              Server!Go(c, "call", to) /\ serverArg[c].path # "none"
      BY <2>3
    <3>2. serverArg' = serverArg /\ serverSt'[c] = to /\ sock'[c] = "open"
      BY <1>0, <2>3, <3>1, OneCall
    <3>3. CallOK(c)'
      BY <2>1, <3>1, <3>2 DEF CallOK, Server!BadArguments
    <3>4. PathOK'
      BY <2>1, <3>1, PathKept
    <3> QED
      BY <2>3, <3>1, <3>3, <3>4, ServerGoes DEF ServerStates
  <2> QED
    BY <1>2, <2>2, <2>3 DEF Server!OpenSocket
<1>3. CASE Server!Stat(c)
  <2>1. PICK to \in {"remove", "bind"} : Server!Go(c, "stat", to)
    BY <1>3 DEF Server!Stat
  <2>2. sock' = sock /\ node' = node
    BY <1>3 DEF Server!Stat
  <2>3. /\ serverArg' = serverArg /\ serverSt[c] = "stat" /\ serverSt'[c] = to
        /\ serverArg[c].path = "file"
    BY <1>3, <2>1, OneCall DEF Server!Stat
  <2>4. CallOK(c)'
    BY <1>0, <2>2, <2>3 DEF CallOK, Server!BadArguments
  <2>5. PathOK'
    BY <2>1, <2>2, PathKept
  <2> QED
    BY <2>1, <2>2, <2>4, <2>5, ServerGoes DEF ServerStates
<1>4. CASE Server!Remove(c)
  <2>1. Server!Go(c, "remove", "bind") /\ sock' = sock /\ node' \in {Absent, node}
    BY <1>4 DEF Server!Remove
  <2>2. /\ serverArg' = serverArg /\ serverSt[c] = "remove" /\ serverSt'[c] = "bind"
        /\ \A d \in Calls : d # c => serverSt'[d] = serverSt[d]
    BY <2>1, OneCall
  <2>3. CallOK(c)'
    BY <1>0, <2>1, <2>2 DEF CallOK, Server!BadArguments
  <2>4. PathOK'
    <3>1. CASE node' = node
      BY <2>1, <3>1, PathKept
    <3>2. CASE node' = Absent
      <4>1. Owing(c)'
        BY <1>0, <2>2 DEF CallOK, Owing
      <4> QED
        BY <3>2, <4>1, CallsAssumption DEF PathOK
    <3> QED
      BY <2>1, <3>1, <3>2
  <2> QED
    BY <2>1, <2>3, <2>4, ServerGoes DEF ServerStates
<1>5. CASE Server!Bind(c)
  <2>1. /\ Server!Go(c, "bind", "bound") /\ sock' = sock
        /\ node' = IF serverArg[c].path = "file" THEN c ELSE node
    BY <1>5 DEF Server!Bind
  <2>2. serverArg' = serverArg /\ serverSt[c] = "bind" /\ serverSt'[c] = "bound"
    BY <2>1, OneCall
  <2>3. CallOK(c)'
    BY <1>0, <2>1, <2>2 DEF CallOK, Server!BadArguments
  <2>4. PathOK'
    <3>1. CASE serverArg[c].path = "file"
      <4>1. node' = c /\ Bound(node)'
        BY <2>1, <2>2, <3>1 DEF Bound
      <4> QED
        BY <4>1 DEF PathOK
    <3>2. CASE serverArg[c].path # "file"
      BY <2>1, <3>2, PathKept
    <3> QED
      BY <3>1, <3>2
  <2> QED
    BY <2>1, <2>3, <2>4, ServerGoes DEF ServerStates
<1>6. CASE Server!BindFails(c)
  <2>1. PICK to \in {"raised", "refused"} :
            /\ Server!Go(c, "bind", to)
            /\ to = "raised" => (serverArg[c].path = "file" => node # Absent)
    BY <1>6 DEF Server!BindFails
  <2>2. sock' = [sock EXCEPT ![c] = "closed"] /\ node' = node
    BY <1>6 DEF Server!BindFails
  <2>3. serverArg' = serverArg /\ serverSt[c] = "bind" /\ serverSt'[c] = to /\ sock'[c] = "closed"
    BY <1>0, <2>1, <2>2, OneCall
  <2>4. CallOK(c)'
    BY <1>0, <2>3 DEF CallOK, Server!BadArguments
  <2>5. PathOK'
    BY <2>1, <2>2, PathKept
  <2> QED
    BY <2>1, <2>2, <2>4, <2>5, ServerGoes DEF ServerStates
<1>7. CASE Server!Serve(c) \/ Server!ServeRaises(c) \/ Server!Return(c)
  <2>1. PICK from \in {"bound", "sleep"}, to \in {"sleep", "returned", "cancelled", "unserved"} :
            /\ Server!Go(c, from, to)
            /\ from = "bound" => to \in {"sleep", "returned", "unserved"}
            /\ from = "sleep" => to \in {"returned", "cancelled"}
    BY <1>7 DEF Server!Serve, Server!ServeRaises, Server!Return
  <2>2. sock' = sock /\ node' = node
    BY <1>7 DEF Server!Serve, Server!ServeRaises, Server!Return
  <2>3. serverArg' = serverArg /\ serverSt[c] = from /\ serverSt'[c] = to
    BY <2>1, OneCall
  <2>4. CallOK(c)'
    BY <1>0, <2>2, <2>3 DEF CallOK, Server!BadArguments
  <2>5. PathOK'
    BY <2>1, <2>2, PathKept
  <2> QED
    BY <2>1, <2>2, <2>4, <2>5, ServerGoes DEF ServerStates
<1>8. CASE Server!StatRaises(c)
  <2>1. Server!Go(c, "stat", "invalid") /\ sock' = sock /\ node' = node
    BY <1>8 DEF Server!StatRaises
  <2>2. serverArg' = serverArg /\ serverSt[c] = "stat" /\ serverSt'[c] = "invalid"
    BY <2>1, OneCall
  <2>3. CallOK(c)'
    BY <1>0, <2>1, <2>2 DEF CallOK, Server!BadArguments
  <2>4. PathOK'
    BY <2>1, PathKept
  <2> QED
    BY <2>1, <2>3, <2>4, ServerGoes DEF ServerStates
<1> QED
  BY <1>1, <1>2, <1>3, <1>4, <1>5, <1>6, <1>7, <1>8

\* The invariant holds whenever the calls are of create_unix_server.
LEMMA ServerInvariant == Spec => [](call = "server" => ServerInv)
<1>1. Init => (call = "server" => ServerInv)
  <2> SUFFICES ASSUME Init, call = "server" PROVE ServerInv
    OBVIOUS
  <2>1. /\ serverSt = [c \in Calls |-> "call"] /\ sock = [c \in Calls |-> "none"]
        /\ node \in {Absent, File, Stale}
    BY DEF Init, Server!Init
  <2>2. node \notin Calls
    BY <2>1, CallsAssumption
  <2> QED
    BY <2>1, <2>2 DEF ServerInv, ServerStates, CallOK, PathOK, Bound
<1>2. (call = "server" => ServerInv) /\ [Next]_vars => (call = "server" => ServerInv)'
  <2> SUFFICES ASSUME call = "server" => ServerInv, [Next]_vars, call' = "server" PROVE ServerInv'
    OBVIOUS
  <2>1. call' = call
    BY DEF Next, TransferNext, RequestNext, ServerNext, ConnectionNext, ChildNext, vars
  <2>2. Server!Next \/ UNCHANGED ServerVars
    BY <2>1 DEF Next, TransferNext, RequestNext, ServerNext, ConnectionNext, ChildNext, vars
  <2>3. CASE UNCHANGED ServerVars
    BY <2>1, <2>3 DEF ServerVars, ServerInv, CallOK, PathOK, Bound, Owing, Server!BadArguments
  <2>4. CASE Server!Next
    BY <2>1, <2>4, ServerStep DEF Server!Next
  <2> QED
    BY <2>2, <2>3, <2>4
<1> QED
  BY <1>1, <1>2, PTL DEF Spec

\* create_unix_server, any number of calls of it, and create_unix_connection: when a call is
\* over, the socket it opened is closed exactly if bind, the connection or the transport
\* failed or was cancelled, and open in every other case; the path never names a closed
\* socket of a call; and a socket is closed only when no connect request for it waits in
\* the submission queue.
THEOREM SocketsStayWithCalls == Spec => []SocketsFollowCalls
<1>1. (call = "server" => ServerInv) /\ (call = "connection" => ConnectionInv) => SocketsFollowCalls
  <2>1. ServerInv => Server!SocketFollowsCall
    <3> SUFFICES ASSUME ServerInv PROVE Server!SocketFollowsCall
      OBVIOUS
    <3>1. \A c \in Calls : CallOK(c)
      BY DEF ServerInv
    <3>2. node \in Calls => Bound(node)
      BY DEF ServerInv, PathOK
    <3>3. node \in Calls => sock[node] = "open"
      BY <3>1, <3>2 DEF Bound, CallOK
    <3> QED
      BY <3>1, <3>3 DEF CallOK, Server!SocketFollowsCall, Server!Ends
  <2>2. ConnectionInv => Connection!SocketFollowsCall
    BY DEF ConnectionInv, Connection!SocketFollowsCall
  <2> QED
    BY <2>1, <2>2 DEF SocketsFollowCalls
<1> QED
  BY <1>1, ServerInvariant, ConnectionInvariant, PTL

\* However any number of calls of create_unix_server race for a path, when all are over,
\* none refused for want of permission or the like or unable to listen, and one of them
\* served it, the path names the socket of a call that serves it.
THEOREM PathStaysServed == Spec => []PathIsServed
<1>1. (call = "server" => ServerInv) => PathIsServed
  <2>1. ServerInv => Server!PathIsServed
    <3> SUFFICES ASSUME ServerInv,
                        \A c \in Calls : serverSt[c] \in {"returned", "cancelled", "raised", "invalid"},
                        NEW c \in Calls, serverSt[c] \in {"returned", "cancelled"},
                        serverArg[c].path = "file"
                 PROVE  /\ node \in Calls
                        /\ serverSt[node] \in {"returned", "cancelled"} /\ serverArg[node].path = "file"
      BY DEF Server!PathIsServed, Server!Ends
    <3>1. Bound(c) /\ \A d \in Calls : ~Owing(d)
      BY DEF Bound, Owing
    <3>2. node \in Calls /\ Bound(node)
      BY <3>1 DEF ServerInv, PathOK
    <3> QED
      BY <3>2 DEF Bound
  <2> QED
    BY <2>1 DEF PathIsServed
<1> QED
  BY <1>1, ServerInvariant, PTL

-----------------------------------------------------------------------------
(* One request and its memory.                                             *)

\* The frame of the call holds the request, then the entry of the table does until the CQE
\* is handled, so that the buffer has an export and stays where it is.
RequestInv ==
    /\ kind \in Request!Kinds
    /\ stage \in {"call", "queued", "kernel", "completed", "handled"}
    /\ holds \subseteq {"user", "future", "frame", "entry", "cancel"}
    /\ stage = "call" => holds \subseteq {"user", "frame"}
    /\ stage # "call" => "frame" \notin holds
    /\ stage \in {"queued", "kernel", "completed"} => "entry" \in holds
    /\ stage = "handled" => "entry" \notin holds
    /\ moved \in BOOLEAN
    /\ stage # "handled" => moved = FALSE

\* The entry of a transfer or a datagram has an export of the buffer.
LEMMA EntryExports ==
    ASSUME "entry" \in holds, kind \in Request!Kinds, kind \notin {"accept", "connect"}
    PROVE  "export" \in Request!Alive
<1>1. "export" \in Request!RequestFields(kind)
  BY DEF Request!Kinds, Request!RequestFields, Request!Transfers, Request!Datagrams
<1>2. "export" \in Request!HeldBy("entry", kind)
  BY <1>1 DEF Request!HeldBy
<1> QED
  BY <1>2 DEF Request!Alive

\* A step of the request keeps the invariant.
LEMMA RequestStep ==
    ASSUME RequestInv, Request!Next
    PROVE  RequestInv'
<1>1. CASE Request!Submit
  BY <1>1 DEF Request!Submit, RequestInv
<1>2. CASE Request!Flush
  BY <1>2 DEF Request!Flush, RequestInv
<1>3. CASE Request!KernelCompletes
  <2>1. /\ stage = "kernel" /\ stage' = "completed"
        /\ UNCHANGED <<kind, holds, moved>>
    BY <1>3 DEF Request!KernelCompletes
  <2> QED
    BY <2>1 DEF RequestInv
<1>4. CASE Request!HandleCqe
  <2>1. /\ stage = "completed" /\ stage' = "handled" /\ holds' = holds \ {"entry"}
        /\ UNCHANGED <<kind, moved>>
    BY <1>4 DEF Request!HandleCqe
  <2> QED
    BY <2>1 DEF RequestInv
<1>5. CASE Request!Cancel \/ Request!CancelHandled
  BY <1>5 DEF Request!Cancel, Request!CancelHandled, RequestInv
<1>6. CASE Request!UserResizes
  <2>1. /\ stage # "call" /\ "export" \notin Request!Alive /\ kind \notin {"accept", "connect"}
        /\ moved' = TRUE /\ UNCHANGED <<kind, stage, holds>>
    BY <1>6 DEF Request!UserResizes
  <2>2. "entry" \notin holds
    BY <2>1, EntryExports DEF RequestInv
  <2>3. stage = "handled"
    BY <2>1, <2>2 DEF RequestInv
  <2> QED
    BY <2>1, <2>3 DEF RequestInv
<1>7. CASE \E what \in {"user", "future"} : Request!UserDrops(what)
  BY <1>7 DEF Request!UserDrops, RequestInv
<1> QED
  BY <1>1, <1>2, <1>3, <1>4, <1>5, <1>6, <1>7 DEF Request!Next

\* The invariant holds whenever the call is a request.
LEMMA RequestInvariant == Spec => [](call = "request" => RequestInv)
<1>1. Init => (call = "request" => RequestInv)
  <2> SUFFICES ASSUME Init, call = "request" PROVE RequestInv
    OBVIOUS
  <2>1. Request!Init
    BY DEF Init
  <2>2. /\ kind \in Request!Kinds /\ stage = "call" /\ moved = FALSE
        /\ holds = {"user", "frame"}
    BY <2>1 DEF Request!Init
  <2> QED
    BY <2>2 DEF RequestInv
<1>2. (call = "request" => RequestInv) /\ [Next]_vars => (call = "request" => RequestInv)'
  <2> SUFFICES ASSUME call = "request" => RequestInv, [Next]_vars, call' = "request"
               PROVE  RequestInv'
    OBVIOUS
  <2>1. call' = call
    BY DEF Next, TransferNext, RequestNext, ServerNext, ConnectionNext, ChildNext, vars
  <2>2. Request!Next \/ UNCHANGED RequestVars
    BY <2>1 DEF Next, TransferNext, RequestNext, ServerNext, ConnectionNext, ChildNext, vars
  <2>3. CASE UNCHANGED RequestVars
    BY <2>1, <2>3 DEF RequestVars, RequestInv
  <2> QED
    BY <2>1, <2>2, <2>3, RequestStep
<1> QED
  BY <1>1, <1>2, PTL DEF Spec

\* Of every kind of request: a request has what its kernel structures point to.
LEMMA FieldsCover ==
    ASSUME NEW k \in Request!Kinds
    PROVE  Request!PointedTo(k) \subseteq Request!RequestFields(k)
BY DEF Request!Kinds, Request!Transfers, Request!Datagrams, Request!PointedTo, Request!RequestFields

\* Every request: what the kernel points to is alive and in place until the CQE, whatever
\* the user drops, resizes or cancels, and released when the request is over.
THEOREM MemoryStaysInPlace == Spec => []MemoryFollowsRequest
<1>1. (call = "request" => RequestInv) => MemoryFollowsRequest
  <2>1. ASSUME RequestInv, stage \in {"queued", "kernel"}
        PROVE  Request!PointedTo(kind) \subseteq Request!Alive /\ ~moved
    <3>1. "entry" \in holds /\ moved = FALSE /\ kind \in Request!Kinds
      BY <2>1 DEF RequestInv
    <3>2. Request!RequestFields(kind) \subseteq Request!HeldBy("entry", kind)
      BY DEF Request!HeldBy
    <3>3. Request!HeldBy("entry", kind) \subseteq Request!Alive
      BY <3>1 DEF Request!Alive
    <3>4. Request!PointedTo(kind) \subseteq Request!RequestFields(kind)
      BY <3>1, FieldsCover
    <3> QED
      BY <3>1, <3>2, <3>3, <3>4
  <2>2. ASSUME RequestInv, stage = "handled"
        PROVE  /\ Request!Alive \subseteq Request!OperationFields(kind) \cup {"bytes"}
               /\ holds \subseteq {"user"} => Request!Alive \subseteq {"bytes"}
    <3>1. holds \subseteq {"user", "future", "cancel"}
      BY <2>2 DEF RequestInv
    <3>2. /\ Request!HeldBy("user", kind) = {"bytes"}
          /\ Request!HeldBy("future", kind) = Request!OperationFields(kind)
          /\ Request!HeldBy("cancel", kind) = Request!OperationFields(kind)
      BY DEF Request!HeldBy
    <3> QED
      BY <3>1, <3>2 DEF Request!Alive
  <2>3. RequestInv => Request!MemoryFollowsRequest
    BY <2>1, <2>2 DEF Request!MemoryFollowsRequest
  <2> QED
    BY <2>3 DEF MemoryFollowsRequest
<1> QED
  BY <1>1, RequestInvariant, PTL

-----------------------------------------------------------------------------
(* A transfer of bytes.                                                    *)

\* What the kernel took is the beginning of what was to be sent.
PrefixOK == Len(stream) <= Len(data) /\ \A i \in 1 .. Len(stream) : stream[i] = data[i]

\* sock_sendall: the view is the rest, byte by byte.
ViewOK ==
    /\ view \in [bytes : Seq(Nat), width : {1}]
    /\ step \in {"loop", "sending", "returned", "raised"}
    /\ step # "raised" =>
           /\ Len(view.bytes) = Len(data) - Len(stream)
           /\ \A i \in 1 .. Len(view.bytes) : view.bytes[i] = data[Len(stream) + i]
    /\ step = "returned" => view.bytes = <<>>

\* sendfile before it has sent anything.
Fresh == stream = <<>> /\ \A i \in 1 .. Len(data) : data[i] = offset + i

\* sendfile: one pipe is filled and emptied; then the offset is at the end of the part.
FileOK ==
    /\ step \in {"loop", "f2p", "returned", "raised"}
    /\ step = "loop" => Fresh \/ Transfer!Block <= 0
    /\ step = "f2p" =>
           /\ Fresh /\ data # <<>>
           /\ pipe \in Seq(Nat) /\ Len(pipe) <= Len(data)
           /\ \A i \in 1 .. Len(pipe) : pipe[i] = offset + i

TransferInv ==
    /\ data \in Seq(Nat) /\ stream \in Seq(Nat) /\ told \in Nat /\ offset \in Nat
    /\ job \in {"sendall", "sendfile"}
    /\ PrefixOK
    /\ step # "raised" => told = Len(stream)
    /\ job = "sendall" => ViewOK
    /\ job = "sendfile" => FileOK

\* The first n members of a sequence.
LEMMA FromTheFirst ==
    ASSUME NEW s \in Seq(Nat), NEW n \in 0 .. Len(s)
    PROVE  LET part == SubSeq(s, 1, n)
           IN  part \in Seq(Nat) /\ Len(part) = n /\ \A i \in 1 .. n : part[i] = s[i]
<1> DEFINE part == SubSeq(s, 1, n)
<1>1. n \in Int /\ 1 \in Int /\ 0 <= n /\ \A i \in 1 .. n : s[i] \in Nat
  OBVIOUS
<1>2. /\ part \in Seq(Nat) /\ Len(part) = IF 1 <= n THEN n - 1 + 1 ELSE 0
      /\ \A i \in 1 .. n - 1 + 1 : part[i] = s[1 + i - 1]
  BY <1>1, SubSeqProperties
<1> HIDE DEF part
<1>3. Len(part) = n /\ \A i \in 1 .. n : part[i] = s[i]
  <2>1. n - 1 + 1 = n /\ \A i \in 1 .. n : 1 + i - 1 = i
    BY <1>1
  <2> QED
    BY <1>1, <1>2, <2>1
<1> QED
  BY <1>2, <1>3 DEF part

\* What is left after them.
LEMMA FromTheRest ==
    ASSUME NEW s \in Seq(Nat), NEW n \in 0 .. Len(s)
    PROVE  LET rest == SubSeq(s, n + 1, Len(s))
           IN  /\ rest \in Seq(Nat) /\ Len(rest) = Len(s) - n
               /\ \A i \in 1 .. Len(s) - n : rest[i] = s[n + i]
<1> DEFINE rest == SubSeq(s, n + 1, Len(s))
           m == n + 1
           k == Len(s)
<1>1. n \in Nat /\ m \in Int /\ k \in Int /\ n <= k /\ m = n + 1 /\ \A i \in m .. k : s[i] \in Nat
  OBVIOUS
<1>2. /\ rest \in Seq(Nat) /\ Len(rest) = IF m <= k THEN k - m + 1 ELSE 0
      /\ \A i \in 1 .. k - m + 1 : rest[i] = s[m + i - 1]
  BY <1>1, SubSeqProperties
<1> HIDE DEF rest, m
<1>3. Len(rest) = k - n /\ \A i \in 1 .. k - n : rest[i] = s[n + i]
  <2>1. k - m + 1 = k - n /\ (~(m <= k) => k - n = 0)
    BY <1>1
  <2>2. \A i \in 1 .. k - n : m + i - 1 = n + i
    BY <1>1
  <2> QED
    BY <1>2, <2>1, <2>2
<1> QED
  BY <1>2, <1>3 DEF rest

\* Two sequences, one after the other.
LEMMA JoinedSeq ==
    ASSUME NEW s \in Seq(Nat), NEW t \in Seq(Nat)
    PROVE  /\ s \o t \in Seq(Nat) /\ Len(s \o t) = Len(s) + Len(t)
           /\ \A i \in 1 .. Len(s) + Len(t) :
                  (s \o t)[i] = IF i <= Len(s) THEN s[i] ELSE t[i - Len(s)]
BY ConcatProperties

\* A place behind the first a is one of the n that follow.
LEMMA Behind ==
    ASSUME NEW a \in Nat, NEW n \in Nat, NEW i \in 1 .. a + n, ~(i <= a)
    PROVE  i - a \in 1 .. n /\ a + (i - a) = i
OBVIOUS

\* The kernel takes the first n bytes of s, which are the next ones.
LEMMA StreamTakes ==
    ASSUME data \in Seq(Nat), stream \in Seq(Nat), PrefixOK, NEW s \in Seq(Nat), NEW n \in 0 .. Len(s),
           Len(stream) + Len(s) <= Len(data),
           \A i \in 1 .. Len(s) : s[i] = data[Len(stream) + i],
           stream' = stream \o SubSeq(s, 1, n), data' = data
    PROVE  /\ PrefixOK' /\ stream' \in Seq(Nat) /\ Len(stream') = Len(stream) + n
           /\ n \in Nat /\ Len(stream) \in Nat /\ Len(data) \in Nat /\ Len(s) \in Nat
<1> DEFINE part == SubSeq(s, 1, n)
<1>1. n \in Nat /\ n <= Len(s) /\ Len(s) \in Nat /\ Len(stream) \in Nat /\ Len(data) \in Nat
  OBVIOUS
<1>2. part \in Seq(Nat) /\ Len(part) = n /\ \A i \in 1 .. n : part[i] = s[i]
  BY FromTheFirst
<1> HIDE DEF part
<1>3. /\ stream' \in Seq(Nat) /\ Len(stream') = Len(stream) + n
      /\ \A i \in 1 .. Len(stream) + n :
             stream'[i] = IF i <= Len(stream) THEN stream[i] ELSE part[i - Len(stream)]
  <2>1. stream' = stream \o part
    BY DEF part
  <2>2. /\ stream \o part \in Seq(Nat) /\ Len(stream \o part) = Len(stream) + Len(part)
        /\ \A i \in 1 .. Len(stream) + Len(part) :
               (stream \o part)[i] = IF i <= Len(stream) THEN stream[i] ELSE part[i - Len(stream)]
    BY <1>2, JoinedSeq
  <2>3. Len(part) = n
    BY <1>2
  <2> QED
    BY <2>1, <2>2, <2>3
<1>4. Len(stream') <= Len(data')
  BY <1>1, <1>3
<1>5. ASSUME NEW i \in 1 .. Len(stream') PROVE stream'[i] = data'[i]
  <2>1. CASE i <= Len(stream)
    <3>1. i \in 1 .. Len(stream) /\ stream'[i] = stream[i]
      BY <1>1, <1>3, <2>1
    <3> QED
      BY <3>1 DEF PrefixOK
  <2>2. CASE ~(i <= Len(stream))
    <3>0. i \in 1 .. Len(stream) + n
      BY <1>3
    <3>1. i - Len(stream) \in 1 .. n /\ i - Len(stream) \in 1 .. Len(s)
      <4>1. i - Len(stream) \in 1 .. n
        BY <1>1, <2>2, <3>0, Behind
      <4> QED
        BY <1>1, <4>1
    <3>2. stream'[i] = s[i - Len(stream)]
      BY <1>2, <1>3, <2>2, <3>0, <3>1
    <3>3. Len(stream) + (i - Len(stream)) = i
      BY <1>1, <3>1
    <3> QED
      BY <3>1, <3>2, <3>3
  <2> QED
    BY <2>1, <2>2
<1> QED
  BY <1>1, <1>3, <1>4, <1>5 DEF PrefixOK

\* The whole beginning, as a subsequence.
LEMMA PrefixIsSubSeq ==
    ASSUME TransferInv
    PROVE  stream = SubSeq(data, 1, Len(stream))
<1> DEFINE n == Len(stream)
           part == SubSeq(data, 1, n)
<1>1. data \in Seq(Nat) /\ stream \in Seq(Nat) /\ Len(data) \in Nat /\ n \in Nat /\ n <= Len(data)
      /\ \A i \in 1 .. n : stream[i] = data[i]
  BY DEF TransferInv, PrefixOK
<1>2. part \in Seq(Nat) /\ Len(part) = n /\ \A i \in 1 .. n : part[i] = data[i]
  BY <1>1, FromTheFirst
<1> HIDE DEF part
<1>3. part = stream
  BY <1>1, <1>2, SeqEqual
<1> QED
  BY <1>3 DEF part

\* A step of sock_sendall keeps the invariant.
LEMMA SendallStep ==
    ASSUME TransferInv, job = "sendall", Transfer!Next
    PROVE  TransferInv'
<1>0. /\ data \in Seq(Nat) /\ stream \in Seq(Nat) /\ told \in Nat /\ offset \in Nat
      /\ PrefixOK /\ ViewOK /\ (step # "raised" => told = Len(stream))
      /\ view.bytes \in Seq(Nat) /\ view.width = 1
  BY DEF TransferInv, ViewOK
<1>1. Len(data) \in Nat /\ Len(stream) \in Nat /\ Len(view.bytes) \in Nat
  BY <1>0
<1>2. CASE Transfer!Send
  <2>1. /\ step = "loop" /\ step' = "sending" /\ job' = job /\ data' = data
        /\ UNCHANGED <<offset, view, pipe, told, stream>>
    BY <1>2 DEF Transfer!Send, Transfer!Go
  <2> QED
    BY <1>0, <2>1 DEF TransferInv, PrefixOK, ViewOK
<1>3. ASSUME NEW n \in 1 .. Len(view.bytes), Transfer!SendEnds(n) PROVE TransferInv'
  <2> DEFINE rest == SubSeq(view.bytes, n + 1, Len(view.bytes))
  <2>1. /\ step = "sending" /\ step' = "loop" /\ job' = job /\ data' = data
        /\ stream' = stream \o SubSeq(view.bytes, 1, n) /\ told' = told + n
        /\ view' = Transfer!Slice(view, n) /\ offset' = offset
    BY <1>3 DEF Transfer!SendEnds, Transfer!Go
  <2>2. n \in 0 .. Len(view.bytes) /\ n * 1 = n /\ n \in Nat
    BY <1>1
  <2>3. /\ Len(view.bytes) = Len(data) - Len(stream)
        /\ \A i \in 1 .. Len(view.bytes) : view.bytes[i] = data[Len(stream) + i]
    BY <1>0, <2>1 DEF ViewOK
  <2>4. Len(stream) + Len(view.bytes) <= Len(data)
    BY <1>1, <2>3
  <2>5. PrefixOK' /\ stream' \in Seq(Nat) /\ Len(stream') = Len(stream) + n
    BY <1>0, <2>1, <2>2, <2>3, <2>4, StreamTakes
  <2>6. /\ rest \in Seq(Nat) /\ Len(rest) = Len(view.bytes) - n
        /\ \A i \in 1 .. Len(view.bytes) - n : rest[i] = view.bytes[n + i]
    BY <1>0, <2>2, FromTheRest
  <2>7. view' = [view EXCEPT !.bytes = rest]
    BY <1>0, <2>1, <2>2 DEF Transfer!Slice
  <2> HIDE DEF rest
  <2>8. view' \in [bytes : Seq(Nat), width : {1}] /\ view'.bytes = rest
    BY <1>0, <2>6, <2>7 DEF ViewOK
  <2>9. Len(rest) = Len(data) - Len(stream')
    BY <1>1, <2>2, <2>3, <2>5, <2>6
  <2>10. \A i \in 1 .. Len(rest) : rest[i] = data[Len(stream') + i]
    <3> SUFFICES ASSUME NEW i \in 1 .. Len(rest) PROVE rest[i] = data[Len(stream') + i]
      OBVIOUS
    <3>1. i \in 1 .. Len(view.bytes) - n /\ n + i \in 1 .. Len(view.bytes)
      BY <1>1, <2>2, <2>6
    <3>2. rest[i] = data[Len(stream) + (n + i)]
      BY <2>3, <2>6, <3>1
    <3>3. Len(stream) + (n + i) = Len(stream') + i
      BY <1>1, <2>2, <2>5, <3>1
    <3> QED
      BY <3>2, <3>3
  <2>11. ViewOK'
    BY <2>1, <2>8, <2>9, <2>10 DEF ViewOK
  <2>12. told' = Len(stream') /\ told' \in Nat
    <3>1. told = Len(stream) /\ told' = told + n
      BY <1>0, <2>1
    <3>2. told + n \in Nat
      BY <1>0, <2>2
    <3>3. told' = Len(stream) + n
      BY <3>1
    <3> QED
      BY <2>5, <3>1, <3>2, <3>3
  <2> QED
    BY <1>0, <2>1, <2>5, <2>11, <2>12 DEF TransferInv
<1>4. ASSUME NEW n \in 0 .. Len(view.bytes), Transfer!SendRaises(n) PROVE TransferInv'
  <2>1. /\ step = "sending" /\ step' = "raised" /\ job' = job /\ data' = data
        /\ stream' = stream \o SubSeq(view.bytes, 1, n)
        /\ UNCHANGED <<offset, view, pipe, told>>
    BY <1>4 DEF Transfer!SendRaises, Transfer!Go
  <2>2. /\ Len(view.bytes) = Len(data) - Len(stream)
        /\ \A i \in 1 .. Len(view.bytes) : view.bytes[i] = data[Len(stream) + i]
    BY <1>0, <2>1 DEF ViewOK
  <2>3. Len(stream) + Len(view.bytes) <= Len(data)
    BY <1>1, <2>2
  <2>4. PrefixOK' /\ stream' \in Seq(Nat)
    BY <1>0, <1>4, <2>1, <2>2, <2>3, StreamTakes
  <2>5. ViewOK'
    BY <1>0, <2>1 DEF ViewOK
  <2> QED
    BY <1>0, <2>1, <2>4, <2>5 DEF TransferInv
<1>5. CASE Transfer!Return
  <2>1. /\ step = "loop" /\ step' = "returned" /\ job' = job /\ data' = data /\ view.bytes = <<>>
        /\ UNCHANGED <<offset, view, pipe, told, stream>>
    BY <1>5 DEF Transfer!Return, Transfer!Go
  <2> QED
    BY <1>0, <2>1 DEF TransferInv, PrefixOK, ViewOK
<1> QED
  BY <1>2, <1>3, <1>4, <1>5
     DEF Transfer!Next, Transfer!FileToPipe, Transfer!SpliceFails, Transfer!SendfileReturns,
         Transfer!PipeToSocket, Transfer!Go

\* A step of sendfile keeps the invariant.
LEMMA SendfileStep ==
    ASSUME TransferInv, job = "sendfile", Transfer!Next
    PROVE  TransferInv'
<1>0. /\ data \in Seq(Nat) /\ stream \in Seq(Nat) /\ told \in Nat /\ offset \in Nat
      /\ PrefixOK /\ FileOK /\ (step # "raised" => told = Len(stream))
  BY DEF TransferInv
<1>1. Len(data) \in Nat /\ Len(stream) \in Nat /\ PipeSize \in Nat
  BY <1>0, CallsAssumption
<1>2. CASE Transfer!FileToPipe
  <2> DEFINE m == Transfer!Least(Transfer!Block, PipeSize)
             part == [i \in 1 .. m |-> offset + i]
  <2>1. /\ step = "loop" /\ step' = "f2p" /\ job' = job /\ data' = data /\ Transfer!Block > 0
        /\ pipe' = part /\ UNCHANGED <<offset, view, told, stream>>
    BY <1>2 DEF Transfer!FileToPipe, Transfer!Go
  <2>2. data # <<>>
    BY <2>1 DEF Transfer!Block
  <2>3. Len(data) \in 1 .. Len(data)
    BY <1>0, <1>1, <2>2
  <2>4. Transfer!Block = data[Len(data)] - offset /\ data[Len(data)] \in Nat
    BY <1>0, <2>2, <2>3 DEF Transfer!Block
  <2>5. Fresh
    <3>1. ~(Transfer!Block <= 0)
      BY <1>0, <2>1, <2>4
    <3> QED
      BY <1>0, <2>1, <3>1 DEF FileOK
  <2>6. Transfer!Block = Len(data)
    <3>1. data[Len(data)] = offset + Len(data)
      BY <2>3, <2>5 DEF Fresh
    <3> QED
      BY <1>0, <1>1, <2>4, <3>1
  <2>7. m \in Nat /\ m <= Len(data)
    BY <1>1, <2>6 DEF Transfer!Least
  <2> HIDE DEF m
  <2>8. part \in Seq(Nat) /\ Len(part) = m /\ \A i \in 1 .. m : part[i] = offset + i
    <3>1. part \in [1 .. m -> Nat]
      BY <1>0, <2>7
    <3>2. part \in Seq(Nat)
      BY <2>7, <3>1, SeqDef
    <3>3. Len(part) = m
      BY <2>7, <3>1, <3>2, LenProperties
    <3> QED
      BY <3>2, <3>3
  <2> HIDE DEF part
  <2>9. FileOK'
    BY <2>1, <2>2, <2>5, <2>7, <2>8 DEF FileOK, Fresh
  <2> QED
    BY <1>0, <2>1, <2>9 DEF TransferInv, PrefixOK
<1>3. ASSUME NEW n \in 1 .. PipeSize, Transfer!PipeToSocket(n) PROVE TransferInv'
  <2>1. /\ step = "f2p" /\ step' = "loop" /\ job' = job /\ data' = data /\ n <= Len(pipe)
        /\ stream' = stream \o SubSeq(pipe, 1, n) /\ told' = told + n
        /\ offset' = offset + Transfer!Block
    BY <1>3 DEF Transfer!PipeToSocket, Transfer!Go, Transfer!Operate
  <2>2. /\ Fresh /\ data # <<>> /\ pipe \in Seq(Nat) /\ Len(pipe) <= Len(data)
        /\ \A i \in 1 .. Len(pipe) : pipe[i] = offset + i
    BY <1>0, <2>1 DEF FileOK
  <2>3. Len(pipe) \in Nat /\ n \in Nat /\ n \in 0 .. Len(pipe)
    BY <1>1, <2>1, <2>2
  <2>4. Len(stream) = 0 /\ Len(stream) + Len(pipe) <= Len(data)
    BY <1>1, <2>2, <2>3 DEF Fresh
  <2>5. \A i \in 1 .. Len(pipe) : pipe[i] = data[Len(stream) + i]
    <3> SUFFICES ASSUME NEW i \in 1 .. Len(pipe) PROVE pipe[i] = data[Len(stream) + i]
      OBVIOUS
    <3>1. i \in 1 .. Len(data) /\ Len(stream) + i = i
      BY <1>1, <2>2, <2>3, <2>4
    <3> QED
      BY <2>2, <3>1 DEF Fresh
  <2>6. PrefixOK' /\ stream' \in Seq(Nat) /\ Len(stream') = Len(stream) + n
    BY <1>0, <2>1, <2>2, <2>3, <2>4, <2>5, StreamTakes
  <2>7. Len(data) \in 1 .. Len(data)
    BY <1>0, <1>1, <2>2
  <2>8. Transfer!Block = data[Len(data)] - offset /\ data[Len(data)] \in Nat
    BY <1>0, <2>2, <2>7 DEF Transfer!Block
  <2>9. offset' = data[Len(data)] /\ offset' \in Nat
    BY <1>0, <2>1, <2>8
  <2>10. Transfer!Block' = data[Len(data)] - data[Len(data)]
    BY <2>1, <2>2, <2>9 DEF Transfer!Block
  <2>11. Transfer!Block' <= 0
    BY <2>8, <2>10
  <2>12. FileOK'
    BY <2>1, <2>11 DEF FileOK
  <2>13. told' = Len(stream') /\ told' \in Nat
    <3>1. told = Len(stream) /\ told' = told + n
      BY <1>0, <2>1
    <3>2. told + n \in Nat
      BY <1>0, <2>3
    <3>3. told' = Len(stream) + n
      BY <3>1
    <3> QED
      BY <2>6, <3>1, <3>2, <3>3
  <2> QED
    BY <1>0, <2>1, <2>6, <2>9, <2>12, <2>13 DEF TransferInv
<1>4. CASE Transfer!SpliceFails \/ Transfer!SendfileReturns
  <2>1. /\ step' \in {"raised", "returned"} /\ (step' = "returned" => step = "loop") /\ step # "raised"
        /\ job' = job /\ data' = data /\ UNCHANGED <<offset, view, pipe, told, stream>>
    BY <1>4 DEF Transfer!SpliceFails, Transfer!SendfileReturns, Transfer!Go
  <2>2. FileOK'
    BY <2>1 DEF FileOK
  <2> QED
    BY <1>0, <2>1, <2>2 DEF TransferInv, PrefixOK
<1> QED
  BY <1>2, <1>3, <1>4
     DEF Transfer!Next, Transfer!Send, Transfer!Return, Transfer!SendEnds, Transfer!SendRaises,
         Transfer!Go

\* A transfer before its first step.
LEMMA TransferStarts ==
    ASSUME Transfer!Init
    PROVE  TransferInv
<1>0. MaxSize \in Nat /\ <<>> \in Seq(Nat) /\ Len(<<>>) = 0
  BY CallsAssumption
<1>1. /\ Transfer!InitSendall \/ Transfer!InitSendfile
      /\ told = 0 /\ step = "loop" /\ stream = <<>>
  BY DEF Transfer!Init
<1>2. ASSUME NEW k \in Nat, NEW off \in Nat, data = [i \in 1 .. k |-> off + i]
      PROVE  data \in Seq(Nat) /\ Len(data) = k /\ \A i \in 1 .. k : data[i] = off + i
  <2>1. data \in [1 .. k -> Nat]
    BY <1>2
  <2>2. data \in Seq(Nat)
    BY <2>1, SeqDef
  <2>3. Len(data) = k
    BY <2>1, <2>2, LenProperties
  <2> QED
    BY <1>2, <2>2, <2>3
<1>3. CASE Transfer!InitSendall
  <2>1. PICK items \in 0 .. MaxSize, width \in 1 .. MaxSize :
            /\ job = "sendall" /\ data = [i \in 1 .. items * width |-> i]
            /\ view = [bytes |-> data, width |-> 1] /\ offset = 0
    BY <1>3 DEF Transfer!InitSendall, Transfer!Cast
  <2> DEFINE k == items * width
  <2>2. k \in Nat
    BY <1>0
  <2>3. data = [i \in 1 .. k |-> 0 + i]
    BY <2>1, <2>2
  <2> HIDE DEF k
  <2>4. data \in Seq(Nat) /\ Len(data) = k /\ \A i \in 1 .. k : data[i] = 0 + i
    BY <1>2, <2>2, <2>3
  <2>5. view.bytes = data /\ view \in [bytes : Seq(Nat), width : {1}]
    BY <2>1, <2>4
  <2>6. Len(data) \in Nat
    BY <2>4
  <2>7. Len(view.bytes) = Len(data) - Len(stream)
    BY <1>0, <1>1, <2>5, <2>6
  <2>8. \A i \in 1 .. Len(view.bytes) : view.bytes[i] = data[Len(stream) + i]
    BY <1>0, <1>1, <2>5, <2>6
  <2>9. ViewOK
    BY <1>1, <2>5, <2>7, <2>8 DEF ViewOK
  <2>10. PrefixOK /\ offset \in Nat /\ told \in Nat /\ told = Len(stream)
    BY <1>0, <1>1, <2>1, <2>6 DEF PrefixOK
  <2> QED
    BY <1>0, <1>1, <2>1, <2>4, <2>9, <2>10 DEF TransferInv
<1>4. CASE Transfer!InitSendfile
  <2>1. PICK size \in 0 .. MaxSize, off \in 0 .. MaxSize, count \in 0 .. MaxSize :
            LET end == IF count = 0 THEN size ELSE Transfer!Least(off + count, size)
            IN  /\ job = "sendfile" /\ off <= size
                /\ data = [i \in 1 .. end - off |-> off + i] /\ offset = off
    BY <1>4 DEF Transfer!InitSendfile
  <2> DEFINE end == IF count = 0 THEN size ELSE Transfer!Least(off + count, size)
             k == end - off
  <2>2. /\ job = "sendfile" /\ off <= size
        /\ data = [i \in 1 .. k |-> off + i] /\ offset = off
    BY <2>1
  <2>3. k \in Nat /\ off \in Nat
    BY <1>0, <2>2 DEF Transfer!Least
  <2> HIDE DEF k, end
  <2>4. data \in Seq(Nat) /\ Len(data) = k /\ \A i \in 1 .. k : data[i] = off + i
    BY <1>2, <2>2, <2>3
  <2>5. Len(data) \in Nat
    BY <2>4
  <2>6. FileOK
    BY <1>1, <2>2, <2>4 DEF FileOK, Fresh
  <2>7. PrefixOK /\ offset \in Nat /\ told \in Nat /\ told = Len(stream)
    BY <1>0, <1>1, <2>2, <2>3, <2>5 DEF PrefixOK
  <2> QED
    BY <1>0, <1>1, <2>2, <2>4, <2>6, <2>7 DEF TransferInv
<1> QED
  BY <1>1, <1>3, <1>4

\* The invariant holds whenever the call is a transfer.
LEMMA TransferInvariant == Spec => [](call = "transfer" => TransferInv)
<1>1. Init => (call = "transfer" => TransferInv)
  BY TransferStarts DEF Init
<1>2. (call = "transfer" => TransferInv) /\ [Next]_vars => (call = "transfer" => TransferInv)'
  <2> SUFFICES ASSUME call = "transfer" => TransferInv, [Next]_vars, call' = "transfer"
               PROVE  TransferInv'
    OBVIOUS
  <2>1. call' = call
    BY DEF Next, TransferNext, RequestNext, ServerNext, ConnectionNext, ChildNext, vars
  <2>2. Transfer!Next \/ UNCHANGED TransferVars
    BY <2>1 DEF Next, TransferNext, RequestNext, ServerNext, ConnectionNext, ChildNext, vars
  <2>3. CASE UNCHANGED TransferVars
    BY <2>1, <2>3
       DEF TransferVars, TransferInv, PrefixOK, ViewOK, FileOK, Fresh, Transfer!Block
  <2>4. job \in {"sendall", "sendfile"}
    BY <2>1 DEF TransferInv
  <2> QED
    BY <2>1, <2>2, <2>3, <2>4, SendallStep, SendfileStep
<1> QED
  BY <1>1, <1>2, PTL DEF Spec

\* sock_sendall and sendfile: the peer gets the bytes in order, none twice and none left
\* out before others, also when a later send fails; the futures report what the kernel took;
\* and sock_sendall returns only when that is everything.  For buffers, files and pipes of
\* any size, and whatever part of it each send or splice moves.
THEOREM SendsStayInOrder == Spec => []SentInOrder
<1>1. (call = "transfer" => TransferInv) => SentInOrder
  <2>1. ASSUME TransferInv PROVE Transfer!SentInOrder
    <3>1. Len(stream) <= Len(data) /\ (step # "raised" => told = Len(stream))
      BY <2>1 DEF TransferInv, PrefixOK
    <3>2. stream = SubSeq(data, 1, Len(stream))
      BY <2>1, PrefixIsSubSeq
    <3>3. ASSUME job = "sendall", step = "returned" PROVE stream = data
      <4>1. /\ data \in Seq(Nat) /\ stream \in Seq(Nat)
            /\ \A i \in 1 .. Len(stream) : stream[i] = data[i]
        BY <2>1 DEF TransferInv, PrefixOK
      <4>2. view.bytes = <<>> /\ Len(view.bytes) = Len(data) - Len(stream)
        BY <2>1, <3>3 DEF TransferInv, ViewOK
      <4>3. Len(stream) = Len(data)
        <5>1. Len(data) \in Nat /\ Len(stream) \in Nat
          BY <4>1
        <5>2. Len(data) - Len(stream) = 0
          BY <4>2
        <5> QED
          BY <5>1, <5>2
      <4> QED
        BY <4>1, <4>3, SeqEqual
    <3> QED
      BY <3>1, <3>2, <3>3 DEF Transfer!SentInOrder
  <2> QED
    BY <2>1 DEF SentInOrder
<1> QED
  BY <1>1, TransferInvariant, PTL

-----------------------------------------------------------------------------
(* The socket address of a request.                                        *)

\* Two bytes of a word, and the word they make up.
LEMMA TwoBytes ==
    ASSUME NEW p \in Request!Byte, NEW q \in Request!Byte
    PROVE  /\ p \in Nat /\ q \in Nat /\ Base * q + p \in Request!Word
           /\ (Base * q + p) % Base = p /\ (Base * q + p) \div Base = q
<1>1. Base \in Nat /\ Base > 0
  BY CallsAssumption
<1>2. p \in Nat /\ q \in Nat /\ p < Base /\ q < Base
  BY <1>1 DEF Request!Byte
<1>3. (Base * q + p) % Base = p
  BY <1>1, <1>2
<1>4. (Base * q + p) \div Base = q
  BY <1>1, <1>2
<1>5. Base * q + p \in Nat /\ Base * q + Base <= Base * Base
  BY <1>1, <1>2
<1>6. Base * q + p <= Base * Base - 1 /\ Base * Base - 1 \in Int
  BY <1>1, <1>2, <1>5
<1> QED
  BY <1>2, <1>3, <1>4, <1>5, <1>6 DEF Request!Word

\* A word, in bytes.
LEMMA WordBytes ==
    ASSUME NEW v \in Request!Word
    PROVE  /\ v \in Nat /\ v % Base \in Request!Byte /\ v \div Base \in Request!Byte
           /\ Base * (v \div Base) + (v % Base) = v
<1>1. Base \in Nat /\ Base > 0 /\ v \in Nat /\ v < Base * Base
  BY CallsAssumption DEF Request!Word
<1>2. v % Base \in 0 .. Base - 1 /\ v \div Base \in Nat
  BY <1>1
<1>3. Base * (v \div Base) + (v % Base) = v
  BY <1>1
<1>4. v \div Base < Base
  BY <1>1
<1> QED
  BY <1>1, <1>2, <1>3, <1>4 DEF Request!Byte

\* A port is exchanged in network byte order, both ways; a word read without ntohs has its
\* bytes swapped; an address is a copy.
LEMMA ByteOrder ==
    /\ \A v \in Request!Word :
           /\ Request!NetWord(Request!HostBytes(Request!htons(v))) = v
           /\ Request!ntohs(Request!HostWord(Request!Reverse(Request!HostBytes(v)))) = v
           /\ Request!HostWord(Request!Reverse(Request!HostBytes(v))) = Request!htons(v)
    /\ \A ip \in Request!Byte \X Request!Byte : Request!HostBytes(Request!HostWord(ip)) = ip
<1>1. ASSUME NEW v \in Request!Word
      PROVE  /\ Request!NetWord(Request!HostBytes(Request!htons(v))) = v
             /\ Request!ntohs(Request!HostWord(Request!Reverse(Request!HostBytes(v)))) = v
           /\ Request!HostWord(Request!Reverse(Request!HostBytes(v))) = Request!htons(v)
  <2> DEFINE lo == v % Base
             hi == v \div Base
             w  == Base * lo + hi
  <2>1. lo \in Request!Byte /\ hi \in Request!Byte /\ Base * hi + lo = v /\ v \in Nat
    BY WordBytes
  <2>2. w % Base = hi /\ w \div Base = lo /\ w \in Nat /\ lo \in Nat /\ hi \in Nat
    BY <2>1, TwoBytes DEF Request!Word
  <2>3. Request!htons(v) = w
    BY DEF Request!htons, Request!NetWord, Request!HostBytes
  <2>4. Request!htons(w) = Base * (w % Base) + (w \div Base)
    BY DEF Request!htons, Request!NetWord, Request!HostBytes
  <2>5. Request!NetWord(Request!HostBytes(w)) = Base * (w % Base) + (w \div Base)
    BY DEF Request!NetWord, Request!HostBytes
  <2>6. Request!HostWord(Request!Reverse(Request!HostBytes(v))) = hi + Base * lo
    <3>1. Request!HostBytes(v) = <<lo, hi>>
      BY DEF Request!HostBytes
    <3>2. Request!Reverse(<<lo, hi>>) = <<hi, lo>>
      BY DEF Request!Reverse
    <3> QED
      BY <3>1, <3>2 DEF Request!HostWord
  <2> HIDE DEF lo, hi, w
  <2>7. hi + Base * lo = w
    <3>1. Base * lo \in Nat
      BY <2>2, CallsAssumption
    <3> QED
      BY <2>2, <3>1 DEF w
  <2>8. Base * (w % Base) + (w \div Base) = v
    BY <2>1, <2>2
  <2> QED
    BY <2>3, <2>4, <2>5, <2>6, <2>7, <2>8 DEF Request!ntohs
<1>2. ASSUME NEW ip \in Request!Byte \X Request!Byte
      PROVE  Request!HostBytes(Request!HostWord(ip)) = ip
  <2>1. ip[1] \in Request!Byte /\ ip[2] \in Request!Byte /\ ip = <<ip[1], ip[2]>>
    OBVIOUS
  <2>2. /\ (Base * ip[2] + ip[1]) % Base = ip[1] /\ (Base * ip[2] + ip[1]) \div Base = ip[2]
        /\ ip[1] \in Nat /\ ip[2] \in Nat
    BY <2>1, TwoBytes
  <2>3. Base * ip[2] \in Nat
    BY <2>2, CallsAssumption
  <2>4. Request!HostWord(ip) = Base * ip[2] + ip[1]
    BY <2>2, <2>3 DEF Request!HostWord
  <2> QED
    BY <2>1, <2>2, <2>4 DEF Request!HostBytes
<1> QED
  BY <1>1, <1>2

\* The place of the first NUL.
LEMMA FirstNul ==
    ASSUME NEW s \in Seq(Nat)
    PROVE  Request!CString(s) = LET I == {i \in 1 .. Len(s) : s[i] = 0}
                                IN  IF I # {} THEN CHOOSE x \in I : \A y \in I : x <= y ELSE 0
BY DEF Request!CString, Request!SelectInSeq, Request!Min

\* A path without NUL ends where the zeros begin.
LEMMA PathEnds ==
    ASSUME NEW s \in Seq(Nat), \A i \in 1 .. Len(s) : s[i] # 0, NEW k \in Nat
    PROVE  Request!UpToNul(s \o Request!Zeros(k)) = s
<1> DEFINE z == Request!Zeros(k)
           u == s \o z
           I == {i \in 1 .. Len(u) : u[i] = 0}
           n == Len(s)
<1>1. z \in Seq(Nat) /\ Len(z) = k /\ \A i \in 1 .. k : z[i] = 0
  <2>1. z = [i \in 1 .. k |-> 0]
    BY DEF Request!Zeros
  <2>2. z \in [1 .. k -> Nat]
    BY <2>1
  <2>3. z \in Seq(Nat)
    BY <2>2, SeqDef
  <2>4. Len(z) = k
    BY <2>2, <2>3, LenProperties
  <2> QED
    BY <2>1, <2>3, <2>4
<1> HIDE DEF z
<1>2. /\ u \in Seq(Nat) /\ Len(u) = Len(s) + Len(z)
      /\ \A i \in 1 .. Len(s) + Len(z) : u[i] = IF i <= Len(s) THEN s[i] ELSE z[i - Len(s)]
  BY <1>1, JoinedSeq
<1>3. n \in Nat /\ Len(u) = n + k
  BY <1>1, <1>2
<1>4. \A i \in 1 .. n : u[i] = s[i]
  BY <1>2, <1>3, <1>1
<1>5. \A i \in 1 .. n + k : i > n => u[i] = 0
  <2> SUFFICES ASSUME NEW i \in 1 .. n + k, i > n PROVE u[i] = 0
    OBVIOUS
  <2>1. i - n \in 1 .. k /\ ~(i <= n)
    BY <1>3
  <2>2. u[i] = z[i - n]
    BY <1>1, <1>2, <2>1
  <2> QED
    BY <1>1, <2>1, <2>2
<1>6. Request!CString(u) = IF I # {} THEN CHOOSE x \in I : \A y \in I : x <= y ELSE 0
  BY <1>2, FirstNul
<1> HIDE DEF u
<1>7. CASE k = 0
  <2>1. u = s
    <3>1. Len(u) = Len(s) /\ \A i \in 1 .. Len(u) : u[i] = s[i]
      BY <1>3, <1>4, <1>7
    <3> QED
      BY <1>2, <3>1, SeqEqual
  <2>2. I = {}
    BY <1>3, <1>4, <1>7
  <2>3. Request!CString(u) = 0
    BY <1>6, <2>2
  <2> QED
    BY <2>1, <2>3 DEF Request!UpToNul, u, z
<1>8. CASE k > 0
  <2>1. n + 1 \in I /\ \A y \in I : n + 1 <= y
    BY <1>3, <1>4, <1>5, <1>8
  <2>2. \A x \in I : (\A y \in I : x <= y) => x = n + 1
    BY <1>3, <2>1
  <2>3. Request!CString(u) = n + 1
    <3>1. \E x \in I : \A y \in I : x <= y
      BY <2>1
    <3> QED
      BY <1>6, <2>1, <2>2, <3>1
  <2>4. Request!UpToNul(u) = SubSeq(u, 1, n)
    <3>1. n + 1 # 0 /\ n + 1 - 1 = n
      BY <1>3
    <3> QED
      BY <2>3, <3>1 DEF Request!UpToNul
  <2>5. n \in 0 .. Len(u)
    BY <1>3, <1>8
  <2> DEFINE part == SubSeq(u, 1, n)
  <2>6. part \in Seq(Nat) /\ Len(part) = n /\ \A i \in 1 .. n : part[i] = u[i]
    BY <1>2, <2>5, FromTheFirst
  <2> HIDE DEF part
  <2>7. part = s
    BY <1>4, <2>6, SeqEqual
  <2> QED
    BY <2>4, <2>7 DEF part, u, z
<1> QED
  BY <1>7, <1>8

\* The name of a file is a sequence of bytes without NUL.
LEMMA NamesAreSeqs ==
    ASSUME NEW s \in Request!Names
    PROVE  s \in Seq(Nat) /\ Len(s) \in 1 .. SunPath /\ \A i \in 1 .. Len(s) : s[i] # 0
<1>1. PICK n \in 1 .. SunPath : s \in [1 .. n -> Request!Byte \ {0}]
  BY DEF Request!Names
<1>2. n \in Nat
  BY CallsAssumption
<1>3. s \in [1 .. n -> Nat] /\ \A i \in 1 .. n : s[i] # 0
  BY <1>1, CallsAssumption DEF Request!Byte
<1>4. s \in Seq(Nat)
  BY <1>2, <1>3, SeqDef
<1>5. Len(s) = n
  BY <1>2, <1>3, <1>4, LenProperties
<1> QED
  BY <1>1, <1>3, <1>4, <1>5

\* Of a path that begins with a NUL ffi.string returns nothing.
LEMMA NothingBeforeNul ==
    ASSUME NEW s \in Seq(Nat), Len(s) > 0, s[1] = 0
    PROVE  Request!UpToNul(s) = <<>>
<1> DEFINE I == {i \in 1 .. Len(s) : s[i] = 0}
<1>1. 1 \in I /\ \A y \in I : 1 <= y
  OBVIOUS
<1>2. \A x \in I : (\A y \in I : x <= y) => x = 1
  BY <1>1
<1>3. Request!CString(s) = 1
  BY <1>1, <1>2, FirstNul
<1>4. Request!UpToNul(s) = SubSeq(s, 1, 0)
  BY <1>3 DEF Request!UpToNul
<1>5. SubSeq(s, 1, 0) = <<>>
  BY <1>4
<1> QED
  BY <1>4, <1>5

\* The path in the struct: its own bytes, then zeros to the end of sun_path.
LEMMA PaddedPath ==
    ASSUME NEW p \in Seq(Nat), Len(p) <= SunPath
    PROVE  LET m == p \o Request!Zeros(SunPath - Len(p))
           IN  /\ m \in Seq(Nat) /\ Len(m) = SunPath /\ SubSeq(m, 1, SunPath) = m
               /\ m[1] = IF p = <<>> THEN 0 ELSE p[1]
<1> DEFINE k == SunPath - Len(p)
           z == Request!Zeros(k)
           m == p \o z
<1>1. SunPath \in Nat /\ SunPath >= 1 /\ Len(p) \in Nat /\ k \in Nat
  BY CallsAssumption
<1>2. z \in Seq(Nat) /\ Len(z) = k /\ \A i \in 1 .. k : z[i] = 0
  <2>1. z = [i \in 1 .. k |-> 0]
    BY DEF Request!Zeros
  <2>2. z \in [1 .. k -> Nat]
    BY <2>1
  <2> HIDE DEF k
  <2>3. z \in Seq(Nat)
    BY <1>1, <2>2, SeqDef
  <2>4. Len(z) = k
    BY <1>1, <2>2, <2>3, LenProperties
  <2> QED
    BY <2>1, <2>3, <2>4
<1> HIDE DEF z
<1>3. /\ m \in Seq(Nat) /\ Len(m) = Len(p) + Len(z)
      /\ \A i \in 1 .. Len(p) + Len(z) : m[i] = IF i <= Len(p) THEN p[i] ELSE z[i - Len(p)]
  BY <1>2, JoinedSeq
<1> HIDE DEF m
<1>4. Len(p) + Len(z) = SunPath /\ 1 \in 1 .. SunPath
  BY <1>1, <1>2
<1>5. m[1] = IF p = <<>> THEN 0 ELSE p[1]
  <2>1. CASE p = <<>>
    <3>1. Len(p) = 0
      BY <2>1
    <3>2. ~(1 <= Len(p)) /\ 1 - Len(p) = 1 /\ 1 \in 1 .. k
      BY <1>1, <3>1
    <3>3. m[1] = z[1] /\ z[1] = 0
      BY <1>2, <1>3, <1>4, <3>2
    <3> QED
      BY <2>1, <3>3
  <2>2. CASE p # <<>>
    <3>1. Len(p) # 0
      BY <2>2, EmptySeq
    <3>2. 1 <= Len(p)
      BY <1>1, <3>1
    <3> QED
      BY <1>3, <1>4, <2>2, <3>2
  <2> QED
    BY <2>1, <2>2
<1>6. SubSeq(m, 1, SunPath) = m
  <2> DEFINE part == SubSeq(m, 1, SunPath)
  <2>1. SunPath \in 0 .. Len(m)
    BY <1>1, <1>3, <1>4
  <2>2. part \in Seq(Nat) /\ Len(part) = SunPath /\ \A i \in 1 .. SunPath : part[i] = m[i]
    BY <1>3, <2>1, FromTheFirst
  <2> HIDE DEF part
  <2>3. part = m
    BY <1>3, <1>4, <2>2, SeqEqual
  <2> QED
    BY <2>3 DEF part
<1> QED
  BY <1>3, <1>4, <1>5, <1>6 DEF m, z

\* What the kernel reads of a struct that lib.py has filled, and lib.py of one that the
\* kernel has filled, is what Arrived says of the address.
LEMMA AddressArrives ==
    ASSUME NEW a \in Request!Addresses
    PROVE  /\ kind \in Request!GivesAddress =>
                  Request!KernelReads(a.family, Request!NewReadableSockaddr(a),
                                      Request!GetSockaddrSize) = Request!Arrived(a)
           /\ kind \notin Request!GivesAddress =>
                  Request!ParseAddr(a.family, Request!KernelWrites(a)) = Request!Arrived(a)
<1>0. Base \in Nat /\ Base > 0 /\ SunPath \in Nat
  BY CallsAssumption
<1>1. CASE a \in [family : {"inet"}, ip : Request!Byte \X Request!Byte, port : Request!Word]
  <2>1. /\ a.family = "inet" /\ a.ip \in Request!Byte \X Request!Byte /\ a.port \in Request!Word
        /\ a = [family |-> "inet", ip |-> a.ip, port |-> a.port]
    BY <1>1
  <2>2. /\ Request!NetWord(Request!HostBytes(Request!htons(a.port))) = a.port
        /\ Request!ntohs(Request!HostWord(Request!Reverse(Request!HostBytes(a.port)))) = a.port
        /\ Request!HostBytes(Request!HostWord(a.ip)) = a.ip
    BY <2>1, ByteOrder
  <2>3. Request!KernelReads(a.family, Request!NewReadableSockaddr(a), Request!GetSockaddrSize)
            = [family |-> "inet", ip |-> a.ip, port |-> a.port]
    BY <2>1, <2>2 DEF Request!KernelReads, Request!NewReadableSockaddr, Request!SetIpv4
  <2>4. Request!ParseAddr(a.family, Request!KernelWrites(a))
            = [family |-> "inet", ip |-> a.ip, port |-> a.port]
    BY <2>1, <2>2 DEF Request!ParseAddr, Request!KernelWrites, Request!ParseIpv4
  <2>5. Request!Arrived(a) = a
    BY <2>1 DEF Request!Arrived
  <2> QED
    BY <2>1, <2>3, <2>4, <2>5
<1>2. CASE a \in [family : {"inet6"}, ip : Request!Byte \X Request!Byte, port : Request!Word,
                  flow : Flows, scope : Request!Byte]
  <2> DEFINE f == Request!htons(a.flow)
             b == [family |-> "inet6", ip |-> a.ip, port |-> a.port, flow |-> f, scope |-> a.scope]
  <2>1. /\ a.family = "inet6" /\ a.ip \in Request!Byte \X Request!Byte /\ a.port \in Request!Word
        /\ a.flow \in Request!Word
    BY <1>2, CallsAssumption DEF Request!Word
  <2>2. Request!Arrived(a) = b
    <3>1. a = [family |-> "inet6", ip |-> a.ip, port |-> a.port, flow |-> a.flow, scope |-> a.scope]
      BY <1>2
    <3>2. [a EXCEPT !.flow = f] = b
      BY <3>1
    <3> QED
      BY <2>1, <3>2 DEF Request!Arrived
  <2>3. /\ Request!NetWord(Request!HostBytes(Request!htons(a.port))) = a.port
        /\ Request!ntohs(Request!HostWord(Request!Reverse(Request!HostBytes(a.port)))) = a.port
        /\ Request!HostWord(Request!Reverse(Request!HostBytes(a.flow))) = f
    BY <2>1, ByteOrder
  <2>4. Request!NetWord(Request!HostBytes(a.flow)) = f
    BY DEF Request!htons
  <2>5. [i \in 1 .. Len(a.ip) |-> a.ip[i]] = a.ip
    BY <2>1
  <2> HIDE DEF f
  <2>6. Request!KernelReads(a.family, Request!NewReadableSockaddr(a), Request!GetSockaddrSize) = b
    BY <2>1, <2>3, <2>4, <2>5 DEF Request!KernelReads, Request!NewReadableSockaddr, Request!SetIpv6
  <2>7. Request!ParseAddr(a.family, Request!KernelWrites(a)) = b
    BY <2>1, <2>3 DEF Request!ParseAddr, Request!KernelWrites, Request!ParseIpv6
  <2> QED
    BY <2>2, <2>6, <2>7
<1>3. CASE a \in [family : {"unix"}, path : Request!Paths]
  <2> DEFINE p == a.path
             k == SunPath - Len(p)
             m == p \o Request!Zeros(k)
  <2>1. a.family = "unix" /\ p \in Request!Paths /\ a = [family |-> "unix", path |-> p]
    BY <1>3
  <2>2. \A n \in Request!Names :
            n \in Seq(Nat) /\ Len(n) \in 1 .. SunPath /\ \A i \in 1 .. Len(n) : n[i] # 0
    BY NamesAreSeqs
  <2>3. /\ p \in Seq(Nat) /\ Len(p) <= SunPath
        /\ \/ p = <<>>
           \/ p # <<>> /\ p[1] = 0
           \/ p # <<>> /\ \A i \in 1 .. Len(p) : p[i] # 0
    <3> DEFINE Abstract(n) == <<0>> \o n
    <3>1. CASE p = <<>>
      BY <1>0, <3>1
    <3>2. CASE p \in Request!Names
      BY <1>0, <2>2, <3>2
    <3>3. ASSUME NEW n \in Request!Names, Len(n) < SunPath, p = Abstract(n)
          PROVE  p \in Seq(Nat) /\ Len(p) <= SunPath /\ p # <<>> /\ p[1] = 0
      <4>1. n \in Seq(Nat) /\ <<0>> \in Seq(Nat) /\ Len(<<0>>) = 1 /\ Len(n) \in Nat
        BY <2>2, <3>3
      <4>2. /\ p \in Seq(Nat) /\ Len(p) = 1 + Len(n)
            /\ \A i \in 1 .. 1 + Len(n) : p[i] = IF i <= 1 THEN <<0>>[i] ELSE n[i - 1]
        BY <3>3, <4>1, JoinedSeq
      <4> QED
        BY <1>0, <3>3, <4>1, <4>2
    <3> QED
      BY <2>1, <3>1, <3>2, <3>3 DEF Request!Paths
  <2>4. k \in Nat
    BY <1>0, <2>3
  <2>5. /\ m \in Seq(Nat) /\ Len(m) > 0 /\ SubSeq(m, 1, SunPath) = m
        /\ m[1] = IF p = <<>> THEN 0 ELSE p[1]
    <3> HIDE DEF p
    <3>1. /\ m \in Seq(Nat) /\ Len(m) = SunPath /\ SubSeq(m, 1, SunPath) = m
          /\ m[1] = IF p = <<>> THEN 0 ELSE p[1]
      BY <2>3, PaddedPath
    <3> HIDE DEF m
    <3> QED
      BY <3>1, CallsAssumption
  <2>6. /\ Request!NewReadableSockaddr(a) = [path |-> m] /\ Request!KernelWrites(a) = [path |-> m]
        /\ Request!GetSockaddrSize = SunPath
    BY <2>1 DEF Request!NewReadableSockaddr, Request!SetUnix, Request!KernelWrites,
                Request!GetSockaddrSize
  <2>7. CASE p # <<>> /\ p[1] # 0
    <3>1. Request!UpToNul(m) = p
      BY <2>3, <2>4, <2>7, PathEnds
    <3> HIDE DEF k, m
    <3>2. Request!KernelReads("unix", [path |-> m], SunPath) = [family |-> "unix", path |-> p]
      BY <2>5, <2>7, <3>1 DEF Request!KernelReads
    <3>3. Request!ParseAddr("unix", [path |-> m]) = [family |-> "unix", path |-> p]
      BY <3>1 DEF Request!ParseAddr, Request!ParseUnix
    <3>4. Request!Arrived(a) = a
      BY <2>1, <2>7 DEF Request!Arrived
    <3> QED
      BY <2>1, <2>6, <3>2, <3>3, <3>4
  <2>8. CASE ~(p # <<>> /\ p[1] # 0)
    <3> HIDE DEF p, m
    <3>1. m[1] = 0
      BY <2>5, <2>8
    <3>2. Request!UpToNul(m) = <<>>
      BY <2>5, <3>1, NothingBeforeNul
    <3>3. Request!Arrived(a) = [a EXCEPT !.path = IF kind \in Request!GivesAddress THEN m ELSE <<>>]
      BY <2>1, <2>8 DEF Request!Arrived, p, m
    <3>4. \A q : [a EXCEPT !.path = q] = [family |-> "unix", path |-> q]
      BY <2>1
    <3>5. Request!KernelReads("unix", [path |-> m], SunPath) = [family |-> "unix", path |-> m]
      BY <2>5, <3>1 DEF Request!KernelReads
    <3>6. Request!ParseAddr("unix", [path |-> m]) = [family |-> "unix", path |-> <<>>]
      BY <3>2 DEF Request!ParseAddr, Request!ParseUnix
    <3> QED
      BY <2>1, <2>6, <3>3, <3>4, <3>5, <3>6
  <2> QED
    BY <2>7, <2>8
<1> QED
  BY <1>1, <1>2, <1>3 DEF Request!Addresses

\* The address of the request, and what was seen of it.
AddressInv ==
    /\ kind \in Request!GivesAddress \cup Request!GetsAddress => addr \in Request!Addresses
    /\ seen = Request!NoAddr \/ seen = Request!Arrived(addr)

\* connect, sendto, accept and recvfrom, for every value of the constants: the kernel gets
\* exactly the address the caller gave, and the caller that of the peer, but for the bytes
\* of flowinfo, which are swapped, and for unix paths that are empty or abstract: the kernel
\* gets them padded to the length of sun_path, the caller gets the empty string.
THEOREM AddressesStayExact == Spec => []AddressesArrive
<1>1. Init => (call = "request" => AddressInv)
  <2> SUFFICES ASSUME Init, call = "request" PROVE AddressInv
    OBVIOUS
  <2>1. Request!Init
    BY DEF Init
  <2>2. /\ seen = Request!NoAddr
        /\ addr \in IF kind \in Request!GivesAddress \cup Request!GetsAddress
                    THEN Request!Addresses ELSE {Request!NoAddr}
    BY <2>1 DEF Request!Init
  <2> QED
    BY <2>2 DEF AddressInv
<1>2. (call = "request" => AddressInv) /\ [Next]_vars => (call = "request" => AddressInv)'
  <2> SUFFICES ASSUME call = "request" => AddressInv, [Next]_vars, call' = "request"
               PROVE  AddressInv'
    OBVIOUS
  <2>1. call' = call /\ AddressInv
    BY DEF Next, TransferNext, RequestNext, ServerNext, ConnectionNext, ChildNext, vars
  <2>2. Request!Next \/ UNCHANGED RequestVars
    BY <2>1 DEF Next, TransferNext, RequestNext, ServerNext, ConnectionNext, ChildNext, vars
  <2>3. ASSUME kind' = kind, addr' = addr, seen' = seen \/ seen' = Request!Arrived(addr)
        PROVE  AddressInv'
    BY <2>1, <2>3 DEF AddressInv, Request!Arrived
  <2>4. CASE Request!KernelCompletes
    <3>1. /\ kind' = kind /\ addr' = addr
          /\ seen' = IF kind \in Request!GivesAddress
                     THEN Request!KernelReads(addr.family, Request!NewReadableSockaddr(addr),
                                              Request!GetSockaddrSize)
                     ELSE seen
      BY <2>4 DEF Request!KernelCompletes
    <3>2. kind \in Request!GivesAddress => addr \in Request!Addresses
      BY <2>1 DEF AddressInv
    <3>3. seen' = seen \/ seen' = Request!Arrived(addr)
      BY <3>1, <3>2, AddressArrives
    <3> QED
      BY <2>3, <3>1, <3>3
  <2>5. CASE Request!HandleCqe
    <3>1. /\ kind' = kind /\ addr' = addr
          /\ seen' = IF kind \in Request!GetsAddress /\ ~cancelled
                     THEN Request!ParseAddr(addr.family, Request!KernelWrites(addr)) ELSE seen
      BY <2>5 DEF Request!HandleCqe
    <3>2. /\ kind \in Request!GetsAddress => addr \in Request!Addresses
          /\ kind \in Request!GetsAddress => kind \notin Request!GivesAddress
      BY <2>1 DEF AddressInv, Request!GetsAddress, Request!GivesAddress
    <3>3. seen' = seen \/ seen' = Request!Arrived(addr)
      BY <3>1, <3>2, AddressArrives
    <3> QED
      BY <2>3, <3>1, <3>3
  <2>6. CASE \/ Request!Submit \/ Request!Flush \/ Request!Cancel \/ Request!CancelHandled
             \/ Request!UserResizes \/ (\E what \in {"user", "future"} : Request!UserDrops(what))
             \/ UNCHANGED RequestVars
    <3>1. kind' = kind /\ addr' = addr /\ seen' = seen
      BY <2>6 DEF Request!Submit, Request!Flush, Request!Cancel, Request!CancelHandled,
                  Request!UserResizes, Request!UserDrops, RequestVars
    <3> QED
      BY <2>3, <3>1
  <2> QED
    BY <2>2, <2>4, <2>5, <2>6 DEF Request!Next
<1>3. (call = "request" => AddressInv) => AddressesArrive
  BY DEF AddressInv, AddressesArrive, Request!AddressesArrive
<1> QED
  BY <1>1, <1>2, <1>3, PTL DEF Spec

=============================================================================
