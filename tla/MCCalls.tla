------------------------------ MODULE MCCalls -------------------------------
(***************************************************************************)
(* TLC instance of the calls of the library that share no state: a byte    *)
(* transfer, one request with its memory, calls of create_unix_server, one *)
(* of create_unix_connection, and a subprocess with its watch.  The        *)
(* initial state picks one of them.                                        *)
(***************************************************************************)
EXTENDS Naturals

CONSTANTS
    MaxSize, PipeSize, ShortSplice,     \* Transfer
    Base, SunPath, Flows,               \* RequestMemory
    Calls, Stale, Absent, File,         \* UnixServer
    Idle                                \* the state of a call that was not picked

\* Sizes are numbers, sun_path has room, a byte has some value, a flowinfo is a word; and
\* what the path names before the calls is none of theirs.
ASSUME CallsAssumption ==
    /\ MaxSize \in Nat /\ PipeSize \in Nat /\ SunPath \in Nat \ {0} /\ Base \in Nat \ {0}
    /\ Flows \subseteq 0 .. Base * Base - 1
    /\ {Stale, Absent, File} \cap Calls = {}

VARIABLES
    call,   \* "transfer", "request", "server", "connection" or "child"
    job, data, offset, view, pipe, told, step, stream,
    kind, stage, holds, cancelled, moved, addr, seen,
    serverArg, serverSt, sock, node,
    arg, st, own, given, req, outcome, runnable,
    child, pidfd, poll, ready, returncode, make, loop, blocked

Transfer == INSTANCE Transfer
Request == INSTANCE RequestMemory
Server == INSTANCE UnixServer WITH arg <- serverArg, st <- serverSt
Connection == INSTANCE UnixConnection
Child == INSTANCE ChildWatch

TransferVars == <<job, data, offset, view, pipe, told, step, stream>>
RequestVars == <<kind, stage, holds, cancelled, moved, addr, seen>>
ServerVars == <<serverArg, serverSt, sock, node>>
ConnectionVars == <<arg, st, own, given, req, outcome, runnable>>
ChildVars == <<child, pidfd, poll, ready, returncode, make, loop, blocked>>
vars == <<call, TransferVars, RequestVars, ServerVars, ConnectionVars, ChildVars>>

TransferIdle ==
    /\ job = Idle /\ data = Idle /\ offset = Idle /\ view = Idle /\ pipe = Idle
    /\ told = Idle /\ step = Idle /\ stream = Idle
RequestIdle ==
    /\ kind = Idle /\ stage = Idle /\ holds = Idle /\ cancelled = Idle /\ moved = Idle
    /\ addr = Idle /\ seen = Idle
ServerIdle == serverArg = Idle /\ serverSt = Idle /\ sock = Idle /\ node = Idle
ConnectionIdle ==
    /\ arg = Idle /\ st = Idle /\ own = Idle /\ given = Idle /\ req = Idle
    /\ outcome = Idle /\ runnable = Idle
ChildIdle ==
    /\ child = Idle /\ pidfd = Idle /\ poll = Idle /\ ready = Idle /\ returncode = Idle
    /\ make = Idle /\ loop = Idle /\ blocked = Idle

Init ==
    \/ /\ call = "transfer" /\ Transfer!Init
       /\ RequestIdle /\ ServerIdle /\ ConnectionIdle /\ ChildIdle
    \/ /\ call = "request" /\ Request!Init
       /\ TransferIdle /\ ServerIdle /\ ConnectionIdle /\ ChildIdle
    \/ /\ call = "server" /\ Server!Init
       /\ TransferIdle /\ RequestIdle /\ ConnectionIdle /\ ChildIdle
    \/ /\ call = "connection" /\ Connection!Init
       /\ TransferIdle /\ RequestIdle /\ ServerIdle /\ ChildIdle
    \/ /\ call = "child" /\ Child!Init
       /\ TransferIdle /\ RequestIdle /\ ServerIdle /\ ConnectionIdle

TransferNext ==
    /\ call = "transfer" /\ Transfer!Next
    /\ UNCHANGED <<call, RequestVars, ServerVars, ConnectionVars, ChildVars>>
RequestNext ==
    /\ call = "request" /\ Request!Next
    /\ UNCHANGED <<call, TransferVars, ServerVars, ConnectionVars, ChildVars>>
ServerNext ==
    /\ call = "server" /\ Server!Next
    /\ UNCHANGED <<call, TransferVars, RequestVars, ConnectionVars, ChildVars>>
ConnectionNext ==
    /\ call = "connection" /\ Connection!Next
    /\ UNCHANGED <<call, TransferVars, RequestVars, ServerVars, ChildVars>>
ChildNext ==
    /\ call = "child" /\ Child!Next
    /\ UNCHANGED <<call, TransferVars, RequestVars, ServerVars, ConnectionVars>>

Next == TransferNext \/ RequestNext \/ ServerNext \/ ConnectionNext \/ ChildNext

Spec == Init /\ [][Next]_vars

\* Child!Fairness where a child was picked.
FairSpec ==
    /\ Spec
    /\ WF_ChildVars(call = "child" /\ Child!RunCallback)
    /\ WF_ChildVars(call = "child" /\ Child!MakeRaises)
    /\ WF_ChildVars(call = "child" /\ Child!PollCompletes)
    /\ WF_ChildVars(call = "child" /\ Child!KilledChildExits)

-----------------------------------------------------------------------------
\* sock_sendall and sendfile: the peer gets the bytes in order, none twice and none left
\* out before others, also when a later send fails; the futures report what the kernel
\* took; and sock_sendall returns only when that is everything.
SentInOrder == call = "transfer" => Transfer!SentInOrder

\* Every request: what the kernel points to is alive and in place until the CQE, whatever
\* the user drops, resizes or cancels, and released when the request is over.
MemoryFollowsRequest == call = "request" => Request!MemoryFollowsRequest

\* connect, sendto, accept and recvfrom: the kernel gets exactly the address the caller
\* gave, and the caller that of the peer, but for the bytes of flowinfo, which are swapped,
\* and for unix paths that are empty or abstract: the kernel gets them padded to the length
\* of sun_path, the caller gets the empty string.
AddressesArrive == call = "request" => Request!AddressesArrive

\* create_unix_server and create_unix_connection: when a call is over, the socket it opened
\* is closed exactly if bind, the connection or the transport failed or was cancelled, and
\* a socket is closed only when no connect request for it waits in the submission queue.
\* The other ways to fail leave it open: a path that cannot be looked up, listen(), a
\* cancellation once the server listens, protocol_factory().
SocketsFollowCalls ==
    /\ call = "server" => Server!SocketFollowsCall
    /\ call = "connection" => Connection!SocketFollowsCall

\* create_unix_server: however the calls race for a path, when all of them are over, none
\* was refused for want of permission or the like or unable to listen, and one of them
\* served it, the path names the socket of a call that serves it.
PathIsServed == call = "server" => Server!PathIsServed

\* A subprocess: waitpid never blocks the loop, since the child has ended when
\* _child_exited calls it.
WaitpidNeverBlocks == call = "child" => Child!WaitpidNeverBlocks

\* A subprocess: the pidfd is open as long as the kernel may poll it, and closed once the
\* poll is over and its callback has run.
PidfdFollowsPoll == call = "child" => Child!PidfdFollowsPoll

\* A subprocess: a child that has ended is reported, whoever waits for it, unless the loop
\* is closed.
ExitIsReported == Child!ExitIsReported

\* A subprocess: a call whose pipes failed comes to its end and leaves no child.
FailedMakeEnds == Child!FailedMakeEnds
=============================================================================
