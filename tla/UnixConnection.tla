--------------------------- MODULE UnixConnection ---------------------------
(***************************************************************************)
(* create_unix_connection of uringloop/loop.py: its arguments, its socket, *)
(* the connect request in the ring, and a task that may be cancelled.      *)
(* sock_connect, _create_connection_transport and the loop are external.   *)
(***************************************************************************)

VARIABLES
    arg,        \* the arguments
    st,         \* "call", "connect", "transport", "returned", "rejected", "raised" or
                \* "factory" (protocol_factory, or the constructor of the transport, raised)
    own,        \* the socket opened for the path: "none", "open" or "closed"
    given,      \* the caller's socket: "open" or "closed"
    req,        \* the connect request: "none", "queued", "kernel" or "over"
    outcome,    \* of the future the task waits for: "none", "ok", "error", "cancelled"
    runnable    \* the step of the task that takes the outcome is up in this iteration

vars == <<arg, st, own, given, req, outcome, runnable>>

\* sock is None, a unix stream socket or some other one.
Args == [ssl : BOOLEAN, server_hostname : BOOLEAN, timeouts : BOOLEAN, path : BOOLEAN,
         sock : {"none", "unix", "other"}]

\* ValueError
BadArguments(a) ==
    \/ a.ssl /\ ~a.server_hostname
    \/ ~a.ssl /\ (a.server_hostname \/ a.timeouts)
    \/ a.path /\ a.sock # "none"
    \/ ~a.path /\ a.sock # "unix"

Init ==
    /\ arg \in Args /\ st = "call" /\ own = "none" /\ given = "open"
    /\ req = "none" /\ outcome = "none" /\ runnable = FALSE

Reject ==
    /\ st = "call" /\ BadArguments(arg)
    /\ st' = "rejected"
    /\ UNCHANGED <<arg, own, given, req, outcome, runnable>>

\* A socket for the path, and sock_connect; or the caller's socket.
Begin ==
    /\ st = "call" /\ ~BadArguments(arg)
    /\ IF arg.path THEN st' = "connect" /\ own' = "open" /\ req' = "queued"
                   ELSE st' = "transport" /\ UNCHANGED <<own, req>>
    /\ UNCHANGED <<arg, given, outcome, runnable>>

\* The connection, or the handshake, ends, or fails.
Completes ==
    /\ outcome = "none"
    /\ \/ st = "connect" /\ req = "kernel" /\ req' = "over"
       \/ st = "transport" /\ UNCHANGED req
    /\ outcome' \in {"ok", "error"}
    /\ UNCHANGED <<arg, st, own, given, runnable>>

\* task.cancel(), which cancels the future.
Cancel ==
    /\ st \in {"connect", "transport"} /\ outcome = "none"
    /\ outcome' = "cancelled"
    /\ UNCHANGED <<arg, st, own, given, req, runnable>>

\* select() submits what is queued, then what is ready is run.
Select ==
    /\ runnable' = (outcome # "none")
    /\ req' = IF req = "queued" THEN "kernel" ELSE req
    /\ UNCHANGED <<arg, st, own, given, outcome>>

\* The task goes on: the connection is made.
Connected ==
    /\ st = "connect" /\ runnable /\ outcome = "ok"
    /\ st' = "transport" /\ outcome' = "none" /\ runnable' = FALSE
    /\ UNCHANGED <<arg, own, given, req>>

\* Mutant: except OSError.
ConnectFailsOnError ==
    /\ st = "connect" /\ runnable /\ outcome # "ok"
    /\ st' = "raised" /\ own' = IF outcome = "error" THEN "closed" ELSE own
    /\ UNCHANGED <<arg, given, req, outcome, runnable>>

\* except: sock.close()
ConnectFails ==
    /\ st = "connect" /\ runnable /\ outcome # "ok"
    /\ st' = "raised" /\ own' = "closed"
    /\ UNCHANGED <<arg, given, req, outcome, runnable>>

Return ==
    /\ st = "transport" /\ runnable /\ outcome = "ok"
    /\ st' = "returned"
    /\ UNCHANGED <<arg, own, given, req, outcome, runnable>>

\* transport.close() closes the socket, whoever opened it.
TransportFails ==
    /\ st = "transport" /\ runnable /\ outcome # "ok"
    /\ st' = "raised"
    /\ own' = IF arg.path THEN "closed" ELSE own
    /\ given' = IF arg.path THEN given ELSE "closed"
    /\ UNCHANGED <<arg, req, outcome, runnable>>

\* protocol_factory(), or the constructor of the transport, raises before there is a
\* transport to close: nobody closes the socket.
FactoryRaises ==
    /\ st = "transport" /\ outcome = "none"
    /\ st' = "factory"
    /\ UNCHANGED <<arg, own, given, req, outcome, runnable>>

Next ==
    \/ Reject \/ Begin \/ Completes \/ Cancel \/ Select \/ Connected \/ ConnectFails \/ Return
    \/ TransportFails \/ FactoryRaises

Spec == Init /\ [][Next]_vars

-----------------------------------------------------------------------------
\* The socket opened for a path is closed exactly when the call has failed or was
\* cancelled while it connected or waited for the transport; it stays open when the call
\* returns, and when protocol_factory() raises.  The caller's socket is closed in the
\* second of these cases only, and a call that is given one opens none.  And a socket is
\* closed only when its connect request has left the submission queue: the kernel would
\* connect whatever file gets the same number next.
SocketFollowsCall ==
    /\ own = IF ~arg.path \/ st \in {"call", "rejected"} THEN "none"
             ELSE IF st = "raised" THEN "closed" ELSE "open"
    /\ given = IF ~arg.path /\ st = "raised" THEN "closed" ELSE "open"
    /\ own = "closed" => req # "queued"
=============================================================================
