----------------------------- MODULE UnixServer -----------------------------
(***************************************************************************)
(* create_unix_server of uringloop/loop.py: several calls, of one or more  *)
(* processes, that check, clear and bind one path, each with its own       *)
(* arguments.  The file system and base_events.Server are external.        *)
(***************************************************************************)
CONSTANTS
    Calls,      \* calls of create_unix_server
    Stale,      \* owner of a socket file that nobody serves any more
    Absent, File    \* the path names nothing, or a regular file

VARIABLES
    arg,        \* call -> [ssl, timeouts, path, sock, serve], its arguments
    st,         \* call -> where it is, or how it ended: Ends
    sock,       \* call -> the socket it opened: "none", "open" or "closed"
    node        \* what the path names: Absent, File, Stale or the call that bound it

vars == <<arg, st, sock, node>>

\* ssl is None, a bool or an SSLContext; sock is None, a unix stream socket of the caller
\* or some other socket; the path is None, a file name, an abstract name, the empty string
\* or a file name with a NUL in it.
Args == [ssl : {"none", "bool", "context"}, timeouts : BOOLEAN,
         path : {"none", "file", "abstract", "empty", "nul"}, sock : {"none", "unix", "other"},
         serve : BOOLEAN]

\* The calls that get past their arguments, on the shared path.
Usual == [ssl |-> "none", timeouts |-> FALSE, path |-> "file", sock |-> "none", serve |-> TRUE]

\* TypeError and ValueError.
BadArguments(a) ==
    \/ a.ssl = "bool"
    \/ a.timeouts /\ a.ssl = "none"
    \/ a.path # "none" /\ a.sock # "none"
    \/ a.path = "none" /\ a.sock # "unix"

\* All calls but one have the usual arguments.
Init ==
    /\ \E c \in Calls, a \in Args : arg = [d \in Calls |-> IF d = c THEN a ELSE Usual]
    /\ st = [c \in Calls |-> "call"] /\ sock = [c \in Calls |-> "none"]
    /\ node \in {Absent, File, Stale}

Go(c, from, to) == st[c] = from /\ st' = [st EXCEPT ![c] = to] /\ UNCHANGED arg

RejectArguments(c) == Go(c, "call", "raised") /\ BadArguments(arg[c]) /\ UNCHANGED <<sock, node>>

\* A socket is opened for a path; an abstract name is not looked up, and path[0] of an
\* empty one is an IndexError outside any try.
OpenSocket(c) ==
    /\ ~BadArguments(arg[c])
    /\ \/ arg[c].path = "none" /\ Go(c, "call", "bound") /\ UNCHANGED sock
       \/ /\ \/ arg[c].path \in {"file", "nul"} /\ Go(c, "call", "stat")
             \/ arg[c].path = "abstract" /\ Go(c, "call", "bind")
             \/ arg[c].path = "empty" /\ Go(c, "call", "invalid")
          /\ sock' = [sock EXCEPT ![c] = "open"]
    /\ UNCHANGED node

\* stat.S_ISSOCK(os.stat(path).st_mode)
IsSock(n) == n \notin {Absent, File}

\* os.stat: a socket is to be removed; FileNotFoundError and other errors are passed over.
Stat(c) ==
    /\ arg[c].path = "file"
    /\ \/ Go(c, "stat", "remove") /\ IsSock(node)
       \/ Go(c, "stat", "bind")
    /\ UNCHANGED <<sock, node>>

\* The ValueError of os.stat is no OSError, and leaves the call.
StatRaises(c) ==
    /\ arg[c].path = "nul" /\ Go(c, "stat", "invalid")
    /\ UNCHANGED <<sock, node>>

\* os.remove of whatever the path names by now.
Remove(c) ==
    /\ Go(c, "remove", "bind")
    /\ node' \in {Absent, node}
    /\ UNCHANGED sock

Bind(c) ==
    /\ Go(c, "bind", "bound")
    /\ arg[c].path = "file" => node = Absent
    /\ node' = IF arg[c].path = "file" THEN c ELSE node
    /\ UNCHANGED sock

\* Mutant: the path is unlinked together with the socket.
BindFailsUnlinks(c) ==
    /\ Go(c, "bind", "raised")
    /\ sock' = [sock EXCEPT ![c] = "closed"]
    /\ node' = IF arg[c].path = "file" /\ node # File THEN Absent ELSE node

\* EADDRINUSE, or any other exception ("refused").
BindFails(c) ==
    /\ \/ Go(c, "bind", "raised") /\ (arg[c].path = "file" => node # Absent)
       \/ Go(c, "bind", "refused")
    /\ sock' = [sock EXCEPT ![c] = "closed"]
    /\ UNCHANGED node

\* Server and _start_serving, then sleep(0), in which the task may be cancelled: the
\* server listens and nobody has it.
Serve(c) ==
    /\ IF arg[c].serve THEN Go(c, "bound", "sleep") ELSE Go(c, "bound", "returned")
    /\ UNCHANGED <<sock, node>>

\* listen() fails: no except clause closes the socket, nor is the path removed.
ServeRaises(c) ==
    /\ arg[c].serve /\ Go(c, "bound", "unserved")
    /\ UNCHANGED <<sock, node>>

Return(c) ==
    /\ Go(c, "sleep", "returned") \/ Go(c, "sleep", "cancelled")
    /\ UNCHANGED <<sock, node>>

Next ==
    \E c \in Calls :
        \/ RejectArguments(c) \/ OpenSocket(c) \/ Stat(c) \/ StatRaises(c) \/ Remove(c)
        \/ Bind(c) \/ BindFails(c) \/ Serve(c) \/ ServeRaises(c) \/ Return(c)

Spec == Init /\ [][Next]_vars

-----------------------------------------------------------------------------
Ends == {"returned", "cancelled", "raised", "refused", "invalid", "unserved"}

\* When a call is over, the socket it opened for its path is closed if bind failed, and
\* open in every other case: when the call returned, but also when the path could not be
\* looked up, when listen() failed and when the call was cancelled after it.  A call
\* without a path, or that rejects its arguments, has opened none; and the path never
\* names a socket that its call has closed.
SocketFollowsCall ==
    /\ \A c \in Calls : st[c] \in Ends =>
           sock[c] = IF BadArguments(arg[c]) \/ arg[c].path = "none" THEN "none"
                     ELSE IF st[c] \in {"raised", "refused"} THEN "closed" ELSE "open"
    /\ node \in Calls => sock[node] = "open"

\* However the calls race for the path: when all of them are over, none was refused for
\* want of permission or the like or unable to listen, and one of them served the path,
\* the path names the socket of a call that serves it.
PathIsServed ==
    LET over == Ends \ {"refused", "unserved"}
        Serves(c) == st[c] \in {"returned", "cancelled"} /\ arg[c].path = "file"
    IN  (\A c \in Calls : st[c] \in over) /\ (\E c \in Calls : Serves(c))
            => node \in Calls /\ Serves(node)
=============================================================================
