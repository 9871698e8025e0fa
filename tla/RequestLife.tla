---------------------------- MODULE RequestLife ----------------------------
(***************************************************************************)
(* What a ring promises about the requests it gives to the kernel, for the *)
(* Python proactor (Proactor) and for the C extension (NativeRing).        *)
(*                                                                         *)
(* A request has a key that is drawn once.  It is queued, then with the    *)
(* kernel, then completed, then gone, and never goes back.  Its owner      *)
(* holds the memory the kernel works on, and drops it only when the        *)
(* request has completed or, where MayGiveUp, with the whole ring.         *)
(***************************************************************************)
CONSTANT MayGiveUp    \* TRUE: the ring may be closed with requests in it

VARIABLES
    drawn,      \* keys drawn so far
    queued,     \* requests in the submission queue
    kernel,     \* requests the kernel works on
    completed,  \* requests with a CQE nobody has consumed
    held        \* requests whose memory the owner keeps

vars == <<drawn, queued, kernel, completed, held>>

Init == drawn = {} /\ queued = {} /\ kernel = {} /\ completed = {} /\ held = {}

\* One call of the owner: it queues new requests under fresh keys, submits some of the
\* queue, consumes some CQEs, and drops memory of completed requests only.
Owner(new, sent, gone, dropped) ==
    /\ new \cap drawn = {} /\ sent \subseteq queued /\ gone \subseteq completed
    /\ dropped \subseteq completed /\ gone \cap held \subseteq dropped
    /\ drawn \cup new \subseteq drawn'
    /\ queued' = (queued \ sent) \cup new
    /\ kernel' = kernel \cup sent
    /\ completed' = completed \ gone
    /\ held' = (held \ dropped) \cup new

\* The kernel completes a request.
Kernel(r) ==
    /\ kernel' = kernel \ {r} /\ completed' = completed \cup {r}
    /\ UNCHANGED <<drawn, queued, held>>

\* The ring is released with everything in it.
GiveUp ==
    /\ MayGiveUp
    /\ queued' = {} /\ kernel' = {} /\ completed' = {} /\ held' = {}
    /\ UNCHANGED drawn

Next ==
    \/ \E new \in SUBSET (drawn' \ drawn), sent \in SUBSET queued,
          gone \in SUBSET completed, dropped \in SUBSET completed :
              Owner(new, sent, gone, dropped)
    \/ \E r \in kernel : Kernel(r)
    \/ GiveUp

Spec == Init /\ [][Next]_vars

\* The kernel never works on memory its owner dropped, and nothing is held for a request
\* that is over.
Promise ==
    /\ queued \cup kernel \subseteq held
    /\ held \subseteq queued \cup kernel \cup completed
    /\ queued \cap kernel = {} /\ kernel \cap completed = {} /\ queued \cap completed = {}
    /\ queued \cup kernel \cup completed \subseteq drawn
=============================================================================
