------------------------- MODULE RequestLifeProofs --------------------------
(* What RequestLife promises follows from its steps.  With ImplementsLife  *)
(* the proactor and the C extension keep the promise, too.                 *)
EXTENDS RequestLife, TLAPS

\* A call of the owner keeps the promise: a new request is not one of the old ones, and
\* only completed requests are let go.
LEMMA OwnerKeeps ==
    ASSUME Promise, NEW new, NEW sent, NEW gone, NEW dropped, Owner(new, sent, gone, dropped)
    PROVE  Promise'
<1>1. (queued \cup kernel \subseteq held)'
  BY DEF Promise, Owner
<1>2. (held \subseteq queued \cup kernel \cup completed)'
  BY DEF Promise, Owner
<1>3. (queued \cap kernel = {} /\ kernel \cap completed = {} /\ queued \cap completed = {})'
  <2>1. \A r \in new : r \notin queued /\ r \notin kernel /\ r \notin completed
    BY DEF Promise, Owner
  <2>2. QED BY <2>1 DEF Promise, Owner
<1>4. (queued \cup kernel \cup completed \subseteq drawn)'
  BY DEF Promise, Owner
<1>5. QED BY <1>1, <1>2, <1>3, <1>4 DEF Promise

\* A completion by the kernel keeps the promise.
LEMMA KernelKeeps ==
    ASSUME Promise, NEW r \in kernel, Kernel(r)
    PROVE  Promise'
BY DEF Promise, Kernel

\* A ring given up holds nothing.
LEMMA GiveUpKeeps ==
    ASSUME Promise, GiveUp
    PROVE  Promise'
BY DEF Promise, GiveUp

\* In every behaviour of RequestLife, and so of the proactor's table and of the extension's
\* list of requests: memory of a queued or submitted request is held, memory of no other
\* but a completed one is, and a request is in one place only, under a key drawn for it.
THEOREM PromiseKept == Spec => []Promise
<1>1. Init => Promise
  BY DEF Init, Promise
<1>2. Promise /\ [Next]_vars => Promise'
  <2> SUFFICES ASSUME Promise, [Next]_vars PROVE Promise'
    OBVIOUS
  <2>1. ASSUME NEW new \in SUBSET (drawn' \ drawn), NEW sent \in SUBSET queued,
               NEW gone \in SUBSET completed, NEW dropped \in SUBSET completed,
               Owner(new, sent, gone, dropped)
        PROVE  Promise'
    BY <2>1, OwnerKeeps
  <2>2. ASSUME NEW r \in kernel, Kernel(r) PROVE Promise'
    BY <2>2, KernelKeeps
  <2>3. CASE GiveUp
    BY <2>3, GiveUpKeeps
  <2>4. CASE UNCHANGED vars
    BY <2>4 DEF vars, Promise
  <2>5. QED BY <2>1, <2>2, <2>3, <2>4 DEF Next
<1>3. QED BY <1>1, <1>2, PTL DEF Spec
=============================================================================
