----------------------------- MODULE NativeLife -----------------------------
(* The C extension keeps the promise of RequestLife: requests are the      *)
(* keys, and the list of the ring is what it holds.                        *)
EXTENDS NativeRing

Life == INSTANCE RequestLife WITH
    MayGiveUp <- TRUE,
    drawn     <- 1 .. made,
    queued    <- ToSet(sq),
    kernel    <- inflight,
    completed <- ToSet(cq),
    held      <- ToSet(list)

\* Every method, interrupted and nested ones included, is a step that RequestLife
\* allows: the ring lets go of a request when its CQE is consumed or the ring is closed.
ImplementsLife == Life!Spec
=============================================================================
