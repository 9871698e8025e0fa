---------------------------- MODULE ProactorLife ----------------------------
(* The proactor keeps the promise of RequestLife: user_data are the keys,  *)
(* and the table of pending completions is what it holds.                  *)
EXTENDS Proactor

Life == INSTANCE RequestLife WITH
    MayGiveUp <- FALSE,
    drawn     <- 1 .. nextUd - 1,
    queued    <- UdsOf(sq),
    kernel    <- UdsOf(inflight),
    completed <- UdsOf(cq),
    held      <- DOMAIN cache

\* Every call, cancellation, failed submission and completion of the proactor is a step
\* that RequestLife allows: a request is freed once, after the kernel is done with it.
ImplementsLife == Life!Spec
=============================================================================
