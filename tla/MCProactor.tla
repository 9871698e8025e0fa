----------------------------- MODULE MCProactor -----------------------------
(* TLC instances of Proactor.                                              *)
EXTENDS ProactorLife

\* Files are interchangeable: nothing in the code orders or names them.
FileSymmetry == Permutations(Files)
=============================================================================
