--------------------------- MODULE EpollReactorMC ---------------------------
(***************************************************************************)
(* Connections are interchangeable, and so are workers: TLC needs one      *)
(* state of each orbit. Only for runs without liveness properties.         *)
(***************************************************************************)
EXTENDS EpollReactor, TLC

Symmetry == Permutations(Conns) \cup Permutations(Workers)
=============================================================================
