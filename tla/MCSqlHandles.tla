---------------------------- MODULE MCSqlHandles ----------------------------
(* SqlHandles for TLC: the clients are interchangeable. *)
EXTENDS SqlHandles, TLC

Symmetry == Permutations(Clients)
=============================================================================
