---------------------------- MODULE MCRestyClient ----------------------------
EXTENDS RestyClient, TLC

(* No goroutine is special, and the properties are invariants. *)
Symmetry == Permutations(Goroutines)
=============================================================================
