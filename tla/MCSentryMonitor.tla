--------------------------- MODULE MCSentryMonitor ---------------------------
(* SentryMonitor for TLC: the slots are interchangeable. *)
EXTENDS SentryMonitor, TLC

Symmetry == Permutations(Requests)
=============================================================================
