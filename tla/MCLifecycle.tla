----------------------------- MODULE MCLifecycle -----------------------------
(* Requests are interchangeable. *)
EXTENDS Lifecycle, TLC

Symmetry == Permutations(Requests)
=============================================================================
