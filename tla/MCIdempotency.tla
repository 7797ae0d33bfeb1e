---------------------------- MODULE MCIdempotency ----------------------------
(* Small instances of Idempotency. *)
EXTENDS Idempotency, TLC

Symmetric == Permutations(Requests) \cup Permutations(Replicas)

=============================================================================
