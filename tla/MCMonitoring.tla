----------------------------- MODULE MCMonitoring -----------------------------
(* A small instance of Monitoring: two samples of a field type. *)
EXTENDS Monitoring, TLC

CONSTANTS docA, docB, rent, right, wrong

MCHoldout ==
  {[doc |-> docA, type |-> rent, expected |-> right],
   [doc |-> docB, type |-> rent, expected |-> right]}

Symmetric == Permutations(Fields) \cup Permutations(Deciders)

=============================================================================
