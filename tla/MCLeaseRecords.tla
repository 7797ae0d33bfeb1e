--------------------------- MODULE MCLeaseRecords ---------------------------
(* Small instances of LeaseRecords: the values TLC gives its constants. *)
EXTENDS LeaseRecordsInductive, TLC

MCTeamOf == [user \in Users |-> CHOOSE team \in Teams : TRUE]
MCThreshold == [type \in FieldTypes |-> 92]

\* Sessions, runs and values are interchangeable names.
Symmetric == Permutations(Sessions) \cup Permutations(Runs) \cup Permutations(Values)

=============================================================================
