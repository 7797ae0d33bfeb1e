--------------------------- MODULE FieldLifecycle ---------------------------
(***************************************************************************)
(* What models/extracted_field.py promises of a field, with the tables,    *)
(* the queue and the sessions left out: a value is proposed by the model   *)
(* or entered by a person, a proposal is confirmed or overridden once, by  *)
(* one person, and after that the field never changes.                     *)
(***************************************************************************)
CONSTANTS Ids, Users, Values, None

VARIABLE ledger   \* field -> its value, status and decider

Proposal == [value : Values, status : {"UNVERIFIED"}, by : {None}]
Decision == [value : Values, status : {"VERIFIED", "OVERRIDDEN"}, by : Users]

Keeps(ids) == \A i \in ids : i \in DOMAIN ledger' /\ ledger'[i] = ledger[i]

\* One pipeline commit: any number of proposals, nothing else touched.
Propose ==
  /\ Keeps(DOMAIN ledger)
  /\ DOMAIN ledger' \subseteq Ids
  /\ \A i \in DOMAIN ledger' \ DOMAIN ledger : ledger'[i] \in Proposal

\* A value entered by hand is decided from the start.
Enter(i) ==
  /\ i \in Ids \ DOMAIN ledger
  /\ DOMAIN ledger' = DOMAIN ledger \cup {i}
  /\ Keeps(DOMAIN ledger)
  /\ ledger'[i] \in Decision /\ ledger'[i].status = "OVERRIDDEN"

\* A person confirms the proposed value, or puts another in its place.
Decide(i) ==
  /\ i \in DOMAIN ledger /\ ledger[i].status = "UNVERIFIED"
  /\ DOMAIN ledger' = DOMAIN ledger
  /\ Keeps(DOMAIN ledger \ {i})
  /\ ledger'[i] \in Decision
  /\ ledger'[i].status = "VERIFIED" => ledger'[i].value = ledger[i].value

Init == DOMAIN ledger = {}

Next == Propose \/ \E i \in Ids : Enter(i) \/ Decide(i)

Spec == Init /\ [][Next]_ledger

=============================================================================
