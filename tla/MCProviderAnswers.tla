------------------------- MODULE MCProviderAnswers -------------------------
(* For each field type one good object, and each object that differs from it in
   one member: left out, null, a number in quotes, another string. *)
EXTENDS ProviderAnswers

Good(type) ==
  [member \in Members(type) |-> CHOOSE token \in FieldValueSchemas[type][member] : token # "null"]

Without(object, member) == [m \in DOMAIN object \ {member} |-> object[m]]

MCRawValues ==
  [type \in FieldTypes |->
     {Good(type)}
     \cup {Without(Good(type), member) : member \in Members(type)}
     \cup {[Good(type) EXCEPT ![member] = token] :
             member \in Members(type), token \in {"null", "numeral", "text"}}]

=============================================================================
