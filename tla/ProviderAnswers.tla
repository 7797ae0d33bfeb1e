-------------------------- MODULE ProviderAnswers --------------------------
(***************************************************************************)
(* What a language model's answer says and what becomes of it: the schemas *)
(* the two providers are sent and the validation of a value                *)
(* (extraction/field_schemas.py), the loops in which claude_adapter.py and *)
(* failover.py read an answer's items, and the failover between the two.   *)
(*                                                                         *)
(* A value is an object, a function from its members to tokens: "number",  *)
(* "numeral" (a number in quotes), "null", a unit or frequency, "text" for *)
(* any other string.  When a provider answers at all, and what the retries *)
(* and breakers around it do, is the subject of ExtractionPath.            *)
(***************************************************************************)
EXTENDS Integers, Sequences

CONSTANTS
  RawValues,    \* for each field type, the objects a model may fill in
  Confidences,  \* the confidences it may give, in percent
  MaxItems,     \* bound on the items of an answer
  Absent        \* null or left out: a nested object, a confidence

ASSUME ItemsAreBounded == MaxItems \in Nat

Number == {"number"}
OptionalText == {"text", "null"}

\* The five value models: each member and the tokens it may hold when stored.
FieldValueSchemas ==
  [BASE_RENT |-> [amount |-> Number,
                  unit |-> {"USD_PER_SQFT_PER_YEAR", "USD_PER_SQFT_PER_MONTH",
                            "USD_PER_MONTH", "USD_PER_YEAR"}],
   ESCALATION_SCHEDULE |-> [percent |-> Number,
                            frequency |-> {"ANNUAL", "BIENNIAL", "OTHER"}],
   FREE_RENT_PERIOD |-> [months |-> Number],
   TI_ALLOWANCE |-> [amount |-> Number, unit |-> {"USD_PER_SQFT", "USD_TOTAL"}],
   TERM |-> [years |-> Number, commencement_date |-> OptionalText,
             expiration_date |-> OptionalText]]

FieldTypes == DOMAIN FieldValueSchemas
Members(type) == DOMAIN FieldValueSchemas[type]
Required(type) == {member \in Members(type) : "null" \notin FieldValueSchemas[type][member]}

Items ==
  (UNION {[type : {type}, value : RawValues[type] \cup {Absent},
           confidence : Confidences \cup {Absent}] : type \in FieldTypes})
  \cup {[type |-> "OTHER_TYPE", value |-> Absent, confidence |-> Absent]}

VARIABLES
  from,     \* the provider being asked, or whose answer is being read
  stage,    \* "ask", "read", or how extract_fields() ended
  answer,   \* the items of the answer in hand
  next,     \* the item to read next
  results   \* ExtractedFieldResults so far

vars == <<from, stage, answer, next, results>>

-----------------------------------------------------------------------------
(* Validation: pydantic in its lax mode, and the dump of the model *)

Coerced(accepted, token) ==
  CASE token = "numeral" /\ "number" \in accepted -> "number"
    [] "text" \in accepted /\ token \notin {"number", "null"} -> "text"
    [] OTHER -> token

\* Unknown members are ignored, missing ones must have a default.
IsValid(type, raw) ==
  /\ Required(type) \subseteq DOMAIN raw
  /\ \A member \in Members(type) \cap DOMAIN raw :
       LET accepted == FieldValueSchemas[type][member]
       IN  Coerced(accepted, raw[member]) \in accepted

MutValidateFieldValue(type, raw) == raw

\* validate_field_value(): the canonical form of a valid object.
ValidateFieldValue(type, raw) ==
  [member \in Members(type) |->
     IF member \in DOMAIN raw THEN Coerced(FieldValueSchemas[type][member], raw[member])
                              ELSE "null"]

-----------------------------------------------------------------------------
(* The schemas: of an object, its properties, those it requires, and whether it
   rules out others (additionalProperties: false). *)

ObjectSchema(properties, required, closed) ==
  [properties |-> properties, required |-> required, closed |-> closed]

ItemProperties == {"field_type", "confidence", "source_location"} \cup FieldTypes

\* pydantic's model_json_schema(): a member with a default is not required.
ModelJsonSchema(type) == ObjectSchema(Members(type), Required(type), FALSE)

MutAnthropicToolSchema ==
  [item |-> ObjectSchema(ItemProperties, {"field_type"}, FALSE),
   value |-> [type \in FieldTypes |-> ModelJsonSchema(type)]]

AnthropicToolSchema ==
  [item |-> ObjectSchema(ItemProperties, {"field_type", "confidence"}, FALSE),
   value |-> [type \in FieldTypes |-> ModelJsonSchema(type)]]

OpenAiJsonSchema ==
  [item |-> ObjectSchema(ItemProperties, ItemProperties, TRUE),
   value |-> [type \in FieldTypes |-> [ModelJsonSchema(type) EXCEPT !.closed = TRUE]]]

Schema == [claude |-> AnthropicToolSchema, openai |-> OpenAiJsonSchema]

-----------------------------------------------------------------------------
(* FailoverExtractionAdapter.extract_fields() and the loops of the two adapters *)

Init ==
  /\ from = "claude" /\ stage = "ask"
  /\ answer = <<>> /\ next = 1 /\ results = <<>>

Answers ==
  /\ stage = "ask"
  /\ stage' = "read"
  /\ \E n \in 0..MaxItems : answer' \in [1..n -> Items]
  /\ UNCHANGED <<from, next, results>>

MutFailOver ==
  /\ from' = "openai" /\ stage' = "ask"
  /\ answer' = <<>> /\ next' = 1 /\ UNCHANGED results

\* The primary's list of results is lost with the call that built it.
FailOver ==
  /\ from' = "openai" /\ stage' = "ask"
  /\ answer' = <<>> /\ next' = 1 /\ results' = <<>>

Ends(how) == stage' = how /\ UNCHANGED <<from, answer, next, results>>

\* No answer, or one without the list of fields: ExtractionProviderError.
ProviderFails ==
  /\ stage = "ask"
  /\ IF from = "claude" THEN FailOver ELSE Ends("unavailable")

Reading == stage = "read" /\ next <= Len(answer)

\* FieldType(...) or float(item["confidence"]) raises; the latter is evaluated
\* only for a value that is there and valid.
Usable(item) == item.value # Absent /\ IsValid(item.type, item.value)

MutRaises(item) == item.type \notin FieldTypes

Raises(item) ==
  item.type \notin FieldTypes \/ (Usable(item) /\ item.confidence = Absent)

Result(item) ==
  [type |-> item.type, value |-> ValidateFieldValue(item.type, item.value),
   confidence |-> item.confidence, provider |-> from]

MutReadItem ==
  /\ Reading
  /\ LET item == answer[next]
     IN  /\ ~Raises(item)
         /\ IF Usable(item) THEN next' = next + 1 /\ results' = Append(results, Result(item))
                            ELSE next' = Len(answer) + 1 /\ UNCHANGED results
  /\ UNCHANGED <<from, stage, answer>>

\* A value that is absent or does not validate is dropped, and only that one.
ReadItem ==
  /\ Reading
  /\ LET item == answer[next]
     IN  /\ ~Raises(item)
         /\ results' = IF Usable(item) THEN Append(results, Result(item)) ELSE results
  /\ next' = next + 1
  /\ UNCHANGED <<from, stage, answer>>

\* The error is none the failover knows.  Inside Claude's breaker it becomes one
\* if it is the failure that opens the breaker.
ReadRaises ==
  /\ Reading
  /\ Raises(answer[next])
  /\ \/ Ends("escaped")
     \/ from = "claude" /\ FailOver

ReadEnds ==
  /\ stage = "read" /\ next = Len(answer) + 1
  /\ Ends("fields")

Next == Answers \/ ProviderFails \/ ReadItem \/ ReadRaises \/ ReadEnds

Spec == Init /\ [][Next]_vars

-----------------------------------------------------------------------------
(* Properties *)

ResultRow ==
  UNION {[type : {type}, value : [Members(type) -> UNION {FieldValueSchemas[type][member] :
                                                            member \in Members(type)}],
          confidence : Confidences, provider : {"claude", "openai"}] : type \in FieldTypes}

\* Of a finished reading the results have the type the pipeline relies on: five
\* types of field, each with a confidence.
TypeOK ==
  /\ from \in {"claude", "openai"}
  /\ stage \in {"ask", "read", "fields", "unavailable", "escaped"}
  /\ Len(answer) \in 0..MaxItems /\ \A i \in DOMAIN answer : answer[i] \in Items
  /\ next \in 1..(Len(answer) + 1)
  /\ \A i \in DOMAIN results : results[i] \in ResultRow

\* ExtractedField.model_version, FR-007: the fields of a document stem from one
\* answer of one provider, also when the primary's reading broke off half way.
OneAnswerOnly ==
  /\ \A i \in DOMAIN results : results[i].provider = from
  /\ stage = "ask" => results = <<>>

\* field_schemas.py:1-9: whichever provider answered, a stored value has exactly its
\* type's members, each with a value the type allows.
ValuesHaveTheirShape ==
  \A i \in DOMAIN results :
    LET type == results[i].type
        value == results[i].value
    IN  /\ DOMAIN value = Members(type)
        /\ \A member \in Members(type) : value[member] \in FieldValueSchemas[type][member]

\* The results are those of these items of the answer, one for each and in its order.
ResultsAreOf(positions) ==
  \E position \in [DOMAIN results -> positions] :
    /\ \A k \in positions : \E i \in DOMAIN results : position[i] = k
    /\ \A i, j \in DOMAIN results : i < j => position[i] < position[j]
    /\ \A i \in DOMAIN results : /\ results[i].type = answer[position[i]].type
                                 /\ results[i].confidence = answer[position[i]].confidence

\* validate_field_value(): an unusable field is dropped and no other, and those that
\* are read keep the answer's order.
OnlyUnusableItemsAreDropped == ResultsAreOf({k \in 1..(next - 1) : Usable(answer[k])})

Conforms(item, schema) ==
  /\ item.type \in FieldTypes
  /\ "confidence" \in schema.item.required => item.confidence # Absent
  /\ item.value # Absent =>
       LET object == schema.value[item.type]
       IN  /\ object.required \subseteq DOMAIN item.value
           /\ object.closed => DOMAIN item.value \subseteq object.properties
           /\ \A member \in DOMAIN item.value \cap object.properties :
                item.value[member] \in FieldValueSchemas[item.type][member]

\* The schema a provider is sent and the loop that reads its answer agree: a model
\* that keeps to the schema is neither cause of an error nor loses a value.
ConformingAnswersAreKept ==
  (\A i \in DOMAIN answer : Conforms(answer[i], Schema[from])) =>
    /\ stage # "escaped"
    /\ stage = "fields" => ResultsAreOf({k \in DOMAIN answer : answer[k].value # Absent})

=============================================================================
