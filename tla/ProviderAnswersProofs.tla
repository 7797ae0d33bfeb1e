----------------------- MODULE ProviderAnswersProofs -----------------------
(* Proofs about ProviderAnswers, for any objects a model may fill in: what   *)
(* validation lets through has its type's shape, one provider's answer is    *)
(* all that a document's fields are made of, and nothing usable of it is     *)
(* lost.                                                                     *)
EXTENDS ProviderAnswers, TLAPS

WellShaped(value, type) ==
  /\ DOMAIN value = Members(type)
  /\ \A member \in Members(type) : value[member] \in FieldValueSchemas[type][member]

\* TypeOK with its sequences typed, and what each result is.
IInv ==
  /\ TypeOK
  /\ answer \in Seq(Items) /\ results \in Seq(ResultRow)
  /\ stage = "ask" => next = 1
  /\ OneAnswerOnly
  /\ ValuesHaveTheirShape

\* validate_field_value(): a valid object is dumped with exactly the members of its
\* model, a missing one as its default, each within the model's values.
LEMMA ValidatedIsShaped ==
  ASSUME NEW type \in FieldTypes, NEW raw, IsValid(type, raw)
  PROVE  WellShaped(ValidateFieldValue(type, raw), type)
<1>1. DOMAIN ValidateFieldValue(type, raw) = Members(type)
  BY DEF ValidateFieldValue
<1>2. ASSUME NEW member \in Members(type)
      PROVE  ValidateFieldValue(type, raw)[member] \in FieldValueSchemas[type][member]
  <2>1. CASE member \in DOMAIN raw
    <3>1. Coerced(FieldValueSchemas[type][member], raw[member]) \in FieldValueSchemas[type][member]
      BY <1>2, <2>1 DEF IsValid
    <3> QED
      BY <1>2, <2>1, <3>1 DEF ValidateFieldValue
  <2>2. CASE member \notin DOMAIN raw
    <3>1. "null" \in FieldValueSchemas[type][member]
      BY <1>2, <2>2 DEF IsValid, Required
    <3> QED
      BY <1>2, <2>2, <3>1 DEF ValidateFieldValue
  <2> QED
    BY <2>1, <2>2
<1> QED
  BY <1>1, <1>2 DEF WellShaped

\* A usable item that does not raise becomes a result of its own type.
LEMMA ResultIsTyped ==
  ASSUME NEW item \in Items, Usable(item), ~Raises(item), from \in {"claude", "openai"}
  PROVE  /\ Result(item) \in ResultRow
         /\ Result(item).provider = from
         /\ WellShaped(Result(item).value, Result(item).type)
<1>1. item.type \in FieldTypes /\ item.confidence # Absent
  BY DEF Raises
<1>2. item.confidence \in Confidences
  <2> DEFINE Known == UNION {[type : {type}, value : RawValues[type] \cup {Absent},
                               confidence : Confidences \cup {Absent}] : type \in FieldTypes}
             Unknown == {[type |-> "OTHER_TYPE", value |-> Absent, confidence |-> Absent]}
  <2>1. Items = Known \cup Unknown
    BY Zenon DEF Items
  <2>2. CASE item \in Known
    <3>1. PICK type \in FieldTypes :
            item \in [type : {type}, value : RawValues[type] \cup {Absent},
                     confidence : Confidences \cup {Absent}]
      BY <2>2
    <3> QED
      BY <1>1, <3>1
  <2>3. CASE item \in Unknown
    BY <1>1, <2>3
  <2> HIDE DEF Known, Unknown
  <2> QED
    BY <2>1, <2>2, <2>3
<1> DEFINE value == ValidateFieldValue(item.type, item.value)
<1>3. WellShaped(value, item.type)
  BY <1>1, ValidatedIsShaped DEF Usable
<1>4. value \in [Members(item.type) -> UNION {FieldValueSchemas[item.type][member] :
                                                member \in Members(item.type)}]
  <2>1. \A member \in Members(item.type) :
          value[member] \in UNION {FieldValueSchemas[item.type][m] : m \in Members(item.type)}
    BY <1>3 DEF WellShaped
  <2>2. value = [member \in Members(item.type) |-> value[member]]
    BY DEF ValidateFieldValue
  <2> HIDE DEF value
  <2> QED
    BY <2>1, <2>2
<1> HIDE DEF value
<1>5. Result(item) = [type |-> item.type, value |-> value,
                      confidence |-> item.confidence, provider |-> from]
  BY DEF Result, value
<1>6. Result(item) \in
        [type : {item.type},
         value : [Members(item.type) -> UNION {FieldValueSchemas[item.type][member] :
                                                member \in Members(item.type)}],
         confidence : Confidences, provider : {"claude", "openai"}]
  BY <1>2, <1>4, <1>5
<1>7. Result(item) \in ResultRow
  BY <1>1, <1>6 DEF ResultRow
<1> QED
  BY <1>3, <1>5, <1>7

LEMMA InitInvariant == Init => IInv
<1> SUFFICES ASSUME Init PROVE IInv
  OBVIOUS
<1>1. answer = <<>> /\ results = <<>> /\ next = 1 /\ from = "claude" /\ stage = "ask"
  BY DEF Init
<1> QED
  BY <1>1, ItemsAreBounded DEF IInv, TypeOK, OneAnswerOnly, ValuesHaveTheirShape

\* Handing over to the secondary leaves nothing of the primary's reading.
LEMMA FailOverKeeps ==
  ASSUME IInv, FailOver
  PROVE  IInv'
<1>1. answer' = <<>> /\ results' = <<>> /\ next' = 1 /\ from' = "openai" /\ stage' = "ask"
  BY DEF FailOver
<1> QED
  BY <1>1, ItemsAreBounded DEF IInv, TypeOK, OneAnswerOnly, ValuesHaveTheirShape

LEMMA EndsKeeps ==
  ASSUME IInv, NEW how \in {"fields", "unavailable", "escaped"}, Ends(how)
  PROVE  IInv'
  BY DEF IInv, TypeOK, OneAnswerOnly, ValuesHaveTheirShape, Ends, Items, ResultRow, Members, Required

LEMMA AnswersKeeps ==
  ASSUME IInv, Answers
  PROVE  IInv'
<1>1. PICK n \in 0..MaxItems : answer' \in [1..n -> Items]
  BY DEF Answers
<1>2. n \in Nat
  BY ItemsAreBounded
<1>3. answer' \in Seq(Items) /\ Len(answer') = n
  BY <1>1, <1>2
<1>4. /\ results = <<>> /\ next = 1
      /\ stage' = "read" /\ UNCHANGED <<from, next, results>>
  BY DEF Answers, IInv, OneAnswerOnly
<1> QED
  BY <1>1, <1>2, <1>3, <1>4 DEF IInv, TypeOK, OneAnswerOnly, ValuesHaveTheirShape

\* An item is read into a result of the provider that answered, or dropped.
LEMMA ReadItemKeeps ==
  ASSUME IInv, ReadItem
  PROVE  IInv'
<1> DEFINE item == answer[next]
<1>1. /\ stage = "read" /\ next \in 1..Len(answer) /\ next' = next + 1
      /\ ~Raises(item) /\ UNCHANGED <<from, stage, answer>>
      /\ results' = IF Usable(item) THEN Append(results, Result(item)) ELSE results
  BY DEF IInv, TypeOK, ReadItem, Reading
<1>2. item \in Items /\ from \in {"claude", "openai"}
  BY <1>1 DEF IInv, TypeOK
<1>3. next' \in 1..(Len(answer') + 1)
  BY <1>1 DEF IInv
<1>4. CASE Usable(item)
  <2> DEFINE row == Result(item)
  <2>1. /\ row \in ResultRow /\ row.provider = from
        /\ WellShaped(row.value, row.type)
    BY <1>1, <1>2, <1>4, ResultIsTyped
  <2>2. results' = Append(results, row)
    BY <1>1, <1>4
  <2> HIDE DEF row, item
  <2>3. results' \in Seq(ResultRow) /\ Len(results') = Len(results) + 1
    BY <2>1, <2>2 DEF IInv
  <2>4. ASSUME NEW i \in DOMAIN results'
        PROVE  /\ results'[i] \in ResultRow /\ results'[i].provider = from
               /\ WellShaped(results'[i].value, results'[i].type)
    <3>1. CASE i \in DOMAIN results
      <4>1. results'[i] = results[i]
        BY <2>2, <3>1 DEF IInv
      <4> QED
        BY <3>1, <4>1 DEF IInv, TypeOK, OneAnswerOnly, ValuesHaveTheirShape, WellShaped
    <3>2. CASE i \notin DOMAIN results
      <4>1. results'[i] = row
        BY <2>2, <2>3, <2>4, <3>2 DEF IInv
      <4> QED
        BY <2>1, <4>1
    <3> QED
      BY <3>1, <3>2
  <2>5. OneAnswerOnly' /\ ValuesHaveTheirShape'
    BY <1>1, <2>4 DEF OneAnswerOnly, ValuesHaveTheirShape, WellShaped
  <2> QED
    BY <1>1, <1>3, <2>3, <2>4, <2>5 DEF IInv, TypeOK
<1>5. CASE ~Usable(item)
  <2>1. UNCHANGED results
    BY <1>1, <1>5
  <2> QED
    BY <1>1, <1>3, <2>1 DEF IInv, TypeOK, OneAnswerOnly, ValuesHaveTheirShape
<1> QED
  BY <1>4, <1>5

LEMMA StepInvariant == IInv /\ [Next]_vars => IInv'
<1> SUFFICES ASSUME IInv, [Next]_vars PROVE IInv'
  OBVIOUS
<1>1. CASE Answers
  BY <1>1, AnswersKeeps
<1>2. CASE ProviderFails
  BY <1>2, FailOverKeeps, EndsKeeps DEF ProviderFails
<1>3. CASE ReadItem
  BY <1>3, ReadItemKeeps
<1>4. CASE ReadRaises
  BY <1>4, FailOverKeeps, EndsKeeps DEF ReadRaises
<1>5. CASE ReadEnds
  BY <1>5, EndsKeeps DEF ReadEnds
<1>6. CASE UNCHANGED vars
  BY <1>6 DEF vars, IInv, TypeOK, OneAnswerOnly, ValuesHaveTheirShape
<1> QED
  BY <1>1, <1>2, <1>3, <1>4, <1>5, <1>6 DEF Next

\* field_schemas.py, failover.py: whatever a model fills in, the fields of a document
\* are one provider's, and each has exactly the members and values of its type.
THEOREM AnswersAreShaped == Spec => [](TypeOK /\ OneAnswerOnly /\ ValuesHaveTheirShape)
<1>1. IInv => TypeOK /\ OneAnswerOnly /\ ValuesHaveTheirShape
  BY DEF IInv
<1> QED
  BY InitInvariant, StepInvariant, <1>1, PTL DEF Spec

\* ExtractedField.model_version: no document mixes two providers' answers.
THEOREM AnswersAreNotMixed == Spec => []OneAnswerOnly
  BY AnswersAreShaped, PTL

-----------------------------------------------------------------------------
(* Nothing usable is lost *)

UsableRead == {k \in 1..(next - 1) : Usable(answer[k])}

\* What has been read so far, and how a reading ends.
ReadingInv ==
  /\ ResultsAreOf(UsableRead)
  /\ stage = "escaped" => \E k \in DOMAIN answer : Raises(answer[k])
  /\ stage = "fields" => next = Len(answer) + 1

LEMMA NothingRead ==
  ASSUME results' = <<>>, next' = 1
  PROVE  ResultsAreOf(UsableRead)'
<1>1. UsableRead' = {} /\ DOMAIN results' = {}
  BY DEF UsableRead
<1>2. [i \in {} |-> 0] \in [DOMAIN results' -> {}]
  BY <1>1
<1> QED
  BY <1>1, <1>2 DEF ResultsAreOf

\* One more item read: a usable one has its result behind the others.
LEMMA OneMoreRead ==
  ASSUME IInv, ResultsAreOf(UsableRead), ReadItem
  PROVE  ResultsAreOf(UsableRead)'
<1> DEFINE item == answer[next]
<1>1. /\ next \in 1..Len(answer) /\ next' = next + 1 /\ answer' = answer
      /\ results' = IF Usable(item) THEN Append(results, Result(item)) ELSE results
      /\ results \in Seq(ResultRow) /\ Len(answer) \in Nat
  BY DEF IInv, TypeOK, ReadItem, Reading
<1>2. UsableRead' = IF Usable(item) THEN UsableRead \cup {next} ELSE UsableRead
  BY <1>1 DEF UsableRead
<1>3. CASE ~Usable(item)
  BY <1>1, <1>2, <1>3 DEF ResultsAreOf
<1>4. CASE Usable(item)
  <2> DEFINE row == Result(item)
             n == Len(results)
  <2>1. results' = Append(results, row) /\ row.type = item.type /\ row.confidence = item.confidence
    BY <1>1, <1>4 DEF Result
  <2> HIDE DEF row
  <2>2. /\ n \in Nat /\ DOMAIN results = 1..n /\ DOMAIN results' = 1..(n + 1)
        /\ results'[n + 1] = row /\ \A i \in 1..n : results'[i] = results[i]
    BY <1>1, <2>1
  <2>3. PICK position \in [DOMAIN results -> UsableRead] :
          /\ \A k \in UsableRead : \E i \in DOMAIN results : position[i] = k
          /\ \A i, j \in DOMAIN results : i < j => position[i] < position[j]
          /\ \A i \in DOMAIN results : /\ results[i].type = answer[position[i]].type
                                       /\ results[i].confidence = answer[position[i]].confidence
    BY DEF ResultsAreOf
  <2> DEFINE extended == [i \in 1..(n + 1) |-> IF i = n + 1 THEN next ELSE position[i]]
  <2>4. UsableRead' = UsableRead \cup {next} /\ \A k \in UsableRead : k \in Nat /\ k < next
    BY <1>1, <1>2, <1>4 DEF UsableRead
  <2> HIDE DEF n
  <2>5. /\ extended[n + 1] = next
        /\ \A i \in 1..n : extended[i] = position[i] /\ position[i] \in UsableRead
    BY <2>2, <2>3
  <2>6. \A i \in 1..(n + 1) : i \in 1..n \/ i = n + 1
    BY <2>2
  <2>7. extended \in [DOMAIN results' -> UsableRead']
    BY <2>2, <2>4, <2>5, <2>6
  <2> HIDE DEF extended
  <2>8. ASSUME NEW k \in UsableRead' PROVE \E i \in DOMAIN results' : extended[i] = k
    <3>1. CASE k = next
      <4>1. n + 1 \in DOMAIN results'
        BY <2>2
      <4> QED
        BY <2>5, <3>1, <4>1
    <3>2. CASE k \in UsableRead
      <4>1. PICK i \in 1..n : position[i] = k
        BY <2>2, <2>3, <3>2
      <4>2. i \in DOMAIN results'
        BY <2>2
      <4> QED
        BY <2>5, <4>1, <4>2
    <3> QED
      BY <2>4, <3>1, <3>2
  <2>9. ASSUME NEW i \in DOMAIN results', NEW j \in DOMAIN results', i < j
        PROVE  extended[i] < extended[j]
    <3>1. i \in 1..n
      BY <2>2, <2>9
    <3>2. CASE j \in 1..n
      BY <2>2, <2>3, <2>5, <2>9, <3>1, <3>2
    <3>3. CASE j = n + 1
      BY <2>4, <2>5, <3>1, <3>3
    <3> QED
      BY <2>2, <2>6, <3>2, <3>3
  <2>10. ASSUME NEW i \in DOMAIN results'
         PROVE  /\ results'[i].type = answer'[extended[i]].type
                /\ results'[i].confidence = answer'[extended[i]].confidence
    <3>1. CASE i \in 1..n
      BY <1>1, <2>2, <2>3, <2>5, <3>1
    <3>2. CASE i = n + 1
      BY <1>1, <2>1, <2>2, <2>5, <3>2
    <3> QED
      BY <2>2, <2>6, <3>1, <3>2
  <2> QED
    BY <2>7, <2>8, <2>9, <2>10 DEF ResultsAreOf
<1> QED
  BY <1>3, <1>4

LEMMA StepReading == IInv /\ ReadingInv /\ [Next]_vars => ReadingInv'
<1> SUFFICES ASSUME IInv, ReadingInv, [Next]_vars PROVE ReadingInv'
  OBVIOUS
<1>1. ASSUME FailOver PROVE ReadingInv'
  <2>1. results' = <<>> /\ next' = 1 /\ stage' = "ask"
    BY <1>1 DEF FailOver
  <2> QED
    BY <2>1, NothingRead DEF ReadingInv
<1>2. ASSUME NEW how, Ends(how),
             how = "fields" => next = Len(answer) + 1,
             how = "escaped" => \E k \in DOMAIN answer : Raises(answer[k])
      PROVE  ReadingInv'
  <2>1. stage' = how /\ UNCHANGED <<from, answer, next, results>>
    BY <1>2 DEF Ends
  <2>2. ResultsAreOf(UsableRead)'
    BY <2>1 DEF ReadingInv, ResultsAreOf, UsableRead
  <2> QED
    BY <1>2, <2>1, <2>2 DEF ReadingInv
<1>3. CASE Answers
  <2>1. results' = <<>> /\ next' = 1 /\ stage' = "read"
    BY <1>3 DEF Answers, IInv, OneAnswerOnly
  <2> QED
    BY <2>1, NothingRead DEF ReadingInv
<1>4. CASE ProviderFails
  BY <1>1, <1>2, <1>4 DEF ProviderFails
<1>5. CASE ReadItem
  <2>1. stage = "read" /\ stage' = stage
    BY <1>5 DEF ReadItem, Reading
  <2> QED
    BY <1>5, <2>1, OneMoreRead DEF ReadingInv
<1>6. CASE ReadRaises
  <2>1. next \in DOMAIN answer /\ Raises(answer[next])
    BY <1>6 DEF ReadRaises, Reading, IInv, TypeOK
  <2> QED
    BY <1>1, <1>2, <1>6, <2>1 DEF ReadRaises
<1>7. CASE ReadEnds
  BY <1>2, <1>7 DEF ReadEnds
<1>8. CASE UNCHANGED vars
  BY <1>8 DEF vars, ReadingInv, ResultsAreOf, UsableRead
<1> QED
  BY <1>3, <1>4, <1>5, <1>6, <1>7, <1>8 DEF Next

\* An item that keeps to the schema it was asked for raises nothing, and its value
\* validates if it is there.
LEMMA ConformingIsUsable ==
  ASSUME NEW item, from \in {"claude", "openai"}, Conforms(item, Schema[from])
  PROVE  ~Raises(item) /\ (Usable(item) <=> item.value # Absent)
<1>1. "confidence" \in Schema[from].item.required
  BY DEF Schema, AnthropicToolSchema, OpenAiJsonSchema, ObjectSchema, ItemProperties
<1>2. item.type \in FieldTypes /\ item.confidence # Absent
  BY <1>1 DEF Conforms
<1>3. /\ Schema[from].value[item.type].required = Required(item.type)
      /\ Schema[from].value[item.type].properties = Members(item.type)
  BY <1>2 DEF Schema, AnthropicToolSchema, OpenAiJsonSchema, ModelJsonSchema, ObjectSchema
<1>4. ASSUME item.value # Absent PROVE IsValid(item.type, item.value)
  <2>1. /\ Required(item.type) \subseteq DOMAIN item.value
        /\ \A member \in DOMAIN item.value \cap Members(item.type) :
             item.value[member] \in FieldValueSchemas[item.type][member]
    BY <1>3, <1>4 DEF Conforms
  <2>2. \A accepted : \A token \in accepted : Coerced(accepted, token) \in accepted
    BY DEF Coerced
  <2> QED
    BY <2>1, <2>2 DEF IsValid
<1> QED
  BY <1>2, <1>4 DEF Raises, Usable

LEMMA ReadingStands == Spec => [](IInv /\ ReadingInv)
<1>1. Init => ReadingInv
  <2> SUFFICES ASSUME Init PROVE ReadingInv
    OBVIOUS
  <2>1. results = <<>> /\ next = 1 /\ stage = "ask"
    BY DEF Init
  <2>2. UsableRead = {} /\ DOMAIN results = {}
    BY <2>1 DEF UsableRead
  <2>3. [i \in {} |-> 0] \in [DOMAIN results -> {}]
    BY <2>2
  <2> QED
    BY <2>1, <2>2, <2>3 DEF ReadingInv, ResultsAreOf
<1> QED
  BY <1>1, InitInvariant, StepInvariant, StepReading, PTL DEF Spec

\* validate_field_value(), the loops of the two adapters: of an answer's items, exactly
\* the usable ones that were read have become results, in their order.
THEOREM UsableItemsAreKept == Spec => []OnlyUnusableItemsAreDropped
<1>1. ReadingInv => OnlyUnusableItemsAreDropped
  BY DEF ReadingInv, UsableRead, OnlyUnusableItemsAreDropped
<1> QED
  BY <1>1, ReadingStands, PTL

\* field_schemas.py, claude_adapter.py, failover.py: a model that keeps to the schema
\* it was sent causes no error and loses no value, whichever provider it is.
THEOREM SchemasFitTheReading == Spec => []ConformingAnswersAreKept
<1>1. ASSUME IInv, ReadingInv, \A i \in DOMAIN answer : Conforms(answer[i], Schema[from])
      PROVE  /\ stage # "escaped"
             /\ stage = "fields" => ResultsAreOf({k \in DOMAIN answer : answer[k].value # Absent})
  <2>1. \A i \in DOMAIN answer : /\ ~Raises(answer[i])
                                 /\ Usable(answer[i]) <=> answer[i].value # Absent
    BY <1>1, ConformingIsUsable DEF IInv, TypeOK
  <2>2. stage # "escaped"
    BY <1>1, <2>1 DEF ReadingInv
  <2>3. ASSUME stage = "fields"
        PROVE  ResultsAreOf({k \in DOMAIN answer : answer[k].value # Absent})
    <3>1. next - 1 = Len(answer) /\ DOMAIN answer = 1..Len(answer)
      BY <1>1, <2>3 DEF IInv, ReadingInv
    <3>2. UsableRead = {k \in DOMAIN answer : answer[k].value # Absent}
      BY <2>1, <3>1 DEF UsableRead
    <3> QED
      BY <1>1, <3>2 DEF ReadingInv
  <2> QED
    BY <2>2, <2>3
<1>2. IInv /\ ReadingInv => ConformingAnswersAreKept
  BY <1>1 DEF ConformingAnswersAreKept
<1> QED
  BY <1>2, ReadingStands, PTL

\* failover.py, claude_adapter.py: at every step of the reading, the answer in hand and
\* the results are what the pipeline takes them for.
THEOREM ReadingsAreTyped == Spec => []TypeOK
  BY AnswersAreShaped, PTL

=============================================================================
