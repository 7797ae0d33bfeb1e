--------------------------- MODULE MonitoringProofs ---------------------------
(* What the override rate counts and when drift is alerted, for any number of *)
(* fields, requests, samples and periods.                                     *)
EXTENDS Monitoring, FiniteSetTheorems, TLAPS

-----------------------------------------------------------------------------
(* The inductive invariant *)

\* A request carries a decision stamped no later than now.
RequestState(d) ==
  LET q == request[d] IN
  \/ q.op \in {"new", "done"}
  \/ /\ q.op = "update"
     /\ q.field \in DOMAIN fields /\ q.at \in 0..now
     /\ q.status \in {"VERIFIED", "OVERRIDDEN"} /\ q.value \in Values \cup {None}
  \/ /\ q.op = "insert"
     /\ q.field \in Fields /\ q.row \in Row
     /\ q.row.status = "OVERRIDDEN" /\ q.row.by = d /\ q.row.at \in 0..now

\* A decided row names the request that decided it, which was committed no earlier
\* than it was stamped.
RowStands(f) ==
  /\ fields[f] \in Row
  /\ ~Decided(fields[f]) => fields[f].at = None /\ fields[f].by = None
  /\ Decided(fields[f]) =>
       /\ fields[f].by \in Deciders /\ request[fields[f].by].op = "done"
       /\ fields[f].at \in 0..now /\ committed[f] \in fields[f].at..now

TablesStand ==
  /\ DOMAIN fields \subseteq Fields /\ DOMAIN committed = Fields
  /\ request = [d \in Deciders |-> request[d]]
  /\ rates \in [FieldTypes -> Seq(RateRow)]
  /\ now \in 0..Horizon
  /\ \A d \in Deciders : RequestState(d)
  /\ \A f \in DOMAIN fields : RowStands(f)

RatesAreOfDecisions ==
  \A type \in FieldTypes : \A p \in DOMAIN rates[type] :
    rates[type][p].overridden <= rates[type][p].total

SnapshotsStand ==
  /\ DOMAIN snapshots \subseteq Sampled /\ alerts \subseteq DOMAIN snapshots
  /\ \A type \in DOMAIN snapshots :
       snapshots[type] \in SnapshotRow /\ snapshots[type].correct <= snapshots[type].size

\* A request decides one row and is then over.
DecidesOnce ==
  \A f, g \in DOMAIN fields :
    Decided(fields[f]) /\ Decided(fields[g]) /\ fields[f].by = fields[g].by => f = g

Falls(at, p) == at >= p * Period /\ at < p * Period + Period

\* What was counted is a decision of the past, and while it stands in a row it is that
\* row's, in the period its stamp falls into.
CountsStand ==
  \A c \in counted :
    /\ c.by \in Deciders /\ c.field \in Fields /\ c.period \in Nat
    /\ c = [by |-> c.by, field |-> c.field, period |-> c.period]
    /\ request[c.by].op = "done"
    /\ \A f \in DOMAIN fields :
         Decided(fields[f]) /\ fields[f].by = c.by => f = c.field /\ Falls(fields[f].at, c.period)

\* No period is counted before it has ended.
PeriodsEnded == \A type \in FieldTypes : Len(rates[type]) * Period <= now

IInv ==
  /\ TablesStand
  /\ RatesAreOfDecisions
  /\ SnapshotsStand
  /\ DecidesOnce
  /\ CountsStand
  /\ PeriodsEnded
  /\ CountedInOnePeriod
  /\ PunctualIsCounted

-----------------------------------------------------------------------------
(* Numbers *)

LEMMA PeriodsFollow ==
  ASSUME NEW p \in Nat, NEW q \in Nat, p < q
  PROVE  p * Period + Period <= q * Period
<1>1. Period \in Nat
  BY ParametersAreTyped
<1>2. PICK n \in Nat : q = p + 1 + n
  <2>1. q - (p + 1) \in Nat /\ q = p + 1 + (q - (p + 1))
    OBVIOUS
  <2> QED
    BY <2>1
<1>3. (p + 1 + n) * Period = p * Period + Period + n * Period
  BY <1>1
<1>4. n * Period >= 0 /\ p * Period \in Nat
  BY <1>1
<1> QED
  BY <1>1, <1>2, <1>3, <1>4

\* A time falls into one period only.
LEMMA FallsOnce ==
  ASSUME NEW at \in Nat, NEW p \in Nat, NEW q \in Nat, Falls(at, p), Falls(at, q)
  PROVE  p = q
<1>1. p * Period \in Nat /\ q * Period \in Nat
  BY ParametersAreTyped
<1> QED
  BY <1>1, PeriodsFollow, ParametersAreTyped DEF Falls

LEMMA SubsetIsSmaller ==
  ASSUME NEW S, IsFiniteSet(S), NEW T \in SUBSET S
  PROVE  /\ Cardinality(T) \in Nat /\ Cardinality(S) \in Nat
         /\ Cardinality(T) <= Cardinality(S)
  BY FS_Subset, FS_CardinalityType

-----------------------------------------------------------------------------
(* The requests *)

LEMMA InitEstablishes == Init => IInv
<1> SUFFICES ASSUME Init PROVE IInv
  OBVIOUS
<1> USE ParametersAreTyped DEF Init
<1>1. PICK some \in SUBSET Fields :
        fields \in [some -> {Suggested(doc, type, value) :
                               doc \in Docs, type \in FieldTypes, value \in Values}]
  OBVIOUS
<1>2. ASSUME NEW f \in DOMAIN fields
      PROVE  RowStands(f) /\ ~Decided(fields[f])
  <2>1. PICK doc \in Docs, type \in FieldTypes, value \in Values :
          fields[f] = Suggested(doc, type, value)
    BY <1>1
  <2> QED
    BY <2>1 DEF RowStands, Row, Suggested, Decided
<1>3. TablesStand
  BY <1>1, <1>2 DEF TablesStand, RequestState
<1>4. RatesAreOfDecisions /\ SnapshotsStand
  BY DEF RatesAreOfDecisions, SnapshotsStand
<1>5. DecidesOnce /\ PunctualIsCounted
  BY <1>2 DEF DecidesOnce, PunctualIsCounted
<1>6. CountsStand /\ PeriodsEnded /\ CountedInOnePeriod
  BY DEF CountsStand, PeriodsEnded, CountedInOnePeriod
<1> QED
  BY <1>3, <1>4, <1>5, <1>6 DEF IInv

\* A request that only changes what it carries.
LEMMA RequestStep ==
  ASSUME IInv, NEW d \in Deciders, NEW next,
         request' = [request EXCEPT ![d] = next],
         UNCHANGED <<fields, rates, snapshots, alerts, now, committed, counted>>,
         next.op = "done" \/ request[d].op # "done",
         RequestState(d)'
  PROVE  IInv'
<1>1. /\ request'[d] = next
      /\ \A e \in Deciders : e # d => request'[e] = request[e]
      /\ request' = [e \in Deciders |-> request'[e]]
  BY DEF IInv, TablesStand
<1>2. \A e \in Deciders : request[e].op = "done" => request'[e].op = "done"
  BY <1>1
<1>3. \A e \in Deciders : RequestState(e)'
  <2> SUFFICES ASSUME NEW e \in Deciders, e # d PROVE RequestState(e)'
    OBVIOUS
  <2>1. RequestState(e) /\ request'[e] = request[e]
    BY <1>1 DEF IInv, TablesStand
  <2> QED
    BY <2>1 DEF RequestState
<1>4. \A f \in DOMAIN fields : RowStands(f)'
  BY <1>2 DEF IInv, TablesStand, RowStands, Decided
<1>5. TablesStand'
  BY <1>1, <1>3, <1>4 DEF IInv, TablesStand
<1>6. CountsStand'
  BY <1>2 DEF IInv, CountsStand, Decided, Falls
<1>7. /\ RatesAreOfDecisions' /\ SnapshotsStand' /\ DecidesOnce' /\ PeriodsEnded'
      /\ CountedInOnePeriod' /\ PunctualIsCounted'
  BY DEF IInv, RatesAreOfDecisions, SnapshotsStand, DecidesOnce, PeriodsEnded,
         CountedInOnePeriod, PunctualIsCounted, Decided
<1> QED
  BY <1>5, <1>6, <1>7 DEF IInv

LEMMA DecideStep ==
  ASSUME IInv, NEW d \in Deciders, Decide(d)
  PROVE  IInv'
<1>1. PICK f \in DOMAIN fields, override \in Values \cup {None} :
        request' = [request EXCEPT ![d] =
          [op |-> "update", field |-> f, at |-> now,
           status |-> IF override = None THEN "VERIFIED" ELSE "OVERRIDDEN",
           value |-> IF override = fields[f].value THEN None ELSE override]]
  BY DEF Decide
<1>2. UNCHANGED <<fields, rates, snapshots, alerts, now, committed, counted>> /\ request[d].op = "new"
  BY DEF Decide
<1>3. now \in 0..now /\ request = [e \in Deciders |-> request[e]]
  BY ParametersAreTyped DEF IInv, TablesStand
<1>4. RequestState(d)'
  BY <1>1, <1>2, <1>3 DEF RequestState
<1> QED
  BY <1>1, <1>2, <1>4, RequestStep

LEMMA EnterByHandStep ==
  ASSUME IInv, NEW d \in Deciders, EnterByHand(d)
  PROVE  IInv'
<1>1. PICK f \in Fields \ DOMAIN fields, doc \in Docs, type \in FieldTypes, value \in Values :
        request' = [request EXCEPT ![d] =
          [op |-> "insert", field |-> f,
           row |-> [doc |-> doc, type |-> type, value |-> value,
                    status |-> "OVERRIDDEN", by |-> d, at |-> now]]]
  BY DEF EnterByHand
<1>2. UNCHANGED <<fields, rates, snapshots, alerts, now, committed, counted>> /\ request[d].op = "new"
  BY DEF EnterByHand
<1>3. now \in 0..now /\ now \in 0..Horizon /\ request = [e \in Deciders |-> request[e]]
  BY ParametersAreTyped DEF IInv, TablesStand
<1>4. [doc |-> doc, type |-> type, value |-> value,
       status |-> "OVERRIDDEN", by |-> d, at |-> now] \in Row
  BY <1>3 DEF Row
<1>5. RequestState(d)'
  BY <1>1, <1>2, <1>3, <1>4 DEF RequestState
<1> QED
  BY <1>1, <1>2, <1>5, RequestStep

LEMMA RollBackStep ==
  ASSUME IInv, NEW d \in Deciders, RollBack(d)
  PROVE  IInv'
<1>1. request'[d] = [op |-> "done"]
  BY DEF RollBack, IInv, TablesStand
<1>2. RequestState(d)'
  BY <1>1 DEF RequestState
<1> QED
  BY <1>2, RequestStep DEF RollBack

-----------------------------------------------------------------------------
(* A commit *)

LEMMA CommitEffect ==
  ASSUME IInv, NEW d \in Deciders, Commit(d)
  PROVE  LET f == request[d].field IN
         /\ f \in Fields
         /\ DOMAIN fields' = DOMAIN fields \cup {f}
         /\ fields'[f] \in Row /\ Decided(fields'[f])
         /\ fields'[f].by = d /\ fields'[f].at \in 0..now
         /\ f \in DOMAIN fields => fields'[f].type = fields[f].type
         /\ \A g \in DOMAIN fields : g # f => fields'[g] = fields[g]
         /\ DOMAIN committed' = Fields /\ committed'[f] = now
         /\ \A g \in Fields : g # f => committed'[g] = committed[g]
         /\ request[d].op # "done" /\ request'[d].op = "done"
         /\ \A e \in Deciders : e # d => request'[e] = request[e]
         /\ request' = [e \in Deciders |-> request'[e]]
         /\ UNCHANGED <<rates, snapshots, alerts, now, counted>>
<1> DEFINE q == request[d]
           f == q.field
<1>1. /\ q.op \in {"update", "insert"}
      /\ fields' = [g \in DOMAIN fields \cup {f} |-> IF g = f THEN Written(d) ELSE fields[g]]
      /\ committed' = [committed EXCEPT ![f] = now]
      /\ request' = [request EXCEPT ![d] = [op |-> "done"]]
      /\ q.op = "insert" => f \notin DOMAIN fields
      /\ UNCHANGED <<rates, snapshots, alerts, now, counted>>
  BY DEF Commit
<1>2. /\ RequestState(d) /\ DOMAIN fields \subseteq Fields /\ DOMAIN committed = Fields
      /\ request = [e \in Deciders |-> request[e]] /\ now \in 0..Horizon
      /\ \A g \in DOMAIN fields : fields[g] \in Row
  BY DEF IInv, TablesStand, RowStands
<1>3. CASE q.op = "insert"
  <2>1. f \in Fields /\ Written(d) = q.row /\ f \notin DOMAIN fields
    BY <1>1, <1>2, <1>3 DEF RequestState, Written
  <2>2. Written(d) \in Row /\ Decided(Written(d)) /\ Written(d).by = d /\ Written(d).at \in 0..now
    BY <1>2, <1>3, <2>1 DEF RequestState, Decided
  <2> QED
    BY <1>1, <1>2, <1>3, <2>1, <2>2
<1>4. CASE q.op = "update"
  <2> DEFINE row == fields[f]
             value == IF q.value = None THEN row.value ELSE q.value
  <2>1. /\ f \in DOMAIN fields /\ row \in Row /\ q.at \in 0..now
        /\ q.status \in {"VERIFIED", "OVERRIDDEN"} /\ value \in Values
    BY <1>2, <1>4 DEF RequestState, Row
  <2>2. Written(d) = [row EXCEPT !.status = q.status, !.by = d, !.at = q.at, !.value = value]
    BY <1>4, <2>1 DEF Written, Row
  <2>3. Written(d) \in Row /\ Decided(Written(d)) /\ Written(d).by = d /\ Written(d).at \in 0..now
        /\ Written(d).type = row.type
    <3>1. q.at \in 0..Horizon
      BY <1>2, <2>1, ParametersAreTyped
    <3> HIDE DEF row, value, q, f
    <3>2. /\ Written(d) \in Row /\ Decided(Written(d))
          /\ Written(d).by = d /\ Written(d).at = q.at /\ Written(d).type = row.type
      BY <2>1, <2>2, <3>1 DEF Row, Decided
    <3> QED
      BY <2>1, <3>2
  <2> QED
    BY <1>1, <1>2, <1>4, <2>1, <2>3
<1> QED
  BY <1>1, <1>3, <1>4

LEMMA CommitStep ==
  ASSUME IInv, NEW d \in Deciders, Commit(d)
  PROVE  IInv'
<1> DEFINE f == request[d].field
<1>1. /\ f \in Fields
      /\ DOMAIN fields' = DOMAIN fields \cup {f}
      /\ fields'[f] \in Row /\ Decided(fields'[f])
      /\ fields'[f].by = d /\ fields'[f].at \in 0..now
      /\ f \in DOMAIN fields => fields'[f].type = fields[f].type
      /\ \A g \in DOMAIN fields : g # f => fields'[g] = fields[g]
      /\ DOMAIN committed' = Fields /\ committed'[f] = now
      /\ \A g \in Fields : g # f => committed'[g] = committed[g]
      /\ request[d].op # "done" /\ request'[d].op = "done"
      /\ \A e \in Deciders : e # d => request'[e] = request[e]
      /\ request' = [e \in Deciders |-> request'[e]]
      /\ UNCHANGED <<rates, snapshots, alerts, now, counted>>
  BY CommitEffect
<1> HIDE DEF f
<1>2. /\ DOMAIN fields \subseteq Fields /\ now \in 0..Horizon /\ now \in Nat
      /\ \A e \in Deciders : RequestState(e)
      /\ \A g \in DOMAIN fields : RowStands(g)
  BY ParametersAreTyped DEF IInv, TablesStand
<1>3. \A e \in Deciders : request[e].op = "done" => request'[e].op = "done" /\ e # d
  BY <1>1
<1>4. ASSUME NEW e \in Deciders PROVE RequestState(e)'
  <2>1. CASE e = d
    BY <1>1, <2>1 DEF RequestState
  <2>2. CASE e # d
    <3>1. RequestState(e) /\ request'[e] = request[e]
      BY <1>1, <1>2, <2>2
    <3> QED
      BY <1>1, <3>1 DEF RequestState
  <2> QED
    BY <2>1, <2>2
<1>5. ASSUME NEW g \in DOMAIN fields' PROVE RowStands(g)'
  <2>1. CASE g = f
    BY <1>1, <1>2, <2>1 DEF RowStands, Decided
  <2>2. CASE g # f
    <3>1. RowStands(g) /\ fields'[g] = fields[g] /\ committed'[g] = committed[g]
      BY <1>1, <1>2, <2>2
    <3> QED
      BY <1>1, <1>3, <3>1 DEF RowStands, Decided
  <2> QED
    BY <2>1, <2>2
<1>6. TablesStand'
  BY <1>1, <1>2, <1>4, <1>5 DEF IInv, TablesStand
<1>7. DecidesOnce'
  <2>1. ASSUME NEW g \in DOMAIN fields, Decided(fields[g])
        PROVE  fields[g].by # d
    BY <1>2, <1>3, <2>1 DEF RowStands
  <2> QED
    BY <1>1, <2>1 DEF IInv, DecidesOnce, Decided
<1>8. CountsStand'
  <2> SUFFICES ASSUME NEW c \in counted
               PROVE  /\ request'[c.by].op = "done" /\ c.by \in Deciders
                      /\ \A g \in DOMAIN fields' :
                           Decided(fields'[g]) /\ fields'[g].by = c.by
                             => g = c.field /\ Falls(fields'[g].at, c.period)
    BY <1>1 DEF IInv, CountsStand, Decided, Falls
  <2>1. c.by \in Deciders /\ request[c.by].op = "done"
    BY DEF IInv, CountsStand
  <2>2. c.by # d
    BY <1>3, <2>1
  <2> QED
    BY <1>1, <1>3, <2>1, <2>2 DEF IInv, CountsStand
<1>9. PunctualIsCounted'
  <2> SUFFICES ASSUME NEW g \in DOMAIN fields',
                      NEW p \in 0..(Len(rates[fields'[g].type]) - 1), Decided(fields'[g]),
                      fields'[g].at >= p * Period, committed'[g] < (p + 1) * Period
               PROVE  [by |-> fields'[g].by, field |-> g, period |-> p] \in counted
    BY <1>1 DEF PunctualIsCounted, Decided
  <2>1. CASE g # f
    <3>1. g \in DOMAIN fields /\ fields'[g] = fields[g] /\ committed'[g] = committed[g]
      BY <1>1, <1>2, <2>1
    <3> QED
      BY <3>1 DEF IInv, PunctualIsCounted
  <2>2. CASE g = f
    <3> DEFINE type == fields'[g].type
    <3>1. type \in FieldTypes
      BY <1>1, <2>2 DEF Row
    <3>2. Len(rates[type]) \in Nat /\ Len(rates[type]) * Period <= now
      BY <3>1 DEF IInv, PeriodsEnded, TablesStand
    <3>3. now < (p + 1) * Period
      BY <1>1, <2>2
    <3> HIDE DEF type
    <3>4. p \in Nat /\ p < Len(rates[type]) /\ Period \in Nat
      BY <3>2, ParametersAreTyped DEF type
    <3>5. p * Period + Period <= Len(rates[type]) * Period
      BY <3>2, <3>4, PeriodsFollow
    <3>6. (p + 1) * Period = p * Period + Period
      BY <3>4
    <3>7. p * Period \in Nat /\ Len(rates[type]) * Period \in Nat
      BY <3>2, <3>4
    <3> QED
      BY <1>2, <3>2, <3>3, <3>4, <3>5, <3>6, <3>7
  <2> QED
    BY <2>1, <2>2
<1>10. /\ RatesAreOfDecisions' /\ SnapshotsStand' /\ PeriodsEnded' /\ CountedInOnePeriod'
  BY <1>1 DEF IInv, RatesAreOfDecisions, SnapshotsStand, PeriodsEnded, CountedInOnePeriod
<1> QED
  BY <1>6, <1>7, <1>8, <1>9, <1>10 DEF IInv

-----------------------------------------------------------------------------
(* The jobs *)

LEMMA ComputeOverrideRateStep ==
  ASSUME IInv, NEW type \in FieldTypes, ComputeOverrideRate(type)
  PROVE  IInv'
<1> DEFINE period == Len(rates[type])
           start == period * Period
           end == start + Period
           verified == {f \in DOMAIN fields :
                          fields[f].type = type /\ InPeriod(fields[f], start, end)}
           overridden == {f \in verified : fields[f].status = "OVERRIDDEN"}
           rate == [overridden |-> Cardinality(overridden), total |-> Cardinality(verified)]
<1>1. /\ now >= end
      /\ rates' = [rates EXCEPT ![type] = Append(@, rate)]
      /\ counted' = counted \cup
           {[by |-> fields[f].by, field |-> f, period |-> period] : f \in verified}
      /\ UNCHANGED <<fields, request, snapshots, alerts, now, committed>>
  BY DEF ComputeOverrideRate
<1>2. /\ DOMAIN fields \subseteq Fields /\ now \in Nat
      /\ rates \in [FieldTypes -> Seq(RateRow)] /\ rates[type] \in Seq(RateRow)
      /\ \A f \in DOMAIN fields : RowStands(f)
      /\ Period \in Nat /\ Period > 0
  BY ParametersAreTyped DEF IInv, TablesStand
<1>3. period \in Nat /\ start \in Nat /\ end \in Nat
  BY <1>2
<1>4. rate \in RateRow /\ rate.overridden <= rate.total
  <2>1. verified \in SUBSET Fields /\ overridden \in SUBSET verified
    BY <1>2
  <2>2. IsFiniteSet(verified)
    BY <2>1, TablesAreFinite, FS_Subset
  <2> HIDE DEF verified, overridden
  <2>3. /\ Cardinality(overridden) \in Nat /\ Cardinality(verified) \in Nat
        /\ Cardinality(overridden) <= Cardinality(verified)
    BY <2>1, <2>2, SubsetIsSmaller
  <2> QED
    BY <2>3 DEF RateRow
<1>5. \A f \in verified : /\ f \in DOMAIN fields /\ Decided(fields[f]) /\ fields[f].type = type
                          /\ Falls(fields[f].at, period) /\ fields[f].by \in Deciders
                          /\ request[fields[f].by].op = "done" /\ fields[f].at \in Nat
  BY <1>2 DEF InPeriod, Falls, RowStands
<1> DEFINE entries == {[by |-> fields[f].by, field |-> f, period |-> period] : f \in verified}
<1>6. ASSUME NEW f \in DOMAIN fields, Decided(fields[f]), fields[f].type = type,
             Falls(fields[f].at, period)
      PROVE  [by |-> fields[f].by, field |-> f, period |-> period] \in entries
  BY <1>6 DEF InPeriod, Falls
<1> HIDE DEF period, start, end, verified, overridden, rate
<1>7. ASSUME NEW c \in entries
      PROVE  \E f \in verified : c = [by |-> fields[f].by, field |-> f, period |-> period]
  OBVIOUS
<1> HIDE DEF entries
<1>8. /\ rates' \in [FieldTypes -> Seq(RateRow)]
      /\ \A t \in FieldTypes : t # type => rates'[t] = rates[t]
      /\ rates'[type] = Append(rates[type], rate)
  BY <1>1, <1>2, <1>4
<1>9. /\ Len(rates'[type]) = period + 1
      /\ \A p \in DOMAIN rates'[type] :
           rates'[type][p] = IF p \in DOMAIN rates[type] THEN rates[type][p] ELSE rate
  BY <1>2, <1>8 DEF period
<1>10. counted' = counted \cup entries
  BY <1>1 DEF entries
<1>11. TablesStand'
  <2>1. \A d \in Deciders : RequestState(d)'
    BY <1>1 DEF IInv, TablesStand, RequestState
  <2>2. \A f \in DOMAIN fields : RowStands(f)'
    BY <1>1, <1>2 DEF RowStands, Decided
  <2> QED
    BY <1>1, <1>8, <2>1, <2>2 DEF IInv, TablesStand
<1>12. RatesAreOfDecisions'
  BY <1>4, <1>8, <1>9 DEF IInv, RatesAreOfDecisions
<1>13. SnapshotsStand' /\ DecidesOnce'
  BY <1>1 DEF IInv, SnapshotsStand, DecidesOnce, Decided
<1>14. CountsStand'
  <2> SUFFICES ASSUME NEW c \in counted'
               PROVE  /\ c.by \in Deciders /\ c.field \in Fields /\ c.period \in Nat
                      /\ c = [by |-> c.by, field |-> c.field, period |-> c.period]
                      /\ request[c.by].op = "done"
                      /\ \A f \in DOMAIN fields :
                           Decided(fields[f]) /\ fields[f].by = c.by
                             => f = c.field /\ Falls(fields[f].at, c.period)
    BY <1>1 DEF CountsStand, Decided, Falls
  <2>1. CASE c \in counted
    BY <2>1 DEF IInv, CountsStand
  <2>2. CASE c \in entries
    <3>1. PICK f \in verified : c = [by |-> fields[f].by, field |-> f, period |-> period]
      BY <1>7, <2>2
    <3>2. \A g \in DOMAIN fields : Decided(fields[g]) /\ fields[g].by = fields[f].by => g = f
      BY <1>5 DEF IInv, DecidesOnce
    <3> QED
      BY <1>2, <1>3, <1>5, <3>1, <3>2
  <2> QED
    BY <1>10, <2>1, <2>2
<1>15. PeriodsEnded'
  <2>1. (period + 1) * Period = end
    BY <1>2, <1>3 DEF end, start
  <2> QED
    BY <1>1, <1>8, <1>9, <2>1 DEF IInv, PeriodsEnded
<1>16. CountedInOnePeriod'
  <2>1. ASSUME NEW a \in counted, NEW b \in entries, a.by = b.by
        PROVE  a = b
    <3>1. PICK f \in verified : b = [by |-> fields[f].by, field |-> f, period |-> period]
      BY <1>7
    <3>2. f = a.field /\ Falls(fields[f].at, a.period) /\ a.period \in Nat
      BY <1>5, <2>1, <3>1 DEF IInv, CountsStand
    <3>3. a.period = period
      BY <1>3, <1>5, <3>2, FallsOnce
    <3>4. a = [by |-> a.by, field |-> a.field, period |-> a.period]
      BY DEF IInv, CountsStand
    <3> QED
      BY <2>1, <3>1, <3>2, <3>3, <3>4
  <2>2. ASSUME NEW a \in entries, NEW b \in entries, a.by = b.by
        PROVE  a = b
    <3>1. PICK f \in verified : a = [by |-> fields[f].by, field |-> f, period |-> period]
      BY <1>7
    <3>2. PICK g \in verified : b = [by |-> fields[g].by, field |-> g, period |-> period]
      BY <1>7
    <3>3. f = g
      BY <1>5, <2>2, <3>1, <3>2 DEF IInv, DecidesOnce
    <3> QED
      BY <3>1, <3>2, <3>3
  <2> QED
    BY <1>10, <2>1, <2>2 DEF IInv, CountedInOnePeriod
<1>17. PunctualIsCounted'
  <2> SUFFICES ASSUME NEW f \in DOMAIN fields, NEW p \in 0..(Len(rates'[fields[f].type]) - 1),
                      Decided(fields[f]),
                      fields[f].at >= p * Period, committed[f] < (p + 1) * Period
               PROVE  [by |-> fields[f].by, field |-> f, period |-> p] \in counted'
    BY <1>1 DEF PunctualIsCounted, Decided
  <2>1. fields[f].type \in FieldTypes /\ fields[f].at \in Nat /\ committed[f] \in fields[f].at..now
    BY <1>2 DEF RowStands, Row
  <2>2. CASE p \in 0..(Len(rates[fields[f].type]) - 1)
    BY <1>10, <2>2 DEF IInv, PunctualIsCounted
  <2>3. CASE p \notin 0..(Len(rates[fields[f].type]) - 1)
    <3>1. fields[f].type = type
      BY <1>8, <2>1, <2>3
    <3>2. p = period
      BY <1>3, <1>9, <2>3, <3>1 DEF period
    <3>3. p \in Nat /\ (p + 1) * Period = p * Period + Period /\ p * Period \in Nat
      BY <1>2, <1>3, <3>2
    <3>4. Falls(fields[f].at, period)
      BY <1>2, <2>1, <3>2, <3>3 DEF Falls
    <3> QED
      BY <1>6, <1>10, <3>1, <3>2, <3>4
  <2> QED
    BY <2>2, <2>3
<1> QED
  BY <1>11, <1>12, <1>13, <1>14, <1>15, <1>16, <1>17 DEF IInv

\* What a run of the accuracy job finds: of each type as many correct samples as the
\* rows it picked agree with, and drift by the margin, except where rounding decides.
LEMMA AccuracyMeasured ==
  ASSUME ComputeAccuracy
  PROVE  /\ DOMAIN snapshots' = Sampled
         /\ alerts' = {type \in Sampled : snapshots'[type].drift}
         /\ UNCHANGED <<fields, request, rates, now, committed, counted>>
         /\ \E pick \in FirstRows : \A type \in Sampled :
              LET x == snapshots'[type]
                  allowed == Margin * x.size
                  drop == x.baseline * x.size - 100 * x.correct
              IN
              /\ x = [correct |-> x.correct, size |-> x.size, baseline |-> x.baseline, drift |-> x.drift]
              /\ x.correct = Cardinality(Correct(type, pick))
              /\ x.size = Cardinality(Samples(type, pick))
              /\ x.baseline \in Baselines \cup {None} /\ x.drift \in BOOLEAN
              /\ x.baseline = None => x.drift \in Drifts(0, allowed)
              /\ x.baseline # None => x.drift \in Drifts(drop, allowed)
<1>1. PICK pick \in FirstRows, baseline \in [Sampled -> Baselines \cup {None}],
           flag \in [Sampled -> BOOLEAN] :
        LET size(type) == Cardinality(Samples(type, pick))
            correct(type) == Cardinality(Correct(type, pick))
            drop(type) == IF baseline[type] = None THEN 0
                          ELSE baseline[type] * size(type) - 100 * correct(type)
        IN
        /\ \A type \in Sampled : flag[type] \in Drifts(drop(type), Margin * size(type))
        /\ snapshots' = [type \in Sampled |->
             [correct |-> correct(type), size |-> size(type),
              baseline |-> baseline[type], drift |-> flag[type]]]
        /\ alerts' = CheckForDrift(snapshots')
  BY DEF ComputeAccuracy
<1>2. DOMAIN snapshots' = Sampled /\ alerts' = {type \in Sampled : snapshots'[type].drift}
  BY <1>1 DEF CheckForDrift
<1>3. ASSUME NEW type \in Sampled
      PROVE  LET x == snapshots'[type]
                 allowed == Margin * x.size
                 drop == x.baseline * x.size - 100 * x.correct
             IN
             /\ x = [correct |-> x.correct, size |-> x.size, baseline |-> x.baseline, drift |-> x.drift]
             /\ x.correct = Cardinality(Correct(type, pick))
             /\ x.size = Cardinality(Samples(type, pick))
             /\ x.baseline \in Baselines \cup {None} /\ x.drift \in BOOLEAN
             /\ x.baseline = None => x.drift \in Drifts(0, allowed)
             /\ x.baseline # None => x.drift \in Drifts(drop, allowed)
  <2>1. snapshots'[type] = [correct |-> Cardinality(Correct(type, pick)),
                            size |-> Cardinality(Samples(type, pick)),
                            baseline |-> baseline[type], drift |-> flag[type]]
    BY <1>1
  <2>2. flag[type] \in Drifts(IF baseline[type] = None THEN 0
                              ELSE baseline[type] * Cardinality(Samples(type, pick))
                                     - 100 * Cardinality(Correct(type, pick)),
                              Margin * Cardinality(Samples(type, pick)))
    BY <1>1
  <2>3. baseline[type] \in Baselines \cup {None} /\ flag[type] \in BOOLEAN
    BY <1>1
  <2> QED
    BY <2>1, <2>2, <2>3
<1>4. UNCHANGED <<fields, request, rates, now, committed, counted>>
  BY DEF ComputeAccuracy
<1> QED
  BY <1>1, <1>2, <1>3, <1>4

LEMMA SamplesAreFinite ==
  ASSUME NEW type, NEW pick
  PROVE  /\ Cardinality(Correct(type, pick)) \in Nat /\ Cardinality(Samples(type, pick)) \in Nat
         /\ Cardinality(Correct(type, pick)) <= Cardinality(Samples(type, pick))
<1>1. Samples(type, pick) \in SUBSET Holdout /\ Correct(type, pick) \in SUBSET Samples(type, pick)
  BY DEF Samples, Correct
<1>2. IsFiniteSet(Samples(type, pick))
  BY <1>1, TablesAreFinite, FS_Subset
<1> QED
  BY <1>1, <1>2, SubsetIsSmaller

LEMMA ComputeAccuracyStep ==
  ASSUME IInv, ComputeAccuracy
  PROVE  IInv'
<1>1. PICK pick \in FirstRows :
        \A type \in Sampled :
          LET x == snapshots'[type] IN
          /\ x = [correct |-> x.correct, size |-> x.size, baseline |-> x.baseline, drift |-> x.drift]
          /\ x.correct = Cardinality(Correct(type, pick))
          /\ x.size = Cardinality(Samples(type, pick))
          /\ x.baseline \in Baselines \cup {None} /\ x.drift \in BOOLEAN
  BY AccuracyMeasured
<1>2. /\ DOMAIN snapshots' = Sampled /\ alerts' \subseteq Sampled
      /\ UNCHANGED <<fields, request, rates, now, committed, counted>>
  BY AccuracyMeasured
<1>3. ASSUME NEW type \in Sampled
      PROVE  /\ snapshots'[type] \in SnapshotRow
             /\ snapshots'[type].correct <= snapshots'[type].size
  <2> DEFINE x == snapshots'[type]
  <2>1. /\ x = [correct |-> x.correct, size |-> x.size, baseline |-> x.baseline, drift |-> x.drift]
        /\ x.correct = Cardinality(Correct(type, pick))
        /\ x.size = Cardinality(Samples(type, pick))
        /\ x.baseline \in Baselines \cup {None} /\ x.drift \in BOOLEAN
    BY <1>1
  <2>2. x.correct \in Nat /\ x.size \in Nat /\ x.correct <= x.size
    BY <2>1, SamplesAreFinite
  <2> HIDE DEF x
  <2>3. x \in SnapshotRow
    BY <2>1, <2>2, Zenon DEF SnapshotRow
  <2> QED
    BY <2>2, <2>3 DEF x
<1>4. SnapshotsStand'
  BY <1>2, <1>3 DEF SnapshotsStand, Sampled
<1>5. TablesStand'
  BY <1>2 DEF IInv, TablesStand, RequestState, RowStands, Decided
<1>6. /\ RatesAreOfDecisions' /\ DecidesOnce' /\ PeriodsEnded' /\ CountsStand'
      /\ CountedInOnePeriod' /\ PunctualIsCounted'
  BY <1>2 DEF IInv, RatesAreOfDecisions, DecidesOnce, PeriodsEnded, CountsStand,
              CountedInOnePeriod, PunctualIsCounted, Decided, Falls
<1> QED
  BY <1>4, <1>5, <1>6 DEF IInv

LEMMA TickStep ==
  ASSUME IInv, Tick
  PROVE  IInv'
<1>1. /\ now' = now + 1 /\ now \in Nat /\ now' \in 0..Horizon
      /\ UNCHANGED <<fields, request, rates, snapshots, alerts, committed, counted>>
  BY ParametersAreTyped DEF Tick, IInv, TablesStand
<1>2. ASSUME NEW d \in Deciders PROVE RequestState(d)'
  <2>1. RequestState(d)
    BY DEF IInv, TablesStand
  <2> QED
    BY <1>1, <2>1 DEF RequestState
<1>3. ASSUME NEW f \in DOMAIN fields PROVE RowStands(f)'
  <2>1. RowStands(f)
    BY DEF IInv, TablesStand
  <2> QED
    BY <1>1, <2>1 DEF RowStands, Decided
<1>4. TablesStand'
  BY <1>1, <1>2, <1>3 DEF IInv, TablesStand
<1>5. PeriodsEnded'
  <2>1. ASSUME NEW type \in FieldTypes PROVE Len(rates[type]) * Period \in Nat
    BY ParametersAreTyped DEF IInv, TablesStand
  <2> QED
    BY <1>1, <2>1 DEF IInv, PeriodsEnded
<1>6. /\ RatesAreOfDecisions' /\ SnapshotsStand' /\ DecidesOnce' /\ CountsStand'
      /\ CountedInOnePeriod' /\ PunctualIsCounted'
  BY <1>1 DEF IInv, RatesAreOfDecisions, SnapshotsStand, DecidesOnce, CountsStand,
              CountedInOnePeriod, PunctualIsCounted, Decided, Falls
<1> QED
  BY <1>4, <1>5, <1>6 DEF IInv

-----------------------------------------------------------------------------
(* The theorems *)

LEMMA StepPreserves == IInv /\ [Next]_vars => IInv'
<1> SUFFICES ASSUME IInv, [Next]_vars PROVE IInv'
  OBVIOUS
<1>1. CASE UNCHANGED vars
  <2> USE <1>1 DEF vars
  <2>1. TablesStand'
    BY DEF IInv, TablesStand, RequestState, RowStands, Decided
  <2>2. /\ RatesAreOfDecisions' /\ SnapshotsStand' /\ DecidesOnce' /\ PeriodsEnded'
        /\ CountsStand' /\ CountedInOnePeriod' /\ PunctualIsCounted'
    BY DEF IInv, RatesAreOfDecisions, SnapshotsStand, DecidesOnce, PeriodsEnded, CountsStand,
           CountedInOnePeriod, PunctualIsCounted, Decided, Falls
  <2> QED
    BY <2>1, <2>2 DEF IInv
<1>2. CASE Next
  BY <1>2, DecideStep, EnterByHandStep, CommitStep, RollBackStep, ComputeOverrideRateStep,
     ComputeAccuracyStep, TickStep
  DEF Next
<1> QED
  BY <1>1, <1>2

LEMMA JobsKeepIInv == Spec => []IInv
  BY InitEstablishes, StepPreserves, PTL DEF Spec

\* monitoring/*.py: the tables hold rows of their kind, a row has a time exactly when it
\* is decided, and no rate counts more overrides than decisions.
THEOREM TablesAreTyped == Spec => []TypeOK
<1>1. IInv => TypeOK
  <2> SUFFICES ASSUME IInv PROVE TypeOK
    OBVIOUS
  <2>1. ASSUME NEW f \in DOMAIN fields
        PROVE  fields[f] \in Row /\ (Decided(fields[f]) <=> fields[f].at # None)
    <3>1. RowStands(f) /\ now \in 0..Horizon
      BY DEF IInv, TablesStand
    <3>2. None \notin 0..now
      BY <3>1, ParametersAreTyped
    <3> QED
      BY <3>1, <3>2 DEF RowStands
  <2>2. \A type \in FieldTypes : \A p \in DOMAIN rates[type] :
          rates[type][p] \in RateRow /\ rates[type][p].overridden <= rates[type][p].total
    BY DEF IInv, TablesStand, RatesAreOfDecisions
  <2> QED
    BY <2>1, <2>2 DEF IInv, TablesStand, SnapshotsStand, TypeOK
<1> QED
  BY <1>1, JobsKeepIInv, PTL

\* compute_override_rate: a decision enters the rate of at most one period, whatever is
\* committed late or overwritten.
THEOREM NothingIsCountedTwice == Spec => []CountedInOnePeriod
<1>1. IInv => CountedInOnePeriod
  BY DEF IInv
<1> QED
  BY <1>1, JobsKeepIInv, PTL

\* compute_override_rate: a decision committed before its period ended is in that
\* period's rate.
THEOREM NothingPunctualIsMissed == Spec => []PunctualIsCounted
<1>1. IInv => PunctualIsCounted
  BY DEF IInv
<1> QED
  BY <1>1, JobsKeepIInv, PTL

-----------------------------------------------------------------------------
(* Drift *)

Agreeing(sample) == {f \in Matching(sample) : fields[f].value = sample.expected}
Best(type) == {s \in Samples(type, None) : Agreeing(s) # {}}
Worst(type) == {s \in Samples(type, None) : Agreeing(s) # {} /\ Agreeing(s) = Matching(s)}

\* Whatever rows are picked, the correct samples are among those some row agrees with
\* and include those all rows agree with.
LEMMA PickedBetween ==
  ASSUME NEW pick \in FirstRows, NEW type \in Sampled, DOMAIN fields \subseteq Fields
  PROVE  /\ Cardinality(Best(type)) \in Nat /\ Cardinality(Worst(type)) \in Nat
         /\ Cardinality(Correct(type, pick)) \in Nat
         /\ Cardinality(Correct(type, pick)) <= Cardinality(Best(type))
         /\ Cardinality(Worst(type)) <= Cardinality(Correct(type, pick))
<1>1. ASSUME NEW sample \in Holdout
      PROVE  IF Matching(sample) = {} THEN pick[sample] = None ELSE pick[sample] \in Matching(sample)
  BY DEF FirstRows
<1>2. \A f \in DOMAIN fields : f # None
  BY ParametersAreTyped
<1>3. Samples(type, pick) = Samples(type, None) /\ Samples(type, pick) \subseteq Holdout
  BY DEF Samples
<1>4. Correct(type, pick) \in SUBSET Best(type)
  BY <1>1, <1>3 DEF Correct, Best, Agreeing
<1>5. Worst(type) \in SUBSET Correct(type, pick)
  BY <1>1, <1>2, <1>3 DEF Correct, Worst, Agreeing, Matching
<1>6. IsFiniteSet(Best(type))
  <2>1. Best(type) \in SUBSET Holdout
    BY DEF Best, Samples
  <2> QED
    BY <2>1, TablesAreFinite, FS_Subset
<1>7. IsFiniteSet(Correct(type, pick))
  BY <1>4, <1>6, FS_Subset
<1> QED
  BY <1>4, <1>5, <1>6, <1>7, SubsetIsSmaller

LEMMA DropsAreOrdered ==
  ASSUME NEW baseline \in 0..100, NEW size \in Nat, NEW correct \in Nat,
         NEW best \in Nat, NEW worst \in Nat, worst <= correct, correct <= best
  PROVE  /\ baseline * size - 100 * best > Margin * size
              => baseline * size - 100 * correct > Margin * size
         /\ baseline * size - 100 * worst < Margin * size
              => baseline * size - 100 * correct < Margin * size
<1>1. baseline * size \in Int /\ Margin * size \in Int
  BY ParametersAreTyped
<1> QED
  BY <1>1

LEMMA AccuracyAlerts ==
  ASSUME IInv, ComputeAccuracy, NEW type \in Sampled
  PROVE  LET baseline == snapshots'[type].baseline
             size == Cardinality(Samples(type, None))
             drop(correct) == baseline * size - 100 * correct
         IN
         /\ baseline # None /\ drop(Cardinality(Best(type))) > Margin * size => type \in alerts'
         /\ baseline = None \/ drop(Cardinality(Worst(type))) < Margin * size => type \notin alerts'
<1> DEFINE x == snapshots'[type]
           size == Cardinality(Samples(type, None))
<1>1. PICK pick \in FirstRows :
        /\ x.correct = Cardinality(Correct(type, pick))
        /\ x.size = Cardinality(Samples(type, pick))
        /\ x.baseline \in Baselines \cup {None} /\ x.drift \in BOOLEAN
        /\ x.baseline = None => x.drift \in Drifts(0, Margin * x.size)
        /\ x.baseline # None => x.drift \in Drifts(x.baseline * x.size - 100 * x.correct, Margin * x.size)
  BY AccuracyMeasured
<1>2. type \in alerts' <=> x.drift
  BY AccuracyMeasured
<1>3. x.size = size
  BY <1>1 DEF Samples
<1>4. size \in Nat /\ size > 0
  <2>1. PICK sample \in Holdout : sample.type = type
    BY DEF Sampled
  <2>2. Samples(type, None) \in SUBSET Holdout /\ sample \in Samples(type, None)
    BY <2>1 DEF Samples
  <2>3. IsFiniteSet(Samples(type, None))
    BY <2>2, TablesAreFinite, FS_Subset
  <2> QED
    BY <2>2, <2>3, FS_EmptySet, FS_CardinalityType
<1>5. /\ Cardinality(Best(type)) \in Nat /\ Cardinality(Worst(type)) \in Nat /\ x.correct \in Nat
      /\ x.correct <= Cardinality(Best(type)) /\ Cardinality(Worst(type)) <= x.correct
  BY <1>1, PickedBetween DEF IInv, TablesStand
<1> HIDE DEF x, size
<1>6. CASE x.baseline = None
  <2>1. Margin * size > 0
    BY <1>4, ParametersAreTyped
  <2>2. ~x.drift
    BY <1>1, <1>3, <1>6, <2>1 DEF Drifts
  <2> QED
    BY <1>2, <1>6, <2>2 DEF x
<1>7. CASE x.baseline # None
  <2>1. x.baseline \in 0..100 /\ x.drift \in Drifts(x.baseline * size - 100 * x.correct, Margin * size)
    BY <1>1, <1>3, <1>7, ParametersAreTyped
  <2>2. /\ x.baseline * size - 100 * x.correct > Margin * size => x.drift
        /\ x.baseline * size - 100 * x.correct < Margin * size => ~x.drift
    BY <2>1 DEF Drifts
  <2>3. /\ x.baseline * size - 100 * Cardinality(Best(type)) > Margin * size
             => x.baseline * size - 100 * x.correct > Margin * size
        /\ x.baseline * size - 100 * Cardinality(Worst(type)) < Margin * size
             => x.baseline * size - 100 * x.correct < Margin * size
    BY <1>4, <1>5, <2>1, DropsAreOrdered
  <2> QED
    BY <1>2, <1>7, <2>2, <2>3 DEF x, size
<1> QED
  BY <1>6, <1>7

\* compute_accuracy and check_for_drift: whichever of several rows the job reads, it
\* alerts of every type no choice of rows brings within the margin of its baseline, and
\* of no type every choice keeps within it.
THEOREM DriftIsAlerted == Spec => AlertsFollowTheRows
<1>1. IInv /\ [Next]_vars =>
        [snapshots' # snapshots =>
           \A type \in Sampled :
             LET samples == {sample \in Holdout : sample.type = type}
                 agreeing(sample) == {f \in Matching(sample) : fields[f].value = sample.expected}
                 best == Cardinality({s \in samples : agreeing(s) # {}})
                 worst == Cardinality({s \in samples : agreeing(s) # {} /\ agreeing(s) = Matching(s)})
                 baseline == snapshots'[type].baseline
                 drop(correct) == baseline * Cardinality(samples) - 100 * correct
                 allowed == Margin * Cardinality(samples)
             IN
             /\ baseline # None /\ drop(best) > allowed => type \in alerts'
             /\ baseline = None \/ drop(worst) < allowed => type \notin alerts']_vars
  <2> SUFFICES ASSUME IInv, [Next]_vars, snapshots' # snapshots, NEW type \in Sampled
               PROVE  LET baseline == snapshots'[type].baseline
                          size == Cardinality(Samples(type, None))
                          drop(correct) == baseline * size - 100 * correct
                      IN
                      /\ baseline # None /\ drop(Cardinality(Best(type))) > Margin * size
                           => type \in alerts'
                      /\ baseline = None \/ drop(Cardinality(Worst(type))) < Margin * size
                           => type \notin alerts'
    BY DEF Best, Worst, Agreeing, Samples
  <2>1. ComputeAccuracy
    BY DEF Next, Decide, EnterByHand, Commit, RollBack, ComputeOverrideRate, Tick, vars
  <2> QED
    BY <2>1, AccuracyAlerts
<1> QED
  BY <1>1, JobsKeepIInv, PTL DEF Spec, AlertsFollowTheRows

=============================================================================
