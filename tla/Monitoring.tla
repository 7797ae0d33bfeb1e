------------------------------ MODULE Monitoring ------------------------------
(***************************************************************************)
(* The monitoring jobs (monitoring/override_rate_job.py, accuracy_job.py,  *)
(* drift_alerts.py) beside the requests that decide fields.  A decision is *)
(* stamped when the request makes it and becomes visible when the request  *)
(* commits; the jobs read what is committed.                               *)
(*                                                                         *)
(* The scheduler that calls the jobs is not in the repository: it asks for *)
(* each period once, in order, at its end or later, and for the accuracy   *)
(* at any time.                                                            *)
(***************************************************************************)
EXTENDS Integers, FiniteSets, Sequences

CONSTANTS
  Fields,      \* identifiers of extracted fields
  Deciders,    \* requests that decide a field, each of them once
  Docs,
  FieldTypes,
  Values,
  Holdout,     \* HoldoutSamples: [doc, type, expected]
  Baselines,   \* accuracies a caller may give as a baseline, in percent
  Margin,      \* DRIFT_MARGIN, in percent
  Period,      \* length of an aggregation period
  Horizon,     \* bound on the clock
  None         \* SQL NULL, no override, no baseline

ASSUME ParametersAreTyped ==
  /\ Holdout \subseteq [doc : Docs, type : FieldTypes, expected : Values]
  /\ Baselines \subseteq 0..100 /\ Margin \in 1..100
  /\ Period \in Nat \ {0} /\ Horizon \in Nat
  /\ None \notin Values \cup Deciders \cup Fields \cup Baselines \cup (0..Horizon)

ASSUME TablesAreFinite == IsFiniteSet(Fields) /\ IsFiniteSet(Holdout)

VARIABLES
  fields,     \* extracted_fields, as committed
  request,    \* what each request means to commit
  rates,      \* override_rate_metrics of each type, a period after the other
  snapshots,  \* the accuracy_metric_snapshots of the last run, by type
  alerts,     \* types that check_for_drift alerted of in that run
  now,
  committed,  \* history: when each field's last decision was committed
  counted     \* history: which decision each period's rate counted

vars == <<fields, request, rates, snapshots, alerts, now, committed, counted>>

Row == [doc : Docs, type : FieldTypes, value : Values,
        status : {"UNVERIFIED", "VERIFIED", "OVERRIDDEN"},
        by : Deciders \cup {None}, at : (0..Horizon) \cup {None}]

RateRow == [overridden : Nat, total : Nat]

SnapshotRow == [correct : Nat, size : Nat, baseline : Baselines \cup {None}, drift : BOOLEAN]

Suggested(doc, type, value) ==
  [doc |-> doc, type |-> type, value |-> value,
   status |-> "UNVERIFIED", by |-> None, at |-> None]

Decided(row) == row.status # "UNVERIFIED"
Sampled == {sample.type : sample \in Holdout}

-----------------------------------------------------------------------------
(* Decisions *)

\* apply_verification stamps the request's copy.  The UPDATE will name the value
\* only if the override differs from the value that was loaded.
Decide(d) ==
  /\ request[d].op = "new"
  /\ \E f \in DOMAIN fields, override \in Values \cup {None} :
       /\ ~Decided(fields[f])
       /\ request' = [request EXCEPT ![d] =
            [op |-> "update", field |-> f, at |-> now,
             status |-> IF override = None THEN "VERIFIED" ELSE "OVERRIDDEN",
             value |-> IF override = fields[f].value THEN None ELSE override]]
  /\ UNCHANGED <<fields, rates, snapshots, alerts, now, committed, counted>>

\* resolve of an item without a field: a row entered by hand, stamped likewise.
EnterByHand(d) ==
  /\ request[d].op = "new"
  /\ \E f \in Fields \ DOMAIN fields, doc \in Docs, type \in FieldTypes, value \in Values :
       request' = [request EXCEPT ![d] =
         [op |-> "insert", field |-> f,
          row |-> [doc |-> doc, type |-> type, value |-> value,
                   status |-> "OVERRIDDEN", by |-> d, at |-> now]]]
  /\ UNCHANGED <<fields, rates, snapshots, alerts, now, committed, counted>>

MutWritten(d) ==
  LET q == request[d] IN
  IF q.op = "insert" THEN q.row
  ELSE [fields[q.field] EXCEPT !.status = q.status, !.by = d]

\* The row as the transaction leaves it: the columns the request changed.
Written(d) ==
  LET q == request[d] IN
  IF q.op = "insert" THEN q.row
  ELSE [fields[q.field] EXCEPT !.status = q.status, !.by = d, !.at = q.at,
                               !.value = IF q.value = None THEN @ ELSE q.value]

Commit(d) ==
  /\ request[d].op \in {"update", "insert"}
  /\ LET f == request[d].field IN
     /\ request[d].op = "insert" => f \notin DOMAIN fields
     /\ fields' = [g \in DOMAIN fields \cup {f} |-> IF g = f THEN Written(d) ELSE fields[g]]
     /\ committed' = [committed EXCEPT ![f] = now]
  /\ request' = [request EXCEPT ![d] = [op |-> "done"]]
  /\ UNCHANGED <<rates, snapshots, alerts, now, counted>>

RollBack(d) ==
  /\ request[d].op \in {"update", "insert"}
  /\ request' = [request EXCEPT ![d] = [op |-> "done"]]
  /\ UNCHANGED <<fields, rates, snapshots, alerts, now, committed, counted>>

-----------------------------------------------------------------------------
(* compute_override_rate *)

MutInPeriodClosed(row, start, end) == Decided(row) /\ row.at >= start /\ row.at <= end
MutInPeriodOpen(row, start, end) == Decided(row) /\ row.at > start /\ row.at < end

InPeriod(row, start, end) == Decided(row) /\ row.at >= start /\ row.at < end

ComputeOverrideRate(type) ==
  LET period == Len(rates[type])
      start == period * Period
      end == start + Period
      verified == {f \in DOMAIN fields :
                     fields[f].type = type /\ InPeriod(fields[f], start, end)}
      overridden == {f \in verified : fields[f].status = "OVERRIDDEN"}
  IN
  /\ now >= end
  /\ rates' = [rates EXCEPT ![type] =
       Append(@, [overridden |-> Cardinality(overridden), total |-> Cardinality(verified)])]
  /\ counted' = counted \cup {[by |-> fields[f].by, field |-> f, period |-> period] : f \in verified}
  /\ UNCHANGED <<fields, request, snapshots, alerts, now, committed>>

-----------------------------------------------------------------------------
(* compute_accuracy and check_for_drift *)

Matching(sample) ==
  {f \in DOMAIN fields : fields[f].doc = sample.doc /\ fields[f].type = sample.type}

\* select without ORDER BY, then first(): any of the matching rows.
FirstRows ==
  {pick \in [Holdout -> DOMAIN fields \cup {None}] :
     \A sample \in Holdout :
       IF Matching(sample) = {} THEN pick[sample] = None ELSE pick[sample] \in Matching(sample)}

MutSamples(type, pick) == {sample \in Holdout : sample.type = type /\ pick[sample] # None}

\* A sample without a row counts as an incorrect one.
Samples(type, pick) == {sample \in Holdout : sample.type = type}

Correct(type, pick) ==
  {sample \in Samples(type, pick) :
     pick[sample] # None /\ fields[pick[sample]].value = sample.expected}

\* (baseline - measured) > DRIFT_MARGIN, a comparison of floats: where the two sides
\* are equal, rounding decides.
Drifts(drop, margin) == {flag \in BOOLEAN : (drop > margin => flag) /\ (drop < margin => ~flag)}

CheckForDrift(report) == {type \in DOMAIN report : report[type].drift}

\* Without a baseline the measured accuracy is its own.
ComputeAccuracy ==
  /\ \E pick \in FirstRows, baseline \in [Sampled -> Baselines \cup {None}],
        flag \in [Sampled -> BOOLEAN] :
       LET size(type) == Cardinality(Samples(type, pick))
           correct(type) == Cardinality(Correct(type, pick))
           drop(type) == IF baseline[type] = None THEN 0
                         ELSE baseline[type] * size(type) - 100 * correct(type)
       IN
       /\ \A type \in Sampled : flag[type] \in Drifts(drop(type), Margin * size(type))
       /\ snapshots' = [type \in Sampled |->
            [correct |-> correct(type), size |-> size(type),
             baseline |-> baseline[type], drift |-> flag[type]]]
       /\ alerts' = CheckForDrift(snapshots')
  /\ UNCHANGED <<fields, request, rates, now, committed, counted>>

Tick ==
  /\ now < Horizon
  /\ now' = now + 1
  /\ UNCHANGED <<fields, request, rates, snapshots, alerts, committed, counted>>

\* Any rows that runs of the pipeline have left.
Init ==
  /\ \E some \in SUBSET Fields :
       fields \in [some -> {Suggested(doc, type, value) :
                              doc \in Docs, type \in FieldTypes, value \in Values}]
  /\ request = [d \in Deciders |-> [op |-> "new"]]
  /\ rates = [type \in FieldTypes |-> <<>>]
  /\ snapshots = [type \in {} |-> None]
  /\ alerts = {}
  /\ now = 0
  /\ committed = [f \in Fields |-> None]
  /\ counted = {}

Next ==
  \/ \E d \in Deciders : Decide(d) \/ EnterByHand(d) \/ Commit(d) \/ RollBack(d)
  \/ \E type \in FieldTypes : ComputeOverrideRate(type)
  \/ ComputeAccuracy
  \/ Tick

Spec == Init /\ [][Next]_vars

-----------------------------------------------------------------------------
(* Properties *)

\* The tables hold rows of their kind; no rate counts more overrides than decisions.
TypeOK ==
  /\ DOMAIN fields \subseteq Fields
  /\ \A f \in DOMAIN fields : fields[f] \in Row /\ (Decided(fields[f]) <=> fields[f].at # None)
  /\ \A type \in FieldTypes : \A p \in DOMAIN rates[type] :
       rates[type][p] \in RateRow /\ rates[type][p].overridden <= rates[type][p].total
  /\ DOMAIN snapshots \subseteq Sampled /\ alerts \subseteq DOMAIN snapshots
  /\ \A type \in DOMAIN snapshots :
       snapshots[type] \in SnapshotRow /\ snapshots[type].correct <= snapshots[type].size
  /\ now \in 0..Horizon

\* FR-016: a decision enters the rate of at most one period, also one stamped at a
\* boundary, one committed late and one that another request overwrites later.
CountedInOnePeriod ==
  \A a, b \in counted : a.by = b.by => a = b

\* FR-016: a decision that was committed before its period ended is in that period's rate.
PunctualIsCounted ==
  \A f \in DOMAIN fields : \A p \in 0..(Len(rates[fields[f].type]) - 1) :
    Decided(fields[f]) =>
      (fields[f].at >= p * Period /\ committed[f] < (p + 1) * Period
         => [by |-> fields[f].by, field |-> f, period |-> p] \in counted)

\* FR-015: whichever of several rows the accuracy job reads, it alerts of a type that
\* no choice of rows brings within the margin of its baseline, a sample without a row
\* being wrong, and of no type that every choice keeps within it.
AlertsFollowTheRows ==
  [][snapshots' # snapshots =>
       \A type \in Sampled :
         LET samples == {sample \in Holdout : sample.type = type}
             agreeing(sample) == {f \in Matching(sample) : fields[f].value = sample.expected}
             best == Cardinality({s \in samples : agreeing(s) # {}})
             worst == Cardinality({s \in samples : agreeing(s) # {} /\ agreeing(s) = Matching(s)})
             baseline == snapshots'[type].baseline
             drop(correct) == baseline * Cardinality(samples) - 100 * correct
             allowed == Margin * Cardinality(samples)
         IN
         /\ baseline # None /\ drop(best) > allowed => type \in alerts'
         /\ baseline = None \/ drop(worst) < allowed => type \notin alerts']_vars

=============================================================================
