---------------------------- MODULE LeaseRecords ----------------------------
(***************************************************************************)
(* The lease-abstraction tables and the database sessions that read and    *)
(* write them: the extraction pipeline (consumers/                         *)
(* document_uploaded_consumer.py), the verify endpoint (api/               *)
(* extracted_fields.py) and the resolve endpoint (api/review_queue.py).    *)
(*                                                                         *)
(* A session reads committed rows, edits its own copies of them and writes *)
(* them back when it commits.  The ORM's UPDATE names only the columns the *)
(* session changed, carries no version check and runs under PostgreSQL's   *)
(* default READ COMMITTED isolation, so two sessions that loaded the same  *)
(* row both succeed and the later commit wins, column by column.           *)
(*                                                                         *)
(* Primary keys (uuid4 in the code) are named by what created the row: a   *)
(* document by the run that ingested it, an extracted field by the run and *)
(* the position of the model's answer, a hand-entered field by the run of  *)
(* the item it resolves and the session that enters it.                    *)
(***************************************************************************)
EXTENDS Integers, Bags

CONSTANTS
  Sessions,        \* database sessions: pipeline workers and API requests
  Runs,            \* extraction runs, which bound the ingests and reprocesses
  Users,           \* callers of the API
  Teams,
  TeamOf,          \* the team in a user's identity headers
  FieldTypes,
  Values,          \* extracted, override and hand-entered values
  Threshold,       \* per field type, in percent: settings.confidence_threshold_for
  Confidences,     \* confidences the language model may report, in percent
  OcrConfidences,  \* mean confidences OCR may report, in percent
  QualityFloor,    \* settings.scan_quality_floor, in percent
  MaxResults,      \* bound on the answers of one extraction
  None             \* SQL NULL

ASSUME ParametersAreTyped ==
  /\ TeamOf \in [Users -> Teams]
  /\ Threshold \in [FieldTypes -> 0..100]
  /\ Confidences \subseteq 0..100
  /\ OcrConfidences \subseteq 0..100
  /\ QualityFloor \in 0..100
  /\ MaxResults \in Nat

ASSUME SessionsAreNotPositions == Sessions \cap (0..MaxResults) = {}

VARIABLES
  docs,     \* lease_documents: document -> row
  runs,     \* extraction_runs: run -> row
  fields,   \* extracted_fields: field -> row
  items,    \* review_queue_items: item -> row
  events,   \* completion messages handed to the Kafka producer, a bag
  started,  \* runs whose identifier has been drawn
  sess      \* what each session has loaded and means to write

tables == <<docs, runs, fields, items>>
vars == <<docs, runs, fields, items, events, started, sess>>

Positions == 1..MaxResults
FieldIds == Runs \X (Positions \cup Sessions)
ItemIds == Runs \X (0..MaxResults)

ASSUME NoneIsNoRow == None \notin Values \cup Users \cup (0..100) \cup FieldIds

DocumentRow == [allowed : SUBSET Teams,
                status : {"PROCESSING", "COMPLETE", "EXCLUDED_LOW_QUALITY"},
                confidence : (0..100) \cup {None}]
RunRow == [doc : Runs, status : {"COMPLETE"}]
FieldRow == [doc : Runs, type : FieldTypes, value : Values, confidence : 0..100,
             status : {"UNVERIFIED", "VERIFIED", "OVERRIDDEN"},
             by : Users \cup {None}]
ItemRow == [doc : Runs, field : FieldIds \cup {None}, allowed : SUBSET Teams,
            status : {"PENDING", "RESOLVED"}]

-----------------------------------------------------------------------------
(* Rows *)

MutIsTerminal(field) == field.status = "VERIFIED"

IsTerminal(field) == field.status # "UNVERIFIED"

MutApplyVerification(field, user, override) ==
  [field EXCEPT !.status = "VERIFIED", !.by = user,
                !.value = IF override = None THEN field.value ELSE override]

ApplyVerification(field, user, override) ==
  IF override = None
    THEN [field EXCEPT !.status = "VERIFIED", !.by = user]
    ELSE [field EXCEPT !.status = "OVERRIDDEN", !.by = user, !.value = override]

EnforceTeamScope(user, allowed) == TeamOf[user] \in allowed

MutBelowQualityFloor(confidence) == confidence <= QualityFloor

BelowQualityFloor(confidence) == confidence < QualityFloor

MutShouldAutoPopulate(result) == result.confidence > Threshold[result.type]

ShouldAutoPopulate(result) == result.confidence >= Threshold[result.type]

Result == [type : FieldTypes, value : Values, confidence : Confidences]

\* A field the pipeline inserts, and the row a person enters by hand (whose
\* confidence is 1.0: no model predicted it).
Extracted(doc, result) ==
  [doc |-> doc, type |-> result.type, value |-> result.value,
   confidence |-> result.confidence, status |-> "UNVERIFIED", by |-> None]

HandEntered(doc, type, value, user) ==
  [doc |-> doc, type |-> type, value |-> value,
   confidence |-> 100, status |-> "OVERRIDDEN", by |-> user]

MutQueueItemStatus(doc, field, allowed) ==
  [doc |-> doc, field |-> field, allowed |-> allowed, status |-> "IN_PROGRESS"]

MutQueueItemScope(doc, field, allowed) ==
  [doc |-> doc, field |-> field, allowed |-> Teams, status |-> "PENDING"]

QueueItem(doc, field, allowed) ==
  [doc |-> doc, field |-> field, allowed |-> allowed, status |-> "PENDING"]

-----------------------------------------------------------------------------
(* Sessions: an identity map of loaded rows and a unit of work to flush *)

Idle == [op |-> "idle"]

Update(loaded, edited) == [loaded |-> loaded, edited |-> edited]
Insert(row) == Update(row, row)
Nothing == [id \in {} |-> {}]
Single(id, write) == [i \in {id} |-> write]

Work(docWrites, runWrites, fieldWrites, itemWrites) ==
  [op |-> "commit", docs |-> docWrites, runs |-> runWrites,
   fields |-> fieldWrites, items |-> itemWrites]

\* UPDATE ... SET the columns that differ from what was loaded.
Merged(row, write) ==
  [column \in DOMAIN row |->
     IF write.edited[column] = write.loaded[column] THEN row[column]
                                                    ELSE write.edited[column]]

\* Each write updates the row it finds, or inserts it.
Flushed(table, writes) ==
  [id \in DOMAIN table \cup DOMAIN writes |->
     IF id \notin DOMAIN writes THEN table[id]
     ELSE IF id \in DOMAIN table THEN Merged(table[id], writes[id])
     ELSE writes[id].edited]

-----------------------------------------------------------------------------
(* The extraction pipeline *)

\* handle(): a document.uploaded or backfill event inserts a document and a run.
Handle(s) ==
  /\ sess[s] = Idle
  /\ \E run \in Runs \ started, allowed \in SUBSET Teams :
       /\ started' = started \cup {run}
       /\ sess' = [sess EXCEPT ![s] =
            [op |-> "pipeline", run |-> run, doc |-> run, verified |-> Nothing,
             loaded |-> [allowed |-> allowed, status |-> "PROCESSING",
                         confidence |-> None]]]
  /\ UNCHANGED <<tables, events>>

MutVerifiedByType(doc) ==
  LET verified == {f \in DOMAIN fields : fields[f].doc = doc /\ fields[f].status = "VERIFIED"}
  IN  {byType \in [{fields[f].type : f \in verified} -> verified] :
         \A t \in DOMAIN byType : fields[byType[t]].type = t}

\* The fields a reprocess must leave alone, one for each type that has any: the
\* rows come in no particular order and the dictionary keeps the last.
VerifiedByType(doc) ==
  LET terminal == {f \in DOMAIN fields : fields[f].doc = doc /\ IsTerminal(fields[f])}
      types == {fields[f].type : f \in terminal}
  IN  {byType \in [types -> terminal] : \A t \in types : fields[byType[t]].type = t}

\* reprocess(): the document and its terminal fields are read once, up front.
Reprocess(s) ==
  /\ sess[s] = Idle
  /\ \E run \in Runs \ started, doc \in DOMAIN docs :
     \E verified \in VerifiedByType(doc) :
       /\ started' = started \cup {run}
       /\ sess' = [sess EXCEPT ![s] =
            [op |-> "pipeline", run |-> run, doc |-> doc, verified |-> verified,
             loaded |-> docs[doc]]]
  /\ UNCHANGED <<tables, events>>

MutComplete(s, status, confidence, newFields, kept, newItems) ==
  LET p == sess[s]
      row == [p.loaded EXCEPT !.status = status, !.confidence = confidence]
  IN  /\ events' = events (+) SetToBag(
           {[run |-> p.run, doc |-> p.doc, status |-> "COMPLETE",
             fields |-> DOMAIN newFields \cup kept, items |-> {}]})
      /\ sess' = [sess EXCEPT ![s] =
           Work(Single(p.doc, Update(p.loaded, row)),
                Single(p.run, Insert([doc |-> p.doc, status |-> "COMPLETE"])),
                newFields, newItems)]
      /\ UNCHANGED <<tables, started>>

\* _emit_completion() hands the message to the producer inside the transaction;
\* what is left to the session is its commit.
Complete(s, status, confidence, newFields, kept, newItems) ==
  LET p == sess[s]
      row == [p.loaded EXCEPT !.status = status, !.confidence = confidence]
  IN  /\ events' = events (+) SetToBag(
           {[run |-> p.run, doc |-> p.doc, status |-> "COMPLETE",
             fields |-> DOMAIN newFields \cup kept, items |-> DOMAIN newItems]})
      /\ sess' = [sess EXCEPT ![s] =
           Work(Single(p.doc, Update(p.loaded, row)),
                Single(p.run, Insert([doc |-> p.doc, status |-> "COMPLETE"])),
                newFields, newItems)]
      /\ UNCHANGED <<tables, started>>

MutExclude(s) ==
  /\ sess[s].op = "pipeline"
  /\ \E confidence \in OcrConfidences :
       /\ BelowQualityFloor(confidence)
       /\ Complete(s, "EXCLUDED_LOW_QUALITY", confidence, Nothing, {}, Nothing)

\* A scan below the floor gets no extraction, only an item with no field.
Exclude(s) ==
  /\ sess[s].op = "pipeline"
  /\ \E confidence \in OcrConfidences :
       /\ BelowQualityFloor(confidence)
       /\ Complete(s, "EXCLUDED_LOW_QUALITY", confidence, Nothing, {},
            Single(<<sess[s].run, 0>>,
                   Insert(QueueItem(sess[s].doc, None, sess[s].loaded.allowed))))

\* The results in turn: a type verified when the run began is skipped, any
\* other becomes a new field, and below its threshold a queue item as well.
Extract(s) ==
  /\ sess[s].op = "pipeline"
  /\ \E confidence \in OcrConfidences, n \in 0..MaxResults :
     \E results \in [1..n -> Result] :
       LET p == sess[s]
           fresh == {k \in 1..n : results[k].type \notin DOMAIN p.verified}
           low == {k \in fresh : ~ShouldAutoPopulate(results[k])}
       IN  /\ ~BelowQualityFloor(confidence)
           /\ Complete(s, "COMPLETE", confidence,
                [id \in {p.run} \X fresh |-> Insert(Extracted(p.doc, results[id[2]]))],
                {p.verified[results[k].type] : k \in (1..n) \ fresh},
                [id \in {p.run} \X low |-> Insert(QueueItem(p.doc, id, p.loaded.allowed))])

\* OCR or both extraction providers are unavailable: the run is marked FAILED in
\* memory, the exception leaves session_scope(), and the rollback drops it all.
PipelineFails(s) ==
  /\ sess[s].op = "pipeline"
  /\ sess' = [sess EXCEPT ![s] = Idle]
  /\ UNCHANGED <<tables, events, started>>

-----------------------------------------------------------------------------
(* The review endpoints *)

\* POST .../verify with or without an override value.  The document row it reads
\* first contributes only allowed_teams, which never changes.
Verify(s) ==
  /\ sess[s] = Idle
  /\ \E user \in Users, f \in DOMAIN fields, override \in Values \cup {None} :
       /\ EnforceTeamScope(user, docs[fields[f].doc].allowed)
       /\ ~IsTerminal(fields[f])
       /\ sess' = [sess EXCEPT ![s] =
            Work(Nothing, Nothing,
                 Single(f, Update(fields[f], ApplyVerification(fields[f], user, override))),
                 Nothing)]
  /\ UNCHANGED <<tables, events, started>>

\* POST .../resolve, first read: the item passes the barrier and is not RESOLVED.
ResolveLoad(s) ==
  /\ sess[s] = Idle
  /\ \E user \in Users, i \in DOMAIN items :
       /\ EnforceTeamScope(user, items[i].allowed)
       /\ items[i].status # "RESOLVED"
       /\ sess' = [sess EXCEPT ![s] =
            [op |-> "resolve", user |-> user, item |-> i, loaded |-> items[i]]]
  /\ UNCHANGED <<tables, events, started>>

MutResolved(item, field) == [item EXCEPT !.status = "RESOLVED"]

Resolved(item, field) == [item EXCEPT !.status = "RESOLVED", !.field = field]

\* Second read: the linked field, unless it is terminal by now (409).
ResolveOverride(s) ==
  /\ sess[s].op = "resolve"
  /\ sess[s].loaded.field # None
  /\ LET r == sess[s]
         f == r.loaded.field
     IN  IF IsTerminal(fields[f])
         THEN sess' = [sess EXCEPT ![s] = Idle]
         ELSE \E value \in Values :
                sess' = [sess EXCEPT ![s] =
                  Work(Nothing, Nothing,
                       Single(f, Update(fields[f], ApplyVerification(fields[f], r.user, value))),
                       Single(r.item, Update(r.loaded, Resolved(r.loaded, f))))]
  /\ UNCHANGED <<tables, events, started>>

\* An item with no field: the person's value becomes a new field of its own.
ResolveEnter(s) ==
  /\ sess[s].op = "resolve"
  /\ sess[s].loaded.field = None
  /\ \E type \in FieldTypes, value \in Values :
       LET r == sess[s]
           f == <<r.item[1], s>>
       IN  sess' = [sess EXCEPT ![s] =
             Work(Nothing, Nothing,
                  Single(f, Insert(HandEntered(r.loaded.doc, type, value, r.user))),
                  Single(r.item, Update(r.loaded, Resolved(r.loaded, f))))]
  /\ UNCHANGED <<tables, events, started>>

-----------------------------------------------------------------------------
\* session.commit(), of session_scope() or of the endpoint.
Commit(s) ==
  /\ sess[s].op = "commit"
  /\ docs' = Flushed(docs, sess[s].docs)
  /\ runs' = Flushed(runs, sess[s].runs)
  /\ fields' = Flushed(fields, sess[s].fields)
  /\ items' = Flushed(items, sess[s].items)
  /\ sess' = [sess EXCEPT ![s] = Idle]
  /\ UNCHANGED <<events, started>>

\* The process dies, the request is cancelled or the commit fails: rolled back.
SessionLost(s) ==
  /\ sess[s].op \in {"resolve", "commit"}
  /\ sess' = [sess EXCEPT ![s] = Idle]
  /\ UNCHANGED <<tables, events, started>>

Init ==
  /\ docs = Nothing
  /\ runs = Nothing
  /\ fields = Nothing
  /\ items = Nothing
  /\ events = EmptyBag
  /\ started = {}
  /\ sess = [s \in Sessions |-> Idle]

Next ==
  \E s \in Sessions :
    \/ Handle(s) \/ Reprocess(s)
    \/ Exclude(s) \/ Extract(s) \/ PipelineFails(s)
    \/ Verify(s)
    \/ ResolveLoad(s) \/ ResolveOverride(s) \/ ResolveEnter(s)
    \/ Commit(s) \/ SessionLost(s)

Spec == Init /\ [][Next]_vars

-----------------------------------------------------------------------------
(* Properties *)

PipelineState(p) ==
  /\ p.run \in Runs /\ p.doc \in Runs
  /\ p.loaded \in DocumentRow
  /\ DOMAIN p.verified \subseteq FieldTypes
  /\ \A t \in DOMAIN p.verified : p.verified[t] \in FieldIds

IsTable(table, Ids, Row) ==
  DOMAIN table \subseteq Ids /\ \A id \in DOMAIN table : table[id] \in Row

AreWrites(writes, Ids, Row) == IsTable(writes, Ids, [loaded : Row, edited : Row])

CommitState(w) ==
  /\ AreWrites(w.docs, Runs, DocumentRow)
  /\ AreWrites(w.runs, Runs, RunRow)
  /\ AreWrites(w.fields, FieldIds, FieldRow)
  /\ AreWrites(w.items, ItemIds, ItemRow)

ResolveState(r) == r.user \in Users /\ r.item \in ItemIds /\ r.loaded \in ItemRow

SessionState(x) ==
  \/ x = Idle
  \/ x.op = "pipeline" /\ PipelineState(x)
  \/ x.op = "resolve" /\ ResolveState(x)
  \/ x.op = "commit" /\ CommitState(x)

MessageState(e) ==
  /\ e.run \in started /\ e.doc \in Runs
  /\ e.fields \subseteq FieldIds /\ e.items \subseteq ItemIds

\* Every table, message and session holds what its columns allow: a committed
\* run is COMPLETE, since a failed one is rolled back with its status.
TypeOK ==
  /\ IsTable(docs, Runs, DocumentRow)
  /\ IsTable(runs, Runs, RunRow)
  /\ IsTable(fields, FieldIds, FieldRow)
  /\ IsTable(items, ItemIds, ItemRow)
  /\ started \subseteq Runs
  /\ \A e \in BagToSet(events) : MessageState(e)
  /\ \A s \in Sessions : SessionState(sess[s])

Pending(f) == \E i \in DOMAIN items : items[i].field = f /\ items[i].status = "PENDING"

Decided(field) == field.status \in {"VERIFIED", "OVERRIDDEN"}

\* Spec FR-005, should_auto_populate: nothing below its threshold waits unseen.
\* Whatever the sessions interleave, an undecided field under its threshold has
\* a pending item, and a pipeline item never asks about a field at or above it.
LowConfidenceIsQueued ==
  /\ \A f \in DOMAIN fields :
       ~Decided(fields[f]) /\ fields[f].confidence < Threshold[fields[f].type]
         => Pending(f)
  /\ \A i \in DOMAIN items :
       i[2] # 0 => /\ items[i].field = i /\ i \in DOMAIN fields
                   /\ fields[i].confidence < Threshold[fields[i].type]

\* An item is RESOLVED only together with the field it stands for: a person's
\* decision about the item's own document, even if two people resolve it at once.
ResolvedItemIsBacked ==
  \A i \in DOMAIN items :
    items[i].status = "RESOLVED" =>
      /\ items[i].field \in DOMAIN fields
      /\ Decided(fields[items[i].field])
      /\ fields[items[i].field].doc = items[i].doc

\* FR-018: each decision was taken by someone whose team the document allows,
\* also when it was taken through a queue item's own copy of allowed_teams.
DeciderInsideBarrier ==
  \A f \in DOMAIN fields :
    Decided(fields[f]) =>
      /\ fields[f].by \in Users
      /\ TeamOf[fields[f].by] \in docs[fields[f].doc].allowed

\* FR-013: a run that excluded its document left an item with no field of its own
\* and neither fields nor further items; a document that says EXCLUDED has one.
ExcludedGoesToManualEntry ==
  /\ \A r \in Runs :
       <<r, 0>> \in DOMAIN items =>
         \A k \in Positions : /\ <<r, k>> \notin DOMAIN fields
                              /\ <<r, k>> \notin DOMAIN items
  /\ \A d \in DOMAIN docs :
       docs[d].status = "EXCLUDED_LOW_QUALITY" =>
         \E r \in DOMAIN runs : runs[r].doc = d /\ <<r, 0>> \in DOMAIN items

\* events.md, lease.extraction.completed: a committed run was announced by one message,
\* handed over once, that names every field and item the run left in the tables.
CommittedIsAnnounced ==
  \A r \in DOMAIN runs :
    \E e \in BagToSet(events) :
      /\ e.run = r /\ e.doc = runs[r].doc /\ e.status = runs[r].status
      /\ events[e] = 1
      /\ \A x \in BagToSet(events) : x.run = r => x = e
      /\ {f \in DOMAIN fields : f[1] = r /\ f[2] \in Positions} \subseteq e.fields
      /\ e.fields \subseteq DOMAIN fields
      /\ \A f \in e.fields : fields[f].doc = e.doc
      /\ e.items = {i \in DOMAIN items : i[1] = r}

\* events.md:43-46: a completion tells its receivers that the run's values are available.
\* They are stored, or the session that announced them is still to commit.
AnnouncedIsStored ==
  \A e \in BagToSet(events) :
    \/ e.run \in DOMAIN runs
    \/ \E s \in Sessions : sess[s].op = "commit" /\ e.run \in DOMAIN sess[s].runs

\* extracted_field.py:3-8 and data-model.md: a field that left UNVERIFIED is
\* never written again.  Holds of one session at a time.
VerifiedIsTerminal ==
  [][\A f \in DOMAIN fields :
       Decided(fields[f]) => f \in DOMAIN fields' /\ fields'[f] = fields[f]]_vars

\* FR-008 on reprocess: no step adds an unverified field, and with it a queue
\* item, for a type the document already has decided.  One session at a time.
NoRequeueOfVerified ==
  [][\A f \in DOMAIN fields' \ DOMAIN fields, g \in DOMAIN fields :
       ~( /\ fields'[f].status = "UNVERIFIED"
          /\ Decided(fields[g])
          /\ fields[g].doc = fields'[f].doc
          /\ fields[g].type = fields'[f].type )]_vars

\* data-model.md, validation rules of LeaseDocument: EXCLUDED_LOW_QUALITY says
\* that the recorded confidence is below the floor, COMPLETE that it is not.
StatusMatchesConfidence ==
  \A d \in DOMAIN docs :
    docs[d].status = (IF docs[d].confidence < QualityFloor
                        THEN "EXCLUDED_LOW_QUALITY" ELSE "COMPLETE")

\* The tables implement the abstract life of a field, one session at a time.
Ledger ==
  [f \in DOMAIN fields |-> [value |-> fields[f].value, status |-> fields[f].status,
                            by |-> fields[f].by]]

Lifecycle == INSTANCE FieldLifecycle WITH Ids <- FieldIds, ledger <- Ledger

ImplementsLifecycle == Lifecycle!Spec

=============================================================================
