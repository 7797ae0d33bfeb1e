-------------------------- MODULE ReviewDeskProofs --------------------------
(* Proofs for any instance of ReviewDesk: from an invariant of the rows that   *)
(* seeds and uploads keep too, that no low field is out of the queue or of the *)
(* list its team is shown, that what an upload reports as auto-populated met   *)
(* its threshold, and that an upload is stored as a whole or not at all.       *)
EXTENDS ReviewDesk, LeaseRecordsProofs

-----------------------------------------------------------------------------
(* The strengthening.  The invariant of LeaseRecordsInductive does not hold here: *)
(* a seed writes fields and an item of a run that has no row.                     *)

\* The runs that the keys of what a session holds, or of the tables' rows, name.
Names(x) ==
  IF x.op = "pipeline" THEN {x.run, x.doc}
  ELSE IF x.op = "resolve" THEN {x.item[1]}
  ELSE IF x.op = "commit" THEN DOMAIN x.docs \cup DOMAIN x.runs
                               \cup {f[1] : f \in DOMAIN x.fields} \cup {i[1] : i \in DOMAIN x.items}
  ELSE {}

Written ==
  DOMAIN docs \cup DOMAIN runs \cup {f[1] : f \in DOMAIN fields} \cup {i[1] : i \in DOMAIN items}

\* What a session has drawn and not committed is its own.
NamesArePrivate ==
  /\ Written \subseteq started
  /\ \A s \in Sessions : /\ Names(sess[s]) \subseteq started
                         /\ sess[s].op = "pipeline" => sess[s].run \notin Written
  /\ \A s, t \in Sessions : s # t => Names(sess[s]) \cap Names(sess[t]) \subseteq Written

\* A field below its threshold has the item of its own key, resolved or not.
FieldHasItsItem(f) == LowConfidence(fields[f]) => f \in DOMAIN items /\ items[f].doc = fields[f].doc

ItemHasItsField(i) ==
  /\ items[i].field # None => items[i].field \in DOMAIN fields
  /\ i[2] # 0 => /\ items[i].field = i /\ LowConfidence(fields[i])
                 /\ items[i].status = "RESOLVED" => Decided(fields[i])

\* A write to a stored field decides it or does not change its status, and never
\* changes whose it is or what confidence it had; an inserted one brings its item.
WritesField(w, f) ==
  LET x == w.fields[f] IN
  /\ x.edited.doc = x.loaded.doc
  /\ x.edited.type = x.loaded.type /\ x.edited.confidence = x.loaded.confidence
  /\ x.edited.status = x.loaded.status \/ Decided(x.edited)
  /\ f \in DOMAIN fields \/ f[2] \in Sessions \/ f[1] \notin Written
  /\ \/ f \in DOMAIN fields
     \/ ~LowConfidence(x.edited)
     \/ f[1] \notin Written /\ f \in DOMAIN w.items /\ w.items[f].edited.doc = x.edited.doc

WritesItem(w, i) ==
  LET y == w.items[i] IN
  /\ y.edited.doc = y.loaded.doc
  /\ y.edited.field # None => y.edited.field \in DOMAIN fields \cup DOMAIN w.fields
  /\ i[2] # 0 => y.edited.field = i /\ y.loaded.field = i
  /\ \/ /\ i \in DOMAIN items /\ y.loaded.status = "PENDING" /\ y.edited.status = "RESOLVED"
        /\ i[2] # 0 => /\ i \in DOMAIN w.fields /\ Decided(w.fields[i].edited)
                       /\ w.fields[i].loaded.status = "UNVERIFIED"
     \/ /\ i[1] \notin Written /\ y.edited.status = "PENDING"
        /\ i[2] # 0 => i \in DOMAIN w.fields /\ LowConfidence(w.fields[i].edited)

CommitKeeps(w) ==
  /\ w.op = "commit"
  /\ \A f \in DOMAIN w.fields : WritesField(w, f)
  /\ \A i \in DOMAIN w.items : WritesItem(w, i)

SessionKeeps(x) ==
  /\ x.op = "pipeline" => x.doc \in DOMAIN owner
  /\ x.op = "resolve" => /\ x.item \in DOMAIN items /\ x.loaded.status = "PENDING"
                         /\ x.loaded.field # None => x.loaded.field \in DOMAIN fields
                         /\ x.item[2] # 0 => x.loaded.field = x.item
  /\ x.op = "commit" => CommitKeeps(x) /\ DOMAIN x.docs \subseteq DOMAIN owner

\* An upload holds its own run until the commit, and has read what it returns.
CallKeeps(c, x) ==
  /\ c.stage = "pipeline" /\ x.op = "pipeline" => x.run = c.run
  /\ c.stage = "read" => \A f \in c.rows : f \in DOMAIN fields /\ fields[f].doc = c.run

RowsInv ==
  /\ TypeOK
  /\ DOMAIN docs \subseteq DOMAIN owner /\ DOMAIN owner \subseteq started
  /\ \A d \in DOMAIN owner : owner[d] \in Teams
  /\ sess = [s \in Sessions |-> sess[s]]
  /\ NamesArePrivate
  /\ \A f \in DOMAIN fields : FieldHasItsItem(f)
  /\ \A i \in DOMAIN items : ItemHasItsField(i)
  /\ \A s \in Sessions : SessionKeeps(sess[s])

DeskInv ==
  /\ RowsInv
  /\ \A e \in BagToSet(discarded) : MessageState(e)
  /\ calls = [s \in Sessions |-> calls[s]]
  /\ \A s \in Sessions : CallState(calls[s]) /\ CallKeeps(calls[s], sess[s])
  /\ AutoPopulatedMetItsThreshold
  /\ QueueShowsWhatIsDue

\* A unit of work that writes one run, of which nothing is stored yet, and whose
\* swallowed message names every row of it.
TellsRun(w, run) ==
  /\ w.op = "commit" /\ run \notin Written
  /\ DOMAIN w.docs = {run} /\ DOMAIN w.runs = {run}
  /\ \A f \in DOMAIN w.fields : f[1] = run /\ f[2] \in Positions
  /\ \A i \in DOMAIN w.items : i[1] = run
  /\ \E e \in BagToSet(discarded) :
       e.run = run /\ e.fields = DOMAIN w.fields /\ e.items = DOMAIN w.items

\* An upload's run is wholly with its session until the commit, and wholly stored
\* after it.
UploadKeeps(c, x) ==
  /\ c.stage = "pipeline" =>
       \/ x.op = "pipeline" /\ x.run = c.run /\ x.doc = c.run /\ DOMAIN x.verified = {}
       \/ TellsRun(x, c.run)
  /\ c.stage \in {"stored", "read"} => Whole(c.run)

UploadInv ==
  /\ DeskInv
  /\ \A s \in Sessions : UploadKeeps(calls[s], sess[s])
  /\ UploadIsWholeOrAbsent

-----------------------------------------------------------------------------
(* Steps that write no table *)

LEMMA InitRows == DeskInit => RowsInv
  BY DEF DeskInit, Init, RowsInv, TypeOK, IsTable, Nothing, SessionState, Idle, NamesArePrivate,
         Written, Names, SessionKeeps, EmptyBag, SetToBag, BagToSet

\* A session's step keeps the rows' invariant if what it holds afterwards names only
\* what it named, what the tables name, or what it has just drawn.
LEMMA RowsSessionStep ==
  ASSUME RowsInv, NEW s \in Sessions, NEW next,
         UNCHANGED tables,
         sess' = [sess EXCEPT ![s] = next],
         started \subseteq started', started' \subseteq Runs,
         DOMAIN owner \subseteq DOMAIN owner', DOMAIN owner' \subseteq started',
         \A d \in DOMAIN owner' : owner'[d] \in Teams,
         \A e \in BagToSet(events') \ BagToSet(events) : MessageState(e)',
         SessionState(next),
         Names(next) \subseteq Names(sess[s]) \cup Written \cup (started' \ started),
         next.op = "pipeline" => next.run \in started' \ started /\ next.doc \in DOMAIN owner',
         \/ next.op = "pipeline"
         \/ SessionKeeps(next)
         \/ CommitKeeps(next) /\ DOMAIN next.docs \subseteq DOMAIN owner'
  PROVE  RowsInv'
  <1>1. /\ sess' = [t \in Sessions |-> sess'[t]] /\ sess'[s] = next
        /\ \A t \in Sessions : t # s => sess'[t] = sess[t]
    BY DEF RowsInv
  <1>2. Written' = Written
    BY DEF Written, tables
  <1>3. TypeOK'
    <2>1. \A e \in BagToSet(events') : MessageState(e)'
      BY DEF RowsInv, TypeOK, MessageState
    <2>2. \A t \in Sessions : SessionState(sess'[t])
      BY <1>1 DEF RowsInv, TypeOK
    <2>3. (\A t \in Sessions : SessionState(sess[t]))'
      BY <2>2 DEF SessionState, Idle, PipelineState, ResolveState, CommitState
    <2> QED
      BY <2>1, <2>3 DEF RowsInv, TypeOK, tables
  <1>4. NamesArePrivate'
    <2>1. Written \subseteq started
      BY DEF RowsInv, NamesArePrivate
    <2>2. \A t \in Sessions :
            /\ Names(sess[t]) \subseteq started
            /\ sess[t].op = "pipeline" => sess[t].run \notin Written
            /\ t # s => Names(sess[s]) \cap Names(sess[t]) \subseteq Written
            /\ \A u \in Sessions : t # u => Names(sess[t]) \cap Names(sess[u]) \subseteq Written
      BY DEF RowsInv, NamesArePrivate
    <2>3. Names(next) \subseteq started'
      BY <2>1, <2>2
    <2>4. \A t \in Sessions : t # s => Names(next) \cap Names(sess[t]) \subseteq Written
      BY <2>1, <2>2
    <2>5. next.op = "pipeline" => next.run \notin Written
      BY <2>1
    <2>6. \A t \in Sessions : Names(sess[t])' = IF t = s THEN Names(next) ELSE Names(sess[t])
      BY <1>1 DEF Names
    <2>7. \A t \in Sessions : /\ Names(sess[t])' \subseteq started'
                              /\ sess'[t].op = "pipeline" => sess'[t].run \notin Written
      BY <1>1, <2>2, <2>3, <2>5, <2>6
    <2>8. \A t, u \in Sessions : t # u => Names(sess[t])' \cap Names(sess[u])' \subseteq Written
      BY <2>2, <2>4, <2>6
    <2> QED
      BY <1>2, <2>1, <2>7, <2>8 DEF NamesArePrivate
  <1>5. ASSUME NEW t \in Sessions
        PROVE  SessionKeeps(sess[t])'
    <2> DEFINE v == IF t = s THEN next ELSE sess[t]
    <2>1. /\ sess'[t] = v
          /\ v.op = "pipeline" => v.doc \in DOMAIN owner'
          /\ v.op = "commit" => DOMAIN v.docs \subseteq DOMAIN owner'
          /\ v.op = "commit" => CommitKeeps(v)
          /\ v.op = "resolve" => SessionKeeps(v)
      BY <1>1 DEF RowsInv, SessionKeeps, CommitKeeps
    <2> HIDE DEF v
    <2>2. v.op = "commit" => CommitKeeps(sess[t])'
      <3>1. sess'[t] = v /\ fields' = fields /\ items' = items
        BY <2>1 DEF tables
      <3>2. \A f \in DOMAIN v.fields : WritesField(v, f) => WritesField(sess[t], f)'
        BY <1>2, <3>1 DEF WritesField
      <3>3. \A i \in DOMAIN v.items : WritesItem(v, i) => WritesItem(sess[t], i)'
        BY <1>2, <3>1 DEF WritesItem
      <3> QED
        BY <2>1, <3>1, <3>2, <3>3 DEF CommitKeeps
    <2>3. v.op = "resolve" =>
            /\ v.item \in DOMAIN items' /\ v.loaded.status = "PENDING"
            /\ v.loaded.field # None => v.loaded.field \in DOMAIN fields'
            /\ v.item[2] # 0 => v.loaded.field = v.item
      BY <2>1 DEF SessionKeeps, tables
    <2>4. /\ sess'[t] = v
          /\ v.op = "pipeline" => v.doc \in DOMAIN owner'
          /\ v.op = "commit" => DOMAIN v.docs \subseteq DOMAIN owner'
      BY <2>1
    <2> QED
      BY <2>2, <2>3, <2>4 DEF SessionKeeps
  <1>6. /\ \A f \in DOMAIN fields' : FieldHasItsItem(f)'
        /\ \A i \in DOMAIN items' : ItemHasItsField(i)'
    BY DEF RowsInv, FieldHasItsItem, ItemHasItsField, tables
  <1>7. DOMAIN docs' \subseteq DOMAIN owner'
    BY DEF RowsInv, tables
  <1> QED
    BY <1>1, <1>3, <1>4, <1>5, <1>6, <1>7 DEF RowsInv

LEMMA RowsDrop ==
  ASSUME RowsInv, NEW s \in Sessions, sess' = [sess EXCEPT ![s] = Idle],
         UNCHANGED <<tables, events, started, owner>>
  PROVE  RowsInv'
  <1>1. SessionState(Idle) /\ SessionKeeps(Idle) /\ Names(Idle) = {} /\ Idle.op # "pipeline"
    BY DEF SessionState, SessionKeeps, Names, Idle
  <1>2. started \subseteq Runs /\ DOMAIN owner \subseteq started /\ \A d \in DOMAIN owner : owner[d] \in Teams
    BY DEF RowsInv, TypeOK
  <1> QED
    BY <1>1, <1>2, RowsSessionStep

LEMMA RowsHandle ==
  ASSUME RowsInv, NEW s \in Sessions, Handle(s),
         NEW team \in Teams, NEW drawn \in started' \ started, owner' = Owned(drawn, team)
  PROVE  RowsInv'
  <1>1. PICK run \in Runs \ started, allowed \in SUBSET Teams :
          /\ started' = started \cup {run}
          /\ sess' = [sess EXCEPT ![s] =
               [op |-> "pipeline", run |-> run, doc |-> run, verified |-> Nothing,
                loaded |-> [allowed |-> allowed, status |-> "PROCESSING",
                            confidence |-> None]]]
    BY DEF Handle
  <1> DEFINE next == [op |-> "pipeline", run |-> run, doc |-> run, verified |-> Nothing,
                      loaded |-> [allowed |-> allowed, status |-> "PROCESSING",
                                  confidence |-> None]]
  <1>2. UNCHANGED <<tables, events>> /\ drawn = run
    BY <1>1 DEF Handle
  <1>3. /\ DOMAIN owner' = DOMAIN owner \cup {run}
        /\ \A d \in DOMAIN owner' : owner'[d] \in Teams
    BY <1>2 DEF Owned, RowsInv
  <1>4. SessionState(next)
    BY DEF SessionState, PipelineState, DocumentRow, Nothing
  <1>5. next.op = "pipeline" /\ next.run = run /\ next.doc = run
    OBVIOUS
  <1>6. started \subseteq Runs /\ DOMAIN owner \subseteq started
    BY DEF RowsInv, TypeOK
  <1> HIDE DEF next
  <1>7. Names(next) = {run}
    BY <1>5 DEF Names
  <1> QED
    BY <1>1, <1>2, <1>3, <1>4, <1>5, <1>6, <1>7, RowsSessionStep DEF next

LEMMA RowsReprocess ==
  ASSUME RowsInv, NEW s \in Sessions, Reprocess(s), UNCHANGED owner
  PROVE  RowsInv'
  <1>1. PICK run \in Runs \ started, doc \in DOMAIN docs :
        \E verified \in VerifiedByType(doc) :
          /\ started' = started \cup {run}
          /\ sess' = [sess EXCEPT ![s] =
               [op |-> "pipeline", run |-> run, doc |-> doc, verified |-> verified,
                loaded |-> docs[doc]]]
    BY DEF Reprocess
  <1>2. PICK verified \in VerifiedByType(doc) :
          /\ started' = started \cup {run}
          /\ sess' = [sess EXCEPT ![s] =
               [op |-> "pipeline", run |-> run, doc |-> doc, verified |-> verified,
                loaded |-> docs[doc]]]
    BY <1>1
  <1> DEFINE next == [op |-> "pipeline", run |-> run, doc |-> doc, verified |-> verified,
                      loaded |-> docs[doc]]
  <1>3. UNCHANGED <<tables, events>>
    BY DEF Reprocess
  <1>4. doc \in Runs /\ docs[doc] \in DocumentRow /\ doc \in DOMAIN owner /\ doc \in Written
    BY DEF RowsInv, TypeOK, IsTable, Written
  <1>5. DOMAIN verified \subseteq FieldTypes /\ \A t \in DOMAIN verified : verified[t] \in FieldIds
    <2>1. \A f \in DOMAIN fields : f \in FieldIds /\ fields[f].type \in FieldTypes
      BY DEF RowsInv, TypeOK, IsTable, FieldRow
    <2> QED
      BY <2>1 DEF VerifiedByType
  <1>6. SessionState(next)
    BY <1>4, <1>5 DEF SessionState, PipelineState
  <1>7. next.op = "pipeline" /\ next.run = run /\ next.doc = doc
    OBVIOUS
  <1>8. /\ started \subseteq Runs /\ DOMAIN owner \subseteq started
        /\ \A d \in DOMAIN owner : owner[d] \in Teams
    BY DEF RowsInv, TypeOK
  <1> HIDE DEF next
  <1>9. Names(next) = {run, doc}
    BY <1>7 DEF Names
  <1> QED
    BY <1>2, <1>3, <1>4, <1>6, <1>7, <1>8, <1>9, RowsSessionStep DEF next

\* What a run inserts: fields of its document, with an item for each of low confidence.
Inserts(p, newFields, newItems) ==
  /\ AreWrites(newFields, FieldIds, FieldRow) /\ AreWrites(newItems, ItemIds, ItemRow)
  /\ \A f \in DOMAIN newFields :
       /\ f[1] = p.run
       /\ newFields[f].edited = newFields[f].loaded
       /\ newFields[f].edited.doc = p.doc
       /\ LowConfidence(newFields[f].edited) <=> f \in DOMAIN newItems
  /\ \A i \in DOMAIN newItems :
       /\ i[1] = p.run
       /\ newItems[i].edited = newItems[i].loaded
       /\ newItems[i].edited.doc = p.doc
       /\ newItems[i].edited.status = "PENDING"
       /\ newItems[i].edited.field = AskedBy(i)
       /\ i[2] # 0 => i \in DOMAIN newFields

\* A pipeline's transaction, whoever gets its message.
LEMMA RowsComplete ==
  ASSUME RowsInv, NEW s \in Sessions, sess[s].op = "pipeline",
         NEW status \in {"COMPLETE", "EXCLUDED_LOW_QUALITY"}, NEW confidence \in 0..100,
         NEW newFields, NEW newItems,
         sess' = [sess EXCEPT ![s] =
                    CompletedWork(sess[s], status, confidence, newFields, newItems)],
         UNCHANGED <<tables, started, owner>>,
         \A e \in BagToSet(events') \ BagToSet(events) : MessageState(e),
         Inserts(sess[s], newFields, newItems)
  PROVE  RowsInv'
  <1> DEFINE p == sess[s]
             next == CompletedWork(p, status, confidence, newFields, newItems)
  <1>1. /\ PipelineState(p) /\ p.run \notin Written /\ p.doc \in DOMAIN owner
        /\ Names(p) = {p.run, p.doc}
    BY DEF RowsInv, TypeOK, SessionState, Idle, NamesArePrivate, SessionKeeps, Names
  <1>2. SessionState(next)
    BY <1>1, PipelineWork DEF Inserts
  <1>3. /\ next.op = "commit" /\ DOMAIN next.docs = {p.doc} /\ DOMAIN next.runs = {p.run}
        /\ next.fields = newFields /\ next.items = newItems
    BY DEF CompletedWork, Work, Single
  <1>4. /\ started \subseteq Runs /\ DOMAIN owner \subseteq started
        /\ \A d \in DOMAIN owner : owner[d] \in Teams
    BY DEF RowsInv, TypeOK
  <1> HIDE DEF next
  <1>5. Names(next) \subseteq {p.run, p.doc}
    BY <1>3 DEF Names, Inserts
  <1>6. \A f \in DOMAIN newFields : WritesField(next, f)
    BY <1>1, <1>3 DEF WritesField, Inserts
  <1>7. \A i \in DOMAIN newItems : WritesItem(next, i)
    BY <1>1, <1>3 DEF WritesItem, AskedBy, Inserts
  <1>8. SessionKeeps(next)
    BY <1>1, <1>3, <1>6, <1>7 DEF SessionKeeps, CommitKeeps
  <1>9. \A e \in BagToSet(events') \ BagToSet(events) : MessageState(e)'
    BY DEF MessageState
  <1> QED
    BY <1>1, <1>2, <1>3, <1>4, <1>5, <1>8, <1>9, RowsSessionStep DEF next

\* What a pipeline's extraction or exclusion does to the sessions, and its message.
LEMMA RowsExtracted ==
  ASSUME RowsInv, NEW s \in Sessions, sess[s].op = "pipeline",
         NEW confidence \in 0..100, NEW n \in 0..MaxResults, NEW results \in [1..n -> Result],
         sess' = [sess EXCEPT ![s] =
                    CompletedWork(sess[s], "COMPLETE", confidence, FieldsOf(sess[s], n, results),
                                  ItemsOf(sess[s], n, results))],
         UNCHANGED <<tables, started, owner>>,
         \A e \in BagToSet(events') \ BagToSet(events) : MessageState(e)
  PROVE  RowsInv'
  <1>1. PipelineState(sess[s])
    BY DEF RowsInv, TypeOK, SessionState, Idle
  <1>2. Inserts(sess[s], FieldsOf(sess[s], n, results), ItemsOf(sess[s], n, results))
    BY <1>1, ExtractedRows DEF Inserts
  <1> QED
    BY <1>2, RowsComplete

LEMMA RowsExcluded ==
  ASSUME RowsInv, NEW s \in Sessions, sess[s].op = "pipeline", NEW confidence \in 0..100,
         sess' = [sess EXCEPT ![s] =
                    CompletedWork(sess[s], "EXCLUDED_LOW_QUALITY", confidence, Nothing,
                      Single(<<sess[s].run, 0>>,
                             Insert(QueueItem(sess[s].doc, None, sess[s].loaded.allowed))))],
         UNCHANGED <<tables, started, owner>>,
         \A e \in BagToSet(events') \ BagToSet(events) : MessageState(e)
  PROVE  RowsInv'
  <1> DEFINE p == sess[s]
             item == QueueItem(p.doc, None, p.loaded.allowed)
             newItems == Single(<<p.run, 0>>, Insert(item))
  <1>1. PipelineState(p)
    BY DEF RowsInv, TypeOK, SessionState, Idle
  <1>2. item \in ItemRow
    BY <1>1 DEF QueueItem, ItemRow, PipelineState, DocumentRow
  <1>3. AreWrites(newItems, ItemIds, ItemRow)
    BY <1>1, <1>2, ParametersAreTyped
    DEF AreWrites, IsTable, Single, Insert, Update, ItemIds, PipelineState
  <1>4. AreWrites(Nothing, FieldIds, FieldRow) /\ DOMAIN Nothing = {}
    BY DEF AreWrites, IsTable, Nothing
  <1>5. \A i \in DOMAIN newItems :
           /\ i[1] = p.run /\ i[2] = 0
           /\ newItems[i].edited = newItems[i].loaded
           /\ newItems[i].edited.doc = p.doc
           /\ newItems[i].edited.status = "PENDING"
           /\ newItems[i].edited.field = AskedBy(i)
    BY DEF Single, Insert, Update, QueueItem, AskedBy
  <1> HIDE DEF newItems
  <1>6. Inserts(p, Nothing, newItems)
    BY <1>3, <1>4, <1>5 DEF Inserts
  <1> QED
    BY <1>6, RowsComplete DEF newItems

\* The message of a completion, and what Complete does with it, whoever gets it.
Announcement(p, newFields, newItems) ==
  [run |-> p.run, doc |-> p.doc, status |-> "COMPLETE", fields |-> newFields, items |-> newItems]

LEMMA CompleteTells ==
  ASSUME NEW s \in Sessions, NEW status, NEW confidence, NEW newFields, NEW kept, NEW newItems,
         Complete(s, status, confidence, newFields, kept, newItems)
  PROVE  /\ BagToSet(events') = BagToSet(events)
              \cup {Announcement(sess[s], DOMAIN newFields \cup kept, DOMAIN newItems)}
         /\ sess' = [sess EXCEPT ![s] =
                       CompletedWork(sess[s], status, confidence, newFields, newItems)]
         /\ UNCHANGED <<tables, started>>
  <1> DEFINE message == Announcement(sess[s], DOMAIN newFields \cup kept, DOMAIN newItems)
  <1>1. events' = events (+) SetToBag({message})
    BY Zenon DEF Complete, Announcement
  <1>2. /\ sess' = [sess EXCEPT ![s] =
                       CompletedWork(sess[s], status, confidence, newFields, newItems)]
         /\ UNCHANGED <<tables, started>>
    BY Zenon DEF Complete, CompletedWork
  <1> HIDE DEF message
  <1>3. BagToSet(events') = BagToSet(events) \cup {message}
    BY <1>1, Publishing
  <1> QED
    BY <1>2, <1>3 DEF message

LEMMA UploadTells ==
  ASSUME NEW s \in Sessions, NEW status, NEW confidence, NEW newFields, NEW kept, NEW newItems,
         Local!Complete(s, status, confidence, newFields, kept, newItems)
  PROVE  /\ BagToSet(discarded') = BagToSet(discarded)
              \cup {Announcement(sess[s], DOMAIN newFields \cup kept, DOMAIN newItems)}
         /\ sess' = [sess EXCEPT ![s] =
                       CompletedWork(sess[s], status, confidence, newFields, newItems)]
         /\ UNCHANGED <<tables, started>>
  <1> DEFINE message == Announcement(sess[s], DOMAIN newFields \cup kept, DOMAIN newItems)
  <1>1. discarded' = discarded (+) SetToBag({message})
    BY Zenon DEF Local!Complete, Announcement, Local!SetToBag, SetToBag, Local!(+), (+)
  <1>2. /\ sess' = [sess EXCEPT ![s] =
                       CompletedWork(sess[s], status, confidence, newFields, newItems)]
         /\ UNCHANGED <<tables, started>>
    BY Zenon DEF Local!Complete, CompletedWork, Local!Work, Work, Local!Single, Single,
       Local!Update, Update, Local!Insert, Insert, Local!tables, tables
  <1> HIDE DEF message
  <1>3. BagToSet(discarded') = BagToSet(discarded) \cup {message}
    BY <1>1, Publishing
  <1> QED
    BY <1>2, <1>3 DEF message

\* The message of a pipeline names its own run and the keys of what it writes.
LEMMA MessageOf ==
  ASSUME RowsInv, NEW s \in Sessions, sess[s].op = "pipeline",
         NEW newFields \in SUBSET FieldIds, NEW newItems \in SUBSET ItemIds
  PROVE  MessageState(Announcement(sess[s], newFields, newItems))
  <1>1. PipelineState(sess[s]) /\ sess[s].run \in started
    BY DEF RowsInv, TypeOK, SessionState, Idle, NamesArePrivate, Names
  <1> QED
    BY <1>1 DEF MessageState, PipelineState, Announcement

\* The keys that the message of an extraction or of an exclusion names.
LEMMA AnnouncedKeys ==
  ASSUME RowsInv, NEW s \in Sessions, sess[s].op = "pipeline",
         NEW n \in 0..MaxResults, NEW results \in [1..n -> Result], NEW item
  PROVE  /\ DOMAIN FieldsOf(sess[s], n, results) \cup KeptOf(sess[s], n, results) \subseteq FieldIds
         /\ DOMAIN ItemsOf(sess[s], n, results) \subseteq ItemIds
         /\ DOMAIN Nothing \cup {} \subseteq FieldIds
         /\ DOMAIN Single(<<sess[s].run, 0>>, item) \subseteq ItemIds
  <1>1. PipelineState(sess[s])
    BY DEF RowsInv, TypeOK, SessionState, Idle
  <1>2. <<sess[s].run, 0>> \in ItemIds
    BY <1>1, ParametersAreTyped DEF ItemIds, PipelineState
  <1> QED
    BY <1>1, <1>2, ExtractedRows DEF AreWrites, IsTable, Nothing, Single

LEMMA RowsExtract ==
  ASSUME RowsInv, NEW s \in Sessions, Extract(s), UNCHANGED owner
  PROVE  RowsInv' /\ UNCHANGED tables
  <1>1. sess[s].op = "pipeline"
    BY DEF Extract
  <1>2. PICK confidence \in OcrConfidences, n \in 0..MaxResults :
        \E results \in [1..n -> Result] :
          Complete(s, "COMPLETE", confidence, FieldsOf(sess[s], n, results),
                   KeptOf(sess[s], n, results), ItemsOf(sess[s], n, results))
    BY ExtractCompletes
  <1>3. PICK results \in [1..n -> Result] :
          Complete(s, "COMPLETE", confidence, FieldsOf(sess[s], n, results),
                   KeptOf(sess[s], n, results), ItemsOf(sess[s], n, results))
    BY <1>2
  <1>4. /\ BagToSet(events') = BagToSet(events)
             \cup {Announcement(sess[s], DOMAIN FieldsOf(sess[s], n, results)
                                          \cup KeptOf(sess[s], n, results),
                                DOMAIN ItemsOf(sess[s], n, results))}
        /\ sess' = [sess EXCEPT ![s] =
                      CompletedWork(sess[s], "COMPLETE", confidence,
                                    FieldsOf(sess[s], n, results), ItemsOf(sess[s], n, results))]
        /\ UNCHANGED <<tables, started>>
    BY <1>3, CompleteTells
  <1>5. \A e \in BagToSet(events') \ BagToSet(events) : MessageState(e)
    BY <1>1, <1>4, AnnouncedKeys, MessageOf
  <1>6. confidence \in 0..100
    BY ParametersAreTyped
  <1> QED
    BY <1>1, <1>4, <1>5, <1>6, RowsExtracted

LEMMA RowsExclude ==
  ASSUME RowsInv, NEW s \in Sessions, Exclude(s), UNCHANGED owner
  PROVE  RowsInv' /\ UNCHANGED tables
  <1> DEFINE newItems == Single(<<sess[s].run, 0>>,
                           Insert(QueueItem(sess[s].doc, None, sess[s].loaded.allowed)))
  <1>1. sess[s].op = "pipeline"
    BY DEF Exclude
  <1>2. PICK confidence \in OcrConfidences :
          Complete(s, "EXCLUDED_LOW_QUALITY", confidence, Nothing, {}, newItems)
    BY DEF Exclude
  <1>3. /\ BagToSet(events') = BagToSet(events)
             \cup {Announcement(sess[s], DOMAIN Nothing \cup {}, DOMAIN newItems)}
        /\ sess' = [sess EXCEPT ![s] =
                      CompletedWork(sess[s], "EXCLUDED_LOW_QUALITY", confidence, Nothing, newItems)]
        /\ UNCHANGED <<tables, started>>
    BY <1>2, CompleteTells
  <1>4. DOMAIN Nothing \cup {} \subseteq FieldIds /\ DOMAIN newItems \subseteq ItemIds
    <2>1. PipelineState(sess[s])
      BY <1>1 DEF RowsInv, TypeOK, SessionState, Idle
    <2> QED
      BY <2>1, ParametersAreTyped DEF ItemIds, PipelineState, Nothing, Single
  <1>5. \A e \in BagToSet(events') \ BagToSet(events) : MessageState(e)
    BY <1>1, <1>3, <1>4, MessageOf
  <1>6. confidence \in 0..100
    BY ParametersAreTyped
  <1> QED
    BY <1>1, <1>3, <1>5, <1>6, RowsExcluded

\* The same pipeline inside an upload: its OCR and its producer are others.
LEMMA UploadExtracts ==
  ASSUME NEW s \in Sessions, Local!Extract(s)
  PROVE  \E confidence \in TextLayerConfidences, n \in 0..MaxResults :
         \E results \in [1..n -> Result] :
           Local!Complete(s, "COMPLETE", confidence, FieldsOf(sess[s], n, results),
                          KeptOf(sess[s], n, results), ItemsOf(sess[s], n, results))
  <1>1. Local!Result = Result
    BY DEF Local!Result, Result
  <1>2. \A doc, result : Local!Insert(Local!Extracted(doc, result)) = Insert(Extracted(doc, result))
    BY DEF Local!Insert, Insert, Local!Update, Update, Local!Extracted, Extracted
  <1>3. \A doc, id, allowed : Local!Insert(Local!QueueItem(doc, id, allowed))
                               = Insert(QueueItem(doc, id, allowed))
    BY DEF Local!Insert, Insert, Local!Update, Update, Local!QueueItem, QueueItem
  <1>4. \A result : Local!ShouldAutoPopulate(result) <=> ShouldAutoPopulate(result)
    BY DEF Local!ShouldAutoPopulate, ShouldAutoPopulate
  <1>5. PICK confidence \in TextLayerConfidences, n \in 0..MaxResults :
        \E results \in [1..n -> Local!Result] :
          LET p == sess[s]
              fresh == {k \in 1..n : results[k].type \notin DOMAIN p.verified}
              low == {k \in fresh : ~Local!ShouldAutoPopulate(results[k])}
          IN  /\ ~Local!BelowQualityFloor(confidence)
              /\ Local!Complete(s, "COMPLETE", confidence,
                   [id \in {p.run} \X fresh |->
                      Local!Insert(Local!Extracted(p.doc, results[id[2]]))],
                   {p.verified[results[k].type] : k \in (1..n) \ fresh},
                   [id \in {p.run} \X low |->
                      Local!Insert(Local!QueueItem(p.doc, id, p.loaded.allowed))])
    BY Zenon DEF Local!Extract
  <1> DEFINE p == sess[s]
             fresh(results) == {k \in 1..n : results[k].type \notin DOMAIN p.verified}
             low(results) ==
               {k \in fresh(results) : ~Local!ShouldAutoPopulate(results[k])}
             newFields(results) ==
               [id \in {p.run} \X fresh(results) |->
                  Local!Insert(Local!Extracted(p.doc, results[id[2]]))]
             kept(results) ==
               {p.verified[results[k].type] : k \in (1..n) \ fresh(results)}
             newItems(results) ==
               [id \in {p.run} \X low(results) |->
                  Local!Insert(Local!QueueItem(p.doc, id, p.loaded.allowed))]
  <1>6. PICK results \in [1..n -> Local!Result] :
          Local!Complete(s, "COMPLETE", confidence, newFields(results), kept(results),
                         newItems(results))
    BY <1>5
  <1>7. /\ newFields(results) = FieldsOf(p, n, results)
        /\ kept(results) = KeptOf(p, n, results)
        /\ newItems(results) = ItemsOf(p, n, results)
    BY <1>2, <1>3, <1>4 DEF FieldsOf, KeptOf, ItemsOf, FreshAnswers
  <1> HIDE DEF newFields, kept, newItems
  <1> QED
    BY <1>1, <1>6, <1>7

LEMMA UploadExcludes ==
  ASSUME NEW s \in Sessions, Local!Exclude(s)
  PROVE  \E confidence \in TextLayerConfidences :
           Local!Complete(s, "EXCLUDED_LOW_QUALITY", confidence, Nothing, {},
             Single(<<sess[s].run, 0>>,
                    Insert(QueueItem(sess[s].doc, None, sess[s].loaded.allowed))))
  BY DEF Local!Exclude, Local!Nothing, Nothing, Local!Single, Single, Local!Insert, Insert,
     Local!Update, Update, Local!QueueItem, QueueItem

LEMMA RowsUpload ==
  ASSUME RowsInv, NEW s \in Sessions, Local!Exclude(s) \/ Local!Extract(s),
         UNCHANGED <<events, owner>>
  PROVE  /\ RowsInv' /\ UNCHANGED tables
         /\ \A e \in BagToSet(discarded') \ BagToSet(discarded) : MessageState(e)
  <1>1. sess[s].op = "pipeline"
    BY DEF Local!Exclude, Local!Extract
  <1>2. TextLayerConfidences \subseteq 0..100
    BY DEF TextLayerConfidences
  <1>3. CASE Local!Extract(s)
    <2>1. PICK confidence \in TextLayerConfidences, n \in 0..MaxResults :
          \E results \in [1..n -> Result] :
            Local!Complete(s, "COMPLETE", confidence, FieldsOf(sess[s], n, results),
                           KeptOf(sess[s], n, results), ItemsOf(sess[s], n, results))
      BY <1>3, UploadExtracts
    <2>2. PICK results \in [1..n -> Result] :
            Local!Complete(s, "COMPLETE", confidence, FieldsOf(sess[s], n, results),
                           KeptOf(sess[s], n, results), ItemsOf(sess[s], n, results))
      BY <2>1
    <2>3. /\ BagToSet(discarded') = BagToSet(discarded)
               \cup {Announcement(sess[s], DOMAIN FieldsOf(sess[s], n, results)
                                            \cup KeptOf(sess[s], n, results),
                                  DOMAIN ItemsOf(sess[s], n, results))}
          /\ sess' = [sess EXCEPT ![s] =
                        CompletedWork(sess[s], "COMPLETE", confidence,
                                      FieldsOf(sess[s], n, results), ItemsOf(sess[s], n, results))]
          /\ UNCHANGED <<tables, started>>
      BY <2>2, UploadTells
    <2>4. \A e \in BagToSet(discarded') \ BagToSet(discarded) : MessageState(e)
      BY <1>1, <2>3, AnnouncedKeys, MessageOf
    <2> QED
      BY <1>1, <1>2, <2>3, <2>4, RowsExtracted
  <1>4. CASE Local!Exclude(s)
    <2> DEFINE newItems == Single(<<sess[s].run, 0>>,
                             Insert(QueueItem(sess[s].doc, None, sess[s].loaded.allowed)))
    <2>1. PICK confidence \in TextLayerConfidences :
            Local!Complete(s, "EXCLUDED_LOW_QUALITY", confidence, Nothing, {}, newItems)
      BY <1>4, UploadExcludes
    <2>2. /\ BagToSet(discarded') = BagToSet(discarded)
               \cup {Announcement(sess[s], DOMAIN Nothing \cup {}, DOMAIN newItems)}
          /\ sess' = [sess EXCEPT ![s] =
                        CompletedWork(sess[s], "EXCLUDED_LOW_QUALITY", confidence, Nothing, newItems)]
          /\ UNCHANGED <<tables, started>>
      BY <2>1, UploadTells
    <2>3. /\ DOMAIN Nothing \cup {} \subseteq FieldIds
          /\ DOMAIN newItems \subseteq ItemIds
      <3>1. PipelineState(sess[s])
        BY <1>1 DEF RowsInv, TypeOK, SessionState, Idle
      <3> QED
        BY <3>1, ParametersAreTyped DEF ItemIds, PipelineState, Nothing, Single
    <2>4. \A e \in BagToSet(discarded') \ BagToSet(discarded) : MessageState(e)
      BY <1>1, <2>2, <2>3, MessageOf
    <2> QED
      BY <1>1, <1>2, <2>2, <2>4, RowsExcluded
  <1> QED
    BY <1>3, <1>4

-----------------------------------------------------------------------------
(* The review and the seed *)

\* A session that decides a stored field, and closes the item it answers if there is one.
ClosesItemsOf(itemWrites, f) ==
  \A i \in DOMAIN itemWrites :
    LET y == itemWrites[i] IN
    /\ i \in DOMAIN items /\ y.loaded.status = "PENDING" /\ y.edited.status = "RESOLVED"
    /\ y.edited.doc = y.loaded.doc
    /\ y.edited.field = f /\ y.loaded.field = f
    /\ i[2] # 0 => i = f

LEMMA RowsDecision ==
  ASSUME RowsInv, NEW s \in Sessions, NEW f \in DOMAIN fields, ~IsTerminal(fields[f]),
         NEW user \in Users, NEW override \in Values \cup {None}, NEW itemWrites,
         sess' = [sess EXCEPT ![s] =
           Work(Nothing, Nothing,
                Single(f, Update(fields[f], ApplyVerification(fields[f], user, override))),
                itemWrites)],
         UNCHANGED <<tables, events, started, owner>>,
         AreWrites(itemWrites, ItemIds, ItemRow),
         ClosesItemsOf(itemWrites, f)
  PROVE  RowsInv'
  <1> DEFINE applied == ApplyVerification(fields[f], user, override)
             next == Work(Nothing, Nothing, Single(f, Update(fields[f], applied)), itemWrites)
  <1>1. f \in FieldIds /\ fields[f] \in FieldRow /\ f[1] \in Written
    BY DEF RowsInv, TypeOK, IsTable, Written
  <1>2. /\ applied \in FieldRow /\ Decided(applied)
        /\ applied.doc = fields[f].doc /\ applied.type = fields[f].type
        /\ applied.confidence = fields[f].confidence
    BY <1>1, AppliedVerification
  <1>3. fields[f].status = "UNVERIFIED"
    BY <1>1 DEF IsTerminal, FieldRow
  <1> HIDE DEF applied
  <1>4. /\ next.op = "commit" /\ DOMAIN next.docs = {} /\ DOMAIN next.runs = {}
        /\ DOMAIN next.fields = {f} /\ next.fields[f].loaded = fields[f]
        /\ next.fields[f].edited = applied /\ next.items = itemWrites
    BY DEF Work, Single, Update, Nothing
  <1>5. SessionState(next)
    <2>1. AreWrites(Single(f, Update(fields[f], applied)), FieldIds, FieldRow)
      BY <1>1, <1>2 DEF AreWrites, IsTable, Single, Update
    <2> QED
      BY <2>1 DEF SessionState, CommitState, Work, AreWrites, IsTable, Nothing
  <1> HIDE DEF next
  <1>6. \A i \in DOMAIN items : i[1] \in Written
    BY DEF Written
  <1>7. Names(next) \subseteq Written
    BY <1>1, <1>4, <1>6 DEF Names, ClosesItemsOf
  <1>8. WritesField(next, f)
    BY <1>2, <1>4 DEF WritesField
  <1>9. \A i \in DOMAIN itemWrites : WritesItem(next, i)
    BY <1>2, <1>3, <1>4 DEF WritesItem, ClosesItemsOf
  <1>10. SessionKeeps(next)
    BY <1>4, <1>8, <1>9 DEF SessionKeeps, CommitKeeps
  <1>11. /\ started \subseteq Runs /\ DOMAIN owner \subseteq started
         /\ \A d \in DOMAIN owner : owner[d] \in Teams
    BY DEF RowsInv, TypeOK
  <1> QED
    BY <1>4, <1>5, <1>7, <1>10, <1>11, RowsSessionStep DEF next, applied

LEMMA RowsVerify ==
  ASSUME RowsInv, NEW s \in Sessions, Verify(s), UNCHANGED owner
  PROVE  RowsInv'
  <1>1. PICK user \in Users, f \in DOMAIN fields, override \in Values \cup {None} :
          /\ ~IsTerminal(fields[f])
          /\ sess' = [sess EXCEPT ![s] =
               Work(Nothing, Nothing,
                    Single(f, Update(fields[f], ApplyVerification(fields[f], user, override))),
                    Nothing)]
    BY DEF Verify
  <1>2. UNCHANGED <<tables, events, started>>
    BY DEF Verify
  <1>3. AreWrites(Nothing, ItemIds, ItemRow) /\ DOMAIN Nothing = {}
    BY DEF AreWrites, IsTable, Nothing
  <1>4. ClosesItemsOf(Nothing, f)
    BY <1>3 DEF ClosesItemsOf
  <1> QED
    BY <1>1, <1>2, <1>3, <1>4, RowsDecision

LEMMA RowsResolveLoad ==
  ASSUME RowsInv, NEW s \in Sessions, ResolveLoad(s), UNCHANGED owner
  PROVE  RowsInv'
  <1>1. PICK user \in Users, i \in DOMAIN items :
          /\ items[i].status # "RESOLVED"
          /\ sess' = [sess EXCEPT ![s] =
               [op |-> "resolve", user |-> user, item |-> i, loaded |-> items[i]]]
    BY DEF ResolveLoad
  <1> DEFINE next == [op |-> "resolve", user |-> user, item |-> i, loaded |-> items[i]]
  <1>2. i \in ItemIds /\ items[i] \in ItemRow /\ ItemHasItsField(i) /\ i[1] \in Written
    BY DEF RowsInv, TypeOK, IsTable, Written
  <1>3. SessionState(next)
    BY <1>2 DEF SessionState, ResolveState
  <1>4. next.op = "resolve" /\ next.item = i /\ next.loaded = items[i]
    OBVIOUS
  <1> HIDE DEF next
  <1>5. SessionKeeps(next)
    BY <1>1, <1>2, <1>4 DEF SessionKeeps, ItemHasItsField, ItemRow
  <1>6. Names(next) \subseteq Written
    BY <1>2, <1>4 DEF Names
  <1>7. /\ started \subseteq Runs /\ DOMAIN owner \subseteq started
        /\ \A d \in DOMAIN owner : owner[d] \in Teams
    BY DEF RowsInv, TypeOK
  <1>8. UNCHANGED <<tables, events, started>>
    BY DEF ResolveLoad
  <1> QED
    BY <1>1, <1>3, <1>4, <1>5, <1>6, <1>7, <1>8, RowsSessionStep DEF next

\* What a resolving request loaded, and what it makes of it.
LEMMA ClosedItem ==
  ASSUME RowsInv, NEW s \in Sessions, sess[s].op = "resolve", NEW f \in FieldIds
  PROVE  LET r == sess[s]
             y == Update(r.loaded, Resolved(r.loaded, f))
         IN  /\ ResolveState(r) /\ SessionKeeps(r)
             /\ AreWrites(Single(r.item, y), ItemIds, ItemRow)
             /\ y.loaded = r.loaded /\ y.edited.status = "RESOLVED"
             /\ y.edited.field = f /\ y.edited.doc = r.loaded.doc
  <1> DEFINE r == sess[s]
             resolved == Resolved(r.loaded, f)
             y == Update(r.loaded, resolved)
  <1>1. ResolveState(r) /\ SessionKeeps(r)
    BY DEF RowsInv, TypeOK, SessionState, Idle
  <1>2. /\ resolved \in ItemRow /\ resolved.status = "RESOLVED"
        /\ resolved.field = f /\ resolved.doc = r.loaded.doc
    BY <1>1 DEF ResolveState, Resolved, ItemRow
  <1>3. AreWrites(Single(r.item, y), ItemIds, ItemRow)
    BY <1>1, <1>2 DEF AreWrites, IsTable, Single, Update, ResolveState
  <1> QED
    BY <1>1, <1>2, <1>3 DEF Update

LEMMA RowsOverride ==
  ASSUME RowsInv, NEW s \in Sessions, ResolveOverride(s), UNCHANGED owner
  PROVE  RowsInv'
  <1> DEFINE r == sess[s]
             f == r.loaded.field
             y == Update(r.loaded, Resolved(r.loaded, f))
             itemWrites == Single(r.item, y)
  <1>1. UNCHANGED <<tables, events, started>>
    BY DEF ResolveOverride
  <1>2. CASE IsTerminal(fields[f])
    BY <1>1, <1>2, RowsDrop DEF ResolveOverride
  <1>3. CASE ~IsTerminal(fields[f])
    <2>1. PICK value \in Values :
            sess' = [sess EXCEPT ![s] =
              Work(Nothing, Nothing,
                   Single(f, Update(fields[f], ApplyVerification(fields[f], r.user, value))),
                   itemWrites)]
      BY <1>3 DEF ResolveOverride
    <2>2. r.op = "resolve" /\ f # None
      BY DEF ResolveOverride
    <2>3. ResolveState(r) /\ SessionKeeps(r)
      BY <2>2 DEF RowsInv, TypeOK, SessionState, Idle
    <2>4. f \in DOMAIN fields /\ f \in FieldIds
      BY <2>2, <2>3 DEF SessionKeeps, RowsInv, TypeOK, IsTable
    <2>5. /\ AreWrites(itemWrites, ItemIds, ItemRow)
          /\ y.loaded = r.loaded /\ y.edited.status = "RESOLVED"
          /\ y.edited.field = f /\ y.edited.doc = r.loaded.doc
      BY <2>2, <2>4, ClosedItem
    <2>6. DOMAIN itemWrites = {r.item} /\ itemWrites[r.item] = y
      BY DEF Single
    <2> HIDE DEF y, itemWrites
    <2>7. ClosesItemsOf(itemWrites, f)
      BY <2>2, <2>3, <2>5, <2>6 DEF SessionKeeps, ClosesItemsOf
    <2>8. r.user \in Users /\ value \in Values \cup {None}
      BY <2>3 DEF ResolveState
    <2> HIDE DEF f, r
    <2> QED
      BY <1>1, <1>3, <2>1, <2>4, <2>5, <2>7, <2>8, RowsDecision
  <1> QED
    BY <1>2, <1>3

LEMMA RowsEnter ==
  ASSUME RowsInv, NEW s \in Sessions, ResolveEnter(s), UNCHANGED owner
  PROVE  RowsInv'
  <1> DEFINE r == sess[s]
             f == <<r.item[1], s>>
             y == Update(r.loaded, Resolved(r.loaded, f))
             entered(type, value) == HandEntered(r.loaded.doc, type, value, r.user)
             next(type, value) ==
               Work(Nothing, Nothing, Single(f, Insert(entered(type, value))), Single(r.item, y))
  <1>1. PICK type \in FieldTypes, value \in Values :
          sess' = [sess EXCEPT ![s] = next(type, value)]
    BY DEF ResolveEnter
  <1>2. r.op = "resolve" /\ r.loaded.field = None /\ ResolveState(r) /\ SessionKeeps(r)
    BY DEF ResolveEnter, RowsInv, TypeOK, SessionState, Idle
  <1>3. f \in FieldIds /\ f[1] = r.item[1]
    BY <1>2 DEF ResolveState, ItemIds, FieldIds
  <1>4. r.item[2] = 0
    <2>1. r.item[2] # 0 => r.item \in FieldIds
      BY <1>2 DEF ResolveState, ItemIds, FieldIds, Positions
    <2> QED
      BY <1>2, <2>1, NoneIsNoRow DEF SessionKeeps
  <1>5. /\ AreWrites(Single(r.item, y), ItemIds, ItemRow)
        /\ y.loaded = r.loaded /\ y.edited.status = "RESOLVED"
        /\ y.edited.field = f /\ y.edited.doc = r.loaded.doc
    BY <1>2, <1>3, ClosedItem
  <1>6. /\ entered(type, value) \in FieldRow /\ Decided(entered(type, value))
        /\ ~LowConfidence(entered(type, value))
    <2>1. entered(type, value) \in FieldRow /\ Decided(entered(type, value))
      BY <1>2 DEF HandEntered, FieldRow, Decided, ResolveState, ItemRow
    <2>2. entered(type, value).confidence = 100 /\ entered(type, value).type = type
      BY DEF HandEntered
    <2>3. Threshold[type] \in 0..100
      BY ParametersAreTyped
    <2> HIDE DEF entered
    <2> QED
      BY <2>1, <2>2, <2>3 DEF LowConfidence
  <1>7. /\ next(type, value).op = "commit" /\ DOMAIN next(type, value).fields = {f}
        /\ next(type, value).fields[f].edited = entered(type, value)
        /\ next(type, value).fields[f].loaded = entered(type, value)
        /\ DOMAIN next(type, value).items = {r.item} /\ next(type, value).items[r.item] = y
        /\ DOMAIN next(type, value).runs = {} /\ DOMAIN next(type, value).docs = {}
    BY DEF Work, Single, Nothing, Insert, Update
  <1>8. SessionState(next(type, value))
    <2>1. AreWrites(Single(f, Insert(entered(type, value))), FieldIds, FieldRow)
      BY <1>3, <1>6 DEF AreWrites, IsTable, Single, Insert, Update
    <2> HIDE DEF entered, y, f
    <2> QED
      BY <1>5, <2>1 DEF SessionState, CommitState, Work, AreWrites, IsTable, Nothing
  <1>9. r.item \in DOMAIN items /\ r.item[1] \in Written
    BY <1>2 DEF SessionKeeps, Written
  <1> HIDE DEF next, y, entered, f
  <1>10. Names(next(type, value)) \subseteq Written
    BY <1>3, <1>7, <1>9 DEF Names
  <1>11. WritesField(next(type, value), f)
    <2>1. f[2] = s
      BY DEF f
    <2> QED
      BY <1>6, <1>7, <2>1 DEF WritesField
  <1>12. WritesItem(next(type, value), r.item)
    BY <1>2, <1>4, <1>5, <1>7, <1>9 DEF WritesItem, SessionKeeps
  <1>13. SessionKeeps(next(type, value))
    BY <1>7, <1>11, <1>12 DEF SessionKeeps, CommitKeeps
  <1>14. /\ started \subseteq Runs /\ DOMAIN owner \subseteq started
         /\ \A d \in DOMAIN owner : owner[d] \in Teams
    BY DEF RowsInv, TypeOK
  <1>15. UNCHANGED <<tables, events, started>>
    BY DEF ResolveEnter
  <1> QED
    BY <1>1, <1>7, <1>8, <1>10, <1>13, <1>14, <1>15, RowsSessionStep

\* The seed draws its run, writes nothing about it yet, and queues the low field.
LEMMA RowsSeed ==
  ASSUME RowsInv, NEW s \in Sessions, Seed(s)
  PROVE  RowsInv' /\ UNCHANGED tables
  <1>1. PICK run \in Runs \ started, team \in Teams, rent \in Values, free \in Values :
          /\ started' = started \cup {run}
          /\ owner' = Owned(run, team)
          /\ sess' = [sess EXCEPT ![s] =
               Work(Single(run, Insert([allowed |-> {team}, status |-> "COMPLETE",
                                        confidence |-> None])),
                    Nothing,
                    [f \in {run} \X {1, s} |-> Insert(Extracted(run,
                       IF f[2] = s THEN [type |-> BaseRent, value |-> rent, confidence |-> 97]
                       ELSE [type |-> FreeRentPeriod, value |-> free, confidence |-> 55]))],
                    SeedItems(run, team))]
    BY DEF Seed
  <1> DEFINE document == Insert([allowed |-> {team}, status |-> "COMPLETE", confidence |-> None])
             high == Extracted(run, [type |-> BaseRent, value |-> rent, confidence |-> 97])
             low == Extracted(run, [type |-> FreeRentPeriod, value |-> free, confidence |-> 55])
             newFields == [f \in {run} \X {1, s} |-> Insert(Extracted(run,
                       IF f[2] = s THEN [type |-> BaseRent, value |-> rent, confidence |-> 97]
                       ELSE [type |-> FreeRentPeriod, value |-> free, confidence |-> 55]))]
             item == QueueItem(run, <<run, 1>>, {team})
             next == Work(Single(run, document), Nothing, newFields, SeedItems(run, team))
  <1>2. s # 1 /\ 1 \in Positions /\ 1 # 0
    BY SessionsAreNotPositions, ParametersAreTyped, SeedFits DEF Positions
  <1>3. run \notin Written /\ run \in started'
    BY <1>1 DEF RowsInv, NamesArePrivate
  <1>4. /\ high \in FieldRow /\ ~LowConfidence(high) /\ high.doc = run
        /\ low \in FieldRow /\ LowConfidence(low) /\ low.doc = run
    <2>1. high \in FieldRow /\ low \in FieldRow /\ high.doc = run /\ low.doc = run
      BY SeedFits DEF Extracted, FieldRow
    <2>2. /\ high.type = BaseRent /\ high.confidence = 97
          /\ low.type = FreeRentPeriod /\ low.confidence = 55
      BY DEF Extracted
    <2>3. Threshold[BaseRent] \in 0..100 /\ Threshold[FreeRentPeriod] \in 0..100
      BY SeedFits, ParametersAreTyped
    <2> HIDE DEF high, low
    <2> QED
      BY <2>1, <2>2, <2>3, SeedFits DEF LowConfidence
  <1>5. /\ DOMAIN newFields = {<<run, 1>>, <<run, s>>}
        /\ newFields[<<run, s>>] = Insert(high)
        /\ newFields[<<run, 1>>] = Insert(low)
    BY <1>2
  <1>6. /\ item \in ItemRow /\ item.doc = run /\ item.field = <<run, 1>>
        /\ item.status = "PENDING"
    BY <1>2 DEF QueueItem, ItemRow, FieldIds
  <1>7. <<run, 1>> \in FieldIds /\ <<run, s>> \in FieldIds /\ <<run, 1>> \in ItemIds
    BY <1>2, ParametersAreTyped DEF FieldIds, ItemIds, Positions
  <1> HIDE DEF high, low, item, newFields
  <1>8. DOMAIN SeedItems(run, team) = {<<run, 1>>} /\ SeedItems(run, team)[<<run, 1>>] = Insert(item)
    BY DEF SeedItems, Single, item
  <1>9. SessionState(next)
    <2>1. AreWrites(Single(run, document), Runs, DocumentRow)
      BY DEF AreWrites, IsTable, Single, Insert, Update, DocumentRow
    <2>2. AreWrites(newFields, FieldIds, FieldRow)
      BY <1>4, <1>5, <1>7 DEF AreWrites, IsTable, Insert, Update
    <2>3. AreWrites(SeedItems(run, team), ItemIds, ItemRow)
      BY <1>6, <1>7, <1>8 DEF AreWrites, IsTable, Insert, Update
    <2> HIDE DEF document
    <2> QED
      BY <2>1, <2>2, <2>3 DEF SessionState, CommitState, Work, AreWrites, IsTable, Nothing
  <1>10. /\ next.op = "commit" /\ DOMAIN next.docs = {run} /\ DOMAIN next.runs = {}
         /\ next.fields = newFields /\ next.items = SeedItems(run, team)
    BY DEF Work, Single, Nothing
  <1> HIDE DEF next
  <1>11. \A f \in DOMAIN newFields : WritesField(next, f)
    BY <1>3, <1>4, <1>5, <1>6, <1>8, <1>10 DEF WritesField, Insert, Update
  <1>12. WritesItem(next, <<run, 1>>)
    BY <1>3, <1>4, <1>5, <1>6, <1>8, <1>10 DEF WritesItem, Insert, Update
  <1>13. DOMAIN owner' = DOMAIN owner \cup {run} /\ \A d \in DOMAIN owner' : owner'[d] \in Teams
    BY <1>1 DEF Owned, RowsInv
  <1>14. Names(next) = {run}
    BY <1>5, <1>8, <1>10 DEF Names
  <1>15. CommitKeeps(next) /\ DOMAIN next.docs \subseteq DOMAIN owner'
    BY <1>8, <1>10, <1>11, <1>12, <1>13 DEF CommitKeeps
  <1>16. /\ started \subseteq started' /\ started' \subseteq Runs
         /\ DOMAIN owner \subseteq DOMAIN owner' /\ DOMAIN owner' \subseteq started'
         /\ Names(next) \subseteq started' \ started
    BY <1>1, <1>13, <1>14 DEF RowsInv, TypeOK
  <1>17. UNCHANGED <<tables, events>>
    BY DEF Seed
  <1> QED
    BY <1>1, <1>9, <1>10, <1>13, <1>15, <1>16, <1>17, RowsSessionStep
    DEF next, document, newFields, high, low

-----------------------------------------------------------------------------
(* The commit *)

\* What a commit does to the rows: none goes, none changes its document, and what
\* it inserts is named by the session that commits.
LEMMA CommittedKeys ==
  ASSUME RowsInv, NEW s \in Sessions, Commit(s)
  PROVE  /\ CommitState(sess[s]) /\ CommitKeeps(sess[s])
         /\ DOMAIN sess[s].docs \subseteq DOMAIN owner
         /\ DOMAIN docs' = DOMAIN docs \cup DOMAIN sess[s].docs
         /\ DOMAIN runs' = DOMAIN runs \cup DOMAIN sess[s].runs
         /\ DOMAIN fields' = DOMAIN fields \cup DOMAIN sess[s].fields
         /\ DOMAIN items' = DOMAIN items \cup DOMAIN sess[s].items
         /\ Written' = Written \cup Names(sess[s])
  <1>1. /\ CommitState(sess[s]) /\ SessionKeeps(sess[s]) /\ sess[s].op = "commit"
    BY DEF Commit, RowsInv, TypeOK, SessionState, Idle
  <1>2. /\ DOMAIN docs' = DOMAIN docs \cup DOMAIN sess[s].docs
        /\ DOMAIN runs' = DOMAIN runs \cup DOMAIN sess[s].runs
        /\ DOMAIN fields' = DOMAIN fields \cup DOMAIN sess[s].fields
        /\ DOMAIN items' = DOMAIN items \cup DOMAIN sess[s].items
    BY FlushedDomain DEF Commit
  <1>3. Written' = Written \cup Names(sess[s])
    BY <1>1, <1>2 DEF Written, Names
  <1> QED
    BY <1>1, <1>2, <1>3 DEF SessionKeeps

LEMMA CommittedField ==
  ASSUME RowsInv, NEW s \in Sessions, Commit(s), NEW f \in DOMAIN fields
  PROVE  /\ fields'[f].doc = fields[f].doc
         /\ LowConfidence(fields'[f]) <=> LowConfidence(fields[f])
         /\ Decided(fields[f]) => Decided(fields'[f])
         /\ f \in DOMAIN sess[s].fields /\ Decided(sess[s].fields[f].edited)
              /\ sess[s].fields[f].loaded.status = "UNVERIFIED"
              => Decided(fields'[f])
  <1> DEFINE w == sess[s].fields[f]
  <1>1. f \in DOMAIN fields \cup DOMAIN sess[s].fields /\ fields' = Flushed(fields, sess[s].fields)
    BY DEF Commit
  <1>2. CASE f \notin DOMAIN sess[s].fields
    BY <1>1, <1>2, FlushedRow
  <1>3. CASE f \in DOMAIN sess[s].fields
    <2>1. fields'[f] = Merged(fields[f], w)
      BY <1>1, <1>3, FlushedRow
    <2>2. fields[f] \in FieldRow /\ w \in [loaded : FieldRow, edited : FieldRow]
      BY <1>3, CommittedKeys DEF RowsInv, TypeOK, IsTable, CommitState, AreWrites
    <2>3. WritesField(sess[s], f)
      BY <1>3, CommittedKeys DEF CommitKeeps
    <2>4. /\ w.edited.doc = w.loaded.doc
          /\ w.edited.type = w.loaded.type /\ w.edited.confidence = w.loaded.confidence
          /\ w.edited.status = w.loaded.status \/ Decided(w.edited)
      BY <2>3 DEF WritesField
    <2> HIDE DEF w
    <2>5. /\ fields'[f].doc = fields[f].doc /\ fields'[f].type = fields[f].type
          /\ fields'[f].confidence = fields[f].confidence
          /\ fields'[f].status = IF w.edited.status = w.loaded.status
                                   THEN fields[f].status ELSE w.edited.status
      BY <2>1, <2>2, <2>4, MergedField
    <2>6. LowConfidence(fields'[f]) <=> LowConfidence(fields[f])
      BY <2>5 DEF LowConfidence
    <2>7. Decided(fields[f]) => Decided(fields'[f])
      BY <2>4, <2>5 DEF Decided
    <2>8. Decided(w.edited) /\ w.loaded.status = "UNVERIFIED" => Decided(fields'[f])
      BY <2>5 DEF Decided
    <2> QED
      BY <2>5, <2>6, <2>7, <2>8 DEF w
  <1> QED
    BY <1>2, <1>3

LEMMA CommittedItem ==
  ASSUME RowsInv, NEW s \in Sessions, Commit(s), NEW i \in DOMAIN items
  PROVE  /\ items'[i].doc = items[i].doc
         /\ items'[i].field \in {items[i].field} \cup (DOMAIN fields' \cup {None})
         /\ i[2] # 0 => items'[i].field = i
         /\ items'[i].status = "RESOLVED" /\ items[i].status # "RESOLVED" /\ i[2] # 0
              => /\ i \in DOMAIN sess[s].fields /\ Decided(sess[s].fields[i].edited)
                 /\ sess[s].fields[i].loaded.status = "UNVERIFIED"
  <1> DEFINE y == sess[s].items[i]
  <1>1. i \in DOMAIN items \cup DOMAIN sess[s].items /\ items' = Flushed(items, sess[s].items)
    BY DEF Commit
  <1>2. ItemHasItsField(i) /\ i[1] \in Written
    BY DEF RowsInv, Written
  <1>3. CASE i \notin DOMAIN sess[s].items
    <2>1. items'[i] = items[i]
      BY <1>1, <1>3, FlushedRow
    <2> QED
      BY <1>2, <2>1 DEF ItemHasItsField
  <1>4. CASE i \in DOMAIN sess[s].items
    <2>1. items'[i] = Merged(items[i], y)
      BY <1>1, <1>4, FlushedRow
    <2>2. items[i] \in ItemRow /\ y \in [loaded : ItemRow, edited : ItemRow]
      BY <1>4, CommittedKeys DEF RowsInv, TypeOK, IsTable, CommitState, AreWrites
    <2>3. WritesItem(sess[s], i)
      BY <1>4, CommittedKeys DEF CommitKeeps
    <2>4. /\ y.edited.doc = y.loaded.doc
          /\ y.edited.field # None => y.edited.field \in DOMAIN fields'
          /\ i[2] # 0 => y.edited.field = i /\ y.loaded.field = i
          /\ i[2] # 0 => /\ i \in DOMAIN sess[s].fields /\ Decided(sess[s].fields[i].edited)
                         /\ sess[s].fields[i].loaded.status = "UNVERIFIED"
      BY <1>2, <2>3, CommittedKeys DEF WritesItem
    <2> HIDE DEF y
    <2>5. /\ items'[i].doc = items[i].doc
          /\ items'[i].field = IF y.edited.field = y.loaded.field
                                 THEN items[i].field ELSE y.edited.field
      BY <2>1, <2>2, <2>4, MergedItem
    <2> QED
      BY <1>2, <2>4, <2>5 DEF ItemHasItsField
  <1> QED
    BY <1>3, <1>4

\* The rows that a commit inserts.
LEMMA InsertedRows ==
  ASSUME RowsInv, NEW s \in Sessions, Commit(s)
  PROVE  /\ \A f \in DOMAIN fields' \ DOMAIN fields :
              /\ f \in DOMAIN sess[s].fields /\ fields'[f] = sess[s].fields[f].edited
              /\ WritesField(sess[s], f)
         /\ \A i \in DOMAIN items' \ DOMAIN items :
              /\ i \in DOMAIN sess[s].items /\ items'[i] = sess[s].items[i].edited
              /\ WritesItem(sess[s], i)
  <1>1. fields' = Flushed(fields, sess[s].fields) /\ items' = Flushed(items, sess[s].items)
    BY DEF Commit
  <1>2. ASSUME NEW f \in DOMAIN fields' \ DOMAIN fields
        PROVE  /\ f \in DOMAIN sess[s].fields /\ fields'[f] = sess[s].fields[f].edited
               /\ WritesField(sess[s], f)
    <2>1. f \in DOMAIN sess[s].fields /\ f \notin DOMAIN fields
      BY CommittedKeys
    <2>2. WritesField(sess[s], f)
      BY <2>1, CommittedKeys DEF CommitKeeps
    <2>3. fields'[f] = sess[s].fields[f].edited
      BY <1>1, <2>1, FlushedRow
    <2> QED
      BY <2>1, <2>2, <2>3
  <1>3. ASSUME NEW i \in DOMAIN items' \ DOMAIN items
        PROVE  /\ i \in DOMAIN sess[s].items /\ items'[i] = sess[s].items[i].edited
               /\ WritesItem(sess[s], i)
    <2>1. i \in DOMAIN sess[s].items /\ i \notin DOMAIN items
      BY CommittedKeys
    <2>2. WritesItem(sess[s], i)
      BY <2>1, CommittedKeys DEF CommitKeeps
    <2>3. items'[i] = sess[s].items[i].edited
      BY <1>1, <2>1, FlushedRow
    <2> QED
      BY <2>1, <2>2, <2>3
  <1> QED
    BY <1>2, <1>3

\* What it leaves of the rows' invariant.
LEMMA CommitKeepsItems ==
  ASSUME RowsInv, NEW s \in Sessions, Commit(s)
  PROVE  /\ \A f \in DOMAIN fields' : FieldHasItsItem(f)'
         /\ \A i \in DOMAIN items' : ItemHasItsField(i)'
  <1>1. /\ DOMAIN fields \subseteq DOMAIN fields' /\ DOMAIN items \subseteq DOMAIN items'
        /\ DOMAIN sess[s].fields \subseteq DOMAIN fields'
        /\ DOMAIN sess[s].items \subseteq DOMAIN items'
        /\ DOMAIN fields' = DOMAIN fields \cup DOMAIN sess[s].fields
    BY CommittedKeys
  <1>2. /\ \A f \in DOMAIN fields : FieldHasItsItem(f) /\ f[1] \in Written
        /\ \A i \in DOMAIN items : ItemHasItsField(i) /\ i[1] \in Written
    BY DEF RowsInv, Written
  <1>3. ASSUME NEW f \in DOMAIN fields', LowConfidence(fields'[f])
        PROVE  f \in DOMAIN items' /\ items'[f].doc = fields'[f].doc
    <2>1. CASE f \in DOMAIN fields
      <3>1. fields'[f].doc = fields[f].doc /\ LowConfidence(fields[f])
        BY <1>3, <2>1, CommittedField
      <3>2. f \in DOMAIN items /\ items[f].doc = fields[f].doc
        BY <1>2, <2>1, <3>1 DEF FieldHasItsItem
      <3> QED
        BY <1>1, <3>1, <3>2, CommittedItem
    <2>2. CASE f \notin DOMAIN fields
      <3>1. WritesField(sess[s], f) /\ fields'[f] = sess[s].fields[f].edited
        BY <2>2, InsertedRows
      <3>2. /\ f[1] \notin Written /\ f \in DOMAIN sess[s].items
            /\ sess[s].items[f].edited.doc = fields'[f].doc
        BY <1>3, <2>2, <3>1 DEF WritesField
      <3>3. f \in DOMAIN items' \ DOMAIN items
        BY <1>1, <1>2, <3>2
      <3> QED
        BY <3>2, <3>3, InsertedRows
    <2> QED
      BY <2>1, <2>2
  <1>4. ASSUME NEW i \in DOMAIN items'
        PROVE  /\ items'[i].field # None => items'[i].field \in DOMAIN fields'
               /\ i[2] # 0 => /\ items'[i].field = i /\ LowConfidence(fields'[i])
                              /\ items'[i].status = "RESOLVED" => Decided(fields'[i])
    <2>1. CASE i \in DOMAIN items
      <3>1. /\ items'[i].field \in {items[i].field} \cup (DOMAIN fields' \cup {None})
            /\ i[2] # 0 => items'[i].field = i
            /\ items'[i].status = "RESOLVED" /\ items[i].status # "RESOLVED" /\ i[2] # 0
                 => /\ i \in DOMAIN sess[s].fields /\ Decided(sess[s].fields[i].edited)
                    /\ sess[s].fields[i].loaded.status = "UNVERIFIED"
        BY <2>1, CommittedItem
      <3>2. /\ items[i].field # None => items[i].field \in DOMAIN fields
            /\ i[2] # 0 => /\ items[i].field = i /\ LowConfidence(fields[i])
                           /\ items[i].status = "RESOLVED" => Decided(fields[i])
        BY <1>2, <2>1 DEF ItemHasItsField
      <3>3. i[2] # 0 => i \in DOMAIN fields
        <4>1. i \in ItemIds
          BY <2>1 DEF RowsInv, TypeOK, IsTable
        <4>2. i[2] # 0 => i \in FieldIds
          BY <4>1, ParametersAreTyped DEF ItemIds, FieldIds, Positions
        <4> QED
          BY <3>2, <4>2, NoneIsNoRow
      <3>4. i[2] # 0 => /\ LowConfidence(fields'[i])
                        /\ items'[i].status = "RESOLVED" => Decided(fields'[i])
        BY <3>1, <3>2, <3>3, CommittedField
      <3> QED
        BY <1>1, <3>1, <3>2, <3>4
    <2>2. CASE i \notin DOMAIN items
      <3>1. WritesItem(sess[s], i) /\ items'[i] = sess[s].items[i].edited
        BY <2>2, InsertedRows
      <3>2. /\ items'[i].field # None => items'[i].field \in DOMAIN fields'
            /\ i[2] # 0 => items'[i].field = i
            /\ i[1] \notin Written /\ items'[i].status = "PENDING"
            /\ i[2] # 0 => i \in DOMAIN sess[s].fields /\ LowConfidence(sess[s].fields[i].edited)
        BY <1>1, <2>2, <3>1 DEF WritesItem
      <3>3. i[2] # 0 => i \in DOMAIN fields' \ DOMAIN fields
        BY <1>1, <1>2, <3>2
      <3>4. i[2] # 0 => LowConfidence(fields'[i])
        BY <3>2, <3>3, InsertedRows
      <3> QED
        BY <3>2, <3>4
    <2> QED
      BY <2>1, <2>2
  <1> QED
    BY <1>3, <1>4 DEF FieldHasItsItem, ItemHasItsField

LEMMA CommitKeepsSessions ==
  ASSUME RowsInv, NEW s \in Sessions, Commit(s), UNCHANGED owner, NEW t \in Sessions, t # s
  PROVE  SessionKeeps(sess[t])'
  <1>1. /\ DOMAIN fields \subseteq DOMAIN fields' /\ DOMAIN items \subseteq DOMAIN items'
        /\ Written' = Written \cup Names(sess[s])
    BY CommittedKeys
  <1>2. SessionKeeps(sess[t]) /\ Names(sess[s]) \cap Names(sess[t]) \subseteq Written
    BY DEF RowsInv, NamesArePrivate
  <1>3. sess'[t] = sess[t] /\ owner' = owner
    BY DEF Commit, RowsInv
  <1> DEFINE x == sess[t]
  <1>4. \A run \in Names(x) : run \notin Written => run \notin Written'
    BY <1>1, <1>2
  <1>5. ASSUME x.op = "commit"
        PROVE  CommitKeeps(sess[t])'
    <2>1. CommitKeeps(x)
      BY <1>2, <1>5 DEF SessionKeeps
    <2>2. /\ \A f \in DOMAIN x.fields : f[1] \in Names(x)
          /\ \A i \in DOMAIN x.items : i[1] \in Names(x)
      BY <1>5 DEF Names
    <2>3. /\ \A f \in DOMAIN x.fields : WritesField(x, f) /\ (f[1] \notin Written => f[1] \notin Written')
          /\ \A i \in DOMAIN x.items : WritesItem(x, i) /\ (i[1] \notin Written => i[1] \notin Written')
      BY <1>4, <2>1, <2>2 DEF CommitKeeps
    <2> HIDE DEF x
    <2>4. sess'[t] = x
      BY <1>3 DEF x
    <2>5. \A f \in DOMAIN x.fields : WritesField(sess[t], f)'
      BY <1>1, <2>3, <2>4 DEF WritesField
    <2>6. \A i \in DOMAIN x.items : WritesItem(sess[t], i)'
      BY <1>1, <2>3, <2>4 DEF WritesItem
    <2> QED
      BY <1>5, <2>4, <2>5, <2>6 DEF CommitKeeps
  <1> QED
    BY <1>1, <1>2, <1>3, <1>5 DEF SessionKeeps

LEMMA RowsCommit ==
  ASSUME RowsInv, NEW s \in Sessions, Commit(s), UNCHANGED owner
  PROVE  RowsInv'
  <1>1. /\ sess' = [t \in Sessions |-> sess'[t]] /\ sess'[s] = Idle
        /\ \A t \in Sessions : t # s => sess'[t] = sess[t]
        /\ UNCHANGED <<events, started>>
    BY DEF RowsInv, Commit
  <1>2. TypeOK'
    <2>1. /\ IsTable(docs', Runs, DocumentRow) /\ IsTable(runs', Runs, RunRow)
          /\ IsTable(fields', FieldIds, FieldRow) /\ IsTable(items', ItemIds, ItemRow)
      BY CommittedKeys, FlushedTables DEF Commit, RowsInv
    <2>2. started' \subseteq Runs /\ \A e \in BagToSet(events') : MessageState(e)'
      BY <1>1 DEF RowsInv, TypeOK, MessageState
    <2>3. \A t \in Sessions : SessionState(sess'[t])
      BY <1>1 DEF RowsInv, TypeOK, SessionState
    <2>4. (\A t \in Sessions : SessionState(sess[t]))'
      BY <2>3 DEF SessionState, Idle, PipelineState, ResolveState, CommitState
    <2> QED
      BY <2>1, <2>2, <2>4 DEF TypeOK
  <1>3. NamesArePrivate'
    <2>1. Written' = Written \cup Names(sess[s])
      BY CommittedKeys
    <2>2. /\ Written \subseteq started
          /\ \A t \in Sessions : /\ Names(sess[t]) \subseteq started
                                 /\ sess[t].op = "pipeline" => sess[t].run \notin Written
          /\ \A t, u \in Sessions : t # u => Names(sess[t]) \cap Names(sess[u]) \subseteq Written
      BY DEF RowsInv, NamesArePrivate
    <2>3. \A t \in Sessions : Names(sess[t])' = IF t = s THEN {} ELSE Names(sess[t])
      <3>1. Names(sess[s])' = {}
        BY <1>1 DEF Names, Idle
      <3>2. ASSUME NEW t \in Sessions, t # s PROVE Names(sess[t])' = Names(sess[t])
        <4>1. sess'[t] = sess[t]
          BY <1>1, <3>2
        <4> QED
          BY <4>1 DEF Names
      <3> QED
        BY <3>1, <3>2
    <2>4. \A t \in Sessions : sess[t].op = "pipeline" => sess[t].run \in Names(sess[t])
      BY DEF Names
    <2>5. \A t \in Sessions : t # s /\ sess[t].op = "pipeline" => sess[t].run \notin Written'
      BY <2>1, <2>2, <2>4
    <2>6. \A t \in Sessions : /\ Names(sess[t])' \subseteq started'
                              /\ sess'[t].op = "pipeline" => sess'[t].run \notin Written'
      BY <1>1, <2>2, <2>3, <2>5 DEF Idle
    <2>7. \A t, u \in Sessions : t # u => Names(sess[t])' \cap Names(sess[u])' \subseteq Written'
      BY <2>1, <2>2, <2>3
    <2> QED
      BY <1>1, <2>1, <2>2, <2>6, <2>7 DEF NamesArePrivate
  <1>4. \A t \in Sessions : SessionKeeps(sess[t])'
    <2>1. SessionKeeps(sess[s])'
      BY <1>1 DEF SessionKeeps, Idle
    <2> QED
      BY <2>1, CommitKeepsSessions
  <1>5. DOMAIN docs' \subseteq DOMAIN owner'
    BY CommittedKeys DEF RowsInv
  <1> QED
    BY <1>1, <1>2, <1>3, <1>4, <1>5, CommitKeepsItems DEF RowsInv

-----------------------------------------------------------------------------
(* The steps together *)

LEMMA RowsUnchanged == RowsInv /\ UNCHANGED <<vars, owner>> => RowsInv'
<1> SUFFICES ASSUME RowsInv, UNCHANGED <<vars, owner>> PROVE RowsInv'
  OBVIOUS
<1>1. UNCHANGED <<docs, runs, fields, items, events, started, sess, owner>>
  BY DEF vars, tables
<1>2. TypeOK'
  BY <1>1 DEF RowsInv, TypeOK, MessageState, SessionState, PipelineState, ResolveState, CommitState
<1>3. NamesArePrivate'
  BY <1>1 DEF RowsInv, NamesArePrivate, Written, Names
<1>4. (\A f \in DOMAIN fields : FieldHasItsItem(f))' /\ (\A i \in DOMAIN items : ItemHasItsField(i))'
  BY <1>1 DEF RowsInv, FieldHasItsItem, ItemHasItsField
<1>5. (\A s \in Sessions : SessionKeeps(sess[s]))'
  BY <1>1 DEF RowsInv, SessionKeeps, CommitKeeps, WritesField, WritesItem, Written
<1> QED
  BY <1>1, <1>2, <1>3, <1>4, <1>5 DEF RowsInv

LEMMA RowsFailed ==
  ASSUME RowsInv, NEW s \in Sessions, PipelineFails(s) \/ SessionLost(s), UNCHANGED owner
  PROVE  RowsInv' /\ UNCHANGED tables
  BY RowsDrop DEF PipelineFails, SessionLost

LEMMA WriteStep ==
  ASSUME RowsInv, NEW s \in Sessions, Write(s)
  PROVE  RowsInv' /\ (UNCHANGED tables \/ Commit(s))
  <1>1. CASE Ingest(s)
    <2>1. PICK run \in started' \ started, team \in Teams : owner' = Owned(run, team)
      BY <1>1 DEF Ingest
    <2> QED
      BY <1>1, <2>1, RowsHandle DEF Ingest, Handle
  <1>2. CASE UNCHANGED owner /\ Reprocess(s)
    BY <1>2, RowsReprocess DEF Reprocess
  <1>3. CASE UNCHANGED owner /\ (Exclude(s) \/ Extract(s))
    BY <1>3, RowsExclude, RowsExtract
  <1>4. CASE UNCHANGED owner /\ (PipelineFails(s) \/ SessionLost(s))
    BY <1>4, RowsFailed
  <1>5. CASE UNCHANGED owner /\ Verify(s)
    BY <1>5, RowsVerify DEF Verify
  <1>6. CASE UNCHANGED owner /\ ResolveLoad(s)
    BY <1>6, RowsResolveLoad DEF ResolveLoad
  <1>7. CASE UNCHANGED owner /\ ResolveOverride(s)
    BY <1>7, RowsOverride DEF ResolveOverride
  <1>8. CASE UNCHANGED owner /\ ResolveEnter(s)
    BY <1>8, RowsEnter DEF ResolveEnter
  <1>9. CASE UNCHANGED owner /\ Commit(s)
    BY <1>9, RowsCommit
  <1> QED
    BY <1>1, <1>2, <1>3, <1>4, <1>5, <1>6, <1>7, <1>8, <1>9 DEF Write

LEMMA ServeStep ==
  ASSUME RowsInv, NEW s \in Sessions, Serve(s)
  PROVE  RowsInv' /\ (UNCHANGED tables \/ Commit(s))
  <1>1. CASE Others(s)
    BY <1>1, WriteStep DEF Others
  <1>2. CASE ShowQueue(s) \/ ReadFields(s) \/ ReadQueue(s)
    <2>1. UNCHANGED <<vars, owner>>
      BY <1>2 DEF ShowQueue, ReadFields, ReadQueue
    <2>2. UNCHANGED tables
      BY <2>1 DEF vars, tables
    <2> QED
      BY <2>1, <2>2, RowsUnchanged
  <1>3. CASE Seed(s)
    BY <1>3, RowsSeed
  <1>4. CASE Upload(s)
    <2>1. PICK team \in Teams : owner' = Owned(sess'[s].run, team)
      BY <1>4 DEF Upload
    <2>2. Handle(s)
      BY <1>4 DEF Upload
    <2>3. sess'[s].run \in started' \ started
      BY <2>2 DEF Handle, RowsInv
    <2> QED
      BY <2>1, <2>2, <2>3, RowsHandle DEF Handle
  <1>5. CASE UploadRuns(s)
    BY <1>5, RowsUpload DEF UploadRuns
  <1>6. CASE UploadFails(s)
    BY <1>6, RowsFailed DEF UploadFails, Refuse
  <1>7. CASE UploadCommits(s)
    BY <1>7, RowsCommit DEF UploadCommits
  <1>8. CASE UploadLost(s) \/ UploadBreaks(s)
    <2>1. UNCHANGED owner /\ (SessionLost(s) \/ UNCHANGED vars)
      BY <1>8 DEF UploadLost, UploadBreaks, Abandon
    <2>2. UNCHANGED vars => UNCHANGED tables
      BY DEF vars, tables
    <2> QED
      BY <2>1, <2>2, RowsFailed, RowsUnchanged
  <1> QED
    BY <1>1, <1>2, <1>3, <1>4, <1>5, <1>6, <1>7, <1>8 DEF Serve

LEMMA StepRows == RowsInv /\ [DeskNext]_deskVars => RowsInv'
<1> SUFFICES ASSUME RowsInv, [DeskNext]_deskVars PROVE RowsInv'
  OBVIOUS
<1>1. CASE ReplyIsRead
  BY <1>1, RowsUnchanged DEF ReplyIsRead
<1>2. CASE UNCHANGED deskVars
  BY <1>2, RowsUnchanged DEF deskVars
<1> QED
  BY <1>1, <1>2, ServeStep DEF DeskNext

-----------------------------------------------------------------------------
(* What an upload answers *)

LEMMA UploadsCommitNext ==
  ASSUME NEW s \in Sessions, Local!Exclude(s) \/ Local!Extract(s)
  PROVE  \E x : x.op = "commit" /\ sess' = [sess EXCEPT ![s] = x]
  <1>1. ASSUME NEW status, NEW confidence, NEW newFields, NEW kept, NEW newItems,
               Local!Complete(s, status, confidence, newFields, kept, newItems)
        PROVE  \E x : x.op = "commit" /\ sess' = [sess EXCEPT ![s] = x]
    BY <1>1 DEF Local!Complete, Local!Work
  <1>2. CASE Local!Exclude(s)
    BY <1>1, <1>2, Zenon DEF Local!Exclude
  <1>3. CASE Local!Extract(s)
    BY <1>1, <1>3, Zenon DEF Local!Extract
  <1> QED
    BY <1>2, <1>3

LEMMA OneSessionMoves ==
  ASSUME RowsInv, NEW s \in Sessions, Serve(s), NEW t \in Sessions, t # s
  PROVE  sess'[t] = sess[t]
  <1>1. \A x : [sess EXCEPT ![s] = x][t] = sess[t]
    BY DEF RowsInv
  <1>2. ASSUME NEW status, NEW confidence, NEW newFields, NEW kept, NEW newItems,
               Complete(s, status, confidence, newFields, kept, newItems)
        PROVE  sess'[t] = sess[t]
    BY <1>1, <1>2 DEF Complete
  <1>3. CASE Handle(s)
    BY <1>1, <1>3, Zenon DEF Handle
  <1>4. CASE Exclude(s)
    BY <1>2, <1>4, Zenon DEF Exclude
  <1>5. CASE Extract(s)
    BY <1>2, <1>5, Zenon DEF Extract
  <1>6. CASE Local!Exclude(s) \/ Local!Extract(s)
    BY <1>1, <1>6, UploadsCommitNext
  <1>7. CASE Reprocess(s)
    BY <1>1, <1>7, Zenon DEF Reprocess
  <1>8. CASE Verify(s)
    BY <1>1, <1>8, Zenon DEF Verify
  <1>9. CASE ResolveLoad(s)
    BY <1>1, <1>9, Zenon DEF ResolveLoad
  <1>10. CASE ResolveOverride(s)
    BY <1>1, <1>10, Zenon DEF ResolveOverride
  <1>11. CASE ResolveEnter(s)
    BY <1>1, <1>11, Zenon DEF ResolveEnter
  <1>12. CASE PipelineFails(s) \/ SessionLost(s) \/ Commit(s)
    BY <1>1, <1>12, Zenon DEF PipelineFails, SessionLost, Commit
  <1>13. CASE Seed(s)
    BY <1>1, <1>13, Zenon DEF Seed
  <1>14. CASE sess' = sess
    BY <1>14
  <1>15. CASE Others(s)
    BY <1>3, <1>4, <1>5, <1>7, <1>8, <1>9, <1>10, <1>11, <1>12, <1>15 DEF Others, Write, Ingest
  <1>16. CASE ShowQueue(s) \/ ReadFields(s) \/ ReadQueue(s)
    BY <1>14, <1>16 DEF ShowQueue, ReadFields, ReadQueue, vars
  <1>17. CASE Upload(s) \/ UploadRuns(s) \/ UploadFails(s) \/ UploadCommits(s) \/ UploadLost(s)
             \/ UploadBreaks(s)
    BY <1>3, <1>6, <1>12, <1>14, <1>17
    DEF Upload, UploadRuns, UploadFails, Refuse, UploadCommits, UploadLost, UploadBreaks, Abandon, vars
  <1> QED
    BY <1>13, <1>15, <1>16, <1>17 DEF Serve

\* What has been read of the tables stays true of them.
LEMMA RowsStay ==
  ASSUME RowsInv, NEW s \in Sessions, Serve(s), NEW f \in DOMAIN fields
  PROVE  f \in DOMAIN fields' /\ fields'[f].doc = fields[f].doc
  <1>1. CASE UNCHANGED tables
    BY <1>1 DEF tables
  <1>2. CASE Commit(s)
    BY <1>2, CommittedKeys, CommittedField
  <1> QED
    BY <1>1, <1>2, ServeStep

\* The call a session serves after its step.
LEMMA CallStep ==
  ASSUME DeskInv, NEW s \in Sessions, Serve(s)
  PROVE  \E c : /\ calls' = [calls EXCEPT ![s] = c]
                /\ CallState(c)
                /\ c.stage = "pipeline" /\ sess'[s].op = "pipeline" => sess'[s].run = c.run
                /\ c.stage = "read" => \A f \in c.rows : f \in DOMAIN fields' /\ fields'[f].doc = c.run
  <1> DEFINE P(c) == /\ CallState(c)
                     /\ c.stage = "pipeline" /\ sess'[s].op = "pipeline" => sess'[s].run = c.run
                     /\ c.stage = "read" =>
                          \A f \in c.rows : f \in DOMAIN fields' /\ fields'[f].doc = c.run
  <1>1. CallState(calls[s]) /\ CallKeeps(calls[s], sess[s]) /\ calls = [t \in Sessions |-> calls[t]]
    BY DEF DeskInv
  <1>2. P(NoCall)
    BY DEF CallState, NoCall
  <1>3. CASE calls' = calls /\ calls[s] = NoCall
    <2>1. calls' = [calls EXCEPT ![s] = NoCall]
      BY <1>1, <1>3
    <2> QED
      BY <1>2, <2>1
  <1>4. CASE calls' = [calls EXCEPT ![s] = NoCall]
    BY <1>2, <1>4
  <1>5. CASE Upload(s)
    <2> DEFINE c == [stage |-> "pipeline", run |-> sess'[s].run]
    <2>1. calls' = [calls EXCEPT ![s] = c] /\ Handle(s)
      BY <1>5 DEF Upload
    <2>2. sess'[s].run \in Runs
      BY <2>1 DEF Handle, DeskInv, RowsInv
    <2>3. P(c)
      BY <2>2 DEF CallState
    <2> QED
      BY <2>1, <2>3
  <1>6. CASE UploadRuns(s)
    <2>1. calls' = [calls EXCEPT ![s] = calls[s]] /\ calls[s].stage = "pipeline"
      BY <1>1, <1>6 DEF UploadRuns
    <2>2. sess'[s].op = "commit"
      BY <1>6, UploadsCommitNext DEF UploadRuns, DeskInv, RowsInv
    <2>3. P(calls[s])
      BY <1>1, <2>1, <2>2
    <2> QED
      BY <2>1, <2>3
  <1>7. CASE UploadCommits(s)
    <2> DEFINE c == [calls[s] EXCEPT !.stage = "stored"]
    <2>1. calls' = [calls EXCEPT ![s] = c] /\ calls[s].stage = "pipeline"
      BY <1>7 DEF UploadCommits
    <2>2. CallState(c) /\ c.stage = "stored"
      BY <1>1, <2>1 DEF CallState, NoCall
    <2>3. P(c)
      BY <2>2
    <2> QED
      BY <2>1, <2>3
  <1>8. CASE ReadFields(s)
    <2> DEFINE c == [stage |-> "read", run |-> calls[s].run,
                     rows |-> {f \in DOMAIN fields : fields[f].doc = calls[s].run}]
    <2>1. calls' = [calls EXCEPT ![s] = c] /\ calls[s].stage = "stored" /\ fields' = fields
      BY <1>8 DEF ReadFields, vars
    <2>2. CallState(c)
      BY <1>1, <2>1 DEF CallState, NoCall, DeskInv, RowsInv, TypeOK, IsTable
    <2>3. P(c)
      BY <2>1, <2>2
    <2> QED
      BY <2>1, <2>3
  <1>9. \/ calls' = calls /\ calls[s] = NoCall
        \/ calls' = [calls EXCEPT ![s] = NoCall]
        \/ Upload(s) \/ UploadRuns(s) \/ UploadCommits(s) \/ ReadFields(s)
    BY DEF Serve, Others, ShowQueue, Seed, UploadFails, UploadLost, UploadBreaks, Abandon, ReadQueue
  <1> QED
    BY <1>3, <1>4, <1>5, <1>6, <1>7, <1>8, <1>9

LEMMA ServedCalls ==
  ASSUME DeskInv, NEW s \in Sessions, Serve(s)
  PROVE  /\ calls' = [t \in Sessions |-> calls'[t]]
         /\ \A t \in Sessions : CallState(calls'[t])
         /\ \A t \in Sessions : CallKeeps(calls[t], sess[t])'
  <1>1. PICK c : /\ calls' = [calls EXCEPT ![s] = c]
                 /\ CallState(c)
                 /\ c.stage = "pipeline" /\ sess'[s].op = "pipeline" => sess'[s].run = c.run
                 /\ c.stage = "read" =>
                      \A f \in c.rows : f \in DOMAIN fields' /\ fields'[f].doc = c.run
    BY CallStep
  <1>2. RowsInv /\ calls = [t \in Sessions |-> calls[t]]
    BY DEF DeskInv
  <1>3. /\ calls' = [t \in Sessions |-> calls'[t]] /\ calls'[s] = c
        /\ \A t \in Sessions : t # s => calls'[t] = calls[t]
    BY <1>1, <1>2
  <1>4. \A t \in Sessions : t # s => sess'[t] = sess[t]
    BY <1>2, OneSessionMoves
  <1>5. \A f \in DOMAIN fields : f \in DOMAIN fields' /\ fields'[f].doc = fields[f].doc
    BY <1>2, RowsStay
  <1>6. \A t \in Sessions : CallState(calls[t]) /\ CallKeeps(calls[t], sess[t])
    BY DEF DeskInv
  <1>7. CallKeeps(calls[s], sess[s])'
    BY <1>1, <1>3 DEF CallKeeps
  <1>8. ASSUME NEW t \in Sessions, t # s PROVE CallKeeps(calls[t], sess[t])'
    <2>1. calls'[t] = calls[t] /\ sess'[t] = sess[t] /\ CallKeeps(calls[t], sess[t])
      BY <1>3, <1>4, <1>6, <1>8
    <2> QED
      BY <1>5, <2>1 DEF CallKeeps
  <1> QED
    BY <1>1, <1>3, <1>6, <1>7, <1>8

LEMMA StartedGrows ==
  ASSUME RowsInv, NEW s \in Sessions, Serve(s)
  PROVE  started \subseteq started'
  <1>1. CASE Handle(s) \/ Reprocess(s) \/ Seed(s)
    BY <1>1 DEF Handle, Reprocess, Seed
  <1>2. CASE Exclude(s) \/ Extract(s) \/ PipelineFails(s) \/ Verify(s) \/ ResolveLoad(s)
             \/ ResolveOverride(s) \/ ResolveEnter(s) \/ Commit(s) \/ SessionLost(s)
             \/ Local!Exclude(s) \/ Local!Extract(s) \/ UNCHANGED vars
    BY <1>2 DEF Exclude, Extract, Complete, PipelineFails, Verify, ResolveLoad, ResolveOverride,
        ResolveEnter, Commit, SessionLost, Local!Exclude, Local!Extract, Local!Complete, vars
  <1> QED
    BY <1>1, <1>2 DEF Serve, Others, Write, Ingest, ShowQueue, Upload, UploadRuns,
        UploadFails, Refuse, UploadCommits, UploadLost, UploadBreaks, Abandon, ReadFields, ReadQueue

LEMMA ServedMessages ==
  ASSUME DeskInv, NEW s \in Sessions, Serve(s)
  PROVE  \A e \in BagToSet(discarded') : MessageState(e)'
  <1>1. RowsInv /\ \A e \in BagToSet(discarded) : MessageState(e)
    BY DEF DeskInv
  <1>2. \A e \in BagToSet(discarded') \ BagToSet(discarded) : MessageState(e)
    <2>1. CASE UploadRuns(s)
      BY <1>1, <2>1, RowsUpload DEF UploadRuns
    <2>2. CASE discarded' = discarded
      BY <2>2
    <2>3. UploadRuns(s) \/ discarded' = discarded
      BY DEF Serve, Others, ShowQueue, Seed, Upload, UploadFails, UploadCommits,
             UploadLost, UploadBreaks, Abandon, ReadFields, ReadQueue
    <2> QED
      BY <2>1, <2>2, <2>3
  <1>3. started \subseteq started'
    BY <1>1, StartedGrows
  <1>4. \A e \in BagToSet(discarded') : MessageState(e)
    BY <1>1, <1>2
  <1> QED
    BY <1>3, <1>4 DEF MessageState

\* The item of a field below its threshold, and which fields those are.
LEMMA LowFieldsItem ==
  ASSUME RowsInv, NEW f \in DOMAIN fields, ~ShouldAutoPopulate(fields[f])
  PROVE  /\ f \in DOMAIN items /\ items[f].field = f /\ items[f].doc = fields[f].doc
         /\ items[f].status = "PENDING" \/ Decided(fields[f])
         /\ f # None /\ f[2] \notin Sessions
  <1>1. LowConfidence(fields[f])
    <2>1. fields[f] \in FieldRow
      BY DEF RowsInv, TypeOK, IsTable
    <2>2. fields[f].confidence \in 0..100 /\ Threshold[fields[f].type] \in 0..100
      BY <2>1, ParametersAreTyped DEF FieldRow
    <2>3. \A c, threshold \in 0..100 : ~(c >= threshold) => c < threshold
      OBVIOUS
    <2>4. ~(fields[f].confidence >= Threshold[fields[f].type])
      BY DEF ShouldAutoPopulate
    <2> QED
      BY <2>2, <2>3, <2>4 DEF LowConfidence
  <1>2. f \in DOMAIN items /\ items[f].doc = fields[f].doc
    BY <1>1 DEF RowsInv, FieldHasItsItem
  <1>3. f \in FieldIds /\ f \in ItemIds /\ items[f] \in ItemRow
    BY <1>2 DEF RowsInv, TypeOK, IsTable
  <1>4. f[2] # 0 /\ f[2] \notin Sessions /\ f # None
    BY <1>3, SessionsAreNotPositions, ParametersAreTyped, NoneIsNoRow
    DEF FieldIds, ItemIds, Positions
  <1>5. ItemHasItsField(f)
    BY <1>2 DEF RowsInv
  <1> QED
    BY <1>2, <1>3, <1>4, <1>5 DEF ItemHasItsField, ItemRow

\* A field that the queue has no item of, whichever of the two states of a missing
\* field the session sees, is at or above its threshold.
LEMMA UnqueuedIsAtThreshold ==
  ASSUME RowsInv, NEW run, NEW queued \in SeenQueued(run), NEW f \in DOMAIN fields,
         fields[f].doc = run, f \notin queued
  PROVE  ShouldAutoPopulate(fields[f])
  <1> SUFFICES ASSUME ~ShouldAutoPopulate(fields[f]) PROVE FALSE
    OBVIOUS
  <1>1. /\ f \in DOMAIN items /\ items[f].field = f /\ items[f].doc = run
        /\ f # None /\ f[2] \notin Sessions
    BY LowFieldsItem
  <1>2. f \in QueuedFields(run)
    BY <1>1 DEF QueuedFields
  <1> QED
    BY <1>1, <1>2 DEF SeenQueued

\* Which step answers what.
LEMMA RepliesOfSteps ==
  ASSUME NEW s \in Sessions, Serve(s)
  PROVE  \/ reply'.kind = "none"
         \/ ShowQueue(s) /\ reply'.kind = "queue"
         \/ UploadFails(s) /\ reply' = [kind |-> "refused", run |-> calls[s].run]
         \/ UploadBreaks(s) /\ reply' = [kind |-> "error", run |-> calls[s].run]
         \/ ReadQueue(s) /\ reply'.kind = "upload" /\ reply'.run = calls[s].run
  <1>1. reply = reply' => reply'.kind = "none"
    BY DEF Serve, NoReply
  <1>2. ShowQueue(s) => reply'.kind = "queue"
    BY DEF ShowQueue
  <1>3. ReadQueue(s) => reply'.kind = "upload" /\ reply'.run = calls[s].run
    BY DEF ReadQueue
  <1>4. \/ ShowQueue(s) \/ UploadFails(s) \/ UploadBreaks(s) \/ ReadQueue(s)
        \/ reply' = reply
    BY DEF Serve, Others, Seed, Upload, UploadRuns, UploadCommits, UploadLost, ReadFields
  <1> QED
    BY <1>1, <1>2, <1>3, <1>4 DEF UploadFails, UploadBreaks

LEMMA ServedReply ==
  ASSUME DeskInv, NEW s \in Sessions, Serve(s)
  PROVE  AutoPopulatedMetItsThreshold'
  <1>1. RowsInv /\ CallKeeps(calls[s], sess[s])
    BY DEF DeskInv
  <1>2. CASE reply'.kind # "upload"
    BY <1>2 DEF AutoPopulatedMetItsThreshold
  <1>3. CASE ReadQueue(s)
    <2>1. PICK queued \in SeenQueued(calls[s].run) :
            reply' = [kind |-> "upload", run |-> calls[s].run, rows |-> calls[s].rows,
                      autoPopulated |-> calls[s].rows \ queued,
                      isLease |-> calls[s].rows # {}]
      BY <1>3 DEF ReadQueue
    <2>2. \A f \in calls[s].rows : f \in DOMAIN fields /\ fields[f].doc = calls[s].run
      BY <1>1, <1>3 DEF ReadQueue, CallKeeps
    <2>3. fields' = fields
      BY <1>3 DEF ReadQueue, vars
    <2>4. \A f \in calls[s].rows \ queued : ShouldAutoPopulate(fields[f])
      BY <1>1, <2>2, UnqueuedIsAtThreshold
    <2>5. reply'.autoPopulated = calls[s].rows \ queued
      BY <2>1
    <2> QED
      BY <2>3, <2>4, <2>5 DEF AutoPopulatedMetItsThreshold, ShouldAutoPopulate
  <1> QED
    BY <1>2, <1>3, RepliesOfSteps

LEMMA ServedQueue ==
  ASSUME DeskInv, NEW s \in Sessions, Serve(s)
  PROVE  QueueShowsWhatIsDue'
  <1>1. CASE reply'.kind # "queue"
    BY <1>1 DEF QueueShowsWhatIsDue
  <1>2. CASE ShowQueue(s)
    <2>1. PICK team \in Teams, statuses \in {{"PENDING"}, {"RESOLVED"}, {"PENDING", "RESOLVED"}} :
            reply' = [kind |-> "queue", team |-> team, statuses |-> statuses,
                      items |-> Listed(team, statuses)]
      BY <1>2 DEF ShowQueue
    <2>2. fields' = fields /\ items' = items /\ owner' = owner
      BY <1>2 DEF ShowQueue, vars, tables
    <2>3. ASSUME NEW f \in DOMAIN fields, "PENDING" \in statuses, owner[fields[f].doc] = team,
                 ~Decided(fields[f]), ~ShouldAutoPopulate(fields[f])
          PROVE  f \in Listed(team, statuses) /\ items[f].field = f
      <3>1. /\ f \in DOMAIN items /\ items[f].field = f /\ items[f].doc = fields[f].doc
            /\ items[f].status = "PENDING"
        BY <2>3, LowFieldsItem DEF DeskInv
      <3> QED
        BY <2>3, <3>1 DEF Listed
    <2>4. reply'.team = team /\ reply'.statuses = statuses /\ reply'.items = Listed(team, statuses)
      BY <2>1
    <2> QED
      BY <2>2, <2>3, <2>4 DEF QueueShowsWhatIsDue, Decided, IsTerminal, ShouldAutoPopulate
  <1> QED
    BY <1>1, <1>2, RepliesOfSteps

LEMMA StepDesk == DeskInv /\ [DeskNext]_deskVars => DeskInv'
<1> SUFFICES ASSUME DeskInv, [DeskNext]_deskVars PROVE DeskInv'
  OBVIOUS
<1>1. RowsInv'
  BY StepRows DEF DeskInv
<1>2. ASSUME NEW s \in Sessions, Serve(s) PROVE DeskInv'
  BY <1>1, <1>2, ServedCalls, ServedMessages, ServedReply, ServedQueue DEF DeskInv
<1>3. CASE ReplyIsRead \/ UNCHANGED deskVars
  <2>1. /\ UNCHANGED <<docs, runs, fields, items, events, started, sess, owner, discarded, calls>>
        /\ reply' = reply \/ reply'.kind = "none"
    BY <1>3 DEF ReplyIsRead, deskVars, vars, NoReply
  <2>2. AutoPopulatedMetItsThreshold'
    BY <2>1 DEF DeskInv, AutoPopulatedMetItsThreshold, ShouldAutoPopulate
  <2>3. QueueShowsWhatIsDue'
    BY <2>1 DEF DeskInv, QueueShowsWhatIsDue, Decided, IsTerminal, ShouldAutoPopulate
  <2>4. (\A e \in BagToSet(discarded) : MessageState(e))'
    BY <2>1 DEF DeskInv, MessageState
  <2>5. (\A s \in Sessions : CallState(calls[s]) /\ CallKeeps(calls[s], sess[s]))'
    BY <2>1 DEF DeskInv, CallState, CallKeeps
  <2> QED
    BY <1>1, <2>1, <2>2, <2>3, <2>4, <2>5 DEF DeskInv
<1> QED
  BY <1>2, <1>3 DEF DeskNext

LEMMA InitDesk == DeskInit => DeskInv
  BY InitRows
  DEF DeskInit, DeskInv, CallState, CallKeeps, NoCall, NoReply, AutoPopulatedMetItsThreshold,
      QueueShowsWhatIsDue, EmptyBag,
      SetToBag, BagToSet

LEMMA DeskStands == DeskSpec => []DeskInv
  BY InitDesk, StepDesk, PTL DEF DeskSpec

-----------------------------------------------------------------------------
(* What an upload leaves *)

LEMMA DrawnForUpload ==
  ASSUME RowsInv, NEW s \in Sessions, Handle(s)
  PROVE  LET x == sess'[s] IN x.op = "pipeline" /\ x.doc = x.run /\ DOMAIN x.verified = {}
  <1>1. PICK run \in Runs \ started, allowed \in SUBSET Teams :
          sess' = [sess EXCEPT ![s] =
            [op |-> "pipeline", run |-> run, doc |-> run, verified |-> Nothing,
             loaded |-> [allowed |-> allowed, status |-> "PROCESSING", confidence |-> None]]]
    BY DEF Handle
  <1>2. s \in DOMAIN sess
    BY DEF RowsInv
  <1>3. sess'[s] = [op |-> "pipeline", run |-> run, doc |-> run, verified |-> Nothing,
                    loaded |-> [allowed |-> allowed, status |-> "PROCESSING", confidence |-> None]]
    BY <1>1, <1>2
  <1> QED
    BY <1>3 DEF Nothing

\* What the pipeline of an upload, which found no verified field, holds and has told.
LEMMA ToldOfRun ==
  ASSUME NEW s \in Sessions, s \in DOMAIN sess, NEW run, run \notin Written,
         sess[s].run = run, sess[s].doc = run,
         NEW status, NEW confidence, NEW newFields, NEW newItems,
         BagToSet(discarded') = BagToSet(discarded)
           \cup {Announcement(sess[s], DOMAIN newFields \cup {}, DOMAIN newItems)},
         sess' = [sess EXCEPT ![s] =
                    CompletedWork(sess[s], status, confidence, newFields, newItems)],
         UNCHANGED <<tables, started>>,
         \A f \in DOMAIN newFields : f[1] = run /\ f[2] \in Positions,
         \A i \in DOMAIN newItems : i[1] = run
  PROVE  TellsRun(sess[s], run)'
  <1> DEFINE w == CompletedWork(sess[s], status, confidence, newFields, newItems)
             e == Announcement(sess[s], DOMAIN newFields \cup {}, DOMAIN newItems)
  <1>1. /\ w.op = "commit" /\ DOMAIN w.docs = {run} /\ DOMAIN w.runs = {run}
        /\ w.fields = newFields /\ w.items = newItems
    BY DEF CompletedWork, Work, Single
  <1>2. e.run = run /\ e.fields = DOMAIN newFields /\ e.items = DOMAIN newItems
    BY DEF Announcement
  <1>3. sess'[s] = w /\ e \in BagToSet(discarded')
    OBVIOUS
  <1>4. run \notin Written'
    BY DEF Written, tables
  <1> HIDE DEF w, e
  <1> QED
    BY <1>1, <1>2, <1>3, <1>4 DEF TellsRun

LEMMA UploadTellsAll ==
  ASSUME RowsInv, NEW s \in Sessions, Local!Exclude(s) \/ Local!Extract(s),
         NEW run, sess[s].run = run, sess[s].doc = run, DOMAIN sess[s].verified = {}
  PROVE  TellsRun(sess[s], run)'
  <1>1. sess[s].op = "pipeline" /\ s \in DOMAIN sess
    BY DEF Local!Exclude, Local!Extract, RowsInv
  <1>2. PipelineState(sess[s]) /\ run \notin Written
    BY <1>1 DEF RowsInv, TypeOK, SessionState, Idle, NamesArePrivate
  <1>3. CASE Local!Extract(s)
    <2>1. PICK confidence \in TextLayerConfidences, n \in 0..MaxResults :
          \E results \in [1..n -> Result] :
            Local!Complete(s, "COMPLETE", confidence, FieldsOf(sess[s], n, results),
                           KeptOf(sess[s], n, results), ItemsOf(sess[s], n, results))
      BY <1>3, UploadExtracts
    <2>2. PICK results \in [1..n -> Result] :
            Local!Complete(s, "COMPLETE", confidence, FieldsOf(sess[s], n, results),
                           KeptOf(sess[s], n, results), ItemsOf(sess[s], n, results))
      BY <2>1
    <2> DEFINE newFields == FieldsOf(sess[s], n, results)
               newItems == ItemsOf(sess[s], n, results)
    <2>3. KeptOf(sess[s], n, results) = {}
      BY DEF KeptOf, FreshAnswers
    <2>4. \A f \in DOMAIN newFields : f[1] = run /\ f[2] \in Positions
      <3>1. DOMAIN newFields = {run} \X FreshAnswers(sess[s], n, results)
        BY DEF FieldsOf
      <3>2. FreshAnswers(sess[s], n, results) \subseteq Positions
        BY ParametersAreTyped DEF FreshAnswers, Positions
      <3> QED
        BY <3>1, <3>2
    <2>5. \A i \in DOMAIN newItems : i[1] = run
      BY DEF ItemsOf
    <2>6. Local!Complete(s, "COMPLETE", confidence, newFields, {}, newItems)
      BY <2>2, <2>3
    <2> HIDE DEF newFields, newItems
    <2>7. /\ BagToSet(discarded') = BagToSet(discarded)
               \cup {Announcement(sess[s], DOMAIN newFields \cup {}, DOMAIN newItems)}
          /\ sess' = [sess EXCEPT ![s] =
                        CompletedWork(sess[s], "COMPLETE", confidence, newFields, newItems)]
          /\ UNCHANGED <<tables, started>>
      BY <2>6, UploadTells
    <2> QED
      BY <1>1, <1>2, <2>4, <2>5, <2>7, ToldOfRun
  <1>4. CASE Local!Exclude(s)
    <2> DEFINE newItems == Single(<<sess[s].run, 0>>,
                             Insert(QueueItem(sess[s].doc, None, sess[s].loaded.allowed)))
    <2>1. PICK confidence \in TextLayerConfidences :
            Local!Complete(s, "EXCLUDED_LOW_QUALITY", confidence, Nothing, {}, newItems)
      BY <1>4, UploadExcludes
    <2>2. DOMAIN Nothing = {}
      BY DEF Nothing
    <2>3. \A i \in DOMAIN newItems : i[1] = run
      BY DEF Single
    <2>4. /\ BagToSet(discarded') = BagToSet(discarded)
               \cup {Announcement(sess[s], DOMAIN Nothing \cup {}, DOMAIN newItems)}
          /\ sess' = [sess EXCEPT ![s] =
                        CompletedWork(sess[s], "EXCLUDED_LOW_QUALITY", confidence, Nothing, newItems)]
          /\ UNCHANGED <<tables, started>>
      BY <2>1, UploadTells
    <2> HIDE DEF newItems
    <2> QED
      BY <1>1, <1>2, <2>2, <2>3, <2>4, ToldOfRun
  <1> QED
    BY <1>3, <1>4

\* Its commit stores what it told, and nothing else was stored of its run.
LEMMA CommittedWhole ==
  ASSUME RowsInv, NEW s \in Sessions, Commit(s), UNCHANGED discarded, NEW run, TellsRun(sess[s], run)
  PROVE  Whole(run)'
  <1> DEFINE w == sess[s]
  <1>1. PICK e \in BagToSet(discarded) :
          e.run = run /\ e.fields = DOMAIN w.fields /\ e.items = DOMAIN w.items
    BY DEF TellsRun
  <1>2. /\ run \in DOMAIN docs' /\ run \in DOMAIN runs'
        /\ DOMAIN fields' = DOMAIN fields \cup DOMAIN w.fields
        /\ DOMAIN items' = DOMAIN items \cup DOMAIN w.items
    BY CommittedKeys DEF TellsRun
  <1>3. /\ \A f \in DOMAIN fields : f[1] # run
        /\ \A i \in DOMAIN items : i[1] # run
        /\ \A f \in DOMAIN w.fields : f[1] = run /\ f[2] \in Positions
        /\ \A i \in DOMAIN w.items : i[1] = run
    BY DEF TellsRun, Written
  <1>4. /\ DOMAIN w.fields = {f \in DOMAIN fields' : f[1] = run /\ f[2] \in Positions}
        /\ DOMAIN w.items = {i \in DOMAIN items' : i[1] = run}
    BY <1>2, <1>3
  <1> QED
    BY <1>1, <1>2, <1>4 DEF Whole

\* Nobody adds to a stored run a field under a position or an item.
LEMMA WholeStays ==
  ASSUME RowsInv, NEW s \in Sessions, Serve(s), BagToSet(discarded) \subseteq BagToSet(discarded'),
         NEW run, Whole(run)
  PROVE  Whole(run)'
  <1>1. run \in DOMAIN docs /\ run \in DOMAIN runs /\ run \in Written
    BY DEF Whole, Written
  <1>2. PICK e \in BagToSet(discarded) :
          /\ e.run = run
          /\ e.fields = {f \in DOMAIN fields : f[1] = run /\ f[2] \in Positions}
          /\ e.items = {i \in DOMAIN items : i[1] = run}
    BY DEF Whole
  <1>3. CASE UNCHANGED tables
    BY <1>1, <1>2, <1>3 DEF Whole, tables
  <1>4. CASE Commit(s)
    <2>1. /\ run \in DOMAIN docs' /\ run \in DOMAIN runs'
          /\ DOMAIN fields \subseteq DOMAIN fields' /\ DOMAIN items \subseteq DOMAIN items'
      BY <1>1, <1>4, CommittedKeys
    <2>2. \A f \in DOMAIN fields' \ DOMAIN fields : f[1] # run \/ f[2] \notin Positions
      <3>1. Positions \cap Sessions = {}
        BY SessionsAreNotPositions, ParametersAreTyped DEF Positions
      <3>2. \A f \in DOMAIN fields' \ DOMAIN fields : f[2] \in Sessions \/ f[1] \notin Written
        BY <1>4, InsertedRows DEF WritesField
      <3> QED
        BY <1>1, <3>1, <3>2
    <2>3. \A i \in DOMAIN items' \ DOMAIN items : i[1] # run
      <3>1. \A i \in DOMAIN items' \ DOMAIN items : i[1] \notin Written
        BY <1>4, InsertedRows DEF WritesItem
      <3> QED
        BY <1>1, <3>1
    <2>4. /\ e.fields = {f \in DOMAIN fields' : f[1] = run /\ f[2] \in Positions}
          /\ e.items = {i \in DOMAIN items' : i[1] = run}
      BY <1>2, <2>1, <2>2, <2>3
    <2> QED
      BY <1>2, <2>1, <2>4 DEF Whole
  <1> QED
    BY <1>3, <1>4, ServeStep

LEMMA DiscardedGrows ==
  ASSUME RowsInv, NEW s \in Sessions, Serve(s)
  PROVE  BagToSet(discarded) \subseteq BagToSet(discarded')
  <1>1. CASE UploadRuns(s)
    <2>1. Local!Exclude(s) \/ Local!Extract(s)
      BY <1>1 DEF UploadRuns
    <2>2. ASSUME NEW status, NEW confidence, NEW newFields, NEW kept, NEW newItems,
                 Local!Complete(s, status, confidence, newFields, kept, newItems)
          PROVE  BagToSet(discarded) \subseteq BagToSet(discarded')
      BY <2>2, UploadTells
    <2>3. CASE Local!Exclude(s)
      BY <2>2, <2>3, UploadExcludes
    <2>4. CASE Local!Extract(s)
      BY <2>2, <2>4, UploadExtracts
    <2> QED
      BY <2>1, <2>3, <2>4
  <1>2. UploadRuns(s) \/ discarded' = discarded
    BY DEF Serve, Others, ShowQueue, Seed, Upload, UploadFails, UploadCommits,
           UploadLost, UploadBreaks, Abandon, ReadFields, ReadQueue
  <1> QED
    BY <1>1, <1>2

\* The upload a session serves after its own step.
LEMMA OwnUpload ==
  ASSUME UploadInv, NEW s \in Sessions, Serve(s)
  PROVE  UploadKeeps(calls[s], sess[s])'
  <1>1. /\ RowsInv /\ CallState(calls[s]) /\ UploadKeeps(calls[s], sess[s])
        /\ s \in DOMAIN calls /\ BagToSet(discarded) \subseteq BagToSet(discarded')
    BY DiscardedGrows DEF UploadInv, DeskInv
  <1>2. CASE calls'[s] = NoCall
    BY <1>2 DEF UploadKeeps, NoCall
  <1>3. CASE Upload(s)
    <2>1. calls'[s] = [stage |-> "pipeline", run |-> sess'[s].run] /\ Handle(s)
      BY <1>1, <1>3 DEF Upload
    <2>2. sess'[s].op = "pipeline" /\ sess'[s].doc = sess'[s].run /\ DOMAIN sess'[s].verified = {}
      BY <1>1, <2>1, DrawnForUpload
    <2>3. calls'[s].stage = "pipeline" /\ calls'[s].run = sess'[s].run
      BY <2>1
    <2> QED
      BY <2>2, <2>3 DEF UploadKeeps
  <1>4. CASE UploadRuns(s)
    <2>1. /\ calls' = calls /\ calls[s].stage = "pipeline"
          /\ Local!Exclude(s) \/ Local!Extract(s)
      BY <1>4 DEF UploadRuns
    <2>2. sess[s].op = "pipeline"
      BY <2>1 DEF Local!Exclude, Local!Extract
    <2>3. sess[s].run = calls[s].run /\ sess[s].doc = calls[s].run /\ DOMAIN sess[s].verified = {}
      BY <1>1, <2>1, <2>2 DEF UploadKeeps, TellsRun
    <2>4. PICK run : run = calls[s].run
      OBVIOUS
    <2>5. TellsRun(sess[s], run)'
      BY <1>1, <2>1, <2>3, <2>4, UploadTellsAll
    <2>6. calls'[s].stage = "pipeline" /\ calls'[s].run = run
      BY <2>1, <2>4
    <2> QED
      BY <2>5, <2>6 DEF UploadKeeps
  <1>5. CASE UploadCommits(s)
    <2>1. /\ calls[s].stage = "pipeline" /\ Commit(s) /\ UNCHANGED discarded
          /\ calls'[s] = [calls[s] EXCEPT !.stage = "stored"]
      BY <1>1, <1>5 DEF UploadCommits
    <2>2. calls'[s].stage = "stored" /\ calls'[s].run = calls[s].run
      BY <1>1, <2>1 DEF CallState, NoCall
    <2>3. sess[s].op = "commit"
      BY <2>1 DEF Commit
    <2>4. PICK run : run = calls[s].run
      OBVIOUS
    <2>5. TellsRun(sess[s], run)
      BY <1>1, <2>1, <2>3, <2>4 DEF UploadKeeps
    <2>6. Whole(run)'
      BY <1>1, <2>1, <2>5, CommittedWhole
    <2> QED
      BY <2>2, <2>4, <2>6 DEF UploadKeeps
  <1>6. CASE ReadFields(s)
    <2>1. /\ calls[s].stage = "stored"
          /\ calls'[s] = [stage |-> "read", run |-> calls[s].run,
                          rows |-> {f \in DOMAIN fields : fields[f].doc = calls[s].run}]
      BY <1>1, <1>6 DEF ReadFields
    <2>2. calls'[s].stage = "read" /\ calls'[s].run = calls[s].run
      BY <2>1
    <2>3. PICK run : run = calls[s].run
      OBVIOUS
    <2>4. Whole(run)'
      BY <1>1, <2>1, <2>3, WholeStays DEF UploadKeeps
    <2> QED
      BY <2>2, <2>3, <2>4 DEF UploadKeeps
  <1>7. calls'[s] = NoCall \/ Upload(s) \/ UploadRuns(s) \/ UploadCommits(s) \/ ReadFields(s)
    BY <1>1 DEF Serve, Others, ShowQueue, Seed, UploadFails, UploadLost, UploadBreaks, Abandon, ReadQueue
  <1> QED
    BY <1>2, <1>3, <1>4, <1>5, <1>6, <1>7

\* The uploads of the other sessions, whose runs it does not name.
LEMMA OtherUploads ==
  ASSUME UploadInv, NEW s \in Sessions, Serve(s), NEW t \in Sessions, t # s
  PROVE  UploadKeeps(calls[t], sess[t])'
  <1>1. /\ RowsInv /\ UploadKeeps(calls[t], sess[t])
        /\ BagToSet(discarded) \subseteq BagToSet(discarded')
    BY DiscardedGrows DEF UploadInv, DeskInv
  <1>2. sess'[t] = sess[t]
    BY <1>1, OneSessionMoves
  <1>3. calls'[t] = calls[t]
    <2>1. PICK c : calls' = [calls EXCEPT ![s] = c]
      BY CallStep DEF UploadInv
    <2> QED
      BY <2>1 DEF UploadInv, DeskInv
  <1>4. PICK run : run = calls[t].run
    OBVIOUS
  <1>5. Whole(run) => Whole(run)'
    BY <1>1, WholeStays
  <1>6. ASSUME TellsRun(sess[t], run)
        PROVE  TellsRun(sess[t], run)'
    <2>1. run \in Names(sess[t]) /\ run \notin Written
      BY <1>6 DEF TellsRun, Names
    <2>2. run \notin Written'
      <3>1. CASE UNCHANGED tables
        BY <2>1, <3>1 DEF Written, tables
      <3>2. CASE Commit(s)
        BY <1>1, <2>1, <3>2, CommittedKeys DEF RowsInv, NamesArePrivate
      <3> QED
        BY <1>1, <3>1, <3>2, ServeStep
    <2> QED
      BY <1>1, <1>2, <1>6, <2>2 DEF TellsRun
  <1> QED
    BY <1>1, <1>2, <1>3, <1>4, <1>5, <1>6 DEF UploadKeeps

LEMMA ServedUpload ==
  ASSUME UploadInv, NEW s \in Sessions, Serve(s)
  PROVE  UploadIsWholeOrAbsent'
  <1>1. /\ RowsInv /\ CallState(calls[s]) /\ UploadKeeps(calls[s], sess[s])
        /\ BagToSet(discarded) \subseteq BagToSet(discarded')
    BY DiscardedGrows DEF UploadInv, DeskInv
  <1>2. PICK run : run = calls[s].run
    OBVIOUS
  <1>3. ASSUME run \notin Written, UNCHANGED tables
        PROVE  Absent(run)'
    BY <1>3 DEF Absent, Written, tables
  <1>4. CASE reply'.kind \in {"none", "queue"}
    BY <1>4 DEF UploadIsWholeOrAbsent
  <1>5. CASE UploadFails(s) /\ reply' = [kind |-> "refused", run |-> calls[s].run]
    <2>1. calls[s].stage = "pipeline" /\ sess[s].op = "pipeline" /\ UNCHANGED tables
      BY <1>5 DEF UploadFails, Refuse, PipelineFails
    <2>2. sess[s].run = run /\ run \notin Written
      BY <1>1, <1>2, <2>1 DEF UploadKeeps, TellsRun, RowsInv, NamesArePrivate
    <2>3. reply'.kind = "refused" /\ reply'.run = run
      BY <1>2, <1>5
    <2> QED
      BY <1>3, <2>1, <2>2, <2>3 DEF UploadIsWholeOrAbsent
  <1>6. CASE UploadBreaks(s) /\ reply' = [kind |-> "error", run |-> calls[s].run]
    <2>1. reply'.kind = "error" /\ reply'.run = run
      BY <1>2, <1>6
    <2>2. CASE calls[s].stage = "pipeline"
      <3>1. sess[s].op \in {"resolve", "commit"} /\ UNCHANGED tables
        BY <1>6, <2>2 DEF UploadBreaks, Abandon, SessionLost
      <3>2. run \notin Written
        BY <1>1, <1>2, <2>2, <3>1 DEF UploadKeeps, TellsRun
      <3> QED
        BY <1>3, <2>1, <3>1, <3>2 DEF UploadIsWholeOrAbsent
    <2>3. CASE calls[s].stage # "pipeline"
      <3>1. calls[s].stage \in {"stored", "read"}
        BY <1>1, <1>6, <2>3 DEF UploadBreaks, Abandon, CallState
      <3>2. Whole(run)'
        BY <1>1, <1>2, <3>1, WholeStays DEF UploadKeeps
      <3> QED
        BY <2>1, <3>2 DEF UploadIsWholeOrAbsent
    <2> QED
      BY <2>2, <2>3
  <1>7. CASE ReadQueue(s) /\ reply'.kind = "upload" /\ reply'.run = calls[s].run
    <2>1. calls[s].stage = "read"
      BY <1>7 DEF ReadQueue
    <2>2. Whole(run)'
      BY <1>1, <1>2, <2>1, WholeStays DEF UploadKeeps
    <2> QED
      BY <1>2, <1>7, <2>2 DEF UploadIsWholeOrAbsent
  <1> QED
    BY <1>4, <1>5, <1>6, <1>7, RepliesOfSteps

LEMMA StepUpload == UploadInv /\ [DeskNext]_deskVars => UploadInv'
<1> SUFFICES ASSUME UploadInv, [DeskNext]_deskVars PROVE UploadInv'
  OBVIOUS
<1>1. DeskInv'
  BY StepDesk DEF UploadInv
<1>2. ASSUME NEW s \in Sessions, Serve(s) PROVE UploadInv'
  <2>1. \A t \in Sessions : UploadKeeps(calls[t], sess[t])'
    BY <1>2, OwnUpload, OtherUploads
  <2> QED
    BY <1>1, <1>2, <2>1, ServedUpload DEF UploadInv
<1>3. CASE ReplyIsRead \/ UNCHANGED deskVars
  <2>1. /\ UNCHANGED <<docs, runs, fields, items, sess, discarded, calls>>
        /\ reply' = reply \/ reply'.kind = "none"
    BY <1>3 DEF ReplyIsRead, deskVars, vars, NoReply
  <2>2. UploadIsWholeOrAbsent'
    BY <2>1 DEF UploadInv, UploadIsWholeOrAbsent, Absent, Whole
  <2>3. (\A s \in Sessions : UploadKeeps(calls[s], sess[s]))'
    BY <2>1 DEF UploadInv, UploadKeeps, TellsRun, Whole, Written
  <2> QED
    BY <1>1, <2>2, <2>3 DEF UploadInv
<1> QED
  BY <1>2, <1>3 DEF DeskNext

LEMMA UploadsStand == DeskSpec => []UploadInv
<1>1. DeskInit => UploadInv
  BY InitDesk DEF DeskInit, UploadInv, UploadKeeps, NoCall, NoReply, UploadIsWholeOrAbsent
<1> QED
  BY <1>1, StepUpload, PTL DEF DeskSpec

-----------------------------------------------------------------------------
(* The theorems *)

\* The tables, the messages and the calls of any number of sessions are typed, and every
\* document has a team (models/db.py), with seeds and uploads among the writers.
THEOREM DeskStaysTyped == DeskSpec => []DeskTypeOK
<1>1. DeskInv => DeskTypeOK
  BY DEF DeskInv, RowsInv, DeskTypeOK
<1> QED
  BY <1>1, DeskStands, PTL

\* FR-004, demo_seed.py: what an upload reports as auto-populated has the confidence
\* its type demands, whatever is resolved or reprocessed between its statements.
THEOREM AnswersMetTheirThreshold == DeskSpec => []AutoPopulatedMetItsThreshold
<1>1. DeskInv => AutoPopulatedMetItsThreshold
  BY DEF DeskInv
<1> QED
  BY <1>1, DeskStands, PTL

\* FR-005, extraction/confidence.py: no undecided field below its threshold is out of
\* the queue, the seed's fields, which no run wrote, included.
THEOREM DeskQueuesWhatIsLow == DeskSpec => []LowConfidenceIsQueued
<1>1. ASSUME RowsInv PROVE LowConfidenceIsQueued
  <2>1. ASSUME NEW f \in DOMAIN fields, ~Decided(fields[f]), LowConfidence(fields[f])
        PROVE  Pending(f)
    <3>1. f \in DOMAIN items
      BY <1>1, <2>1 DEF RowsInv, FieldHasItsItem
    <3>2. f[2] # 0
      <4>1. f \in FieldIds /\ f \in ItemIds
        BY <1>1, <3>1 DEF RowsInv, TypeOK, IsTable
      <4> QED
        BY <4>1, SessionsAreNotPositions, ParametersAreTyped DEF FieldIds, ItemIds, Positions
    <3>3. /\ items[f].field = f /\ items[f].status \in {"PENDING", "RESOLVED"}
          /\ items[f].status # "RESOLVED"
      BY <1>1, <2>1, <3>1, <3>2 DEF RowsInv, TypeOK, IsTable, ItemRow, ItemHasItsField
    <3> QED
      BY <3>1, <3>3 DEF Pending
  <2>2. ASSUME NEW i \in DOMAIN items, i[2] # 0
        PROVE  items[i].field = i /\ i \in DOMAIN fields /\ LowConfidence(fields[i])
    <3>1. items[i].field = i /\ LowConfidence(fields[i])
      BY <1>1, <2>2 DEF RowsInv, ItemHasItsField
    <3>2. i # None
      <4>1. i \in ItemIds
        BY <1>1 DEF RowsInv, TypeOK, IsTable
      <4>2. i \in FieldIds
        BY <2>2, <4>1, ParametersAreTyped DEF ItemIds, FieldIds, Positions
      <4> QED
        BY <4>2, NoneIsNoRow
    <3> QED
      BY <1>1, <3>1, <3>2 DEF RowsInv, ItemHasItsField
  <2> QED
    BY <2>1, <2>2 DEF LowConfidenceIsQueued, LowConfidence
<1>2. DeskInv => LowConfidenceIsQueued
  BY <1>1 DEF DeskInv
<1> QED
  BY <1>2, DeskStands, PTL

\* FR-005, review_queue.py:65-68: a team that lists its pending work is shown an item for
\* every undecided field of low confidence in its documents, in every state in which
\* runs, reviews, seeds and uploads can leave the tables.
THEOREM ListsShowWhatIsDue == DeskSpec => []QueueShowsWhatIsDue
<1>1. DeskInv => QueueShowsWhatIsDue
  BY DEF DeskInv
<1> QED
  BY <1>1, DeskStands, PTL

\* demo_seed.py:262-283: of an upload answered with 502 no row is stored; of one answered
\* with 500, none or every row that its swallowed message names; of one answered, every.
THEOREM UploadsAreWholeOrAbsent == DeskSpec => []UploadIsWholeOrAbsent
<1>1. UploadInv => UploadIsWholeOrAbsent
  BY DEF UploadInv
<1> QED
  BY <1>1, UploadsStand, PTL

=============================================================================
