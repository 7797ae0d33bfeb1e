------------------------- MODULE LeaseRecordsProofs -------------------------
(* Proofs about LeaseRecords, for any number of sessions, runs and answers. *)
EXTENDS LeaseRecordsInductive, TLAPS

-----------------------------------------------------------------------------
\* What publishing a message does to the bag of those handed over.
LEMMA Publishing ==
  ASSUME NEW bag, NEW message
  PROVE  BagToSet(bag (+) SetToBag({message})) = BagToSet(bag) \cup {message}
  BY DEF (+), SetToBag, BagToSet

-----------------------------------------------------------------------------
(* What a flush does to a table *)

LEMMA FlushedDomain ==
  ASSUME NEW table, NEW writes
  PROVE  DOMAIN Flushed(table, writes) = DOMAIN table \cup DOMAIN writes
  BY DEF Flushed

LEMMA FlushedRow ==
  ASSUME NEW table, NEW writes, NEW id \in DOMAIN table \cup DOMAIN writes
  PROVE  /\ id \notin DOMAIN writes => Flushed(table, writes)[id] = table[id]
         /\ id \in DOMAIN writes /\ id \notin DOMAIN table
              => Flushed(table, writes)[id] = writes[id].edited
         /\ id \in DOMAIN writes /\ id \in DOMAIN table
              => Flushed(table, writes)[id] = Merged(table[id], writes[id])
  BY DEF Flushed

\* Column by column, and the row keeps its type.
LEMMA MergedDocument ==
  ASSUME NEW row \in DocumentRow, NEW write \in [loaded : DocumentRow, edited : DocumentRow]
  PROVE  /\ Merged(row, write) \in DocumentRow
         /\ Merged(row, write).allowed = IF write.edited.allowed = write.loaded.allowed
                                           THEN row.allowed ELSE write.edited.allowed
  BY DEF Merged, DocumentRow

LEMMA MergedRun ==
  ASSUME NEW row \in RunRow, NEW write \in [loaded : RunRow, edited : RunRow]
  PROVE  Merged(row, write) \in RunRow
  BY DEF Merged, RunRow

LEMMA MergedField ==
  ASSUME NEW row \in FieldRow, NEW write \in [loaded : FieldRow, edited : FieldRow]
  PROVE  /\ Merged(row, write) \in FieldRow
         /\ Merged(row, write).doc = IF write.edited.doc = write.loaded.doc
                                       THEN row.doc ELSE write.edited.doc
         /\ Merged(row, write).type = IF write.edited.type = write.loaded.type
                                        THEN row.type ELSE write.edited.type
         /\ Merged(row, write).confidence =
              IF write.edited.confidence = write.loaded.confidence
                THEN row.confidence ELSE write.edited.confidence
         /\ Merged(row, write).status = IF write.edited.status = write.loaded.status
                                          THEN row.status ELSE write.edited.status
         /\ Merged(row, write).by = IF write.edited.by = write.loaded.by
                                      THEN row.by ELSE write.edited.by
  BY DEF Merged, FieldRow

LEMMA MergedItem ==
  ASSUME NEW row \in ItemRow, NEW write \in [loaded : ItemRow, edited : ItemRow]
  PROVE  /\ Merged(row, write) \in ItemRow
         /\ Merged(row, write).doc = IF write.edited.doc = write.loaded.doc
                                       THEN row.doc ELSE write.edited.doc
         /\ Merged(row, write).field = IF write.edited.field = write.loaded.field
                                         THEN row.field ELSE write.edited.field
         /\ Merged(row, write).allowed = IF write.edited.allowed = write.loaded.allowed
                                           THEN row.allowed ELSE write.edited.allowed
         /\ Merged(row, write).status = IF write.edited.status = write.loaded.status
                                          THEN row.status ELSE write.edited.status
  BY DEF Merged, ItemRow

LEMMA FlushedIsTable ==
  ASSUME NEW table, NEW writes, NEW Ids, NEW Row,
         IsTable(table, Ids, Row),
         AreWrites(writes, Ids, Row),
         \A row \in Row, write \in [loaded : Row, edited : Row] : Merged(row, write) \in Row
  PROVE  IsTable(Flushed(table, writes), Ids, Row)
  <1>1. DOMAIN Flushed(table, writes) \subseteq Ids
    <2>1. DOMAIN table \subseteq Ids
      BY DEF IsTable
    <2>2. DOMAIN writes \subseteq Ids
      BY DEF IsTable, AreWrites
    <2>3. QED
      BY <2>1, <2>2, FlushedDomain
  <1>2. ASSUME NEW id \in DOMAIN Flushed(table, writes)
        PROVE  Flushed(table, writes)[id] \in Row
    <2>1. id \in DOMAIN table \cup DOMAIN writes
      BY FlushedDomain
    <2>2. CASE id \notin DOMAIN writes
      <3>1. Flushed(table, writes)[id] = table[id]
        BY <2>1, <2>2, FlushedRow
      <3>2. QED
        BY <3>1, <2>1, <2>2 DEF IsTable
    <2>3. ASSUME id \in DOMAIN writes
          PROVE  writes[id] \in [loaded : Row, edited : Row]
      BY <2>3 DEF AreWrites, IsTable
    <2>4. CASE id \in DOMAIN writes /\ id \notin DOMAIN table
      <3>1. Flushed(table, writes)[id] = writes[id].edited
        BY <2>1, <2>4, FlushedRow
      <3>2. QED
        BY <3>1, <2>3, <2>4
    <2>5. CASE id \in DOMAIN writes /\ id \in DOMAIN table
      <3>1. Flushed(table, writes)[id] = Merged(table[id], writes[id])
        BY <2>1, <2>5, FlushedRow
      <3>2. table[id] \in Row
        BY <2>5 DEF IsTable
      <3>3. QED
        BY <3>1, <3>2, <2>3, <2>5
    <2>6. QED
      BY <2>2, <2>4, <2>5
  <1>3. QED
    BY <1>1, <1>2 DEF IsTable

LEMMA FlushedTables ==
  ASSUME NEW s \in Sessions, TypeOK, CommitState(sess[s])
  PROVE  /\ IsTable(Flushed(docs, sess[s].docs), Runs, DocumentRow)
         /\ IsTable(Flushed(runs, sess[s].runs), Runs, RunRow)
         /\ IsTable(Flushed(fields, sess[s].fields), FieldIds, FieldRow)
         /\ IsTable(Flushed(items, sess[s].items), ItemIds, ItemRow)
  <1>1. IsTable(Flushed(docs, sess[s].docs), Runs, DocumentRow)
    BY FlushedIsTable, MergedDocument, Zenon DEF TypeOK, CommitState
  <1>2. IsTable(Flushed(runs, sess[s].runs), Runs, RunRow)
    BY FlushedIsTable, MergedRun, Zenon DEF TypeOK, CommitState
  <1>3. IsTable(Flushed(fields, sess[s].fields), FieldIds, FieldRow)
    BY FlushedIsTable, MergedField, Zenon DEF TypeOK, CommitState
  <1>4. IsTable(Flushed(items, sess[s].items), ItemIds, ItemRow)
    BY FlushedIsTable, MergedItem, Zenon DEF TypeOK, CommitState
  <1>5. QED
    BY <1>1, <1>2, <1>3, <1>4

-----------------------------------------------------------------------------
(* A step of one session that writes no table *)

LEMMA InitInvariant == Init => IInv
  BY DEF Init, IInv, TypeOK, IsTable, Nothing, SessionState, Idle, RunsAreDrawnOnce, Drawn,
         SessionStands, ResolvedItemIsBacked, EmptyBag, SetToBag, BagToSet

\* It keeps the invariant if what the session holds afterwards stands, and if a run
\* it then has in hand was its own before or has just been drawn.
LEMMA SessionStep ==
  ASSUME IInv, NEW s \in Sessions, NEW next,
         UNCHANGED tables,
         sess' = [sess EXCEPT ![s] = next],
         started \subseteq started', started' \subseteq Runs,
         \A e \in BagToSet(events') \ BagToSet(events) :
           /\ e.run \in started' /\ e.doc \in Runs
           /\ e.fields \subseteq FieldIds /\ e.items \subseteq ItemIds,
         SessionState(next),
         SessionStands(next),
         Drawn(next) \subseteq Drawn(sess[s]) \cup (started' \ started)
  PROVE  IInv'
  <1>1. DOMAIN sess = Sessions
    BY DEF IInv
  <1>2. sess'[s] = next /\ \A t \in Sessions : t # s => sess'[t] = sess[t]
    BY <1>1
  <1>3. sess' = [t \in Sessions |-> sess'[t]]
    BY <1>1
  <1>4. TypeOK'
    <2>1. \A t \in Sessions : SessionState(sess'[t])
      BY <1>2 DEF IInv, TypeOK
    <2>2. \A e \in BagToSet(events') : MessageState(e)'
      BY DEF IInv, TypeOK, MessageState
    <2>3. QED
      BY <2>1, <2>2 DEF IInv, TypeOK, tables, IsTable
  <1>5. RunsAreDrawnOnce'
    <2>1. RunsAreDrawnOnce /\ runs' = runs
      BY DEF IInv, tables
    <2>2. DOMAIN runs' \subseteq started'
      BY <2>1 DEF RunsAreDrawnOnce
    <2>3. \A t \in Sessions : Drawn(sess'[t]) \subseteq started' \ DOMAIN runs'
      BY <2>1, <1>2 DEF RunsAreDrawnOnce
    <2>4. \A t, u \in Sessions : t # u => Drawn(sess'[t]) \cap Drawn(sess'[u]) = {}
      BY <2>1, <1>2 DEF RunsAreDrawnOnce
    <2>5. QED
      BY <2>2, <2>3, <2>4 DEF RunsAreDrawnOnce, Drawn
  <1>6. ASSUME NEW t \in Sessions
        PROVE  SessionStands(sess[t])'
    <2>1. SessionStands(sess'[t])
      BY <1>2 DEF IInv
    <2>2. ASSUME sess'[t].op = "resolve"
          PROVE  LoadedItemStands(sess[t])'
      BY <2>1, <2>2 DEF SessionStands, LoadedItemStands, AskedBy, tables
    <2>3. ASSUME sess'[t].op = "commit", NEW f \in DOMAIN sess'[t].fields
          PROVE  FieldWriteStands(sess[t], f)'
      BY <2>1, <2>3 DEF SessionStands, FieldWriteStands, DocumentOf, Decided, LowConfidence, tables
    <2>4. ASSUME sess'[t].op = "commit", NEW i \in DOMAIN sess'[t].items
          PROVE  ItemWriteStands(sess[t], i)'
      <3>1. ItemWriteStands(sess'[t], i)
        BY <2>1, <2>4 DEF SessionStands
      <3>2. ResolutionStands(sess'[t], i) => ResolutionStands(sess[t], i)'
        BY DEF ResolutionStands, Decided, tables
      <3>3. DocumentOf(sess'[t], i[1]) = DocumentOf(sess[t], i[1])'
        BY DEF DocumentOf, tables
      <3>4. QED
        BY <3>1, <3>2, <3>3 DEF ItemWriteStands, AskedBy, tables
    <2>5. QED
      BY <2>2, <2>3, <2>4 DEF SessionStands
  <1>7. /\ (\A f \in DOMAIN fields : FieldStands(f))'
        /\ (\A i \in DOMAIN items : ItemStands(i))'
        /\ ResolvedItemIsBacked'
    BY DEF IInv, tables, FieldStands, ItemStands, ResolvedItemIsBacked
  <1>8. QED
    BY <1>3, <1>4, <1>5, <1>6, <1>7 DEF IInv

-----------------------------------------------------------------------------
(* The pipeline's steps *)

LEMMA HandleStep ==
  ASSUME IInv, NEW s \in Sessions, Handle(s)
  PROVE  IInv'
  <1>1. PICK run \in Runs \ started, allowed \in SUBSET Teams :
          /\ started' = started \cup {run}
          /\ sess' = [sess EXCEPT ![s] =
               [op |-> "pipeline", run |-> run, doc |-> run, verified |-> Nothing,
                loaded |-> [allowed |-> allowed, status |-> "PROCESSING",
                            confidence |-> None]]]
    BY DEF Handle
  <1> DEFINE next == [op |-> "pipeline", run |-> run, doc |-> run, verified |-> Nothing,
                      loaded |-> [allowed |-> allowed, status |-> "PROCESSING",
                                  confidence |-> None]]
  <1>2. SessionState(next)
    BY DEF SessionState, PipelineState, DocumentRow, Nothing
  <1>3. SessionStands(next)
    BY DEF SessionStands
  <1>4. Drawn(next) \subseteq started' \ started
    BY <1>1 DEF Drawn
  <1>5. UNCHANGED tables /\ events' = events /\ started' \subseteq Runs
    BY <1>1 DEF Handle, IInv, TypeOK
  <1> HIDE DEF next
  <1>6. QED
    BY <1>1, <1>2, <1>3, <1>4, <1>5, SessionStep DEF next

LEMMA ReprocessStep ==
  ASSUME IInv, NEW s \in Sessions, Reprocess(s)
  PROVE  IInv'
  <1>1. PICK run \in Runs \ started, doc \in DOMAIN docs :
        \E verified \in VerifiedByType(doc) :
          /\ started' = started \cup {run}
          /\ sess' = [sess EXCEPT ![s] =
               [op |-> "pipeline", run |-> run, doc |-> doc, verified |-> verified,
                loaded |-> docs[doc]]]
    BY DEF Reprocess
  <1>2. PICK verified \in VerifiedByType(doc) :
          /\ started' = started \cup {run}
          /\ sess' = [sess EXCEPT ![s] =
               [op |-> "pipeline", run |-> run, doc |-> doc, verified |-> verified,
                loaded |-> docs[doc]]]
    BY <1>1
  <1> DEFINE next == [op |-> "pipeline", run |-> run, doc |-> doc, verified |-> verified,
                      loaded |-> docs[doc]]
  <1>3. DOMAIN verified \subseteq FieldTypes /\ \A t \in DOMAIN verified : verified[t] \in FieldIds
    <2>1. \A f \in DOMAIN fields : f \in FieldIds /\ fields[f].type \in FieldTypes
      BY DEF IInv, TypeOK, IsTable, FieldRow
    <2>2. QED
      BY <2>1 DEF VerifiedByType
  <1>4. SessionState(next)
    <2>1. doc \in Runs /\ docs[doc] \in DocumentRow
      BY DEF IInv, TypeOK, IsTable
    <2>2. QED
      BY <1>3, <2>1 DEF SessionState, PipelineState
  <1>5. SessionStands(next)
    BY DEF SessionStands
  <1>6. Drawn(next) \subseteq started' \ started
    BY <1>2 DEF Drawn
  <1>7. UNCHANGED tables /\ events' = events /\ started' \subseteq Runs
    BY <1>1 DEF Reprocess, IInv, TypeOK
  <1> HIDE DEF next
  <1>8. QED
    BY <1>2, <1>4, <1>5, <1>6, <1>7, SessionStep DEF next

\* What a pipeline hands to its commit.
CompletedWork(p, status, confidence, newFields, newItems) ==
  Work(Single(p.doc, Update(p.loaded, [p.loaded EXCEPT !.status = status,
                                                      !.confidence = confidence])),
       Single(p.run, Insert([doc |-> p.doc, status |-> "COMPLETE"])),
       newFields, newItems)

\* It is typed when its fields and items are.
LEMMA PipelineWork ==
  ASSUME NEW p, PipelineState(p),
         NEW status \in {"COMPLETE", "EXCLUDED_LOW_QUALITY"}, NEW confidence \in 0..100,
         NEW newFields, NEW newItems,
         AreWrites(newFields, FieldIds, FieldRow), AreWrites(newItems, ItemIds, ItemRow)
  PROVE  SessionState(CompletedWork(p, status, confidence, newFields, newItems))
  <1> DEFINE row == [p.loaded EXCEPT !.status = status, !.confidence = confidence]
             run == Single(p.run, Insert([doc |-> p.doc, status |-> "COMPLETE"]))
  <1>1. AreWrites(Single(p.doc, Update(p.loaded, row)), Runs, DocumentRow)
    <2>1. p.loaded \in DocumentRow /\ p.doc \in Runs
      BY DEF PipelineState
    <2>2. row \in DocumentRow
      BY <2>1 DEF DocumentRow
    <2> HIDE DEF row
    <2>3. QED
      BY <2>1, <2>2 DEF AreWrites, IsTable, Single, Update
  <1>2. AreWrites(run, Runs, RunRow)
    BY DEF AreWrites, IsTable, Single, Insert, Update, PipelineState, RunRow
  <1>3. QED
    BY <1>1, <1>2 DEF SessionState, CommitState, Work, CompletedWork

\* What a run leaves to its commit: rows of its own key and its own document.
LEMMA CompleteStep ==
  ASSUME IInv, NEW s \in Sessions, sess[s].op = "pipeline",
         NEW status \in {"COMPLETE", "EXCLUDED_LOW_QUALITY"}, NEW confidence \in OcrConfidences,
         NEW newFields, NEW kept, NEW newItems,
         Complete(s, status, confidence, newFields, kept, newItems),
         AreWrites(newFields, FieldIds, FieldRow),
         AreWrites(newItems, ItemIds, ItemRow),
         kept \subseteq FieldIds,
         \A f \in DOMAIN newFields :
           /\ f[1] = sess[s].run /\ f[2] \notin Sessions
           /\ newFields[f].edited = newFields[f].loaded
           /\ newFields[f].edited.doc = sess[s].doc
           /\ LowConfidence(newFields[f].edited) <=> f \in DOMAIN newItems,
         \A i \in DOMAIN newItems :
           /\ i[1] = sess[s].run
           /\ newItems[i].edited = newItems[i].loaded
           /\ newItems[i].edited.doc = sess[s].doc
           /\ newItems[i].edited.status = "PENDING"
           /\ newItems[i].edited.field = AskedBy(i)
           /\ i[2] # 0 => i \in DOMAIN newFields
  PROVE  IInv'
  <1> DEFINE p == sess[s]
             row == [p.loaded EXCEPT !.status = status, !.confidence = confidence]
             run == Single(p.run, Insert([doc |-> p.doc, status |-> "COMPLETE"]))
             next == Work(Single(p.doc, Update(p.loaded, row)), run, newFields, newItems)
             message == [run |-> p.run, doc |-> p.doc, status |-> "COMPLETE",
                         fields |-> DOMAIN newFields \cup kept, items |-> DOMAIN newItems]
  <1>1. /\ events' = events (+) SetToBag({message})
        /\ sess' = [sess EXCEPT ![s] = next]
        /\ UNCHANGED <<tables, started>>
    BY DEF Complete
  <1>2. PipelineState(p) /\ started \subseteq Runs
    BY DEF IInv, TypeOK, SessionState, Idle
  <1>3. p.run \in started
    BY DEF IInv, RunsAreDrawnOnce, Drawn
  <1>4. /\ message.run \in started' /\ message.doc \in Runs
        /\ message.fields \subseteq FieldIds /\ message.items \subseteq ItemIds
    <2>1. DOMAIN newFields \subseteq FieldIds /\ DOMAIN newItems \subseteq ItemIds
      BY DEF AreWrites, IsTable
    <2>2. QED
      BY <1>1, <1>2, <1>3, <2>1 DEF PipelineState
  <1>7. SessionState(next)
    BY <1>2, PipelineWork, ParametersAreTyped DEF CompletedWork
  <1>8. DOMAIN run = {p.run} /\ run[p.run].edited.doc = p.doc
    BY DEF Single, Insert, Update
  <1>9. SessionStands(next)
    <2>1. next.fields = newFields /\ next.items = newItems /\ next.runs = run /\ next.op = "commit"
      BY DEF Work
    <2> HIDE DEF next, run
    <2>2. \A f \in DOMAIN newFields : FieldWriteStands(next, f)
      BY <2>1, <1>8 DEF FieldWriteStands, DocumentOf
    <2>3. \A i \in DOMAIN newItems : ItemWriteStands(next, i)
      BY <2>1, <1>8 DEF ItemWriteStands, DocumentOf, AskedBy
    <2>4. QED
      BY <2>1, <2>2, <2>3 DEF SessionStands
  <1>10. Drawn(next) \subseteq Drawn(sess[s])
    BY <1>8 DEF Drawn, Work
  <1> HIDE DEF next, message
  <1>11. BagToSet(events') = BagToSet(events) \cup {message}
    BY <1>1, Publishing
  <1>12. QED
    BY <1>1, <1>2, <1>4, <1>7, <1>9, <1>10, <1>11, SessionStep

LEMMA ExcludeStep ==
  ASSUME IInv, NEW s \in Sessions, Exclude(s)
  PROVE  IInv'
  <1> DEFINE p == sess[s]
             item == QueueItem(p.doc, None, p.loaded.allowed)
             newItems == Single(<<p.run, 0>>, Insert(item))
  <1>1. PICK confidence \in OcrConfidences :
          Complete(s, "EXCLUDED_LOW_QUALITY", confidence, Nothing, {}, newItems)
    BY DEF Exclude
  <1>2. p.op = "pipeline" /\ PipelineState(p)
    BY DEF Exclude, IInv, TypeOK, SessionState, Idle
  <1>3. item \in ItemRow
    BY <1>2 DEF QueueItem, ItemRow, PipelineState, DocumentRow
  <1>4. AreWrites(newItems, ItemIds, ItemRow)
    BY <1>2, <1>3, ParametersAreTyped
    DEF AreWrites, IsTable, Single, Insert, Update, ItemIds, PipelineState
  <1>5. AreWrites(Nothing, FieldIds, FieldRow) /\ DOMAIN Nothing = {}
    BY DEF AreWrites, IsTable, Nothing
  <1>6. \A i \in DOMAIN newItems :
           /\ i[1] = p.run /\ i[2] = 0
           /\ newItems[i].edited = newItems[i].loaded
           /\ newItems[i].edited.doc = p.doc
           /\ newItems[i].edited.status = "PENDING"
           /\ newItems[i].edited.field = None
    BY DEF Single, Insert, Update, QueueItem
  <1> HIDE DEF newItems
  <1>7. QED
    BY <1>1, <1>2, <1>4, <1>5, <1>6, CompleteStep DEF AskedBy

LEMMA QueuedIffLow ==
  ASSUME NEW doc, NEW result \in Result
  PROVE  LowConfidence(Extracted(doc, result)) <=> ~ShouldAutoPopulate(result)
  <1>1. result.confidence \in 0..100 /\ Threshold[result.type] \in 0..100
    BY ParametersAreTyped DEF Result
  <1>2. result.confidence < Threshold[result.type] <=> ~(result.confidence >= Threshold[result.type])
    <2>1. \A a, b \in 0..100 : a < b <=> ~(a >= b)
      OBVIOUS
    <2>2. QED
      BY <1>1, <2>1, Zenon
  <1>3. LowConfidence(Extracted(doc, result)) <=> result.confidence < Threshold[result.type]
    BY DEF LowConfidence, Extracted
  <1>4. QED
    BY <1>2, <1>3 DEF ShouldAutoPopulate

\* The rows Extract writes for the answers it got, and the fields it keeps.
FreshAnswers(p, n, results) == {k \in 1..n : results[k].type \notin DOMAIN p.verified}

FieldsOf(p, n, results) ==
  [id \in {p.run} \X FreshAnswers(p, n, results) |-> Insert(Extracted(p.doc, results[id[2]]))]

ItemsOf(p, n, results) ==
  [id \in {p.run} \X {k \in FreshAnswers(p, n, results) : ~ShouldAutoPopulate(results[k])} |->
     Insert(QueueItem(p.doc, id, p.loaded.allowed))]

KeptOf(p, n, results) ==
  {p.verified[results[k].type] : k \in (1..n) \ FreshAnswers(p, n, results)}

LEMMA ExtractCompletes ==
  ASSUME NEW s \in Sessions, Extract(s)
  PROVE  \E confidence \in OcrConfidences, n \in 0..MaxResults :
         \E results \in [1..n -> Result] :
           /\ ~BelowQualityFloor(confidence)
           /\ Complete(s, "COMPLETE", confidence, FieldsOf(sess[s], n, results),
                       KeptOf(sess[s], n, results), ItemsOf(sess[s], n, results))
  BY DEF Extract, FieldsOf, KeptOf, ItemsOf, FreshAnswers

LEMMA ExtractedRows ==
  ASSUME NEW p, PipelineState(p), NEW n \in 0..MaxResults, NEW results \in [1..n -> Result]
  PROVE  /\ AreWrites(FieldsOf(p, n, results), FieldIds, FieldRow)
         /\ AreWrites(ItemsOf(p, n, results), ItemIds, ItemRow)
         /\ KeptOf(p, n, results) \subseteq FieldIds
         /\ \A f \in DOMAIN FieldsOf(p, n, results) :
              LET x == FieldsOf(p, n, results)[f]
              IN  /\ f[1] = p.run /\ f[2] \notin Sessions
                  /\ x.edited = x.loaded /\ x.edited.doc = p.doc
                  /\ LowConfidence(x.edited) <=> f \in DOMAIN ItemsOf(p, n, results)
         /\ \A i \in DOMAIN ItemsOf(p, n, results) :
              LET y == ItemsOf(p, n, results)[i]
              IN  /\ i[1] = p.run /\ i[2] # 0
                  /\ y.edited = y.loaded /\ y.edited.doc = p.doc
                  /\ y.edited.status = "PENDING" /\ y.edited.field = AskedBy(i)
                  /\ i \in DOMAIN FieldsOf(p, n, results)
  <1> DEFINE fresh == FreshAnswers(p, n, results)
             low == {k \in fresh : ~ShouldAutoPopulate(results[k])}
             newFields == FieldsOf(p, n, results)
             newItems == ItemsOf(p, n, results)
             kept == KeptOf(p, n, results)
  <1> USE DEF FreshAnswers, FieldsOf, ItemsOf, KeptOf
  <1>1. \A k \in 1..n : /\ k \in Positions /\ k \in 0..MaxResults /\ k # 0
                       /\ k \notin Sessions /\ results[k] \in Result
    BY SessionsAreNotPositions, ParametersAreTyped DEF Positions
  <1>2. fresh \subseteq 1..n /\ low \subseteq fresh
    OBVIOUS
  <1>3. AreWrites(newFields, FieldIds, FieldRow)
    <2>1. ASSUME NEW k \in 1..n
          PROVE  Extracted(p.doc, results[k]) \in FieldRow
      BY <1>1, ParametersAreTyped DEF Extracted, FieldRow, Result, PipelineState
    <2>2. ASSUME NEW id \in {p.run} \X fresh
          PROVE  id \in FieldIds /\ id[2] \in 1..n
      BY <1>1, <1>2 DEF FieldIds, PipelineState
    <2>3. QED
      BY <2>1, <2>2 DEF AreWrites, IsTable, Insert, Update
  <1>4. AreWrites(newItems, ItemIds, ItemRow)
    <2>1. ASSUME NEW id \in {p.run} \X low
          PROVE  id \in ItemIds /\ id \in FieldIds
      BY <1>1, <1>2 DEF ItemIds, FieldIds, PipelineState
    <2>2. ASSUME NEW id \in {p.run} \X low
          PROVE  QueueItem(p.doc, id, p.loaded.allowed) \in ItemRow
      BY <2>1 DEF QueueItem, ItemRow, PipelineState, DocumentRow
    <2>3. QED
      BY <2>1, <2>2 DEF AreWrites, IsTable, Insert, Update
  <1>5. kept \subseteq FieldIds
    BY <1>1 DEF PipelineState
  <1>6. ASSUME NEW f \in DOMAIN newFields
        PROVE  /\ f[1] = p.run /\ f[2] \notin Sessions
               /\ newFields[f].edited = newFields[f].loaded
               /\ newFields[f].edited.doc = p.doc
               /\ LowConfidence(newFields[f].edited) <=> f \in DOMAIN newItems
    <2>1. /\ f = <<p.run, f[2]>> /\ f[2] \in fresh
          /\ newFields[f] = Insert(Extracted(p.doc, results[f[2]]))
      OBVIOUS
    <2>2. LowConfidence(Extracted(p.doc, results[f[2]])) <=> ~ShouldAutoPopulate(results[f[2]])
      <3>1. results[f[2]] \in Result
        BY <2>1, <1>1, <1>2
      <3>2. QED
        BY <3>1, QueuedIffLow, Zenon
    <2>3. f \in DOMAIN newItems <=> f[2] \in low
      BY <2>1
    <2>4. QED
      BY <2>1, <2>2, <2>3, <1>1, <1>2 DEF Insert, Update, Extracted
  <1>7. ASSUME NEW i \in DOMAIN newItems
         PROVE  /\ i[1] = p.run /\ i[2] # 0
                /\ newItems[i].edited = newItems[i].loaded
                /\ newItems[i].edited.doc = p.doc
                /\ newItems[i].edited.status = "PENDING"
                /\ newItems[i].edited.field = AskedBy(i)
                /\ i \in DOMAIN newFields
    <2>1. /\ i = <<p.run, i[2]>> /\ i[2] \in low
          /\ newItems[i] = Insert(QueueItem(p.doc, i, p.loaded.allowed))
      OBVIOUS
    <2>2. QED
      BY <2>1, <1>1, <1>2 DEF Insert, Update, QueueItem, AskedBy
  <1> HIDE DEF newFields, newItems, kept, FieldsOf, ItemsOf, KeptOf
  <1>8. QED
    BY <1>3, <1>4, <1>5, <1>6, <1>7 DEF newFields, newItems, kept

LEMMA ExtractStep ==
  ASSUME IInv, NEW s \in Sessions, Extract(s)
  PROVE  IInv'
  <1> DEFINE p == sess[s]
  <1>1. PICK confidence \in OcrConfidences, n \in 0..MaxResults :
        \E results \in [1..n -> Result] :
          Complete(s, "COMPLETE", confidence, FieldsOf(p, n, results), KeptOf(p, n, results),
                   ItemsOf(p, n, results))
    BY ExtractCompletes
  <1>2. PICK results \in [1..n -> Result] :
          Complete(s, "COMPLETE", confidence, FieldsOf(p, n, results), KeptOf(p, n, results),
                   ItemsOf(p, n, results))
    BY <1>1
  <1>3. p.op = "pipeline" /\ PipelineState(p)
    BY DEF Extract, IInv, TypeOK, SessionState, Idle
  <1>4. QED
    BY <1>2, <1>3, ExtractedRows, CompleteStep

\* PipelineFails and SessionLost: the session ends and leaves nothing.
LEMMA DropStep ==
  ASSUME IInv, NEW s \in Sessions, sess' = [sess EXCEPT ![s] = Idle],
         UNCHANGED <<tables, events, started>>
  PROVE  IInv'
  <1>1. SessionState(Idle) /\ SessionStands(Idle) /\ Drawn(Idle) = {}
    BY DEF SessionState, SessionStands, Drawn, Idle
  <1>2. started' \subseteq Runs
    BY DEF IInv, TypeOK
  <1>3. QED
    BY <1>1, <1>2, SessionStep

-----------------------------------------------------------------------------
(* The endpoints' steps *)

LEMMA AppliedVerification ==
  ASSUME NEW field \in FieldRow, NEW user \in Users, NEW override \in Values \cup {None}
  PROVE  LET applied == ApplyVerification(field, user, override)
         IN  /\ applied \in FieldRow
             /\ Decided(applied) /\ applied.by = user
             /\ applied.doc = field.doc /\ applied.type = field.type
             /\ applied.confidence = field.confidence
  BY DEF ApplyVerification, FieldRow, Decided

\* A session that decides a committed field and, if it resolves an item, closes it.
LEMMA DecisionStands ==
  ASSUME IInv, NEW f \in DOMAIN fields, NEW user \in Users,
         NEW override \in Values \cup {None}, NEW itemWrites,
         ~IsTerminal(fields[f]),
         AreWrites(itemWrites, ItemIds, ItemRow)
  PROVE  LET w == Work(Nothing, Nothing,
                       Single(f, Update(fields[f], ApplyVerification(fields[f], user, override))),
                       itemWrites)
         IN  /\ SessionState(w) /\ Drawn(w) = {}
             /\ FieldWriteStands(w, f) /\ w.fields[f].loaded.status = "UNVERIFIED"
             /\ Decided(w.fields[f].edited)
  <1> DEFINE applied == ApplyVerification(fields[f], user, override)
             fieldWrites == Single(f, Update(fields[f], applied))
             w == Work(Nothing, Nothing, fieldWrites, itemWrites)
  <1>1. f \in FieldIds /\ fields[f] \in FieldRow
    BY DEF IInv, TypeOK, IsTable
  <1>2. /\ applied \in FieldRow /\ Decided(applied) /\ applied.doc = fields[f].doc
        /\ applied.type = fields[f].type /\ applied.confidence = fields[f].confidence
    BY <1>1, AppliedVerification
  <1>3. f[1] \in DOMAIN runs /\ fields[f].doc = runs[f[1]].doc
    BY DEF IInv, FieldStands
  <1>4. fields[f].status = "UNVERIFIED"
    BY DEF IsTerminal
  <1> HIDE DEF applied
  <1>5. AreWrites(fieldWrites, FieldIds, FieldRow)
    BY <1>1, <1>2 DEF AreWrites, IsTable, Single, Update
  <1>6. AreWrites(Nothing, Runs, DocumentRow) /\ AreWrites(Nothing, Runs, RunRow)
    BY DEF AreWrites, IsTable, Nothing
  <1>7. DOMAIN Nothing = {}
    BY DEF Nothing
  <1>8. /\ DOMAIN fieldWrites = {f} /\ fieldWrites[f].loaded = fields[f]
        /\ fieldWrites[f].edited = applied
    BY DEF Single, Update
  <1>9. /\ w.op = "commit" /\ w.docs = Nothing /\ w.runs = Nothing
        /\ w.fields = fieldWrites /\ w.items = itemWrites
    BY DEF Work
  <1> HIDE DEF w, fieldWrites
  <1>10. SessionState(w)
    BY <1>5, <1>6, <1>9 DEF SessionState, CommitState
  <1>11. Drawn(w) = {}
    BY <1>7, <1>9 DEF Drawn
  <1>12. FieldWriteStands(w, f)
    BY <1>2, <1>3, <1>4, <1>7, <1>8, <1>9 DEF FieldWriteStands, DocumentOf
  <1>13. QED
    BY <1>2, <1>4, <1>8, <1>9, <1>10, <1>11, <1>12 DEF w, fieldWrites, applied

LEMMA VerifyStep ==
  ASSUME IInv, NEW s \in Sessions, Verify(s)
  PROVE  IInv'
  <1>1. PICK user \in Users, f \in DOMAIN fields, override \in Values \cup {None} :
          /\ ~IsTerminal(fields[f])
          /\ sess' = [sess EXCEPT ![s] =
               Work(Nothing, Nothing,
                    Single(f, Update(fields[f], ApplyVerification(fields[f], user, override))),
                    Nothing)]
    BY DEF Verify
  <1> DEFINE next == Work(Nothing, Nothing,
                          Single(f, Update(fields[f], ApplyVerification(fields[f], user, override))),
                          Nothing)
  <1>2. AreWrites(Nothing, ItemIds, ItemRow)
    BY DEF AreWrites, IsTable, Nothing
  <1>3. SessionState(next) /\ Drawn(next) = {} /\ FieldWriteStands(next, f)
    BY <1>1, <1>2, DecisionStands
  <1>4. /\ next.op = "commit" /\ DOMAIN next.fields = {f} /\ DOMAIN next.items = {}
    BY DEF Work, Single, Nothing
  <1>5. UNCHANGED <<tables, events, started>> /\ started \subseteq Runs
    BY DEF Verify, IInv, TypeOK
  <1> HIDE DEF next
  <1>6. SessionStands(next)
    BY <1>3, <1>4 DEF SessionStands
  <1>7. QED
    BY <1>1, <1>3, <1>5, <1>6, SessionStep DEF next

LEMMA ResolveLoadStep ==
  ASSUME IInv, NEW s \in Sessions, ResolveLoad(s)
  PROVE  IInv'
  <1>1. PICK user \in Users, i \in DOMAIN items :
          /\ items[i].status # "RESOLVED"
          /\ sess' = [sess EXCEPT ![s] =
               [op |-> "resolve", user |-> user, item |-> i, loaded |-> items[i]]]
    BY DEF ResolveLoad
  <1> DEFINE next == [op |-> "resolve", user |-> user, item |-> i, loaded |-> items[i]]
  <1>2. i \in ItemIds /\ items[i] \in ItemRow /\ ItemStands(i)
    BY DEF IInv, TypeOK, IsTable
  <1>3. items[i].status = "PENDING"
    BY <1>1, <1>2 DEF ItemRow
  <1>4. SessionState(next) /\ Drawn(next) = {}
    BY <1>2 DEF SessionState, ResolveState, Drawn
  <1>5. SessionStands(next)
    BY <1>2, <1>3 DEF SessionStands, LoadedItemStands, ItemStands
  <1>6. UNCHANGED <<tables, events, started>> /\ started \subseteq Runs
    BY DEF ResolveLoad, IInv, TypeOK
  <1> HIDE DEF next
  <1>7. QED
    BY <1>1, <1>4, <1>5, <1>6, SessionStep DEF next

\* What closes an item: the loaded copy, RESOLVED, and the field it now names.
LEMMA ResolvedItem ==
  ASSUME IInv, NEW s \in Sessions, sess[s].op = "resolve", NEW f \in FieldIds
  PROVE  LET r == sess[s]
             y == Update(r.loaded, Resolved(r.loaded, f))
         IN  /\ ResolveState(r) /\ LoadedItemStands(r) /\ ItemStands(r.item)
             /\ AreWrites(Single(r.item, y), ItemIds, ItemRow)
             /\ y.loaded = r.loaded /\ y.edited.status = "RESOLVED"
             /\ y.edited.field = f /\ y.edited.doc = r.loaded.doc
  <1> DEFINE r == sess[s]
             resolved == Resolved(r.loaded, f)
             y == Update(r.loaded, resolved)
  <1>1. ResolveState(r)
    BY DEF IInv, TypeOK, SessionState, Idle
  <1>2. LoadedItemStands(r)
    BY DEF IInv, SessionStands
  <1>3. ItemStands(r.item)
    BY <1>2 DEF IInv, LoadedItemStands
  <1>4. /\ resolved \in ItemRow /\ resolved.status = "RESOLVED"
        /\ resolved.field = f /\ resolved.doc = r.loaded.doc
    BY <1>1 DEF ResolveState, Resolved, ItemRow
  <1>5. AreWrites(Single(r.item, y), ItemIds, ItemRow)
    BY <1>1, <1>4 DEF AreWrites, IsTable, Single, Update, ResolveState
  <1>6. QED
    BY <1>1, <1>2, <1>3, <1>4, <1>5 DEF Update

LEMMA ResolveOverrideStep ==
  ASSUME IInv, NEW s \in Sessions, ResolveOverride(s)
  PROVE  IInv'
  <1> DEFINE r == sess[s]
             f == r.loaded.field
             y == Update(r.loaded, Resolved(r.loaded, f))
             next(value) ==
               Work(Nothing, Nothing,
                    Single(f, Update(fields[f], ApplyVerification(fields[f], r.user, value))),
                    Single(r.item, y))
  <1>1. CASE IsTerminal(fields[f])
    BY <1>1, DropStep DEF ResolveOverride
  <1>2. CASE ~IsTerminal(fields[f])
    <2>1. PICK value \in Values : sess' = [sess EXCEPT ![s] = next(value)]
      BY <1>2 DEF ResolveOverride
    <2>2. r.op = "resolve" /\ f # None /\ ResolveState(r) /\ LoadedItemStands(r)
      BY DEF ResolveOverride, IInv, TypeOK, SessionState, SessionStands, Idle
    <2>3. f = r.item /\ r.item[2] # 0 /\ r.item \in DOMAIN items /\ ItemStands(r.item)
      BY <2>2 DEF LoadedItemStands, AskedBy, IInv
    <2>4. f \in DOMAIN fields /\ f \in FieldIds
      BY <2>2, <2>3 DEF ItemStands, AskedBy, IInv, TypeOK, IsTable
    <2>5. /\ AreWrites(Single(r.item, y), ItemIds, ItemRow)
          /\ y.loaded = r.loaded /\ y.edited.status = "RESOLVED"
          /\ y.edited.field = f /\ y.edited.doc = r.loaded.doc
      BY <2>2, <2>4, ResolvedItem
    <2>6. /\ SessionState(next(value)) /\ Drawn(next(value)) = {}
          /\ FieldWriteStands(next(value), f)
          /\ next(value).fields[f].loaded.status = "UNVERIFIED"
          /\ Decided(next(value).fields[f].edited)
      BY <1>2, <2>2, <2>4, <2>5, DecisionStands DEF ResolveState
    <2>7. /\ next(value).op = "commit" /\ DOMAIN next(value).fields = {f}
          /\ DOMAIN next(value).items = {r.item} /\ next(value).items[r.item] = y
          /\ DOMAIN next(value).runs = {}
      BY DEF Work, Single, Nothing
    <2> HIDE DEF next, y
    <2>8. ItemWriteStands(next(value), r.item)
      BY <2>2, <2>3, <2>4, <2>5, <2>6, <2>7
      DEF ItemWriteStands, ResolutionStands, DocumentOf, LoadedItemStands, ItemStands
    <2>9. SessionStands(next(value))
      BY <2>6, <2>7, <2>8 DEF SessionStands
    <2>10. UNCHANGED <<tables, events, started>> /\ started \subseteq Runs
      BY DEF ResolveOverride, IInv, TypeOK
    <2>11. QED
      BY <2>1, <2>6, <2>9, <2>10, SessionStep
  <1>3. QED
    BY <1>1, <1>2

LEMMA ResolveEnterStep ==
  ASSUME IInv, NEW s \in Sessions, ResolveEnter(s)
  PROVE  IInv'
  <1> DEFINE r == sess[s]
             f == <<r.item[1], s>>
             y == Update(r.loaded, Resolved(r.loaded, f))
             entered(type, value) == HandEntered(r.loaded.doc, type, value, r.user)
             next(type, value) ==
               Work(Nothing, Nothing, Single(f, Insert(entered(type, value))), Single(r.item, y))
  <1>1. PICK type \in FieldTypes, value \in Values :
          sess' = [sess EXCEPT ![s] = next(type, value)]
    BY DEF ResolveEnter
  <1>2. r.op = "resolve" /\ r.loaded.field = None /\ ResolveState(r) /\ LoadedItemStands(r)
    BY DEF ResolveEnter, IInv, TypeOK, SessionState, SessionStands, Idle
  <1>3. f \in FieldIds /\ f[1] = r.item[1] /\ f[2] = s /\ f # None
    BY <1>2, NoneIsNoRow DEF ResolveState, ItemIds, FieldIds
  <1>4. r.item[2] = 0
    <2>1. r.item[2] # 0 => r.item \in FieldIds
      BY <1>2 DEF ResolveState, ItemIds, FieldIds, Positions
    <2>2. QED
      BY <1>2, <2>1, NoneIsNoRow DEF LoadedItemStands, AskedBy
  <1>5. /\ AreWrites(Single(r.item, y), ItemIds, ItemRow)
        /\ y.loaded = r.loaded /\ y.edited.status = "RESOLVED"
        /\ y.edited.field = f /\ y.edited.doc = r.loaded.doc
        /\ ItemStands(r.item)
    BY <1>2, <1>3, ResolvedItem
  <1>6. /\ entered(type, value) \in FieldRow /\ Decided(entered(type, value))
        /\ entered(type, value).doc = r.loaded.doc
    BY <1>2 DEF HandEntered, FieldRow, Decided, ResolveState, ItemRow
  <1>7. /\ next(type, value).op = "commit" /\ DOMAIN next(type, value).fields = {f}
        /\ next(type, value).fields[f] = Insert(entered(type, value))
        /\ DOMAIN next(type, value).items = {r.item} /\ next(type, value).items[r.item] = y
        /\ DOMAIN next(type, value).runs = {} /\ DOMAIN next(type, value).docs = {}
    BY DEF Work, Single, Nothing
  <1> HIDE DEF next, y, entered, f
  <1>8. SessionState(next(type, value))
    <2>1. AreWrites(next(type, value).fields, FieldIds, FieldRow)
      BY <1>3, <1>6, <1>7 DEF AreWrites, IsTable, Insert, Update
    <2>2. AreWrites(next(type, value).items, ItemIds, ItemRow)
      BY <1>5 DEF next, Work
    <2>3. QED
      BY <1>7, <2>1, <2>2 DEF SessionState, CommitState, AreWrites, IsTable
  <1>9. FieldWriteStands(next(type, value), f)
    BY <1>2, <1>3, <1>5, <1>6, <1>7
    DEF FieldWriteStands, DocumentOf, Insert, Update, LoadedItemStands, ItemStands
  <1>10. ItemWriteStands(next(type, value), r.item)
    BY <1>2, <1>3, <1>4, <1>5, <1>6, <1>7
    DEF ItemWriteStands, ResolutionStands, DocumentOf, Insert, Update, LoadedItemStands, ItemStands
  <1>11. SessionStands(next(type, value)) /\ Drawn(next(type, value)) = {}
    BY <1>7, <1>9, <1>10 DEF SessionStands, Drawn
  <1>12. UNCHANGED <<tables, events, started>> /\ started \subseteq Runs
    BY DEF ResolveEnter, IInv, TypeOK
  <1>13. QED
    BY <1>1, <1>8, <1>11, <1>12, SessionStep

-----------------------------------------------------------------------------
(* The commit.  Its lemmas are about the rows it leaves behind. *)

LEMMA CommitTyped ==
  ASSUME IInv, NEW s \in Sessions, Commit(s)
  PROVE  /\ sess[s].op = "commit" /\ CommitState(sess[s]) /\ SessionStands(sess[s])
         /\ sess'[s] = Idle /\ sess' = [t \in Sessions |-> sess'[t]]
         /\ \A t \in Sessions : t # s => sess'[t] = sess[t]
         /\ TypeOK'
  <1>1. sess[s].op = "commit" /\ CommitState(sess[s]) /\ SessionStands(sess[s])
    BY DEF Commit, IInv, TypeOK, SessionState, Idle
  <1>2. /\ sess'[s] = Idle /\ sess' = [t \in Sessions |-> sess'[t]]
        /\ \A t \in Sessions : t # s => sess'[t] = sess[t]
    BY DEF Commit, IInv
  <1>3. /\ IsTable(docs', Runs, DocumentRow) /\ IsTable(runs', Runs, RunRow)
        /\ IsTable(fields', FieldIds, FieldRow) /\ IsTable(items', ItemIds, ItemRow)
    BY <1>1, FlushedTables DEF Commit, IInv
  <1>4. started' \subseteq Runs /\ \A e \in BagToSet(events') : MessageState(e)'
    BY DEF Commit, IInv, TypeOK, MessageState
  <1>5. \A t \in Sessions : SessionState(sess'[t])
    BY <1>2 DEF SessionState, IInv, TypeOK
  <1>6. QED
    BY <1>1, <1>2, <1>3, <1>4, <1>5 DEF TypeOK, IsTable

\* A run is inserted, never updated: its row then stands for good.
LEMMA CommittedRuns ==
  ASSUME IInv, NEW s \in Sessions, Commit(s)
  PROVE  /\ DOMAIN runs' = DOMAIN runs \cup DOMAIN sess[s].runs
         /\ DOMAIN runs \cap DOMAIN sess[s].runs = {}
         /\ \A r \in DOMAIN runs : runs'[r] = runs[r]
         /\ \A r \in DOMAIN runs' : runs'[r].doc = DocumentOf(sess[s], r)
         /\ RunsAreDrawnOnce'
  <1>1. sess[s].op = "commit" /\ runs' = Flushed(runs, sess[s].runs)
    BY DEF Commit
  <1>2. DOMAIN runs' = DOMAIN runs \cup DOMAIN sess[s].runs
    BY <1>1, FlushedDomain
  <1>3. DOMAIN runs \cap DOMAIN sess[s].runs = {} /\ DOMAIN sess[s].runs \subseteq started
    BY <1>1 DEF IInv, RunsAreDrawnOnce, Drawn
  <1>4. \A r \in DOMAIN runs : runs'[r] = runs[r]
    BY <1>1, <1>3, FlushedRow
  <1>5. \A r \in DOMAIN sess[s].runs : runs'[r] = sess[s].runs[r].edited
    BY <1>1, <1>3, FlushedRow
  <1>6. \A r \in DOMAIN runs' : runs'[r].doc = DocumentOf(sess[s], r)
    BY <1>2, <1>4, <1>5 DEF DocumentOf
  <1>7. RunsAreDrawnOnce'
    <2>1. Drawn(sess'[s]) = {} /\ \A t \in Sessions : t # s => sess'[t] = sess[t]
      BY CommitTyped DEF Drawn, Idle
    <2>2. Drawn(sess[s]) = DOMAIN sess[s].runs
      BY <1>1 DEF Drawn
    <2>3. started' = started /\ RunsAreDrawnOnce
      BY DEF Commit, IInv
    <2>4. DOMAIN runs' \subseteq started'
      BY <1>2, <1>3, <2>3 DEF RunsAreDrawnOnce
    <2>5. \A t \in Sessions : Drawn(sess'[t]) \subseteq started' \ DOMAIN runs'
      BY <1>2, <2>1, <2>2, <2>3 DEF RunsAreDrawnOnce
    <2>6. \A t, u \in Sessions : t # u => Drawn(sess'[t]) \cap Drawn(sess'[u]) = {}
      BY <2>1, <2>3 DEF RunsAreDrawnOnce
    <2>7. QED
      BY <2>4, <2>5, <2>6 DEF RunsAreDrawnOnce, Drawn
  <1>8. QED
    BY <1>2, <1>3, <1>4, <1>6, <1>7

\* A committed field changes only its value and who decided it, or becomes decided.
LEMMA CommittedFields ==
  ASSUME IInv, NEW s \in Sessions, Commit(s)
  PROVE  /\ DOMAIN fields' = DOMAIN fields \cup DOMAIN sess[s].fields
         /\ \A f \in DOMAIN fields :
              /\ fields'[f].doc = fields[f].doc /\ fields'[f].type = fields[f].type
              /\ fields'[f].confidence = fields[f].confidence
              /\ Decided(fields[f]) => Decided(fields'[f])
         /\ \A f \in DOMAIN sess[s].fields \ DOMAIN fields : fields'[f] = sess[s].fields[f].edited
         /\ \A f \in DOMAIN sess[s].fields :
              /\ Decided(sess[s].fields[f].edited)
              /\ sess[s].fields[f].loaded.status = "UNVERIFIED" \/ f[2] \in Sessions
              => Decided(fields'[f])
  <1> DEFINE w == sess[s]
  <1>1. fields' = Flushed(fields, w.fields)
    BY DEF Commit
  <1>2. \A f \in DOMAIN fields : fields[f] \in FieldRow /\ FieldStands(f)
    BY DEF IInv, TypeOK, IsTable
  <1>3. \A f \in DOMAIN w.fields : /\ w.fields[f] \in [loaded : FieldRow, edited : FieldRow]
                                   /\ FieldWriteStands(w, f)
    BY CommitTyped DEF SessionStands, CommitState, AreWrites, IsTable
  <1>4. DOMAIN fields' = DOMAIN fields \cup DOMAIN w.fields
    BY <1>1, FlushedDomain
  <1> HIDE DEF w
  <1>5. ASSUME NEW f \in DOMAIN fields, f \in DOMAIN w.fields
        PROVE  LET x == w.fields[f] IN
               /\ fields'[f].doc = fields[f].doc /\ fields'[f].type = fields[f].type
               /\ fields'[f].confidence = fields[f].confidence
               /\ fields'[f].status = IF x.edited.status = x.loaded.status
                                        THEN fields[f].status ELSE x.edited.status
    <2>1. fields'[f] = Merged(fields[f], w.fields[f])
      BY <1>1, <1>5, FlushedRow
    <2>2. /\ w.fields[f].edited.doc = w.fields[f].loaded.doc
          /\ w.fields[f].edited.type = w.fields[f].loaded.type
          /\ w.fields[f].edited.confidence = w.fields[f].loaded.confidence
      BY <1>3, <1>5 DEF FieldWriteStands
    <2>3. QED
      BY <1>2, <1>3, <1>5, <2>1, <2>2, MergedField
  <1>6. \A f \in DOMAIN fields : f \notin DOMAIN w.fields => fields'[f] = fields[f]
    BY <1>1, FlushedRow
  <1>7. \A f \in DOMAIN w.fields \ DOMAIN fields : fields'[f] = w.fields[f].edited
    BY <1>1, FlushedRow
  <1>8. ASSUME NEW f \in DOMAIN fields
        PROVE  /\ fields'[f].doc = fields[f].doc /\ fields'[f].type = fields[f].type
               /\ fields'[f].confidence = fields[f].confidence
               /\ Decided(fields[f]) => Decided(fields'[f])
    BY <1>3, <1>5, <1>6 DEF FieldWriteStands, Decided
  <1>9. ASSUME NEW f \in DOMAIN w.fields, Decided(w.fields[f].edited),
               w.fields[f].loaded.status = "UNVERIFIED" \/ f[2] \in Sessions
        PROVE  Decided(fields'[f])
    <2>1. CASE f \notin DOMAIN fields
      BY <1>7, <1>9, <2>1 DEF Decided
    <2>2. CASE f \in DOMAIN fields
      BY <1>2, <1>5, <1>9, <2>2 DEF FieldStands, Decided
    <2>3. QED
      BY <2>1, <2>2
  <1>10. QED
    BY <1>4, <1>7, <1>8, <1>9 DEF w

\* An item is inserted pending, or stands, or is resolved with the field it is
\* written with.
LEMMA CommittedItems ==
  ASSUME IInv, NEW s \in Sessions, Commit(s)
  PROVE  /\ DOMAIN items' = DOMAIN items \cup DOMAIN sess[s].items
         /\ \A i \in DOMAIN items : items'[i].doc = items[i].doc
         /\ \A i \in DOMAIN items \ DOMAIN sess[s].items : items'[i] = items[i]
         /\ \A i \in DOMAIN sess[s].items \ DOMAIN items :
              /\ items'[i] = sess[s].items[i].edited
              /\ items'[i].status = "PENDING" /\ items'[i].field = AskedBy(i)
         /\ \A i \in DOMAIN sess[s].items \cap DOMAIN items :
              \/ items'[i].field = items[i].field /\ items'[i].status = items[i].status
              \/ /\ ResolutionStands(sess[s], i) /\ items'[i].status = "RESOLVED"
                 /\ items'[i].field = sess[s].items[i].edited.field
  <1> DEFINE w == sess[s]
  <1>1. items' = Flushed(items, w.items)
    BY DEF Commit
  <1>2. \A i \in DOMAIN items : items[i] \in ItemRow /\ ItemStands(i)
    BY DEF IInv, TypeOK, IsTable
  <1>3. \A i \in DOMAIN w.items : /\ w.items[i] \in [loaded : ItemRow, edited : ItemRow]
                                  /\ ItemWriteStands(w, i)
    BY CommitTyped DEF SessionStands, CommitState, AreWrites, IsTable
  <1>4. DOMAIN items' = DOMAIN items \cup DOMAIN w.items
    BY <1>1, FlushedDomain
  <1> HIDE DEF w
  <1>5. \A i \in DOMAIN items \ DOMAIN w.items : items'[i] = items[i]
    BY <1>1, FlushedRow
  <1>6. ASSUME NEW i \in DOMAIN w.items \ DOMAIN items
        PROVE  /\ items'[i] = w.items[i].edited
               /\ items'[i].status = "PENDING" /\ items'[i].field = AskedBy(i)
    <2>1. items'[i] = w.items[i].edited
      BY <1>1, FlushedRow
    <2>2. QED
      BY <1>3, <2>1 DEF ItemWriteStands, ResolutionStands
  <1>7. ASSUME NEW i \in DOMAIN w.items \cap DOMAIN items
        PROVE  LET y == w.items[i] IN
               /\ items'[i].doc = items[i].doc
               /\ items'[i].field = IF y.edited.field = y.loaded.field
                                       THEN items[i].field ELSE y.edited.field
               /\ items'[i].status = IF y.edited.status = y.loaded.status
                                        THEN items[i].status ELSE y.edited.status
    <2>1. items'[i] = Merged(items[i], w.items[i])
      BY <1>1, FlushedRow
    <2>2. w.items[i].edited.doc = w.items[i].loaded.doc
      BY <1>3 DEF ItemWriteStands
    <2>3. QED
      BY <1>2, <1>3, <2>1, <2>2, MergedItem
  <1>8. ASSUME NEW i \in DOMAIN w.items \cap DOMAIN items
        PROVE  \/ items'[i].field = items[i].field /\ items'[i].status = items[i].status
               \/ /\ ResolutionStands(w, i) /\ items'[i].status = "RESOLVED"
                  /\ items'[i].field = w.items[i].edited.field
    <2>1. CASE w.items[i].edited = w.items[i].loaded
      BY <1>7, <2>1
    <2>2. CASE ResolutionStands(w, i)
      <3>1. w.items[i].edited.status = "RESOLVED" /\ w.items[i].loaded.status = "PENDING"
        BY <2>2 DEF ResolutionStands
      <3>2. CASE i[2] = 0
        <4>1. w.items[i].edited.field \in FieldIds
          BY <2>2, CommitTyped DEF ResolutionStands, CommitState, AreWrites, IsTable, w
        <4>2. w.items[i].loaded.field = None
          BY <1>3, <3>2 DEF ItemWriteStands, AskedBy
        <4>3. QED
          BY <1>7, <2>2, <3>1, <4>1, <4>2, NoneIsNoRow
      <3>3. CASE i[2] # 0
        <4>1. w.items[i].edited.field = i /\ items[i].field = i
          BY <1>2, <1>3, <3>3 DEF ItemWriteStands, ItemStands, AskedBy
        <4>2. QED
          BY <1>7, <2>2, <3>1, <4>1
      <3>4. QED
        BY <3>2, <3>3
    <2>3. QED
      BY <1>3, <2>1, <2>2 DEF ItemWriteStands
  <1>9. QED
    BY <1>4, <1>5, <1>6, <1>7, <1>8 DEF w

LEMMA CommitStep ==
  ASSUME IInv, NEW s \in Sessions, Commit(s)
  PROVE  IInv'
  <1> DEFINE w == sess[s]
  <1>1. /\ w.op = "commit" /\ CommitState(w) /\ SessionStands(w)
        /\ sess'[s] = Idle /\ sess' = [t \in Sessions |-> sess'[t]]
        /\ \A t \in Sessions : t # s => sess'[t] = sess[t]
        /\ TypeOK'
    BY CommitTyped
  <1>2. /\ DOMAIN runs' = DOMAIN runs \cup DOMAIN w.runs
        /\ DOMAIN runs \cap DOMAIN w.runs = {}
        /\ \A r \in DOMAIN runs : runs'[r] = runs[r]
        /\ \A r \in DOMAIN runs' : runs'[r].doc = DocumentOf(w, r)
        /\ RunsAreDrawnOnce'
    BY CommittedRuns
  <1>3. /\ DOMAIN fields' = DOMAIN fields \cup DOMAIN w.fields
        /\ \A f \in DOMAIN fields :
             /\ fields'[f].doc = fields[f].doc /\ fields'[f].type = fields[f].type
             /\ fields'[f].confidence = fields[f].confidence
             /\ Decided(fields[f]) => Decided(fields'[f])
        /\ \A f \in DOMAIN w.fields \ DOMAIN fields : fields'[f] = w.fields[f].edited
        /\ \A f \in DOMAIN w.fields :
             /\ Decided(w.fields[f].edited)
             /\ w.fields[f].loaded.status = "UNVERIFIED" \/ f[2] \in Sessions
             => Decided(fields'[f])
    BY CommittedFields
  <1>4. /\ DOMAIN items' = DOMAIN items \cup DOMAIN w.items
        /\ \A i \in DOMAIN items : items'[i].doc = items[i].doc
        /\ \A i \in DOMAIN items \ DOMAIN w.items : items'[i] = items[i]
        /\ \A i \in DOMAIN w.items \ DOMAIN items :
             /\ items'[i] = w.items[i].edited
             /\ items'[i].status = "PENDING" /\ items'[i].field = AskedBy(i)
        /\ \A i \in DOMAIN w.items \cap DOMAIN items :
             \/ items'[i].field = items[i].field /\ items'[i].status = items[i].status
             \/ /\ ResolutionStands(w, i) /\ items'[i].status = "RESOLVED"
                /\ items'[i].field = w.items[i].edited.field
    BY CommittedItems
  <1>5. /\ \A f \in DOMAIN fields : f \in FieldIds /\ FieldStands(f)
        /\ \A i \in DOMAIN items : i \in ItemIds /\ ItemStands(i)
        /\ \A f \in DOMAIN w.fields : f \in FieldIds /\ FieldWriteStands(w, f)
        /\ \A i \in DOMAIN w.items : i \in ItemIds /\ ItemWriteStands(w, i)
    BY <1>1 DEF IInv, TypeOK, IsTable, SessionStands, CommitState, AreWrites
  <1> HIDE DEF w
  <1>6. ASSUME NEW f \in DOMAIN fields'
        PROVE  FieldStands(f)'
    <2>1. CASE f \in DOMAIN fields
      <3>1. f \in DOMAIN items' <=> f \in DOMAIN items
        BY <1>2, <1>4, <1>5, <2>1 DEF FieldStands, ItemWriteStands
      <3>2. LowConfidence(fields[f]) <=> LowConfidence(fields'[f])
        BY <1>3, <2>1 DEF LowConfidence
      <3>3. f[1] \in DOMAIN runs' /\ fields'[f].doc = runs'[f[1]].doc
        BY <1>2, <1>3, <1>5, <2>1 DEF FieldStands
      <3>4. f[2] \in Sessions => Decided(fields'[f])
        BY <1>3, <1>5, <2>1 DEF FieldStands
      <3>5. f[2] \notin Sessions => (LowConfidence(fields'[f]) <=> f \in DOMAIN items')
        BY <1>5, <2>1, <3>1, <3>2 DEF FieldStands
      <3>6. QED
        BY <3>3, <3>4, <3>5 DEF FieldStands, LowConfidence, Decided
    <2>2. CASE f \notin DOMAIN fields
      <3>1. f \in DOMAIN w.fields /\ fields'[f] = w.fields[f].edited /\ FieldWriteStands(w, f)
        BY <1>3, <1>5, <2>2
      <3>2. f[1] \in DOMAIN runs' /\ fields'[f].doc = runs'[f[1]].doc
        BY <1>2, <3>1 DEF FieldWriteStands
      <3>3. f[2] \in Sessions => Decided(fields'[f])
        BY <3>1 DEF FieldWriteStands, Decided
      <3>4. f[2] \notin Sessions => (LowConfidence(fields'[f]) <=> f \in DOMAIN items')
        <4>1. SUFFICES ASSUME f[2] \notin Sessions
                       PROVE  LowConfidence(fields'[f]) <=> f \in DOMAIN items'
          OBVIOUS
        <4>2. f[1] \in DOMAIN w.runs
          BY <2>2, <3>1, <4>1 DEF FieldWriteStands
        <4>3. f \notin DOMAIN items
          BY <1>2, <1>5, <4>2 DEF ItemStands
        <4>4. LowConfidence(w.fields[f].edited) <=> f \in DOMAIN w.items
          BY <3>1, <4>2 DEF FieldWriteStands
        <4>5. QED
          BY <1>4, <3>1, <4>3, <4>4 DEF LowConfidence
      <3>5. QED
        BY <3>2, <3>3, <3>4 DEF FieldStands, LowConfidence, Decided
    <2>3. QED
      BY <2>1, <2>2
  <1>7. ASSUME NEW i \in DOMAIN items'
        PROVE  ItemStands(i)'
    <2>1. CASE i \in DOMAIN items /\ i \notin DOMAIN w.items
      BY <1>2, <1>3, <1>4, <1>5, <2>1 DEF ItemStands, AskedBy
    <2>2. CASE i \in DOMAIN w.items /\ i \notin DOMAIN items
      <3>1. ItemWriteStands(w, i) /\ items'[i] = w.items[i].edited /\ items'[i].field = AskedBy(i)
        BY <1>4, <1>5, <2>2
      <3>2. i[1] \in DOMAIN runs' /\ items'[i].doc = runs'[i[1]].doc
        BY <1>2, <3>1 DEF ItemWriteStands
      <3>3. items'[i].field # None => items'[i].field \in DOMAIN fields' /\ items'[i].field[1] = i[1]
        BY <1>3, <3>1 DEF ItemWriteStands
      <3>4. QED
        BY <3>1, <3>2, <3>3 DEF ItemStands, AskedBy
    <2>3. CASE i \in DOMAIN w.items /\ i \in DOMAIN items
      <3>1. ItemStands(i) /\ ItemWriteStands(w, i)
        BY <1>5, <2>3
      <3>2. i[1] \in DOMAIN runs' /\ items'[i].doc = runs'[i[1]].doc
        BY <1>2, <1>4, <2>3, <3>1 DEF ItemStands
      <3>3. CASE items'[i].field = items[i].field /\ items'[i].status = items[i].status
        BY <1>3, <3>1, <3>2, <3>3 DEF ItemStands, AskedBy
      <3>4. CASE /\ ResolutionStands(w, i) /\ items'[i].status = "RESOLVED"
                 /\ items'[i].field = w.items[i].edited.field
        BY <1>3, <3>1, <3>2, <3>4 DEF ItemStands, ItemWriteStands, AskedBy
      <3>5. QED
        BY <1>4, <2>3, <3>3, <3>4
    <2>4. QED
      BY <1>4, <2>1, <2>2, <2>3
  <1>8. ASSUME NEW t \in Sessions
        PROVE  SessionStands(sess[t])'
    <2>1. CASE t = s
      BY <1>1, <2>1 DEF SessionStands, Idle
    <2>2. CASE t # s
      <3> DEFINE v == sess[t]
      <3>1. sess'[t] = v /\ SessionStands(v)
        BY <1>1, <2>2 DEF IInv
      <3> HIDE DEF v
      <3>2. v.op = "commit" =>
              \A r \in DOMAIN runs \cup DOMAIN v.runs :
                (IF r \in DOMAIN v.runs THEN v.runs[r].edited.doc ELSE runs'[r].doc) = DocumentOf(v, r)
        BY <1>2 DEF DocumentOf
      <3>3. ASSUME v.op = "resolve"
            PROVE  LoadedItemStands(sess[t])'
        BY <1>4, <3>1, <3>3 DEF SessionStands, LoadedItemStands, AskedBy
      <3>4. ASSUME v.op = "commit", NEW f \in DOMAIN v.fields
            PROVE  FieldWriteStands(sess[t], f)'
        <4>1. FieldWriteStands(v, f)
          BY <3>1, <3>4 DEF SessionStands
        <4>2. DocumentOf(sess[t], f[1])' = DocumentOf(v, f[1])
          BY <3>1, <3>2, <3>4, <4>1 DEF DocumentOf, FieldWriteStands
        <4>3. QED
          BY <1>2, <1>3, <3>1, <4>1, <4>2 DEF FieldWriteStands, Decided, LowConfidence
      <3>5. ASSUME v.op = "commit", NEW i \in DOMAIN v.items
            PROVE  ItemWriteStands(sess[t], i)'
        <4>1. ItemWriteStands(v, i)
          BY <3>1, <3>5 DEF SessionStands
        <4>2. DocumentOf(sess[t], i[1])' = DocumentOf(v, i[1])
          BY <3>1, <3>2, <3>5, <4>1 DEF DocumentOf, ItemWriteStands
        <4>3. ResolutionStands(v, i) => ResolutionStands(sess[t], i)'
          BY <1>4, <3>1 DEF ResolutionStands, Decided
        <4>4. QED
          BY <1>2, <1>3, <1>4, <3>1, <4>1, <4>2, <4>3 DEF ItemWriteStands, AskedBy
      <3>6. QED
        BY <3>1, <3>3, <3>4, <3>5 DEF SessionStands
    <2>3. QED
      BY <2>1, <2>2
  <1>9. ResolvedItemIsBacked'
    <2>1. SUFFICES ASSUME NEW i \in DOMAIN items', items'[i].status = "RESOLVED"
                   PROVE  /\ items'[i].field \in DOMAIN fields'
                          /\ Decided(fields'[items'[i].field])
                          /\ fields'[items'[i].field].doc = items'[i].doc
      BY DEF ResolvedItemIsBacked, Decided
    <2>2. items'[i].field \in DOMAIN fields' /\ Decided(fields'[items'[i].field])
      <3>1. CASE /\ i \in DOMAIN items
                 /\ items'[i].field = items[i].field /\ items'[i].status = items[i].status
        <4>1. items[i].field \in DOMAIN fields /\ Decided(fields[items[i].field])
          BY <2>1, <3>1 DEF IInv, ResolvedItemIsBacked
        <4>2. QED
          BY <1>3, <3>1, <4>1
      <3>2. CASE /\ i \in DOMAIN w.items /\ ResolutionStands(w, i)
                 /\ items'[i].field = w.items[i].edited.field
        BY <1>3, <3>2 DEF ResolutionStands
      <3>3. QED
        BY <1>4, <2>1, <3>1, <3>2
    <2>3. items'[i].field # None
      BY <2>2, <1>1, NoneIsNoRow DEF TypeOK, IsTable
    <2>4. fields'[items'[i].field].doc = items'[i].doc
      BY <1>6, <1>7, <2>1, <2>2, <2>3 DEF FieldStands, ItemStands
    <2>5. QED
      BY <2>2, <2>4
  <1>10. QED
    BY <1>1, <1>2, <1>6, <1>7, <1>8, <1>9 DEF IInv

-----------------------------------------------------------------------------
(* The theorem *)

LEMMA StepInvariant == IInv /\ [Next]_vars => IInv'
  <1> SUFFICES ASSUME IInv, [Next]_vars
               PROVE  IInv'
    OBVIOUS
  <1>1. CASE UNCHANGED vars
    <2>1. UNCHANGED tables /\ UNCHANGED <<events, started, sess>>
      BY <1>1 DEF vars, tables
    <2>2. CASE Sessions = {}
      <3>1. TypeOK' /\ RunsAreDrawnOnce' /\ ResolvedItemIsBacked'
        BY <2>1, <2>2 DEF IInv, TypeOK, MessageState, RunsAreDrawnOnce, ResolvedItemIsBacked,
                          IsTable, tables
      <3>2. QED
        BY <2>1, <2>2, <3>1 DEF IInv, FieldStands, ItemStands, tables
    <2>3. ASSUME NEW s \in Sessions
          PROVE  IInv'
      <3>1. sess' = [sess EXCEPT ![s] = sess[s]]
        BY <2>1 DEF IInv
      <3>2. SessionState(sess[s]) /\ SessionStands(sess[s]) /\ started \subseteq Runs
        BY DEF IInv, TypeOK
      <3>3. QED
        BY <2>1, <3>1, <3>2, SessionStep
    <2>4. QED
      BY <2>2, <2>3
  <1>2. CASE Next
    <2>1. PICK s \in Sessions :
            \/ Handle(s) \/ Reprocess(s)
            \/ Exclude(s) \/ Extract(s) \/ PipelineFails(s)
            \/ Verify(s)
            \/ ResolveLoad(s) \/ ResolveOverride(s) \/ ResolveEnter(s)
            \/ Commit(s) \/ SessionLost(s)
      BY <1>2 DEF Next
    <2>2. CASE PipelineFails(s) \/ SessionLost(s)
      BY <2>2, DropStep DEF PipelineFails, SessionLost
    <2>3. QED
      BY <2>1, <2>2, HandleStep, ReprocessStep, ExcludeStep, ExtractStep, VerifyStep,
         ResolveLoadStep, ResolveOverrideStep, ResolveEnterStep, CommitStep
  <1>3. QED
    BY <1>1, <1>2

\* However any number of sessions interleave: the tables keep their types, an
\* undecided field below its threshold has a pending item, and an item is RESOLVED
\* only together with a decision about its own document.
THEOREM TablesStand == Spec => [](TypeOK /\ LowConfidenceIsQueued /\ ResolvedItemIsBacked)
  <1>1. Init => IInv
    BY InitInvariant
  <1>2. IInv /\ [Next]_vars => IInv'
    BY StepInvariant
  <1>3. IInv => TypeOK /\ LowConfidenceIsQueued /\ ResolvedItemIsBacked
    <2>1. SUFFICES ASSUME IInv
                   PROVE  LowConfidenceIsQueued
      BY DEF IInv
    <2>2. ASSUME NEW f \in DOMAIN fields, ~Decided(fields[f]), LowConfidence(fields[f])
          PROVE  Pending(f)
      <3>1. f \in DOMAIN items /\ f[2] \notin Sessions
        BY <2>1, <2>2 DEF IInv, FieldStands
      <3>2. items[f] \in ItemRow /\ ItemStands(f)
        BY <2>1, <3>1 DEF IInv, TypeOK, IsTable
      <3>3. f[2] # 0
        BY <2>1, <3>1, ParametersAreTyped DEF IInv, TypeOK, IsTable, FieldIds, Positions
      <3>4. items[f].field = f
        BY <3>2, <3>3 DEF ItemStands, AskedBy
      <3>5. items[f].status # "RESOLVED"
        BY <2>1, <2>2, <3>1, <3>4 DEF IInv, ResolvedItemIsBacked
      <3>6. QED
        BY <3>1, <3>2, <3>4, <3>5 DEF Pending, ItemRow
    <2>3. ASSUME NEW i \in DOMAIN items, i[2] # 0
          PROVE  /\ items[i].field = i /\ i \in DOMAIN fields
                 /\ LowConfidence(fields[i])
      <3>1. i \in ItemIds /\ ItemStands(i)
        BY <2>1 DEF IInv, TypeOK, IsTable
      <3>2. i \in FieldIds /\ i[2] \notin Sessions
        BY <2>3, <3>1, SessionsAreNotPositions, ParametersAreTyped DEF ItemIds, FieldIds, Positions
      <3>3. items[i].field = i /\ i # None
        BY <2>3, <3>1, <3>2, NoneIsNoRow DEF ItemStands, AskedBy
      <3>4. i \in DOMAIN fields
        BY <3>1, <3>3 DEF ItemStands
      <3>5. QED
        BY <2>1, <3>2, <3>3, <3>4 DEF IInv, FieldStands
    <2>4. QED
      BY <2>2, <2>3 DEF LowConfidenceIsQueued, LowConfidence
  <1>4. QED
    BY <1>1, <1>2, <1>3, PTL DEF Spec

\* models/*.py: every table, message and session holds what its columns allow.
THEOREM RecordsAreTyped == Spec => []TypeOK
  BY TablesStand, PTL

\* resolve_review_queue_item: an item is RESOLVED only with a decision about its own
\* document, however many people resolve it at once.
THEOREM ResolutionsAreBacked == Spec => []ResolvedItemIsBacked
  BY TablesStand, PTL

-----------------------------------------------------------------------------
(* The information barrier: whoever decided a field belongs to a team its *)
(* document allows, whatever the sessions interleave.                     *)

LEMMA InitBarrier == Init => BarrierInv
  BY DEF Init, BarrierInv, RowsCarryTheBarrier, KeepsTheBarrier, DeciderInsideBarrier, Nothing, Idle

-----------------------------------------------------------------------------
(* Steps that write no table *)

LEMMA BarrierSessionStep ==
  ASSUME IInv, BarrierInv, NEW s \in Sessions, NEW next,
         UNCHANGED tables,
         sess' = [sess EXCEPT ![s] = next],
         KeepsTheBarrier(next)
  PROVE  BarrierInv'
  <1>1. sess'[s] = next /\ \A t \in Sessions : t # s => sess'[t] = sess[t]
    BY DEF IInv
  <1>2. ASSUME NEW t \in Sessions
        PROVE  KeepsTheBarrier(sess[t])'
    <2>1. KeepsTheBarrier(sess'[t])
      BY <1>1 DEF BarrierInv
    <2>2. ASSUME sess'[t].op = "commit", NEW f \in DOMAIN sess'[t].fields
          PROVE  DeciderPassed(sess[t], f)'
      <3>1. DeciderPassed(sess'[t], f)
        BY <2>1, <2>2 DEF KeepsTheBarrier
      <3>2. AllowedOf(sess'[t], sess'[t].fields[f].edited.doc)
              = AllowedOf(sess[t], sess[t].fields[f].edited.doc)'
        BY DEF AllowedOf, tables
      <3>3. QED
        BY <3>1, <3>2 DEF DeciderPassed, Decided
    <2>3. ASSUME sess'[t].op = "commit", NEW i \in DOMAIN sess'[t].items
          PROVE  CopiesTheBarrier(sess[t], i)'
      <3>1. CopiesTheBarrier(sess'[t], i)
        BY <2>1, <2>3 DEF KeepsTheBarrier
      <3>2. AllowedOf(sess'[t], sess'[t].items[i].edited.doc)
              = AllowedOf(sess[t], sess[t].items[i].edited.doc)'
        BY DEF AllowedOf, tables
      <3>3. QED
        BY <3>1, <3>2 DEF CopiesTheBarrier
    <2>4. ASSUME sess'[t].op = "commit", NEW d \in DOMAIN sess'[t].docs
          PROVE  DocumentWriteStands(sess[t], d)'
      BY <2>1, <2>4 DEF KeepsTheBarrier, DocumentWriteStands, tables
    <2>5. sess'[t].op = "commit" =>
            \A r \in DOMAIN sess'[t].runs :
              sess'[t].runs[r].edited.doc \in DOMAIN docs' \cup DOMAIN sess'[t].docs
      BY <2>1 DEF KeepsTheBarrier, tables
    <2>6. sess'[t].op = "pipeline" => PipelineKnowsItsDocument(sess[t])'
      BY <2>1 DEF KeepsTheBarrier, PipelineKnowsItsDocument, tables
    <2>7. sess'[t].op = "resolve" => /\ TeamOf[sess'[t].user] \in sess'[t].loaded.allowed
                                     /\ sess'[t].loaded.allowed = items'[sess'[t].item].allowed
      BY <2>1 DEF KeepsTheBarrier, tables
    <2>8. QED
      BY <2>2, <2>3, <2>4, <2>5, <2>6, <2>7 DEF KeepsTheBarrier
  <1>3. RowsCarryTheBarrier' /\ DeciderInsideBarrier'
    BY DEF BarrierInv, RowsCarryTheBarrier, DeciderInsideBarrier, Decided, tables
  <1>4. QED
    BY <1>2, <1>3 DEF BarrierInv

LEMMA BarrierIdle ==
  ASSUME IInv, BarrierInv, NEW s \in Sessions, UNCHANGED tables,
         sess' = [sess EXCEPT ![s] = Idle]
  PROVE  BarrierInv'
  <1>1. KeepsTheBarrier(Idle)
    BY DEF KeepsTheBarrier, Idle
  <1>2. QED
    BY <1>1, BarrierSessionStep

LEMMA BarrierHandle ==
  ASSUME IInv, BarrierInv, NEW s \in Sessions, Handle(s)
  PROVE  BarrierInv'
  <1>1. PICK run \in Runs \ started, allowed \in SUBSET Teams :
          sess' = [sess EXCEPT ![s] =
               [op |-> "pipeline", run |-> run, doc |-> run, verified |-> Nothing,
                loaded |-> [allowed |-> allowed, status |-> "PROCESSING",
                            confidence |-> None]]]
    BY DEF Handle
  <1> DEFINE next == [op |-> "pipeline", run |-> run, doc |-> run, verified |-> Nothing,
                      loaded |-> [allowed |-> allowed, status |-> "PROCESSING",
                                  confidence |-> None]]
  <1>2. KeepsTheBarrier(next)
    BY DEF KeepsTheBarrier, PipelineKnowsItsDocument
  <1>3. UNCHANGED tables
    BY DEF Handle
  <1> HIDE DEF next
  <1>4. QED
    BY <1>1, <1>2, <1>3, BarrierSessionStep DEF next

LEMMA BarrierReprocess ==
  ASSUME IInv, BarrierInv, NEW s \in Sessions, Reprocess(s)
  PROVE  BarrierInv'
  <1>1. PICK run \in Runs \ started, doc \in DOMAIN docs :
        \E verified \in VerifiedByType(doc) :
          /\ started' = started \cup {run}
          /\ sess' = [sess EXCEPT ![s] =
               [op |-> "pipeline", run |-> run, doc |-> doc, verified |-> verified,
                loaded |-> docs[doc]]]
    BY DEF Reprocess
  <1>2. PICK verified \in VerifiedByType(doc) :
          sess' = [sess EXCEPT ![s] =
               [op |-> "pipeline", run |-> run, doc |-> doc, verified |-> verified,
                loaded |-> docs[doc]]]
    BY <1>1
  <1> DEFINE next == [op |-> "pipeline", run |-> run, doc |-> doc, verified |-> verified,
                      loaded |-> docs[doc]]
  <1>3. KeepsTheBarrier(next)
    BY DEF KeepsTheBarrier, PipelineKnowsItsDocument
  <1>4. UNCHANGED tables
    BY DEF Reprocess
  <1> HIDE DEF next
  <1>5. QED
    BY <1>2, <1>3, <1>4, BarrierSessionStep DEF next

LEMMA BarrierComplete ==
  ASSUME IInv, BarrierInv, NEW s \in Sessions, sess[s].op = "pipeline",
         NEW status, NEW confidence, NEW newFields, NEW kept, NEW newItems,
         Complete(s, status, confidence, newFields, kept, newItems),
         \A f \in DOMAIN newFields :
           /\ newFields[f].edited = newFields[f].loaded
           /\ newFields[f].edited.status = "UNVERIFIED" /\ newFields[f].edited.by = None,
         \A i \in DOMAIN newItems :
           /\ newItems[i].edited = newItems[i].loaded
           /\ newItems[i].edited.doc = sess[s].doc
           /\ newItems[i].edited.allowed = sess[s].loaded.allowed
  PROVE  BarrierInv'
  <1> DEFINE p == sess[s]
             row == [p.loaded EXCEPT !.status = status, !.confidence = confidence]
             documentWrites == Single(p.doc, Update(p.loaded, row))
             runWrites == Single(p.run, Insert([doc |-> p.doc, status |-> "COMPLETE"]))
             next == Work(documentWrites, runWrites, newFields, newItems)
  <1>1. sess' = [sess EXCEPT ![s] = next] /\ UNCHANGED tables
    BY DEF Complete
  <1>2. PipelineState(p) /\ PipelineKnowsItsDocument(p)
    BY DEF IInv, TypeOK, SessionState, Idle, BarrierInv, KeepsTheBarrier
  <1>3. p.run \notin DOMAIN runs /\ DOMAIN docs \subseteq DOMAIN runs
    BY DEF IInv, RunsAreDrawnOnce, Drawn, BarrierInv, RowsCarryTheBarrier
  <1>4. row.allowed = p.loaded.allowed
    BY <1>2 DEF PipelineState, DocumentRow
  <1>5. p.doc \in DOMAIN docs => p.loaded.allowed = docs[p.doc].allowed
    BY <1>2, <1>3 DEF PipelineKnowsItsDocument
  <1> HIDE DEF row
  <1>6. /\ DOMAIN documentWrites = {p.doc} /\ documentWrites[p.doc].loaded = p.loaded
        /\ documentWrites[p.doc].edited = row
        /\ DOMAIN runWrites = {p.run} /\ runWrites[p.run].edited.doc = p.doc
    BY DEF Single, Update, Insert
  <1>7. /\ next.op = "commit" /\ next.docs = documentWrites /\ next.runs = runWrites
        /\ next.fields = newFields /\ next.items = newItems
    BY DEF Work
  <1> HIDE DEF next, documentWrites, runWrites
  <1>8. AllowedOf(next, p.doc) = p.loaded.allowed
    BY <1>4, <1>5, <1>6, <1>7 DEF AllowedOf
  <1>9. \A d \in DOMAIN next.docs : DocumentWriteStands(next, d)
    BY <1>2, <1>4, <1>5, <1>6, <1>7 DEF DocumentWriteStands, PipelineKnowsItsDocument
  <1>10. \A f \in DOMAIN newFields : DeciderPassed(next, f)
    BY <1>7 DEF DeciderPassed, Decided
  <1>11. \A i \in DOMAIN newItems : CopiesTheBarrier(next, i)
    BY <1>7, <1>8 DEF CopiesTheBarrier
  <1>12. KeepsTheBarrier(next)
    BY <1>6, <1>7, <1>9, <1>10, <1>11 DEF KeepsTheBarrier
  <1>13. QED
    BY <1>1, <1>12, BarrierSessionStep

LEMMA BarrierExclude ==
  ASSUME IInv, BarrierInv, NEW s \in Sessions, Exclude(s)
  PROVE  BarrierInv'
  <1> DEFINE p == sess[s]
             newItems == Single(<<p.run, 0>>, Insert(QueueItem(p.doc, None, p.loaded.allowed)))
  <1>1. PICK confidence \in OcrConfidences :
          Complete(s, "EXCLUDED_LOW_QUALITY", confidence, Nothing, {}, newItems)
    BY DEF Exclude
  <1>2. p.op = "pipeline"
    BY DEF Exclude
  <1>3. DOMAIN Nothing = {}
    BY DEF Nothing
  <1>4. \A i \in DOMAIN newItems : /\ newItems[i].edited = newItems[i].loaded
                                   /\ newItems[i].edited.doc = p.doc
                                   /\ newItems[i].edited.allowed = p.loaded.allowed
    BY DEF Single, Insert, Update, QueueItem
  <1> HIDE DEF newItems
  <1>5. QED
    BY <1>1, <1>2, <1>3, <1>4, BarrierComplete

LEMMA BarrierExtract ==
  ASSUME IInv, BarrierInv, NEW s \in Sessions, Extract(s)
  PROVE  BarrierInv'
  <1> DEFINE p == sess[s]
             fieldsOf(F, results) ==
               [id \in {p.run} \X F |-> Insert(Extracted(p.doc, results[id[2]]))]
             itemsOf(L) ==
               [id \in {p.run} \X L |-> Insert(QueueItem(p.doc, id, p.loaded.allowed))]
  <1>1. PICK confidence \in OcrConfidences, n \in 0..MaxResults :
        \E results \in [1..n -> Result] :
          LET fresh == {k \in 1..n : results[k].type \notin DOMAIN p.verified}
              low == {k \in fresh : ~ShouldAutoPopulate(results[k])}
          IN  /\ ~BelowQualityFloor(confidence)
              /\ Complete(s, "COMPLETE", confidence, fieldsOf(fresh, results),
                          {p.verified[results[k].type] : k \in (1..n) \ fresh}, itemsOf(low))
    BY DEF Extract
  <1>2. PICK results, F, L, kept :
          Complete(s, "COMPLETE", confidence, fieldsOf(F, results), kept, itemsOf(L))
    <2> HIDE DEF fieldsOf, itemsOf
    <2>1. QED
      BY <1>1
  <1>3. p.op = "pipeline"
    BY DEF Extract
  <1>4. \A f \in DOMAIN fieldsOf(F, results) :
          /\ fieldsOf(F, results)[f].edited = fieldsOf(F, results)[f].loaded
          /\ fieldsOf(F, results)[f].edited.status = "UNVERIFIED"
          /\ fieldsOf(F, results)[f].edited.by = None
    BY DEF Insert, Update, Extracted
  <1>5. \A i \in DOMAIN itemsOf(L) : /\ itemsOf(L)[i].edited = itemsOf(L)[i].loaded
                                     /\ itemsOf(L)[i].edited.doc = p.doc
                                     /\ itemsOf(L)[i].edited.allowed = p.loaded.allowed
    BY DEF Insert, Update, QueueItem
  <1> HIDE DEF fieldsOf, itemsOf
  <1>6. QED
    BY <1>2, <1>3, <1>4, <1>5, BarrierComplete

-----------------------------------------------------------------------------
(* The endpoints *)

LEMMA DocumentsOfRows ==
  ASSUME IInv, BarrierInv
  PROVE  /\ \A f \in DOMAIN fields : fields[f].doc \in DOMAIN docs
         /\ \A i \in DOMAIN items : /\ items[i].doc \in DOMAIN docs
                                    /\ items[i].allowed = docs[items[i].doc].allowed
  BY DEF IInv, FieldStands, ItemStands, BarrierInv, RowsCarryTheBarrier

LEMMA BarrierDecision ==
  ASSUME IInv, BarrierInv, NEW f \in DOMAIN fields, NEW user \in Users,
         NEW override \in Values \cup {None}, NEW itemWrites,
         ~IsTerminal(fields[f]),
         TeamOf[user] \in docs[fields[f].doc].allowed,
         \A i \in DOMAIN itemWrites :
           LET y == itemWrites[i] IN
           /\ y.edited.doc \in DOMAIN docs
           /\ y.edited.allowed = docs[y.edited.doc].allowed
           /\ y.loaded.allowed = y.edited.allowed
  PROVE  KeepsTheBarrier(
           Work(Nothing, Nothing,
                Single(f, Update(fields[f], ApplyVerification(fields[f], user, override))),
                itemWrites))
  <1> DEFINE applied == ApplyVerification(fields[f], user, override)
             w == Work(Nothing, Nothing, Single(f, Update(fields[f], applied)), itemWrites)
  <1>1. fields[f] \in FieldRow /\ fields[f].doc \in DOMAIN docs
    BY DocumentsOfRows DEF IInv, TypeOK, IsTable
  <1>2. Decided(applied) /\ applied.by = user /\ applied.doc = fields[f].doc
    BY <1>1, AppliedVerification
  <1>3. fields[f].status = "UNVERIFIED" /\ fields[f].by = None
    BY DEF IsTerminal, Decided, BarrierInv, RowsCarryTheBarrier
  <1> HIDE DEF applied
  <1>4. /\ w.op = "commit" /\ DOMAIN w.docs = {} /\ DOMAIN w.runs = {}
        /\ DOMAIN w.fields = {f} /\ w.fields[f].loaded = fields[f]
        /\ w.fields[f].edited = applied /\ w.items = itemWrites
    BY DEF Work, Nothing, Single, Update
  <1> HIDE DEF w
  <1>5. DeciderPassed(w, f)
    BY <1>1, <1>2, <1>3, <1>4 DEF DeciderPassed, AllowedOf
  <1>6. \A i \in DOMAIN w.items : CopiesTheBarrier(w, i)
    BY <1>4 DEF CopiesTheBarrier, AllowedOf
  <1>7. KeepsTheBarrier(w)
    BY <1>4, <1>5, <1>6 DEF KeepsTheBarrier
  <1>8. QED
    BY <1>7 DEF w, applied

LEMMA BarrierVerify ==
  ASSUME IInv, BarrierInv, NEW s \in Sessions, Verify(s)
  PROVE  BarrierInv'
  <1>1. PICK user \in Users, f \in DOMAIN fields, override \in Values \cup {None} :
          /\ EnforceTeamScope(user, docs[fields[f].doc].allowed)
          /\ ~IsTerminal(fields[f])
          /\ sess' = [sess EXCEPT ![s] =
               Work(Nothing, Nothing,
                    Single(f, Update(fields[f], ApplyVerification(fields[f], user, override))),
                    Nothing)]
    BY DEF Verify
  <1>2. TeamOf[user] \in docs[fields[f].doc].allowed
    BY <1>1 DEF EnforceTeamScope
  <1>3. DOMAIN Nothing = {}
    BY DEF Nothing
  <1>4. KeepsTheBarrier(
          Work(Nothing, Nothing,
               Single(f, Update(fields[f], ApplyVerification(fields[f], user, override))),
               Nothing))
    BY <1>1, <1>2, <1>3, BarrierDecision
  <1>5. UNCHANGED tables
    BY DEF Verify
  <1>6. QED
    BY <1>1, <1>4, <1>5, BarrierSessionStep

LEMMA BarrierResolveLoad ==
  ASSUME IInv, BarrierInv, NEW s \in Sessions, ResolveLoad(s)
  PROVE  BarrierInv'
  <1>1. PICK user \in Users, i \in DOMAIN items :
          /\ EnforceTeamScope(user, items[i].allowed)
          /\ sess' = [sess EXCEPT ![s] =
               [op |-> "resolve", user |-> user, item |-> i, loaded |-> items[i]]]
    BY DEF ResolveLoad
  <1>2. KeepsTheBarrier([op |-> "resolve", user |-> user, item |-> i, loaded |-> items[i]])
    BY <1>1 DEF KeepsTheBarrier, EnforceTeamScope
  <1>3. UNCHANGED tables
    BY DEF ResolveLoad
  <1>4. QED
    BY <1>1, <1>2, <1>3, BarrierSessionStep

\* A resolving user passed the barrier of the item's document.
LEMMA ResolverPassed ==
  ASSUME IInv, BarrierInv, NEW s \in Sessions, sess[s].op = "resolve"
  PROVE  LET r == sess[s] IN
         /\ ResolveState(r) /\ LoadedItemStands(r) /\ ItemStands(r.item)
         /\ r.loaded.doc \in DOMAIN docs
         /\ r.loaded.allowed = docs[r.loaded.doc].allowed
         /\ TeamOf[r.user] \in docs[r.loaded.doc].allowed
  <1>1. ResolveState(sess[s]) /\ LoadedItemStands(sess[s])
    BY DEF IInv, TypeOK, SessionState, SessionStands, Idle
  <1>2. ItemStands(sess[s].item)
    BY <1>1 DEF IInv, LoadedItemStands
  <1>3. /\ TeamOf[sess[s].user] \in sess[s].loaded.allowed
        /\ sess[s].loaded.allowed = items[sess[s].item].allowed
    BY DEF BarrierInv, KeepsTheBarrier
  <1>4. QED
    BY <1>1, <1>2, <1>3, DocumentsOfRows DEF LoadedItemStands

LEMMA BarrierResolveOverride ==
  ASSUME IInv, BarrierInv, NEW s \in Sessions, ResolveOverride(s)
  PROVE  BarrierInv'
  <1> DEFINE r == sess[s]
             f == r.loaded.field
             y == Update(r.loaded, Resolved(r.loaded, f))
             next(value) ==
               Work(Nothing, Nothing,
                    Single(f, Update(fields[f], ApplyVerification(fields[f], r.user, value))),
                    Single(r.item, y))
  <1>1. UNCHANGED tables
    BY DEF ResolveOverride
  <1>2. CASE IsTerminal(fields[f])
    BY <1>1, <1>2, BarrierIdle DEF ResolveOverride
  <1>3. CASE ~IsTerminal(fields[f])
    <2>1. PICK value \in Values : sess' = [sess EXCEPT ![s] = next(value)]
      BY <1>3 DEF ResolveOverride
    <2>2. r.op = "resolve" /\ f # None
      BY DEF ResolveOverride
    <2>3. /\ ResolveState(r) /\ LoadedItemStands(r) /\ ItemStands(r.item)
          /\ r.loaded.doc \in DOMAIN docs
          /\ r.loaded.allowed = docs[r.loaded.doc].allowed
          /\ TeamOf[r.user] \in docs[r.loaded.doc].allowed
      BY <2>2, ResolverPassed
    <2>4. f \in DOMAIN fields /\ fields[f].doc = r.loaded.doc
      <3>1. f = r.item /\ r.item[2] # 0 /\ items[r.item].field = f
        BY <2>2, <2>3 DEF LoadedItemStands, ItemStands, AskedBy
      <3>2. f \in DOMAIN fields
        BY <2>2, <2>3, <3>1 DEF ItemStands
      <3>3. QED
        BY <2>3, <3>1, <3>2 DEF IInv, FieldStands, ItemStands, LoadedItemStands
    <2>5. /\ y.edited.doc = r.loaded.doc /\ y.loaded.allowed = r.loaded.allowed
          /\ y.edited.allowed = r.loaded.allowed
      BY <2>3 DEF Update, Resolved, ResolveState, ItemRow
    <2> HIDE DEF y
    <2>6. \A i \in DOMAIN Single(r.item, y) :
            /\ Single(r.item, y)[i].edited.doc \in DOMAIN docs
            /\ Single(r.item, y)[i].edited.allowed = docs[Single(r.item, y)[i].edited.doc].allowed
            /\ Single(r.item, y)[i].loaded.allowed = Single(r.item, y)[i].edited.allowed
      BY <2>3, <2>5 DEF Single
    <2>7. KeepsTheBarrier(next(value))
      BY <1>3, <2>3, <2>4, <2>6, BarrierDecision DEF ResolveState
    <2> HIDE DEF next
    <2>8. QED
      BY <1>1, <2>1, <2>7, BarrierSessionStep
  <1>4. QED
    BY <1>2, <1>3

LEMMA BarrierResolveEnter ==
  ASSUME IInv, BarrierInv, NEW s \in Sessions, ResolveEnter(s)
  PROVE  BarrierInv'
  <1> DEFINE r == sess[s]
             f == <<r.item[1], s>>
             y == Update(r.loaded, Resolved(r.loaded, f))
             entered(type, value) == HandEntered(r.loaded.doc, type, value, r.user)
             next(type, value) ==
               Work(Nothing, Nothing, Single(f, Insert(entered(type, value))), Single(r.item, y))
  <1>1. PICK type \in FieldTypes, value \in Values :
          sess' = [sess EXCEPT ![s] = next(type, value)]
    BY DEF ResolveEnter
  <1>2. UNCHANGED tables /\ r.op = "resolve"
    BY DEF ResolveEnter
  <1>3. /\ ResolveState(r) /\ r.loaded.doc \in DOMAIN docs
        /\ r.loaded.allowed = docs[r.loaded.doc].allowed
        /\ TeamOf[r.user] \in docs[r.loaded.doc].allowed
    BY <1>2, ResolverPassed
  <1>4. /\ y.edited.doc = r.loaded.doc /\ y.loaded.allowed = r.loaded.allowed
        /\ y.edited.allowed = r.loaded.allowed
    BY <1>3 DEF Update, Resolved, ResolveState, ItemRow
  <1>5. /\ Decided(entered(type, value)) /\ entered(type, value).by = r.user
        /\ entered(type, value).doc = r.loaded.doc
    BY DEF HandEntered, Decided
  <1>6. /\ next(type, value).op = "commit" /\ DOMAIN next(type, value).docs = {}
        /\ DOMAIN next(type, value).runs = {} /\ DOMAIN next(type, value).fields = {f}
        /\ next(type, value).fields[f].edited = entered(type, value)
        /\ next(type, value).fields[f].loaded = entered(type, value)
        /\ DOMAIN next(type, value).items = {r.item} /\ next(type, value).items[r.item] = y
        /\ f[2] = s
    BY DEF Work, Nothing, Single, Insert, Update
  <1> HIDE DEF next, entered, y, f
  <1>7. DeciderPassed(next(type, value), f)
    BY <1>3, <1>5, <1>6 DEF DeciderPassed, AllowedOf, ResolveState
  <1>8. CopiesTheBarrier(next(type, value), r.item)
    BY <1>3, <1>4, <1>6 DEF CopiesTheBarrier, AllowedOf
  <1>9. KeepsTheBarrier(next(type, value))
    BY <1>6, <1>7, <1>8 DEF KeepsTheBarrier
  <1>10. QED
    BY <1>1, <1>2, <1>9, BarrierSessionStep

-----------------------------------------------------------------------------
(* The commit *)

\* A document's allowed teams never change, and a new one brings its own.
LEMMA CommittedDocuments ==
  ASSUME IInv, BarrierInv, NEW s \in Sessions, Commit(s)
  PROVE  /\ DOMAIN docs' = DOMAIN docs \cup DOMAIN sess[s].docs
         /\ DOMAIN docs' \subseteq DOMAIN runs'
         /\ DOMAIN docs' \ DOMAIN docs \subseteq DOMAIN sess[s].runs
         /\ \A d \in DOMAIN docs : docs'[d].allowed = docs[d].allowed
         /\ \A d \in DOMAIN docs' : docs'[d].allowed = AllowedOf(sess[s], d)
         /\ \A r \in DOMAIN runs' : runs'[r].doc \in DOMAIN docs'
  <1> DEFINE w == sess[s]
  <1>1. docs' = Flushed(docs, w.docs)
    BY DEF Commit
  <1>2. DOMAIN docs' = DOMAIN docs \cup DOMAIN w.docs
    BY <1>1, FlushedDomain
  <1>3. w.op = "commit" /\ CommitState(w)
    BY CommitTyped
  <1>4. /\ \A d \in DOMAIN w.docs : DocumentWriteStands(w, d)
        /\ \A r \in DOMAIN w.runs : w.runs[r].edited.doc \in DOMAIN docs \cup DOMAIN w.docs
    BY <1>3 DEF BarrierInv, KeepsTheBarrier
  <1>5. /\ DOMAIN runs' = DOMAIN runs \cup DOMAIN w.runs
        /\ \A r \in DOMAIN runs' : runs'[r].doc = DocumentOf(w, r)
    BY CommittedRuns
  <1>6. /\ \A d \in DOMAIN docs : docs[d] \in DocumentRow
        /\ \A d \in DOMAIN w.docs : w.docs[d] \in [loaded : DocumentRow, edited : DocumentRow]
    BY <1>3 DEF IInv, TypeOK, IsTable, CommitState, AreWrites
  <1>7. RowsCarryTheBarrier
    BY DEF BarrierInv
  <1> HIDE DEF w
  <1>8. ASSUME NEW d \in DOMAIN docs
        PROVE  docs'[d].allowed = docs[d].allowed
    <2>1. CASE d \notin DOMAIN w.docs
      BY <1>1, <2>1, FlushedRow
    <2>2. CASE d \in DOMAIN w.docs
      <3>1. docs'[d] = Merged(docs[d], w.docs[d])
        BY <1>1, <2>2, FlushedRow
      <3>2. w.docs[d].edited.allowed = w.docs[d].loaded.allowed
        BY <1>4, <2>2 DEF DocumentWriteStands
      <3>3. QED
        BY <1>6, <2>2, <3>1, <3>2, MergedDocument
    <2>3. QED
      BY <2>1, <2>2
  <1>9. ASSUME NEW d \in DOMAIN docs'
        PROVE  docs'[d].allowed = AllowedOf(w, d)
    <2>1. CASE d \in DOMAIN docs
      BY <1>8, <2>1 DEF AllowedOf
    <2>2. CASE d \notin DOMAIN docs
      BY <1>1, <1>2, <2>2, FlushedRow DEF AllowedOf
    <2>3. QED
      BY <2>1, <2>2
  <1>10. DOMAIN docs' \subseteq DOMAIN runs' /\ DOMAIN docs' \ DOMAIN docs \subseteq DOMAIN w.runs
    BY <1>2, <1>4, <1>5, <1>7 DEF DocumentWriteStands, RowsCarryTheBarrier
  <1>11. \A r \in DOMAIN runs' : runs'[r].doc \in DOMAIN docs'
    BY <1>2, <1>4, <1>5, <1>7 DEF DocumentOf, RowsCarryTheBarrier
  <1>12. QED
    BY <1>2, <1>8, <1>9, <1>10, <1>11 DEF w

\* What decides a committed field names its decider in the same UPDATE.
LEMMA CommittedDeciders ==
  ASSUME IInv, BarrierInv, NEW s \in Sessions, Commit(s), NEW f \in DOMAIN fields'
  PROVE  LET x == sess[s].fields[f] IN
         \/ /\ f \in DOMAIN fields
            /\ fields'[f].doc = fields[f].doc
            /\ fields'[f].by = fields[f].by /\ fields'[f].status = fields[f].status
         \/ /\ f \in DOMAIN sess[s].fields /\ DeciderPassed(sess[s], f)
            /\ fields'[f].by = x.edited.by /\ fields'[f].status = x.edited.status
            /\ x.edited.doc = DocumentOf(sess[s], f[1])
            /\ fields'[f].doc = x.edited.doc
  <1> DEFINE w == sess[s]
  <1>1. fields' = Flushed(fields, w.fields)
    BY DEF Commit
  <1>2. w.op = "commit" /\ CommitState(w) /\ SessionStands(w)
    BY CommitTyped
  <1>3. \A g \in DOMAIN w.fields : /\ DeciderPassed(w, g) /\ FieldWriteStands(w, g)
                                   /\ w.fields[g] \in [loaded : FieldRow, edited : FieldRow]
    BY <1>2 DEF BarrierInv, KeepsTheBarrier, SessionStands, CommitState, AreWrites, IsTable
  <1>4. \A g \in DOMAIN fields : fields[g] \in FieldRow /\ FieldStands(g)
    BY DEF IInv, TypeOK, IsTable
  <1>5. DOMAIN fields' = DOMAIN fields \cup DOMAIN w.fields
    BY <1>1, FlushedDomain
  <1> HIDE DEF w
  <1>6. CASE f \notin DOMAIN w.fields
    BY <1>1, <1>5, <1>6, FlushedRow
  <1>7. CASE f \in DOMAIN w.fields /\ f \notin DOMAIN fields
    <2>1. fields'[f] = w.fields[f].edited
      BY <1>1, <1>7, FlushedRow
    <2>2. QED
      BY <1>3, <1>7, <2>1 DEF FieldWriteStands, w
  <1>8. CASE f \in DOMAIN w.fields /\ f \in DOMAIN fields
    <2> DEFINE x == w.fields[f]
    <2>1. fields'[f] = Merged(fields[f], x)
      BY <1>1, <1>8, FlushedRow
    <2>2. /\ fields'[f].doc = IF x.edited.doc = x.loaded.doc THEN fields[f].doc ELSE x.edited.doc
          /\ fields'[f].status = IF x.edited.status = x.loaded.status
                                   THEN fields[f].status ELSE x.edited.status
          /\ fields'[f].by = IF x.edited.by = x.loaded.by THEN fields[f].by ELSE x.edited.by
      BY <1>3, <1>4, <1>8, <2>1, MergedField
    <2>3. DeciderPassed(w, f) /\ x.edited.doc = x.loaded.doc
      BY <1>3, <1>8 DEF FieldWriteStands
    <2>4. CASE x.edited = x.loaded
      BY <1>8, <2>2, <2>4
    <2>5. CASE x.edited # x.loaded
      <3>1. /\ Decided(x.edited) /\ x.edited.by \in Users
            /\ x.loaded.status = "UNVERIFIED" /\ x.loaded.by = None
        BY <2>3, <2>5 DEF DeciderPassed
      <3>2. fields'[f].by = x.edited.by /\ fields'[f].status = x.edited.status
        BY <2>2, <3>1, NoneIsNoRow DEF Decided
      <3>3. x.edited.doc = DocumentOf(w, f[1])
        BY <1>3, <1>8 DEF FieldWriteStands
      <3>4. DocumentOf(w, f[1]) = fields[f].doc
        <4>1. f[1] \in DOMAIN runs /\ fields[f].doc = runs[f[1]].doc
          BY <1>4, <1>8 DEF FieldStands
        <4>2. f[1] \notin DOMAIN w.runs
          BY <4>1, CommittedRuns DEF w
        <4>3. QED
          BY <4>1, <4>2 DEF DocumentOf
      <3>5. QED
        BY <1>8, <2>2, <2>3, <3>2, <3>3, <3>4 DEF w
    <2>6. QED
      BY <2>4, <2>5
  <1>9. QED
    BY <1>5, <1>6, <1>7, <1>8

\* An item's copy of the allowed teams is written once.
LEMMA CommittedCopies ==
  ASSUME IInv, BarrierInv, NEW s \in Sessions, Commit(s)
  PROVE  /\ \A i \in DOMAIN items : items'[i].allowed = items[i].allowed
         /\ \A i \in DOMAIN items' : items'[i].allowed = docs'[items'[i].doc].allowed
  <1> DEFINE w == sess[s]
  <1>1. items' = Flushed(items, w.items) /\ DOMAIN items' = DOMAIN items \cup DOMAIN w.items
    BY FlushedDomain DEF Commit
  <1>2. w.op = "commit" /\ CommitState(w) /\ SessionStands(w)
    BY CommitTyped
  <1>3. \A i \in DOMAIN w.items : /\ CopiesTheBarrier(w, i) /\ ItemWriteStands(w, i)
                                  /\ w.items[i] \in [loaded : ItemRow, edited : ItemRow]
    BY <1>2 DEF BarrierInv, KeepsTheBarrier, SessionStands, CommitState, AreWrites, IsTable
  <1>4. \A i \in DOMAIN items : /\ items[i] \in ItemRow /\ items[i].doc \in DOMAIN docs
                                /\ items[i].allowed = docs[items[i].doc].allowed
    BY DocumentsOfRows DEF IInv, TypeOK, IsTable
  <1>5. /\ \A d \in DOMAIN docs : docs'[d].allowed = docs[d].allowed
        /\ \A d \in DOMAIN docs' : docs'[d].allowed = AllowedOf(w, d)
        /\ \A r \in DOMAIN runs' : runs'[r].doc \in DOMAIN docs'
    BY CommittedDocuments
  <1>6. \A i \in DOMAIN items : items'[i].doc = items[i].doc
    BY CommittedItems
  <1>7. /\ DOMAIN runs' = DOMAIN runs \cup DOMAIN w.runs
        /\ \A r \in DOMAIN runs' : runs'[r].doc = DocumentOf(w, r)
    BY CommittedRuns
  <1> HIDE DEF w
  <1>8. ASSUME NEW i \in DOMAIN items
        PROVE  items'[i].allowed = items[i].allowed
    <2>1. CASE i \notin DOMAIN w.items
      BY <1>1, <2>1, FlushedRow
    <2>2. CASE i \in DOMAIN w.items
      <3>1. items'[i] = Merged(items[i], w.items[i])
        BY <1>1, <2>2, FlushedRow
      <3>2. w.items[i].loaded.allowed = w.items[i].edited.allowed
        BY <1>3, <2>2 DEF CopiesTheBarrier
      <3>3. QED
        BY <1>3, <1>4, <2>2, <3>1, <3>2, MergedItem
    <2>3. QED
      BY <2>1, <2>2
  <1>9. ASSUME NEW i \in DOMAIN items'
        PROVE  items'[i].allowed = docs'[items'[i].doc].allowed
    <2>1. CASE i \in DOMAIN items
      BY <1>4, <1>5, <1>6, <1>8, <2>1
    <2>2. CASE i \notin DOMAIN items
      <3>1. i \in DOMAIN w.items /\ items'[i] = w.items[i].edited
        BY <1>1, <2>2, FlushedRow
      <3>2. w.items[i].edited.doc \in DOMAIN docs'
        BY <1>3, <1>5, <1>7, <3>1 DEF ItemWriteStands
      <3>3. w.items[i].edited.allowed = AllowedOf(w, w.items[i].edited.doc)
        BY <1>3, <3>1 DEF CopiesTheBarrier
      <3>4. QED
        BY <1>5, <3>1, <3>2, <3>3
    <2>3. QED
      BY <2>1, <2>2
  <1>10. QED
    BY <1>8, <1>9

LEMMA BarrierCommit ==
  ASSUME IInv, BarrierInv, NEW s \in Sessions, Commit(s)
  PROVE  BarrierInv'
  <1> DEFINE w == sess[s]
  <1>1. /\ w.op = "commit" /\ sess'[s] = Idle /\ \A t \in Sessions : t # s => sess'[t] = sess[t]
        /\ \A i \in DOMAIN items : i \in DOMAIN items'
    BY CommitTyped, CommittedItems
  <1>2. /\ DOMAIN docs \subseteq DOMAIN docs' /\ DOMAIN docs' \subseteq DOMAIN runs'
        /\ DOMAIN docs' \ DOMAIN docs \subseteq DOMAIN w.runs
        /\ \A d \in DOMAIN docs : docs'[d].allowed = docs[d].allowed
        /\ \A d \in DOMAIN docs' : docs'[d].allowed = AllowedOf(w, d)
        /\ \A r \in DOMAIN runs' : runs'[r].doc \in DOMAIN docs'
    BY CommittedDocuments
  <1>3. /\ DOMAIN runs' = DOMAIN runs \cup DOMAIN w.runs
        /\ \A r \in DOMAIN runs' : runs'[r].doc = DocumentOf(w, r)
    BY CommittedRuns
  <1>4. /\ \A i \in DOMAIN items : items'[i].allowed = items[i].allowed
        /\ \A i \in DOMAIN items' : items'[i].allowed = docs'[items'[i].doc].allowed
    BY CommittedCopies
  <1>5. ASSUME NEW f \in DOMAIN fields'
        PROVE  /\ ~Decided(fields'[f]) => fields'[f].by = None
               /\ Decided(fields'[f]) => /\ fields'[f].by \in Users
                                         /\ TeamOf[fields'[f].by] \in docs'[fields'[f].doc].allowed
    <2>1. CASE /\ f \in DOMAIN fields
               /\ fields'[f].doc = fields[f].doc
               /\ fields'[f].by = fields[f].by /\ fields'[f].status = fields[f].status
      <3>1. Decided(fields'[f]) <=> Decided(fields[f])
        BY <2>1 DEF Decided
      <3>2. fields[f].doc \in DOMAIN docs
        BY <2>1, DocumentsOfRows
      <3>3. QED
        BY <1>2, <2>1, <3>1, <3>2 DEF BarrierInv, RowsCarryTheBarrier, DeciderInsideBarrier
    <2>2. CASE LET x == w.fields[f] IN
               /\ f \in DOMAIN w.fields /\ DeciderPassed(w, f)
               /\ fields'[f].by = x.edited.by /\ fields'[f].status = x.edited.status
               /\ x.edited.doc = DocumentOf(w, f[1])
               /\ fields'[f].doc = x.edited.doc
      <3>1. f[1] \in DOMAIN runs'
        BY <1>3, <2>2, CommitTyped DEF SessionStands, FieldWriteStands
      <3>2. fields'[f].doc \in DOMAIN docs'
        BY <1>2, <1>3, <2>2, <3>1
      <3>3. Decided(fields'[f]) <=> Decided(w.fields[f].edited)
        BY <2>2 DEF Decided
      <3>4. QED
        BY <1>2, <2>2, <3>2, <3>3 DEF DeciderPassed
    <2>3. QED
      BY <2>1, <2>2, CommittedDeciders
  <1>6. RowsCarryTheBarrier'
    BY <1>2, <1>4, <1>5 DEF RowsCarryTheBarrier, Decided
  <1>7. DeciderInsideBarrier'
    BY <1>5 DEF DeciderInsideBarrier, Decided
  <1>8. ASSUME NEW t \in Sessions
        PROVE  KeepsTheBarrier(sess[t])'
    <2>1. CASE t = s
      BY <1>1, <2>1 DEF KeepsTheBarrier, Idle
    <2>2. CASE t # s
      <3> DEFINE v == sess[t]
      <3>1. sess'[t] = v /\ KeepsTheBarrier(v) /\ SessionStands(v)
        BY <1>1, <2>2 DEF IInv, BarrierInv
      <3>2. DOMAIN w.runs \cap Drawn(v) = {}
        BY <1>1, <2>2 DEF IInv, RunsAreDrawnOnce, Drawn
      <3> HIDE DEF v, w
      <3>3. ASSUME v.op = "commit", NEW d \in DOMAIN docs \cup DOMAIN v.docs
            PROVE  (IF d \in DOMAIN docs' THEN docs'[d].allowed ELSE v.docs[d].edited.allowed)
                     = AllowedOf(v, d)
        <4>1. CASE d \in DOMAIN docs
          BY <1>2, <4>1 DEF AllowedOf
        <4>2. CASE d \notin DOMAIN docs
          <5>1. d \in DOMAIN v.runs
            BY <3>1, <3>3, <4>2 DEF KeepsTheBarrier, DocumentWriteStands
          <5>2. d \notin DOMAIN docs'
            BY <1>2, <3>2, <3>3, <4>2, <5>1 DEF Drawn
          <5>3. QED
            BY <4>2, <5>2 DEF AllowedOf
        <4>3. QED
          BY <4>1, <4>2
      <3>4. ASSUME v.op = "commit", NEW r \in DOMAIN runs \cup DOMAIN v.runs
            PROVE  DocumentOf(v, r) \in DOMAIN docs \cup DOMAIN v.docs
        BY <3>1, <3>4 DEF DocumentOf, KeepsTheBarrier, BarrierInv, RowsCarryTheBarrier
      <3>5. ASSUME v.op = "commit", NEW f \in DOMAIN v.fields
            PROVE  DeciderPassed(sess[t], f)'
        <4>1. DeciderPassed(v, f)
          BY <3>1, <3>5 DEF KeepsTheBarrier
        <4>2. v.fields[f].edited.doc \in DOMAIN docs \cup DOMAIN v.docs
          BY <3>1, <3>4, <3>5 DEF SessionStands, FieldWriteStands
        <4>3. AllowedOf(v, v.fields[f].edited.doc) = AllowedOf(sess[t], sess[t].fields[f].edited.doc)'
          BY <3>1, <3>3, <3>5, <4>2 DEF AllowedOf
        <4>4. QED
          BY <3>1, <4>1, <4>3 DEF DeciderPassed, Decided
      <3>6. ASSUME v.op = "commit", NEW i \in DOMAIN v.items
            PROVE  CopiesTheBarrier(sess[t], i)'
        <4>1. CopiesTheBarrier(v, i)
          BY <3>1, <3>6 DEF KeepsTheBarrier
        <4>2. v.items[i].edited.doc \in DOMAIN docs \cup DOMAIN v.docs
          BY <3>1, <3>4, <3>6 DEF SessionStands, ItemWriteStands
        <4>3. AllowedOf(v, v.items[i].edited.doc) = AllowedOf(sess[t], sess[t].items[i].edited.doc)'
          BY <3>1, <3>3, <3>6, <4>2 DEF AllowedOf
        <4>4. QED
          BY <3>1, <4>1, <4>3 DEF CopiesTheBarrier
      <3>7. ASSUME v.op = "commit", NEW d \in DOMAIN v.docs
            PROVE  DocumentWriteStands(sess[t], d)'
        <4>1. DocumentWriteStands(v, d)
          BY <3>1, <3>7 DEF KeepsTheBarrier
        <4>2. d \in DOMAIN docs' => d \in DOMAIN docs
          BY <1>2, <3>2, <3>7, <4>1 DEF DocumentWriteStands, Drawn
        <4>3. QED
          BY <1>2, <3>1, <4>1, <4>2 DEF DocumentWriteStands
      <3>8. v.op = "commit" =>
              \A r \in DOMAIN v.runs : v.runs[r].edited.doc \in DOMAIN docs' \cup DOMAIN v.docs
        BY <1>2, <3>1 DEF KeepsTheBarrier
      <3>9. v.op = "pipeline" => PipelineKnowsItsDocument(sess[t])'
        BY <1>2, <3>1 DEF KeepsTheBarrier, PipelineKnowsItsDocument
      <3>10. v.op = "resolve" => /\ TeamOf[v.user] \in v.loaded.allowed
                                 /\ v.loaded.allowed = items'[v.item].allowed
        BY <1>4, <3>1 DEF KeepsTheBarrier, SessionStands, LoadedItemStands
      <3>11. QED
        BY <3>1, <3>5, <3>6, <3>7, <3>8, <3>9, <3>10 DEF KeepsTheBarrier
    <2>3. QED
      BY <2>1, <2>2
  <1>9. QED
    BY <1>6, <1>7, <1>8 DEF BarrierInv

-----------------------------------------------------------------------------
(* The theorem *)

LEMMA StepBarrier == IInv /\ BarrierInv /\ [Next]_vars => BarrierInv'
  <1> SUFFICES ASSUME IInv, BarrierInv, [Next]_vars
               PROVE  BarrierInv'
    OBVIOUS
  <1>1. CASE UNCHANGED vars
    <2>1. UNCHANGED tables /\ sess' = sess
      BY <1>1 DEF vars, tables
    <2>2. CASE Sessions = {}
      BY <2>1, <2>2 DEF BarrierInv, RowsCarryTheBarrier, DeciderInsideBarrier, Decided, tables
    <2>3. ASSUME NEW s \in Sessions
          PROVE  BarrierInv'
      <3>1. sess' = [sess EXCEPT ![s] = sess[s]]
        BY <2>1 DEF IInv
      <3>2. KeepsTheBarrier(sess[s])
        BY DEF BarrierInv
      <3>3. QED
        BY <2>1, <3>1, <3>2, BarrierSessionStep
    <2>4. QED
      BY <2>2, <2>3
  <1>2. CASE Next
    <2>1. PICK s \in Sessions :
            \/ Handle(s) \/ Reprocess(s)
            \/ Exclude(s) \/ Extract(s) \/ PipelineFails(s)
            \/ Verify(s)
            \/ ResolveLoad(s) \/ ResolveOverride(s) \/ ResolveEnter(s)
            \/ Commit(s) \/ SessionLost(s)
      BY <1>2 DEF Next
    <2>2. CASE PipelineFails(s) \/ SessionLost(s)
      BY <2>2, BarrierIdle DEF PipelineFails, SessionLost
    <2>3. QED
      BY <2>1, <2>2, BarrierHandle, BarrierReprocess, BarrierExclude, BarrierExtract, BarrierVerify,
         BarrierResolveLoad, BarrierResolveOverride, BarrierResolveEnter, BarrierCommit
  <1>3. QED
    BY <1>1, <1>2

\* FR-018, for any number of sessions, users and teams: a decided field names someone
\* whose team its document allows.
THEOREM BarrierHolds == Spec => []DeciderInsideBarrier
  <1>1. Init => IInv /\ BarrierInv
    BY InitInvariant, InitBarrier
  <1>2. IInv /\ BarrierInv /\ [Next]_vars => IInv' /\ BarrierInv'
    BY StepInvariant, StepBarrier
  <1>3. BarrierInv => DeciderInsideBarrier
    BY DEF BarrierInv
  <1>4. QED
    BY <1>1, <1>2, <1>3, PTL DEF Spec

-----------------------------------------------------------------------------
(* Completion messages, and what an exclusion leaves: each committed run was *)
(* announced by one message that names its rows.                             *)

LEMMA InitAnnounced == Init => AnnouncedInv
  BY DEF Init, AnnouncedInv, SaidOnce, SessionTells, CommittedIsAnnounced,
         ExcludedGoesToManualEntry, Nothing, Idle, EmptyBag, SetToBag, BagToSet

\* A step of a session that writes no table, and may announce a run of its own.
LEMMA AnnouncedSessionStep ==
  ASSUME IInv, AnnouncedInv, NEW s \in Sessions, NEW next,
         UNCHANGED tables,
         sess' = [sess EXCEPT ![s] = next],
         BagToSet(events) \subseteq BagToSet(events'),
         \A e \in BagToSet(events') : events'[e] = 1,
         \A e \in BagToSet(events') \ BagToSet(events) :
           /\ e.run \notin DOMAIN runs
           /\ \A x \in BagToSet(events') : x.run = e.run => x = e
           /\ \A t \in Sessions \ {s} : sess[t].op = "pipeline" => sess[t].run # e.run,
         next.op = "pipeline" => NothingIsSaid(next) /\ events' = events,
         next.op = "commit" =>
           /\ \A run \in DOMAIN next.runs :
                ExcludesOnly(run, next) /\ \E e \in BagToSet(events') : Tells(e, run, next)
           /\ \A d \in DOMAIN next.docs : LeavesAnItem(d, next)
  PROVE  AnnouncedInv'
  <1>1. \A t \in Sessions : t # s => sess'[t] = sess[t]
    BY DEF IInv
  <1>2. \A e, x \in BagToSet(events') : e.run = x.run => e = x
    BY DEF AnnouncedInv
  <1>3. ASSUME NEW t \in Sessions, t # s
        PROVE  SessionTells(sess[t])'
    <2> DEFINE v == sess[t]
    <2>1. sess'[t] = v /\ SessionTells(v)
      BY <1>1, <1>3 DEF AnnouncedInv
    <2> HIDE DEF v
    <2>2. v.op = "pipeline" => \A e \in BagToSet(events') \ BagToSet(events) : v.run # e.run
      BY <1>3 DEF v
    <2>3. v.op = "pipeline" => NothingIsSaid(sess[t])'
      BY <2>1, <2>2 DEF SessionTells, NothingIsSaid, tables
    <2>4. ASSUME v.op = "commit", NEW run \in DOMAIN v.runs
          PROVE  /\ ExcludesOnly(run, v)
                 /\ \E e \in BagToSet(events') : Tells(e, run, sess[t])'
      <3>1. ExcludesOnly(run, v)
        BY <2>1, <2>4 DEF SessionTells
      <3>2. PICK e \in BagToSet(events) : Tells(e, run, v)
        BY <2>1, <2>4 DEF SessionTells
      <3>3. Tells(e, run, sess[t])'
        BY <2>1, <3>2 DEF Tells, tables
      <3> QED
        BY <3>1, <3>3
    <2>5. v.op = "commit" => \A d \in DOMAIN v.docs : LeavesAnItem(d, v)
      BY <2>1 DEF SessionTells
    <2> QED
      BY <2>1, <2>3, <2>4, <2>5 DEF SessionTells, ExcludesOnly, LeavesAnItem
  <1>6. SessionTells(sess[s])'
    <2>1. sess'[s] = next
      BY DEF IInv
    <2>2. next.op = "pipeline" => NothingIsSaid(sess[s])'
      BY <2>1 DEF NothingIsSaid, tables
    <2>3. ASSUME next.op = "commit", NEW run \in DOMAIN next.runs
          PROVE  \E e \in BagToSet(events') : Tells(e, run, sess[s])'
      <3>1. PICK e \in BagToSet(events') : Tells(e, run, next)
        BY <2>3
      <3>2. Tells(e, run, sess[s])'
        BY <2>1, <3>1 DEF Tells, tables
      <3> QED
        BY <3>2
    <2> QED
      BY <2>1, <2>2, <2>3 DEF SessionTells, ExcludesOnly, LeavesAnItem
  <1>4. CommittedIsAnnounced'
    <2> SUFFICES ASSUME NEW r \in DOMAIN runs
                 PROVE  \E e \in BagToSet(events') :
                          /\ e.run = r /\ e.doc = runs[r].doc /\ e.status = runs[r].status
                          /\ events'[e] = 1 /\ \A x \in BagToSet(events') : x.run = r => x = e
                          /\ {f \in DOMAIN fields : f[1] = r /\ f[2] \in Positions} \subseteq e.fields
                          /\ e.fields \subseteq DOMAIN fields
                          /\ \A f \in e.fields : fields[f].doc = e.doc
                          /\ e.items = {i \in DOMAIN items : i[1] = r}
      BY DEF CommittedIsAnnounced, tables
    <2>1. PICK e \in BagToSet(events) :
                          /\ e.run = r /\ e.doc = runs[r].doc /\ e.status = runs[r].status
                          /\ events[e] = 1 /\ \A x \in BagToSet(events) : x.run = r => x = e
                          /\ {f \in DOMAIN fields : f[1] = r /\ f[2] \in Positions} \subseteq e.fields
                          /\ e.fields \subseteq DOMAIN fields
                          /\ \A f \in e.fields : fields[f].doc = e.doc
                          /\ e.items = {i \in DOMAIN items : i[1] = r}
      BY DEF AnnouncedInv, CommittedIsAnnounced
    <2>2. \A x \in BagToSet(events') : x.run = r => x = e
      BY <2>1
    <2> QED
      BY <2>1, <2>2
  <1>5. ExcludedGoesToManualEntry'
    BY DEF AnnouncedInv, ExcludedGoesToManualEntry, tables
  <1>7. SaidOnce'
    BY DEF SaidOnce
  <1> QED
    BY <1>2, <1>3, <1>4, <1>5, <1>6, <1>7 DEF AnnouncedInv

\* A session that takes up or drops work, or that only means to decide a field.
LEMMA SilentSessionStep ==
  ASSUME IInv, AnnouncedInv, NEW s \in Sessions, NEW next,
         UNCHANGED tables, events' = events,
         sess' = [sess EXCEPT ![s] = next],
         next.op = "pipeline" => NothingIsSaid(next),
         next.op = "commit" => next.runs = Nothing /\ next.docs = Nothing
  PROVE  AnnouncedInv'
  <1>1. next.op = "commit" => DOMAIN next.runs = {} /\ DOMAIN next.docs = {}
    BY DEF Nothing
  <1>2. \A e \in BagToSet(events') : events'[e] = 1
    BY DEF AnnouncedInv, SaidOnce
  <1> QED
    BY <1>1, <1>2, AnnouncedSessionStep

LEMMA SilentWork ==
  ASSUME IInv, AnnouncedInv, NEW s \in Sessions, NEW fieldWrites, NEW itemWrites,
         UNCHANGED tables, events' = events,
         sess' = [sess EXCEPT ![s] = Work(Nothing, Nothing, fieldWrites, itemWrites)]
  PROVE  AnnouncedInv'
  <1> DEFINE next == Work(Nothing, Nothing, fieldWrites, itemWrites)
  <1>1. next.op = "commit" /\ next.runs = Nothing /\ next.docs = Nothing
    BY DEF Work
  <1> HIDE DEF next
  <1> QED
    BY <1>1, SilentSessionStep DEF next

LEMMA AnnouncedHandle ==
  ASSUME IInv, AnnouncedInv, NEW s \in Sessions, Handle(s)
  PROVE  AnnouncedInv'
  <1>1. PICK run \in Runs \ started, allowed \in SUBSET Teams :
          sess' = [sess EXCEPT ![s] =
            [op |-> "pipeline", run |-> run, doc |-> run, verified |-> Nothing,
             loaded |-> [allowed |-> allowed, status |-> "PROCESSING",
                         confidence |-> None]]]
    BY DEF Handle
  <1> DEFINE next == [op |-> "pipeline", run |-> run, doc |-> run, verified |-> Nothing,
                      loaded |-> [allowed |-> allowed, status |-> "PROCESSING",
                                  confidence |-> None]]
  <1>2. \A e \in BagToSet(events) : e.run # run
    BY DEF IInv, TypeOK, MessageState
  <1>3. next.op = "pipeline" /\ NothingIsSaid(next)
    BY <1>2 DEF NothingIsSaid, Nothing
  <1>4. UNCHANGED <<tables, events>>
    BY DEF Handle
  <1> HIDE DEF next
  <1> QED
    BY <1>1, <1>3, <1>4, SilentSessionStep DEF next

LEMMA AnnouncedReprocess ==
  ASSUME IInv, AnnouncedInv, NEW s \in Sessions, Reprocess(s)
  PROVE  AnnouncedInv'
  <1>1. PICK run \in Runs \ started, doc \in DOMAIN docs :
        \E verified \in VerifiedByType(doc) :
          sess' = [sess EXCEPT ![s] =
            [op |-> "pipeline", run |-> run, doc |-> doc, verified |-> verified,
             loaded |-> docs[doc]]]
    BY DEF Reprocess
  <1>2. PICK verified \in VerifiedByType(doc) :
          sess' = [sess EXCEPT ![s] =
            [op |-> "pipeline", run |-> run, doc |-> doc, verified |-> verified,
             loaded |-> docs[doc]]]
    BY <1>1
  <1> DEFINE next == [op |-> "pipeline", run |-> run, doc |-> doc, verified |-> verified,
                      loaded |-> docs[doc]]
  <1>3. \A e \in BagToSet(events) : e.run # run
    BY DEF IInv, TypeOK, MessageState
  <1>4. \A t \in DOMAIN verified : verified[t] \in DOMAIN fields /\ fields[verified[t]].doc = doc
    BY DEF VerifiedByType
  <1>5. next.op = "pipeline" /\ NothingIsSaid(next)
    BY <1>3, <1>4 DEF NothingIsSaid
  <1>6. UNCHANGED <<tables, events>>
    BY DEF Reprocess
  <1> HIDE DEF next
  <1> QED
    BY <1>2, <1>5, <1>6, SilentSessionStep DEF next

LEMMA AnnouncedComplete ==
  ASSUME IInv, AnnouncedInv, NEW s \in Sessions, sess[s].op = "pipeline",
         NEW status, NEW confidence, NEW newFields, NEW kept, NEW newItems,
         Complete(s, status, confidence, newFields, kept, newItems),
         \A f \in DOMAIN newFields : f[1] = sess[s].run,
         \A i \in DOMAIN newItems : i[1] = sess[s].run,
         \A f \in kept : f \in DOMAIN fields /\ fields[f].doc = sess[s].doc,
         <<sess[s].run, 0>> \in DOMAIN newItems =>
           \A k \in Positions : /\ <<sess[s].run, k>> \notin DOMAIN newFields
                                /\ <<sess[s].run, k>> \notin DOMAIN newItems,
         status = "EXCLUDED_LOW_QUALITY" => <<sess[s].run, 0>> \in DOMAIN newItems
  PROVE  AnnouncedInv'
  <1> DEFINE p == sess[s]
             row == [p.loaded EXCEPT !.status = status, !.confidence = confidence]
             next == Work(Single(p.doc, Update(p.loaded, row)),
                          Single(p.run, Insert([doc |-> p.doc, status |-> "COMPLETE"])),
                          newFields, newItems)
             message == [run |-> p.run, doc |-> p.doc, status |-> "COMPLETE",
                         fields |-> DOMAIN newFields \cup kept, items |-> DOMAIN newItems]
  <1>1. /\ events' = events (+) SetToBag({message})
        /\ sess' = [sess EXCEPT ![s] = next]
        /\ UNCHANGED <<tables, started>>
    BY DEF Complete
  <1>2. PipelineState(p) /\ p.loaded \in DocumentRow
    BY DEF IInv, TypeOK, SessionState, Idle, PipelineState
  <1>3. row.status = status
    BY <1>2 DEF DocumentRow
  <1>4. NothingIsSaid(p)
    BY DEF AnnouncedInv, SessionTells
  <1>5. p.run \notin DOMAIN runs
        /\ \A t \in Sessions \ {s} : sess[t].op = "pipeline" => sess[t].run # p.run
    BY DEF IInv, RunsAreDrawnOnce, Drawn
  <1>6. /\ next.op = "commit" /\ next.fields = newFields /\ next.items = newItems
        /\ DOMAIN next.runs = {p.run}
        /\ next.runs[p.run].edited = [doc |-> p.doc, status |-> "COMPLETE"]
        /\ DOMAIN next.docs = {p.doc} /\ next.docs[p.doc].edited = row
    BY DEF Work, Single, Insert, Update
  <1>7. /\ message.run = p.run /\ message.doc = p.doc /\ message.status = "COMPLETE"
        /\ message.fields = DOMAIN newFields \cup kept /\ message.items = DOMAIN newItems
    OBVIOUS
  <1> HIDE DEF next, message, row
  <1>8. Tells(message, p.run, next)
    <2>1. \A f \in message.fields : \/ f \in DOMAIN newFields /\ f[1] = p.run
                                    \/ f \in DOMAIN fields /\ fields[f].doc = p.doc
      BY <1>7
    <2>2. /\ message.doc = next.runs[p.run].edited.doc
          /\ message.status = next.runs[p.run].edited.status
      BY <1>6, <1>7
    <2>3. /\ {f \in DOMAIN next.fields : f[1] = p.run} \subseteq message.fields
          /\ message.items = {i \in DOMAIN next.items : i[1] = p.run}
      BY <1>6, <1>7
    <2>4. \A f \in message.fields : \/ f \in DOMAIN next.fields /\ f[1] = p.run
                                    \/ f \in DOMAIN fields /\ fields[f].doc = message.doc
      BY <1>6, <1>7, <2>1
    <2>5. message.run = p.run
      BY <1>7
    <2> HIDE DEF p
    <2> QED
      BY <2>2, <2>3, <2>4, <2>5 DEF Tells
  <1>9. ExcludesOnly(p.run, next)
    BY <1>6 DEF ExcludesOnly
  <1>10. LeavesAnItem(p.doc, next)
    BY <1>3, <1>6 DEF LeavesAnItem
  <1>16. BagToSet(events') = BagToSet(events) \cup {message}
    BY <1>1, Publishing
  <1>17. \A e \in BagToSet(events') : events'[e] = 1
    <2>1. message \notin BagToSet(events) /\ \A e \in BagToSet(events) : events[e] = 1
      BY <1>4, <1>7 DEF NothingIsSaid, AnnouncedInv, SaidOnce
    <2>2. events' = events (+) SetToBag({message})
      BY <1>1
    <2> SUFFICES ASSUME NEW e \in BagToSet(events) \cup {message}
                 PROVE  (events (+) SetToBag({message}))[e] = 1
      BY <1>16, <2>2
    <2>3. e \in BagToSet(events) => e # message /\ events[e] = 1
      BY <2>1
    <2> QED
      BY <2>3 DEF (+), SetToBag, BagToSet
  <1>11. \A e \in BagToSet(events') \ BagToSet(events) :
           /\ e.run \notin DOMAIN runs
           /\ \A x \in BagToSet(events') : x.run = e.run => x = e
           /\ \A t \in Sessions \ {s} : sess[t].op = "pipeline" => sess[t].run # e.run
    <2>1. \A e \in BagToSet(events') \ BagToSet(events) : e = message
      BY <1>16
    <2>2. \A x \in BagToSet(events') : x.run = message.run => x = message
      BY <1>4, <1>7, <1>16 DEF NothingIsSaid
    <2> QED
      BY <1>5, <1>7, <2>1, <2>2
  <1>12. \A run \in DOMAIN next.runs :
           ExcludesOnly(run, next) /\ \E e \in BagToSet(events') : Tells(e, run, next)
    BY <1>6, <1>8, <1>9, <1>16
  <1>13. \A d \in DOMAIN next.docs : LeavesAnItem(d, next)
    BY <1>6, <1>10
  <1>14. next.op # "pipeline" /\ BagToSet(events) \subseteq BagToSet(events')
    BY <1>6, <1>16
  <1>15. UNCHANGED tables /\ sess' = [sess EXCEPT ![s] = next]
    BY <1>1
  <1> HIDE DEF p
  <1> QED
    BY <1>11, <1>12, <1>13, <1>14, <1>15, <1>17, AnnouncedSessionStep

LEMMA AnnouncedExclude ==
  ASSUME IInv, AnnouncedInv, NEW s \in Sessions, Exclude(s)
  PROVE  AnnouncedInv'
  <1> DEFINE p == sess[s]
             newItems == Single(<<p.run, 0>>, Insert(QueueItem(p.doc, None, p.loaded.allowed)))
  <1>1. PICK confidence \in OcrConfidences :
          Complete(s, "EXCLUDED_LOW_QUALITY", confidence, Nothing, {}, newItems)
    BY DEF Exclude
  <1>2. p.op = "pipeline"
    BY DEF Exclude
  <1>3. DOMAIN newItems = {<<p.run, 0>>} /\ DOMAIN Nothing = {}
    BY DEF Single, Nothing
  <1>4. \A k \in Positions : <<p.run, k>> # <<p.run, 0>>
    <2>1. \A k \in Positions : k # 0
      BY ParametersAreTyped DEF Positions
    <2> QED
      BY <2>1
  <1> HIDE DEF newItems
  <1>5. \A f \in DOMAIN Nothing : f[1] = sess[s].run
    BY <1>3
  <1>6. \A i \in DOMAIN newItems : i[1] = sess[s].run
    BY <1>3
  <1>7. \A k \in Positions : /\ <<sess[s].run, k>> \notin DOMAIN Nothing
                            /\ <<sess[s].run, k>> \notin DOMAIN newItems
    BY <1>3, <1>4
  <1>8. <<sess[s].run, 0>> \in DOMAIN newItems
    BY <1>3
  <1> QED
    BY <1>1, <1>2, <1>5, <1>6, <1>7, <1>8, AnnouncedComplete

LEMMA AnnouncedExtract ==
  ASSUME IInv, AnnouncedInv, NEW s \in Sessions, Extract(s)
  PROVE  AnnouncedInv'
  <1>1. PICK confidence \in OcrConfidences, n \in 0..MaxResults :
        \E results \in [1..n -> Result] :
          LET p == sess[s]
              fresh == {k \in 1..n : results[k].type \notin DOMAIN p.verified}
              low == {k \in fresh : ~ShouldAutoPopulate(results[k])}
          IN  /\ ~BelowQualityFloor(confidence)
              /\ Complete(s, "COMPLETE", confidence,
                   [id \in {p.run} \X fresh |-> Insert(Extracted(p.doc, results[id[2]]))],
                   {p.verified[results[k].type] : k \in (1..n) \ fresh},
                   [id \in {p.run} \X low |-> Insert(QueueItem(p.doc, id, p.loaded.allowed))])
    BY DEF Extract
  <1> DEFINE p == sess[s]
             fresh(results) == {k \in 1..n : results[k].type \notin DOMAIN p.verified}
             low(results) == {k \in fresh(results) : ~ShouldAutoPopulate(results[k])}
             fieldsOf(results) ==
               [id \in {p.run} \X fresh(results) |-> Insert(Extracted(p.doc, results[id[2]]))]
             keptBy(results) == {p.verified[results[k].type] : k \in (1..n) \ fresh(results)}
             itemsOf(results) ==
               [id \in {p.run} \X low(results) |-> Insert(QueueItem(p.doc, id, p.loaded.allowed))]
  <1>2. PICK results \in [1..n -> Result] :
          Complete(s, "COMPLETE", confidence, fieldsOf(results), keptBy(results), itemsOf(results))
    BY <1>1
  <1>3. p.op = "pipeline" /\ NothingIsSaid(p)
    BY DEF Extract, AnnouncedInv, SessionTells
  <1>4. \A f \in keptBy(results) : f \in DOMAIN fields /\ fields[f].doc = p.doc
    BY <1>3 DEF NothingIsSaid
  <1>5. /\ \A f \in DOMAIN fieldsOf(results) : f[1] = p.run
        /\ \A i \in DOMAIN itemsOf(results) : i[1] = p.run
    OBVIOUS
  <1>6. <<p.run, 0>> \notin DOMAIN itemsOf(results)
    <2>1. \A k \in 1..n : k # 0
      OBVIOUS
    <2> QED
      BY <2>1
  <1> HIDE DEF fieldsOf, keptBy, itemsOf
  <1> QED
    BY <1>2, <1>3, <1>4, <1>5, <1>6, AnnouncedComplete

\* The requests of the review: what they commit announces nothing.
LEMMA AnnouncedReview ==
  ASSUME IInv, AnnouncedInv, NEW s \in Sessions,
         \/ Verify(s) \/ ResolveLoad(s) \/ ResolveOverride(s) \/ ResolveEnter(s)
         \/ PipelineFails(s) \/ SessionLost(s)
  PROVE  AnnouncedInv'
  <1>1. UNCHANGED <<tables, events>>
    BY DEF Verify, ResolveLoad, ResolveOverride, ResolveEnter, PipelineFails, SessionLost
  <1>2. CASE Verify(s)
    <2>1. PICK user \in Users, f \in DOMAIN fields, override \in Values \cup {None} :
            sess' = [sess EXCEPT ![s] =
              Work(Nothing, Nothing,
                   Single(f, Update(fields[f], ApplyVerification(fields[f], user, override))),
                   Nothing)]
      BY <1>2 DEF Verify
    <2> QED
      BY <1>1, <2>1, SilentWork
  <1>3. CASE ResolveLoad(s)
    <2>1. PICK user \in Users, i \in DOMAIN items :
            sess' = [sess EXCEPT ![s] =
              [op |-> "resolve", user |-> user, item |-> i, loaded |-> items[i]]]
      BY <1>3 DEF ResolveLoad
    <2> DEFINE next == [op |-> "resolve", user |-> user, item |-> i, loaded |-> items[i]]
    <2>2. next.op = "resolve"
      OBVIOUS
    <2> HIDE DEF next
    <2> QED
      BY <1>1, <2>1, <2>2, SilentSessionStep DEF next
  <1>4. CASE sess' = [sess EXCEPT ![s] = Idle]
    BY <1>1, <1>4, SilentSessionStep DEF Idle
  <1>5. CASE ResolveOverride(s) /\ sess' # [sess EXCEPT ![s] = Idle]
    <2> DEFINE r == sess[s]
               f == r.loaded.field
    <2>1. PICK value \in Values :
            sess' = [sess EXCEPT ![s] =
              Work(Nothing, Nothing,
                   Single(f, Update(fields[f], ApplyVerification(fields[f], r.user, value))),
                   Single(r.item, Update(r.loaded, Resolved(r.loaded, f))))]
      BY <1>5 DEF ResolveOverride
    <2> QED
      BY <1>1, <2>1, SilentWork
  <1>6. CASE ResolveEnter(s)
    <2> DEFINE r == sess[s]
               f == <<r.item[1], s>>
    <2>1. PICK type \in FieldTypes, value \in Values :
            sess' = [sess EXCEPT ![s] =
              Work(Nothing, Nothing,
                   Single(f, Insert(HandEntered(r.loaded.doc, type, value, r.user))),
                   Single(r.item, Update(r.loaded, Resolved(r.loaded, f))))]
      BY <1>6 DEF ResolveEnter
    <2> QED
      BY <1>1, <2>1, SilentWork
  <1> QED
    BY <1>2, <1>3, <1>4, <1>5, <1>6 DEF PipelineFails, SessionLost

LEMMA AnnouncedCommit ==
  ASSUME IInv, AnnouncedInv, NEW s \in Sessions, Commit(s)
  PROVE  AnnouncedInv'
  <1> DEFINE w == sess[s]
  <1>1. /\ w.op = "commit" /\ CommitState(w) /\ SessionStands(w) /\ SessionTells(w)
        /\ sess'[s] = Idle
        /\ \A t \in Sessions : t # s => sess'[t] = sess[t]
        /\ events' = events
    BY CommitTyped DEF AnnouncedInv, Commit
  <1>2. /\ DOMAIN runs' = DOMAIN runs \cup DOMAIN w.runs
        /\ DOMAIN runs \cap DOMAIN w.runs = {}
        /\ \A r \in DOMAIN runs : runs'[r] = runs[r]
        /\ \A r \in DOMAIN w.runs : runs'[r] = w.runs[r].edited
    <2>1. runs' = Flushed(runs, w.runs)
      BY DEF Commit
    <2>2. DOMAIN runs \cap DOMAIN w.runs = {} /\ \A r \in DOMAIN runs : runs'[r] = runs[r]
      BY CommittedRuns
    <2>3. \A r \in DOMAIN w.runs : runs'[r] = w.runs[r].edited
      BY <2>1, <2>2, FlushedRow
    <2> QED
      BY <2>1, <2>2, <2>3, FlushedDomain
  <1>3. /\ DOMAIN fields' = DOMAIN fields \cup DOMAIN w.fields
        /\ \A f \in DOMAIN fields : fields'[f].doc = fields[f].doc
        /\ \A f \in DOMAIN w.fields \ DOMAIN fields : fields'[f] = w.fields[f].edited
    BY CommittedFields
  <1>4. DOMAIN items' = DOMAIN items \cup DOMAIN w.items
    BY CommittedItems
  <1>5. /\ \A f \in DOMAIN fields : f \in FieldIds /\ f[1] \in DOMAIN runs
        /\ \A i \in DOMAIN items : i[1] \in DOMAIN runs
        /\ \A f \in DOMAIN w.fields \ DOMAIN fields :
             f \in FieldIds /\ (f[1] \in DOMAIN w.runs \/ f[2] \in Sessions)
        /\ \A f \in DOMAIN w.fields : w.fields[f].edited.doc = DocumentOf(w, f[1])
        /\ \A i \in DOMAIN w.items \ DOMAIN items : i[1] \in DOMAIN w.runs
    BY <1>1 DEF IInv, TypeOK, IsTable, FieldStands, ItemStands, SessionStands, CommitState, AreWrites,
                FieldWriteStands, ItemWriteStands
  <1>6. \A k \in Positions : k \notin Sessions
    BY SessionsAreNotPositions, ParametersAreTyped DEF Positions
  <1> HIDE DEF w
  <1>7. ASSUME NEW t \in Sessions
        PROVE  SessionTells(sess[t])'
    <2>1. CASE t = s
      BY <1>1, <2>1 DEF SessionTells, Idle
    <2>2. CASE t # s
      <3> DEFINE v == sess[t]
      <3>1. sess'[t] = v /\ SessionTells(v)
        BY <1>1, <2>2 DEF AnnouncedInv
      <3> HIDE DEF v
      <3>2. v.op = "pipeline" => NothingIsSaid(sess[t])'
        BY <1>1, <1>3, <3>1 DEF SessionTells, NothingIsSaid
      <3>3. ASSUME v.op = "commit", NEW run \in DOMAIN v.runs
            PROVE  ExcludesOnly(run, v) /\ \E e \in BagToSet(events') : Tells(e, run, sess[t])'
        <4>1. PICK e \in BagToSet(events) : Tells(e, run, v)
          BY <3>1, <3>3 DEF SessionTells
        <4>2. Tells(e, run, sess[t])'
          BY <1>3, <3>1, <4>1 DEF Tells
        <4> QED
          BY <1>1, <3>1, <3>3, <4>2 DEF SessionTells
      <3>4. v.op = "commit" => \A d \in DOMAIN v.docs : LeavesAnItem(d, v)
        BY <3>1 DEF SessionTells
      <3> QED
        BY <3>1, <3>2, <3>3, <3>4 DEF SessionTells, ExcludesOnly, LeavesAnItem
    <2> QED
      BY <2>1, <2>2
  <1>8. CommittedIsAnnounced'
    <2> DEFINE Announced(e, r) ==
          /\ e.run = r /\ e.doc = runs'[r].doc /\ e.status = runs'[r].status
          /\ events[e] = 1 /\ \A x \in BagToSet(events) : x.run = r => x = e
          /\ {f \in DOMAIN fields' : f[1] = r /\ f[2] \in Positions} \subseteq e.fields
          /\ e.fields \subseteq DOMAIN fields'
          /\ \A f \in e.fields : fields'[f].doc = e.doc
          /\ e.items = {i \in DOMAIN items' : i[1] = r}
    <2>1. ASSUME NEW r \in DOMAIN runs
          PROVE  \E e \in BagToSet(events) : Announced(e, r)
      <3>1. PICK e \in BagToSet(events) :
              /\ e.run = r /\ e.doc = runs[r].doc /\ e.status = runs[r].status
              /\ events[e] = 1 /\ \A x \in BagToSet(events) : x.run = r => x = e
              /\ {f \in DOMAIN fields : f[1] = r /\ f[2] \in Positions} \subseteq e.fields
              /\ e.fields \subseteq DOMAIN fields
              /\ \A f \in e.fields : fields[f].doc = e.doc
              /\ e.items = {i \in DOMAIN items : i[1] = r}
        BY DEF AnnouncedInv, CommittedIsAnnounced
      <3>2. r \notin DOMAIN w.runs /\ runs'[r] = runs[r]
        BY <1>2
      <3>3. {f \in DOMAIN fields' : f[1] = r /\ f[2] \in Positions} \subseteq e.fields
        BY <1>3, <1>5, <1>6, <3>1, <3>2
      <3>4. e.items = {i \in DOMAIN items' : i[1] = r}
        BY <1>4, <1>5, <3>1, <3>2
      <3>5. e.fields \subseteq DOMAIN fields' /\ \A f \in e.fields : fields'[f].doc = e.doc
        BY <1>3, <3>1
      <3> QED
        BY <3>1, <3>2, <3>3, <3>4, <3>5
    <2>2. ASSUME NEW r \in DOMAIN w.runs
          PROVE  \E e \in BagToSet(events) : Announced(e, r)
      <3>1. PICK e \in BagToSet(events) : Tells(e, r, w)
        BY <1>1 DEF SessionTells
      <3>2. r \notin DOMAIN runs /\ runs'[r] = w.runs[r].edited
        BY <1>2
      <3>3. events[e] = 1 /\ \A x \in BagToSet(events) : x.run = r => x = e
        BY <3>1 DEF Tells, AnnouncedInv, SaidOnce
      <3>4. {f \in DOMAIN fields' : f[1] = r /\ f[2] \in Positions} \subseteq e.fields
        BY <1>3, <1>5, <3>1, <3>2 DEF Tells
      <3>5. e.items = {i \in DOMAIN items' : i[1] = r}
        BY <1>4, <1>5, <3>1, <3>2 DEF Tells
      <3>6. ASSUME NEW f \in e.fields
            PROVE  f \in DOMAIN fields' /\ fields'[f].doc = e.doc
        <4>1. CASE f \in DOMAIN w.fields /\ f[1] = r
          <5>1. f \notin DOMAIN fields
            BY <1>5, <3>2, <4>1
          <5>2. fields'[f].doc = DocumentOf(w, r)
            BY <1>3, <1>5, <4>1, <5>1
          <5>3. DocumentOf(w, r) = e.doc
            BY <3>1 DEF DocumentOf, Tells
          <5> QED
            BY <1>3, <4>1, <5>2, <5>3
        <4>2. CASE f \in DOMAIN fields /\ fields[f].doc = e.doc
          BY <1>3, <4>2
        <4> QED
          BY <3>1, <4>1, <4>2 DEF Tells
      <3> QED
        BY <3>1, <3>2, <3>3, <3>4, <3>5, <3>6 DEF Tells
    <2> QED
      BY <1>1, <1>2, <2>1, <2>2 DEF CommittedIsAnnounced
  <1>9. ExcludedGoesToManualEntry'
    <2>1. ASSUME NEW r \in Runs, <<r, 0>> \in DOMAIN items', NEW k \in Positions
          PROVE  <<r, k>> \notin DOMAIN fields' /\ <<r, k>> \notin DOMAIN items'
      <3>1. CASE r \in DOMAIN runs
        <4>1. <<r, 0>> \in DOMAIN items
          BY <1>2, <1>4, <1>5, <2>1, <3>1
        <4>2. <<r, k>> \notin DOMAIN fields /\ <<r, k>> \notin DOMAIN items
          BY <4>1 DEF AnnouncedInv, ExcludedGoesToManualEntry
        <4> QED
          BY <1>2, <1>3, <1>4, <1>5, <1>6, <3>1, <4>2
      <3>2. CASE r \notin DOMAIN runs
        <4>1. <<r, 0>> \in DOMAIN w.items /\ r \in DOMAIN w.runs
          BY <1>4, <1>5, <2>1, <3>2
        <4>2. <<r, k>> \notin DOMAIN w.fields /\ <<r, k>> \notin DOMAIN w.items
          BY <1>1, <4>1 DEF SessionTells, ExcludesOnly
        <4> QED
          BY <1>3, <1>4, <1>5, <3>2, <4>2
      <3> QED
        BY <3>1, <3>2
    <2>2. ASSUME NEW d \in DOMAIN docs', docs'[d].status = "EXCLUDED_LOW_QUALITY"
          PROVE  \E r \in DOMAIN runs' : runs'[r].doc = d /\ <<r, 0>> \in DOMAIN items'
      <3>1. \/ d \in DOMAIN docs /\ docs[d].status = "EXCLUDED_LOW_QUALITY"
            \/ d \in DOMAIN w.docs /\ w.docs[d].edited.status = "EXCLUDED_LOW_QUALITY"
        <4>1. docs' = Flushed(docs, w.docs)
          BY DEF Commit, w
        <4>2. d \in DOMAIN docs \cup DOMAIN w.docs
          BY <4>1, <2>2, FlushedDomain
        <4>3. CASE d \in DOMAIN docs /\ d \in DOMAIN w.docs
          <5>1. docs'[d] = Merged(docs[d], w.docs[d]) /\ docs[d] \in DocumentRow
            BY <4>1, <4>3, FlushedRow DEF IInv, TypeOK, IsTable
          <5>2. docs'[d].status \in {docs[d].status, w.docs[d].edited.status}
            BY <5>1 DEF Merged, DocumentRow
          <5> QED
            BY <2>2, <4>3, <5>2
        <4> QED
          BY <2>2, <4>1, <4>2, <4>3, FlushedRow
      <3>2. CASE d \in DOMAIN docs /\ docs[d].status = "EXCLUDED_LOW_QUALITY"
        BY <1>2, <1>4, <3>2 DEF AnnouncedInv, ExcludedGoesToManualEntry
      <3>3. CASE d \in DOMAIN w.docs /\ w.docs[d].edited.status = "EXCLUDED_LOW_QUALITY"
        BY <1>1, <1>2, <1>4, <3>3 DEF SessionTells, LeavesAnItem
      <3> QED
        BY <3>1, <3>2, <3>3
    <2> QED
      BY <2>1, <2>2 DEF ExcludedGoesToManualEntry
  <1>10. \A e, x \in BagToSet(events') : e.run = x.run => e = x
    BY <1>1 DEF AnnouncedInv
  <1>11. SaidOnce'
    BY <1>1 DEF AnnouncedInv, SaidOnce
  <1> QED
    BY <1>7, <1>8, <1>9, <1>10, <1>11 DEF AnnouncedInv

LEMMA StepAnnounced == IInv /\ AnnouncedInv /\ [Next]_vars => AnnouncedInv'
  <1> SUFFICES ASSUME IInv, AnnouncedInv, [Next]_vars
               PROVE  AnnouncedInv'
    OBVIOUS
  <1>1. CASE UNCHANGED vars
    <2>1. UNCHANGED <<tables, events, sess>>
      BY <1>1 DEF vars, tables
    <2>2. CASE Sessions = {}
      BY <2>1, <2>2 DEF AnnouncedInv, SaidOnce, CommittedIsAnnounced,
                        ExcludedGoesToManualEntry, tables
    <2>3. ASSUME NEW s \in Sessions
          PROVE  AnnouncedInv'
      <3>1. sess' = [sess EXCEPT ![s] = sess[s]]
        BY <2>1 DEF IInv
      <3> DEFINE next == sess[s]
      <3>2. SessionTells(next)
        BY DEF AnnouncedInv
      <3>3. events' = events /\ UNCHANGED tables /\ sess' = [sess EXCEPT ![s] = next]
        BY <2>1, <3>1
      <3> HIDE DEF next
      <3>4. next.op = "pipeline" => NothingIsSaid(next) /\ events' = events
        BY <3>2, <3>3 DEF SessionTells
      <3>5. next.op = "commit" =>
              /\ \A run \in DOMAIN next.runs :
                   ExcludesOnly(run, next) /\ \E e \in BagToSet(events') : Tells(e, run, next)
              /\ \A d \in DOMAIN next.docs : LeavesAnItem(d, next)
        BY <3>2, <3>3 DEF SessionTells
      <3>6. BagToSet(events) \subseteq BagToSet(events') /\ BagToSet(events') \ BagToSet(events) = {}
        BY <3>3
      <3>7. \A e \in BagToSet(events') : events'[e] = 1
        BY <3>3 DEF AnnouncedInv, SaidOnce
      <3> QED
        BY <3>3, <3>4, <3>5, <3>6, <3>7, AnnouncedSessionStep
    <2> QED
      BY <2>2, <2>3
  <1>2. CASE Next
    BY <1>2, AnnouncedHandle, AnnouncedReprocess, AnnouncedExclude, AnnouncedExtract,
       AnnouncedReview, AnnouncedCommit
    DEF Next
  <1> QED
    BY <1>1, <1>2

LEMMA MessagesStand == Spec => []AnnouncedInv
  <1>1. Init => IInv /\ AnnouncedInv
    BY InitInvariant, InitAnnounced
  <1>2. IInv /\ AnnouncedInv /\ [Next]_vars => (IInv /\ AnnouncedInv)'
    BY StepInvariant, StepAnnounced
  <1> QED
    BY <1>1, <1>2, PTL DEF Spec

\* _emit_completion: whatever the sessions interleave, a committed run was announced by
\* exactly one message, which names every field and item the run left in the tables.
THEOREM RunsAreAnnounced == Spec => []CommittedIsAnnounced
  <1>1. AnnouncedInv => CommittedIsAnnounced
    BY DEF AnnouncedInv
  <1> QED
    BY <1>1, MessagesStand, PTL

\* _exclude_low_quality: a run that excluded its document left one item without a field
\* and nothing else, and a document that says it is excluded has such a run.
THEOREM ExclusionsAreEnteredByHand == Spec => []ExcludedGoesToManualEntry
  <1>1. AnnouncedInv => ExcludedGoesToManualEntry
    BY DEF AnnouncedInv
  <1> QED
    BY <1>1, MessagesStand, PTL

-----------------------------------------------------------------------------
(* One session at a time: decisions are final, a reprocess adds nothing for a *)
(* decided type, a document's status fits its confidence, and the tables      *)
(* implement FieldLifecycle.                                                  *)

\* A row that is still as it was loaded becomes the edited one.
LEMMA MergedFreshDocument ==
  ASSUME NEW write \in [loaded : DocumentRow, edited : DocumentRow]
  PROVE  Merged(write.loaded, write) = write.edited
  BY DEF Merged, DocumentRow

LEMMA MergedFreshField ==
  ASSUME NEW write \in [loaded : FieldRow, edited : FieldRow]
  PROVE  Merged(write.loaded, write) = write.edited
  BY DEF Merged, FieldRow

LEMMA InitSerial == Init => SerialInv
  BY DEF Init, SerialInv, IsFresh, EnteredOnce, StatusMatchesConfidence, Nothing, Idle

\* A session's own step leaves the tables, and with them what the others have loaded.
LEMMA SerialSessionStep ==
  ASSUME IInv, SerialInv, NEW s \in Sessions, NEW next,
         UNCHANGED tables,
         sess' = [sess EXCEPT ![s] = next],
         IsFresh(next)
  PROVE  SerialInv'
  <1>1. sess'[s] = next /\ \A t \in Sessions : t # s => sess'[t] = sess[t]
    BY DEF IInv
  <1>2. ASSUME NEW t \in Sessions
        PROVE  IsFresh(sess[t])'
    <2> DEFINE v == IF t = s THEN next ELSE sess[t]
    <2>1. sess'[t] = v /\ IsFresh(v)
      BY <1>1 DEF SerialInv
    <2> HIDE DEF v
    <2>2. v.op = "pipeline" => PipelineIsFresh(sess[t])'
      BY <2>1 DEF IsFresh, PipelineIsFresh, tables
    <2>3. v.op = "resolve" => v.loaded = items'[v.item]
      BY <2>1 DEF IsFresh, tables
    <2>4. v.op = "commit" => WritesAreFresh(sess[t])'
      <3>1. v.op = "commit" => WritesAreFresh(v)
        BY <2>1 DEF IsFresh
      <3>2. (ProposesOnly(v) => ProposesOnly(sess[t])')
        BY <2>1 DEF ProposesOnly, Decided, tables
      <3>3. (\E f \in FieldIds : DecidesOne(v, f) \/ EntersOne(v, f))
              => (\E f \in FieldIds : DecidesOne(sess[t], f) \/ EntersOne(sess[t], f))'
        BY <2>1 DEF DecidesOne, EntersOne, Decided, tables
      <3>4. (\A d \in DOMAIN v.docs : /\ d \in DOMAIN docs => v.docs[d].loaded = docs[d]
                                      /\ Matches(v.docs[d].edited))
              => (\A d \in DOMAIN sess[t].docs :
                    /\ d \in DOMAIN docs => sess[t].docs[d].loaded = docs[d]
                    /\ Matches(sess[t].docs[d].edited))'
        BY <2>1 DEF Matches, tables
      <3> QED
        BY <3>1, <3>2, <3>3, <3>4 DEF WritesAreFresh
    <2>5. sess'[t] = v
      BY <2>1
    <2> QED
      BY <2>2, <2>3, <2>4, <2>5 DEF IsFresh
  <1>3. EnteredOnce' /\ StatusMatchesConfidence'
    BY DEF SerialInv, EnteredOnce, StatusMatchesConfidence, tables
  <1> QED
    BY <1>2, <1>3 DEF SerialInv

LEMMA SerialDrop ==
  ASSUME IInv, SerialInv, NEW s \in Sessions, UNCHANGED tables,
         sess' = [sess EXCEPT ![s] = Idle]
  PROVE  SerialInv'
  <1>1. IsFresh(Idle)
    BY DEF IsFresh, Idle
  <1> QED
    BY <1>1, SerialSessionStep

LEMMA SerialHandle ==
  ASSUME IInv, BarrierInv, SerialInv, NEW s \in Sessions, Handle(s)
  PROVE  SerialInv'
  <1>1. PICK run \in Runs \ started, allowed \in SUBSET Teams :
          sess' = [sess EXCEPT ![s] =
            [op |-> "pipeline", run |-> run, doc |-> run, verified |-> Nothing,
             loaded |-> [allowed |-> allowed, status |-> "PROCESSING",
                         confidence |-> None]]]
    BY DEF Handle
  <1> DEFINE next == [op |-> "pipeline", run |-> run, doc |-> run, verified |-> Nothing,
                      loaded |-> [allowed |-> allowed, status |-> "PROCESSING",
                                  confidence |-> None]]
  <1>2. run \notin DOMAIN docs
    BY DEF IInv, RunsAreDrawnOnce, BarrierInv, RowsCarryTheBarrier
  <1>3. \A f \in DOMAIN fields : fields[f].doc \in DOMAIN docs
    BY DEF IInv, FieldStands, BarrierInv, RowsCarryTheBarrier
  <1>4. next.op = "pipeline" /\ next.doc = run
    OBVIOUS
  <1>5. UNCHANGED tables
    BY DEF Handle
  <1> HIDE DEF next
  <1>6. IsFresh(next)
    BY <1>2, <1>3, <1>4 DEF IsFresh, PipelineIsFresh
  <1> QED
    BY <1>1, <1>5, <1>6, SerialSessionStep DEF next

LEMMA SerialReprocess ==
  ASSUME IInv, SerialInv, NEW s \in Sessions, Reprocess(s)
  PROVE  SerialInv'
  <1>1. PICK run \in Runs \ started, doc \in DOMAIN docs :
        \E verified \in VerifiedByType(doc) :
          sess' = [sess EXCEPT ![s] =
            [op |-> "pipeline", run |-> run, doc |-> doc, verified |-> verified,
             loaded |-> docs[doc]]]
    BY DEF Reprocess
  <1>2. PICK verified \in VerifiedByType(doc) :
          sess' = [sess EXCEPT ![s] =
            [op |-> "pipeline", run |-> run, doc |-> doc, verified |-> verified,
             loaded |-> docs[doc]]]
    BY <1>1
  <1> DEFINE next == [op |-> "pipeline", run |-> run, doc |-> doc, verified |-> verified,
                      loaded |-> docs[doc]]
  <1>3. \A f \in DOMAIN fields :
          fields[f].doc = doc /\ Decided(fields[f]) => fields[f].type \in DOMAIN verified
    BY DEF VerifiedByType, IsTerminal, Decided
  <1>4. /\ next.op = "pipeline" /\ next.doc = doc /\ next.verified = verified
        /\ next.loaded = docs[doc]
    OBVIOUS
  <1>5. UNCHANGED tables
    BY DEF Reprocess
  <1> HIDE DEF next
  <1>6. IsFresh(next)
    BY <1>3, <1>4 DEF IsFresh, PipelineIsFresh
  <1> QED
    BY <1>2, <1>5, <1>6, SerialSessionStep DEF next

\* A pipeline's transaction: its fields are proposals, of types nobody has decided.
LEMMA SerialComplete ==
  ASSUME IInv, SerialInv, NEW s \in Sessions, sess[s].op = "pipeline",
         NEW status, NEW confidence, NEW newFields, NEW kept, NEW newItems,
         Complete(s, status, confidence, newFields, kept, newItems),
         status = (IF BelowQualityFloor(confidence) THEN "EXCLUDED_LOW_QUALITY" ELSE "COMPLETE"),
         \A f \in DOMAIN newFields :
           /\ f[1] = sess[s].run /\ f[2] \notin Sessions
           /\ newFields[f].edited.status = "UNVERIFIED" /\ newFields[f].edited.by = None
           /\ newFields[f].edited.doc = sess[s].doc
           /\ newFields[f].edited.type \notin DOMAIN sess[s].verified
  PROVE  SerialInv'
  <1> DEFINE p == sess[s]
             row == [p.loaded EXCEPT !.status = status, !.confidence = confidence]
             next == Work(Single(p.doc, Update(p.loaded, row)),
                          Single(p.run, Insert([doc |-> p.doc, status |-> "COMPLETE"])),
                          newFields, newItems)
  <1>1. sess' = [sess EXCEPT ![s] = next] /\ UNCHANGED tables
    BY DEF Complete
  <1>2. p.loaded \in DocumentRow /\ p.op = "pipeline" /\ PipelineIsFresh(p)
    BY DEF IInv, TypeOK, SessionState, Idle, PipelineState, SerialInv, IsFresh
  <1>3. Matches(row)
    BY <1>2 DEF Matches, BelowQualityFloor, DocumentRow
  <1>4. /\ next.op = "commit" /\ next.fields = newFields
        /\ DOMAIN next.docs = {p.doc} /\ next.docs[p.doc].edited = row
        /\ next.docs[p.doc].loaded = p.loaded
    BY DEF Work, Single, Insert, Update
  <1>5. p.run \notin DOMAIN runs
    BY DEF IInv, RunsAreDrawnOnce, Drawn
  <1>6. \A f \in DOMAIN fields : f[1] \in DOMAIN runs
    BY DEF IInv, FieldStands
  <1> HIDE DEF next, row
  <1>7. ProposesOnly(next)
    BY <1>2, <1>4, <1>5, <1>6 DEF ProposesOnly, PipelineIsFresh
  <1>8. WritesAreFresh(next)
    BY <1>2, <1>3, <1>4, <1>7 DEF WritesAreFresh, PipelineIsFresh
  <1>9. IsFresh(next)
    BY <1>4, <1>8 DEF IsFresh
  <1> HIDE DEF p
  <1> QED
    BY <1>1, <1>9, SerialSessionStep

LEMMA SerialExclude ==
  ASSUME IInv, SerialInv, NEW s \in Sessions, Exclude(s)
  PROVE  SerialInv'
  <1> DEFINE newItems == Single(<<sess[s].run, 0>>,
                           Insert(QueueItem(sess[s].doc, None, sess[s].loaded.allowed)))
  <1>1. PICK confidence \in OcrConfidences :
          /\ BelowQualityFloor(confidence)
          /\ Complete(s, "EXCLUDED_LOW_QUALITY", confidence, Nothing, {}, newItems)
    BY DEF Exclude
  <1>2. sess[s].op = "pipeline"
    BY DEF Exclude
  <1>3. DOMAIN Nothing = {}
    BY DEF Nothing
  <1> HIDE DEF newItems
  <1> QED
    BY <1>1, <1>2, <1>3, SerialComplete

LEMMA SerialExtract ==
  ASSUME IInv, SerialInv, NEW s \in Sessions, Extract(s)
  PROVE  SerialInv'
  <1>1. PICK confidence \in OcrConfidences, n \in 0..MaxResults :
        \E results \in [1..n -> Result] :
          LET p == sess[s]
              fresh == {k \in 1..n : results[k].type \notin DOMAIN p.verified}
              low == {k \in fresh : ~ShouldAutoPopulate(results[k])}
          IN  /\ ~BelowQualityFloor(confidence)
              /\ Complete(s, "COMPLETE", confidence,
                   [id \in {p.run} \X fresh |-> Insert(Extracted(p.doc, results[id[2]]))],
                   {p.verified[results[k].type] : k \in (1..n) \ fresh},
                   [id \in {p.run} \X low |-> Insert(QueueItem(p.doc, id, p.loaded.allowed))])
    BY DEF Extract
  <1> DEFINE p == sess[s]
             fresh(results) == {k \in 1..n : results[k].type \notin DOMAIN p.verified}
             low(results) == {k \in fresh(results) : ~ShouldAutoPopulate(results[k])}
             fieldsOf(results) ==
               [id \in {p.run} \X fresh(results) |-> Insert(Extracted(p.doc, results[id[2]]))]
             keptBy(results) == {p.verified[results[k].type] : k \in (1..n) \ fresh(results)}
             itemsOf(results) ==
               [id \in {p.run} \X low(results) |-> Insert(QueueItem(p.doc, id, p.loaded.allowed))]
  <1>2. PICK results \in [1..n -> Result] :
          /\ ~BelowQualityFloor(confidence)
          /\ Complete(s, "COMPLETE", confidence, fieldsOf(results), keptBy(results), itemsOf(results))
    BY <1>1
  <1>3. p.op = "pipeline"
    BY DEF Extract
  <1>4. \A k \in 1..n : k \notin Sessions
    BY SessionsAreNotPositions, ParametersAreTyped
  <1>5. ASSUME NEW f \in DOMAIN fieldsOf(results)
        PROVE  LET row == fieldsOf(results)[f].edited
               IN  /\ f[1] = p.run /\ f[2] \notin Sessions
                   /\ row.status = "UNVERIFIED" /\ row.by = None /\ row.doc = p.doc
                   /\ row.type \notin DOMAIN p.verified
    <2>1. /\ f[1] = p.run /\ f[2] \in fresh(results)
          /\ fieldsOf(results)[f] = Insert(Extracted(p.doc, results[f[2]]))
      OBVIOUS
    <2> QED
      BY <1>4, <2>1 DEF Insert, Update, Extracted
  <1> HIDE DEF fieldsOf, keptBy, itemsOf
  <1> QED
    BY <1>2, <1>3, <1>5, SerialComplete

\* A session that decides one field it has just read.
LEMMA FreshDecision ==
  ASSUME IInv, NEW f \in DOMAIN fields, ~IsTerminal(fields[f]), NEW user \in Users,
         NEW override \in Values \cup {None}, NEW itemWrites
  PROVE  IsFresh(Work(Nothing, Nothing,
                      Single(f, Update(fields[f], ApplyVerification(fields[f], user, override))),
                      itemWrites))
  <1> DEFINE applied == ApplyVerification(fields[f], user, override)
             next == Work(Nothing, Nothing, Single(f, Update(fields[f], applied)), itemWrites)
  <1>1. fields[f] \in FieldRow /\ f \in FieldIds
    BY DEF IInv, TypeOK, IsTable
  <1>2. Decided(applied) /\ applied.by = user
    BY <1>1, AppliedVerification
  <1>3. applied.status = "VERIFIED" => applied.value = fields[f].value
    BY <1>1, NoneIsNoRow DEF ApplyVerification, FieldRow
  <1> HIDE DEF applied
  <1>4. /\ next.op = "commit" /\ DOMAIN next.docs = {}
        /\ DOMAIN next.fields = {f}
        /\ next.fields[f].loaded = fields[f] /\ next.fields[f].edited = applied
    BY DEF Work, Single, Update, Nothing
  <1>5. fields[f].status = "UNVERIFIED"
    BY <1>1 DEF IsTerminal
  <1> HIDE DEF next
  <1>6. DecidesOne(next, f)
    BY <1>2, <1>3, <1>4, <1>5 DEF DecidesOne
  <1>7. IsFresh(next)
    BY <1>1, <1>4, <1>6 DEF IsFresh, WritesAreFresh
  <1> QED
    BY <1>7 DEF next, applied

LEMMA SerialVerify ==
  ASSUME IInv, SerialInv, NEW s \in Sessions, Verify(s)
  PROVE  SerialInv'
  <1>1. PICK user \in Users, f \in DOMAIN fields, override \in Values \cup {None} :
          /\ ~IsTerminal(fields[f])
          /\ sess' = [sess EXCEPT ![s] =
               Work(Nothing, Nothing,
                    Single(f, Update(fields[f], ApplyVerification(fields[f], user, override))),
                    Nothing)]
    BY DEF Verify
  <1>2. UNCHANGED tables
    BY DEF Verify
  <1> QED
    BY <1>1, <1>2, FreshDecision, SerialSessionStep

LEMMA SerialResolveLoad ==
  ASSUME IInv, SerialInv, NEW s \in Sessions, ResolveLoad(s)
  PROVE  SerialInv'
  <1>1. PICK user \in Users, i \in DOMAIN items :
          sess' = [sess EXCEPT ![s] =
            [op |-> "resolve", user |-> user, item |-> i, loaded |-> items[i]]]
    BY DEF ResolveLoad
  <1>2. IsFresh([op |-> "resolve", user |-> user, item |-> i, loaded |-> items[i]])
    BY DEF IsFresh
  <1>3. UNCHANGED tables
    BY DEF ResolveLoad
  <1> QED
    BY <1>1, <1>2, <1>3, SerialSessionStep

LEMMA SerialOverride ==
  ASSUME IInv, SerialInv, NEW s \in Sessions, ResolveOverride(s)
  PROVE  SerialInv'
  <1> DEFINE r == sess[s]
             f == r.loaded.field
  <1>1. UNCHANGED tables
    BY DEF ResolveOverride
  <1>2. CASE IsTerminal(fields[f])
    BY <1>1, <1>2, SerialDrop DEF ResolveOverride
  <1>3. CASE ~IsTerminal(fields[f])
    <2>1. PICK value \in Values :
            sess' = [sess EXCEPT ![s] =
              Work(Nothing, Nothing,
                   Single(f, Update(fields[f], ApplyVerification(fields[f], r.user, value))),
                   Single(r.item, Update(r.loaded, Resolved(r.loaded, f))))]
      BY <1>3 DEF ResolveOverride
    <2>2. /\ r.op = "resolve" /\ f # None /\ ResolveState(r) /\ LoadedItemStands(r)
          /\ r.loaded = items[r.item]
      BY DEF ResolveOverride, IInv, TypeOK, SessionState, SessionStands, Idle, SerialInv, IsFresh
    <2>3. f \in DOMAIN fields /\ r.user \in Users
      BY <2>2 DEF IInv, ItemStands, LoadedItemStands, ResolveState
    <2> HIDE DEF f, r
    <2> QED
      BY <1>1, <1>3, <2>1, <2>3, FreshDecision, SerialSessionStep
  <1> QED
    BY <1>2, <1>3

\* An item without a field is pending, so nothing was entered for it yet.
LEMMA SerialEnter ==
  ASSUME IInv, SerialInv, NEW s \in Sessions, ResolveEnter(s)
  PROVE  SerialInv'
  <1> DEFINE r == sess[s]
             f == <<r.item[1], s>>
             entered(type, value) == HandEntered(r.loaded.doc, type, value, r.user)
             resolved == Update(r.loaded, Resolved(r.loaded, f))
             next(type, value) ==
               Work(Nothing, Nothing, Single(f, Insert(entered(type, value))),
                    Single(r.item, resolved))
  <1>1. PICK type \in FieldTypes, value \in Values :
          sess' = [sess EXCEPT ![s] = next(type, value)]
    BY DEF ResolveEnter
  <1>2. /\ r.op = "resolve" /\ r.loaded.field = None /\ ResolveState(r) /\ LoadedItemStands(r)
        /\ r.loaded = items[r.item]
    BY DEF ResolveEnter, IInv, TypeOK, SessionState, SessionStands, Idle, SerialInv, IsFresh
  <1>3. f \in FieldIds /\ f[1] = r.item[1] /\ f[2] = s
    BY <1>2 DEF ResolveState, ItemIds, FieldIds
  <1>4. r.item = <<f[1], 0>>
    <2>1. r.item[2] # 0 => r.item \in FieldIds
      BY <1>2 DEF ResolveState, ItemIds, FieldIds, Positions
    <2>2. r.item[2] = 0
      BY <1>2, <2>1, NoneIsNoRow DEF LoadedItemStands, AskedBy
    <2> QED
      BY <1>2, <1>3, <2>2 DEF ResolveState, ItemIds
  <1>5. f \notin DOMAIN fields
    BY <1>2, <1>3, <1>4 DEF SerialInv, EnteredOnce, LoadedItemStands
  <1>6. /\ entered(type, value).status = "OVERRIDDEN"
        /\ entered(type, value).by \in Users
    BY <1>2 DEF HandEntered, ResolveState
  <1>7. resolved.edited.status = "RESOLVED"
    BY <1>2 DEF Update, Resolved, ResolveState, ItemRow
  <1> HIDE DEF entered, resolved
  <1>8. /\ next(type, value).op = "commit" /\ DOMAIN next(type, value).docs = {}
        /\ DOMAIN next(type, value).fields = {f}
        /\ next(type, value).fields[f].edited = entered(type, value)
        /\ DOMAIN next(type, value).items = {r.item}
        /\ next(type, value).items[r.item] = resolved
    BY DEF Work, Single, Insert, Update, Nothing
  <1>9. UNCHANGED tables
    BY DEF ResolveEnter
  <1> HIDE DEF next, f, r
  <1>10. EntersOne(next(type, value), f)
    BY <1>4, <1>5, <1>6, <1>7, <1>8 DEF EntersOne
  <1>11. IsFresh(next(type, value))
    BY <1>3, <1>8, <1>10 DEF IsFresh, WritesAreFresh
  <1> QED
    BY <1>1, <1>9, <1>11, SerialSessionStep

-----------------------------------------------------------------------------
(* The commit of a session that was alone since it read: what it meant to write *)
(* is what the tables then hold.                                                *)

LEMMA FreshCommitFields ==
  ASSUME IInv, SerialInv, NEW s \in Sessions, Commit(s)
  PROVE  /\ DOMAIN fields' = DOMAIN fields \cup DOMAIN sess[s].fields
         /\ \A f \in DOMAIN sess[s].fields : fields'[f] = sess[s].fields[f].edited
         /\ \A f \in DOMAIN fields \ DOMAIN sess[s].fields : fields'[f] = fields[f]
         /\ WritesAreFresh(sess[s])
         /\ \A f \in DOMAIN sess[s].fields :
              sess[s].fields[f] \in [loaded : FieldRow, edited : FieldRow]
  <1> DEFINE w == sess[s]
  <1>1. fields' = Flushed(fields, w.fields)
    BY DEF Commit
  <1>2. WritesAreFresh(w)
    BY CommitTyped DEF SerialInv, IsFresh
  <1>3. \A f \in DOMAIN w.fields : w.fields[f] \in [loaded : FieldRow, edited : FieldRow]
    BY CommitTyped DEF CommitState, AreWrites, IsTable
  <1> HIDE DEF w
  <1>4. ASSUME NEW f \in DOMAIN w.fields
        PROVE  fields'[f] = w.fields[f].edited
    <2>1. CASE f \notin DOMAIN fields
      BY <1>1, <2>1, FlushedRow
    <2>2. CASE f \in DOMAIN fields
      <3>1. w.fields[f].loaded = fields[f]
        BY <1>2, <2>2 DEF WritesAreFresh, ProposesOnly, DecidesOne, EntersOne
      <3>2. fields'[f] = Merged(w.fields[f].loaded, w.fields[f])
        BY <1>1, <2>2, <3>1, FlushedRow
      <3> QED
        BY <1>3, <3>2, MergedFreshField
    <2> QED
      BY <2>1, <2>2
  <1>5. \A f \in DOMAIN fields \ DOMAIN w.fields : fields'[f] = fields[f]
    BY <1>1, FlushedRow
  <1>6. DOMAIN fields' = DOMAIN fields \cup DOMAIN w.fields
    BY <1>1, FlushedDomain
  <1> QED
    BY <1>2, <1>3, <1>4, <1>5, <1>6 DEF w

LEMMA SerialCommit ==
  ASSUME IInv, SerialInv, Serial, NEW s \in Sessions, Commit(s)
  PROVE  SerialInv'
  <1> DEFINE w == sess[s]
  <1>1. /\ w.op = "commit" /\ CommitState(w) /\ SessionStands(w) /\ sess'[s] = Idle
        /\ \A t \in Sessions : t # s => sess'[t] = sess[t]
    BY CommitTyped
  <1>2. /\ DOMAIN fields' = DOMAIN fields \cup DOMAIN w.fields
        /\ \A f \in DOMAIN w.fields : fields'[f] = w.fields[f].edited
        /\ WritesAreFresh(w)
    BY FreshCommitFields
  <1>3. docs' = Flushed(docs, w.docs)
    BY DEF Commit
  <1>4. \A d \in DOMAIN w.docs : w.docs[d] \in [loaded : DocumentRow, edited : DocumentRow]
    BY <1>1 DEF CommitState, AreWrites, IsTable
  <1>5. \A t \in Sessions : sess'[t] = Idle
    <2>1. w # Idle
      BY <1>1 DEF Idle
    <2> QED
      BY <1>1, <2>1 DEF Serial
  <1>6. /\ DOMAIN items' = DOMAIN items \cup DOMAIN w.items
        /\ \A i \in DOMAIN items : items[i].status = "RESOLVED" => items'[i].status = "RESOLVED"
        /\ \A i \in DOMAIN w.items : w.items[i].edited.status = "RESOLVED"
                                       => items'[i].status = "RESOLVED"
    <2>1. /\ DOMAIN items' = DOMAIN items \cup DOMAIN w.items
          /\ items' = Flushed(items, w.items)
      BY CommittedItems DEF Commit
    <2>2. \A i \in DOMAIN items : i \notin DOMAIN w.items => items'[i] = items[i]
      BY <2>1, FlushedRow
    <2>3. \A i \in DOMAIN w.items :
            /\ ItemWriteStands(w, i)
            /\ w.items[i] \in [loaded : ItemRow, edited : ItemRow]
      BY <1>1 DEF SessionStands, CommitState, AreWrites, IsTable
    <2>4. ASSUME NEW i \in DOMAIN w.items, i \in DOMAIN items
          PROVE  items'[i].status = IF w.items[i].edited.status = w.items[i].loaded.status
                                      THEN items[i].status ELSE w.items[i].edited.status
      <3>1. items'[i] = Merged(items[i], w.items[i])
        BY <2>1, <2>4, FlushedRow
      <3>2. items[i] \in ItemRow
        BY <2>4 DEF IInv, TypeOK, IsTable
      <3> QED
        BY <2>3, <3>1, <3>2, MergedItem
    <2> HIDE DEF w
    <2>5. ASSUME NEW i \in DOMAIN items, items[i].status = "RESOLVED"
          PROVE  items'[i].status = "RESOLVED"
      BY <2>2, <2>3, <2>4, <2>5 DEF ItemWriteStands, ResolutionStands
    <2>6. ASSUME NEW i \in DOMAIN w.items, w.items[i].edited.status = "RESOLVED"
          PROVE  items'[i].status = "RESOLVED"
      BY <2>3, <2>4, <2>6 DEF ItemWriteStands, ResolutionStands
    <2> QED
      BY <2>1, <2>5, <2>6
  <1> HIDE DEF w
  <1>7. EnteredOnce'
    <2>1. ASSUME NEW f \in DOMAIN fields', f[2] \in Sessions
          PROVE  <<f[1], 0>> \in DOMAIN items' /\ items'[<<f[1], 0>>].status = "RESOLVED"
      <3>1. CASE f \in DOMAIN fields
        BY <1>6, <2>1, <3>1 DEF SerialInv, EnteredOnce
      <3>2. CASE f \notin DOMAIN fields
        <4>1. EntersOne(w, f)
          BY <1>2, <2>1, <3>2 DEF WritesAreFresh, ProposesOnly, DecidesOne, EntersOne
        <4> QED
          BY <1>6, <4>1 DEF EntersOne
      <3> QED
        BY <3>1, <3>2
    <2> QED
      BY <2>1 DEF EnteredOnce
  <1>8. StatusMatchesConfidence'
    <2>1. ASSUME NEW d \in DOMAIN docs'
          PROVE  Matches(docs'[d])
      <3>1. d \in DOMAIN docs \cup DOMAIN w.docs
        BY <1>3, FlushedDomain
      <3>2. CASE d \notin DOMAIN w.docs
        BY <1>3, <3>1, <3>2, FlushedRow DEF SerialInv, StatusMatchesConfidence, Matches
      <3>3. CASE d \in DOMAIN w.docs
        <4>1. docs'[d] = w.docs[d].edited
          <5>1. CASE d \in DOMAIN docs
            <6>1. docs'[d] = Merged(w.docs[d].loaded, w.docs[d])
              BY <1>2, <1>3, <3>3, <5>1, FlushedRow DEF WritesAreFresh
            <6> QED
              BY <1>4, <3>3, <6>1, MergedFreshDocument
          <5>2. CASE d \notin DOMAIN docs
            BY <1>3, <3>3, <5>2, FlushedRow
          <5> QED
            BY <5>1, <5>2
        <4> QED
          BY <1>2, <3>3, <4>1 DEF WritesAreFresh
      <3> QED
        BY <3>2, <3>3
    <2> QED
      BY <2>1 DEF StatusMatchesConfidence, Matches
  <1>9. \A t \in Sessions : IsFresh(sess[t])'
    BY <1>5 DEF IsFresh, Idle
  <1> QED
    BY <1>7, <1>8, <1>9 DEF SerialInv

LEMMA StepSerial == IInv /\ BarrierInv /\ SerialInv /\ Serial /\ [Next]_vars => SerialInv'
  <1> SUFFICES ASSUME IInv, BarrierInv, SerialInv, Serial, [Next]_vars
               PROVE  SerialInv'
    OBVIOUS
  <1>1. CASE UNCHANGED vars
    <2>1. UNCHANGED <<tables, sess>>
      BY <1>1 DEF vars, tables
    <2>2. CASE Sessions = {}
      BY <2>1, <2>2 DEF SerialInv, EnteredOnce, StatusMatchesConfidence, tables
    <2>3. ASSUME NEW s \in Sessions
          PROVE  SerialInv'
      <3> DEFINE next == sess[s]
      <3>1. UNCHANGED tables /\ sess' = [sess EXCEPT ![s] = next] /\ IsFresh(next)
        BY <2>1 DEF IInv, SerialInv
      <3> HIDE DEF next
      <3> QED
        BY <3>1, SerialSessionStep
    <2> QED
      BY <2>2, <2>3
  <1>2. CASE Next
    <2>1. PICK s \in Sessions :
            \/ Handle(s) \/ Reprocess(s) \/ Exclude(s) \/ Extract(s) \/ PipelineFails(s)
            \/ Verify(s) \/ ResolveLoad(s) \/ ResolveOverride(s) \/ ResolveEnter(s)
            \/ Commit(s) \/ SessionLost(s)
      BY <1>2 DEF Next
    <2>2. CASE PipelineFails(s) \/ SessionLost(s)
      BY <2>2, SerialDrop DEF PipelineFails, SessionLost
    <2> QED
      BY <2>1, <2>2, SerialHandle, SerialReprocess, SerialExclude, SerialExtract, SerialVerify,
         SerialResolveLoad, SerialOverride, SerialEnter, SerialCommit
  <1> QED
    BY <1>1, <1>2

-----------------------------------------------------------------------------

LEMMA OnlyCommitsWrite ==
  ASSUME [Next]_vars
  PROVE  UNCHANGED tables \/ \E s \in Sessions : Commit(s)
  <1>1. UNCHANGED vars => UNCHANGED tables
    BY DEF vars, tables
  <1>2. ASSUME NEW s \in Sessions, Exclude(s) \/ Extract(s)
        PROVE  UNCHANGED tables
    BY <1>2 DEF Exclude, Extract, Complete
  <1>3. ASSUME NEW s \in Sessions,
               \/ Handle(s) \/ Reprocess(s) \/ PipelineFails(s) \/ Verify(s) \/ ResolveLoad(s)
               \/ ResolveOverride(s) \/ ResolveEnter(s) \/ SessionLost(s)
        PROVE  UNCHANGED tables
    BY <1>3 DEF Handle, Reprocess, PipelineFails, Verify, ResolveLoad, ResolveOverride,
                ResolveEnter, SessionLost
  <1> QED
    BY <1>1, <1>2, <1>3 DEF Next

\* A commit only adds what its session proposes, decides or enters.
LEMMA DecisionsStay ==
  IInv /\ SerialInv /\ [Next]_vars =>
    \A f \in DOMAIN fields : Decided(fields[f]) => f \in DOMAIN fields' /\ fields'[f] = fields[f]
  <1> SUFFICES ASSUME IInv, SerialInv, [Next]_vars, NEW f \in DOMAIN fields, Decided(fields[f])
               PROVE  f \in DOMAIN fields' /\ fields'[f] = fields[f]
    OBVIOUS
  <1>1. CASE UNCHANGED tables
    BY <1>1 DEF tables
  <1>2. ASSUME NEW s \in Sessions, Commit(s)
        PROVE  f \in DOMAIN fields' /\ fields'[f] = fields[f]
    <2> DEFINE w == sess[s]
    <2>2. WritesAreFresh(w)
      BY <1>2, FreshCommitFields
    <2> HIDE DEF w
    <2>3. \A g \in FieldIds : DecidesOne(w, g) => f # g
      BY DEF DecidesOne, Decided
    <2>4. f \notin DOMAIN w.fields
      BY <2>2, <2>3 DEF WritesAreFresh, ProposesOnly, DecidesOne, EntersOne
    <2>1. f \notin DOMAIN sess[s].fields
      BY <2>4 DEF w
    <2> QED
      BY <1>2, <2>1, FreshCommitFields
  <1> QED
    BY <1>1, <1>2, OnlyCommitsWrite

LEMMA DecidedTypesStay ==
  IInv /\ SerialInv /\ [Next]_vars =>
    \A f \in DOMAIN fields' \ DOMAIN fields, g \in DOMAIN fields :
      ~( /\ fields'[f].status = "UNVERIFIED"
         /\ Decided(fields[g])
         /\ fields[g].doc = fields'[f].doc
         /\ fields[g].type = fields'[f].type )
  <1> SUFFICES ASSUME IInv, SerialInv, [Next]_vars,
                      NEW f \in DOMAIN fields' \ DOMAIN fields, NEW g \in DOMAIN fields,
                      fields'[f].status = "UNVERIFIED", Decided(fields[g]),
                      fields[g].doc = fields'[f].doc
               PROVE  fields[g].type # fields'[f].type
    OBVIOUS
  <1>1. PICK s \in Sessions : Commit(s)
    BY OnlyCommitsWrite DEF tables
  <1> DEFINE w == sess[s]
  <1>2. f \in DOMAIN w.fields /\ fields'[f] = w.fields[f].edited /\ WritesAreFresh(w)
    BY <1>1, FreshCommitFields
  <1> HIDE DEF w
  <1>3. ProposesOnly(w)
    BY <1>2 DEF WritesAreFresh, DecidesOne, EntersOne, Decided
  <1> QED
    BY <1>2, <1>3 DEF ProposesOnly

LEMMA LedgerStep ==
  IInv /\ SerialInv /\ [Next]_vars => Lifecycle!Next \/ UNCHANGED Ledger
  <1> SUFFICES ASSUME IInv, SerialInv, [Next]_vars
               PROVE  Lifecycle!Next \/ UNCHANGED Ledger
    OBVIOUS
  <1>1. CASE UNCHANGED tables
    BY <1>1 DEF tables, Ledger
  <1>2. ASSUME NEW s \in Sessions, Commit(s)
        PROVE  Lifecycle!Next
    <2> DEFINE w == sess[s]
               Entry(row) == [value |-> row.value, status |-> row.status, by |-> row.by]
    <2>1. /\ DOMAIN fields' = DOMAIN fields \cup DOMAIN w.fields
          /\ \A f \in DOMAIN w.fields : fields'[f] = w.fields[f].edited
          /\ \A f \in DOMAIN fields \ DOMAIN w.fields : fields'[f] = fields[f]
          /\ WritesAreFresh(w)
          /\ \A f \in DOMAIN w.fields : w.fields[f] \in [loaded : FieldRow, edited : FieldRow]
      BY <1>2, FreshCommitFields
    <2>2. DOMAIN fields' \subseteq FieldIds
      BY <1>2, CommitTyped DEF TypeOK, IsTable
    <2>3. /\ DOMAIN Ledger = DOMAIN fields /\ \A f \in DOMAIN fields : Ledger[f] = Entry(fields[f])
          /\ DOMAIN Ledger' = DOMAIN fields'
          /\ \A f \in DOMAIN fields' : Ledger'[f] = Entry(fields'[f])
      BY DEF Ledger
    <2> HIDE DEF w
    <2>4. \A f \in DOMAIN fields \ DOMAIN w.fields : f \in DOMAIN Ledger' /\ Ledger'[f] = Ledger[f]
      BY <2>1, <2>3
    <2>5. CASE ProposesOnly(w)
      <3>1. Lifecycle!Keeps(DOMAIN Ledger)
        BY <2>3, <2>4, <2>5 DEF Lifecycle!Keeps, ProposesOnly
      <3>2. ASSUME NEW f \in DOMAIN Ledger' \ DOMAIN Ledger
            PROVE  Ledger'[f] \in Lifecycle!Proposal
        <4>1. f \in DOMAIN w.fields /\ Ledger'[f] = Entry(w.fields[f].edited)
          BY <2>1, <2>3, <3>2
        <4>2. w.fields[f].edited \in FieldRow
          BY <2>1, <4>1
        <4> QED
          BY <2>5, <4>1, <4>2 DEF ProposesOnly, Lifecycle!Proposal, FieldRow
      <3>3. Lifecycle!Propose
        BY <2>2, <2>3, <3>1, <3>2 DEF Lifecycle!Propose
      <3> QED
        BY <3>3 DEF Lifecycle!Next
    <2>6. ASSUME NEW f \in FieldIds, DecidesOne(w, f)
          PROVE  Lifecycle!Decide(f)
      <3> DEFINE x == w.fields[f]
      <3>1. /\ f \in DOMAIN w.fields /\ f \in DOMAIN fields
            /\ DOMAIN fields' = DOMAIN fields
            /\ DOMAIN fields \ DOMAIN w.fields = DOMAIN fields \ {f}
        BY <2>1, <2>6 DEF DecidesOne
      <3>2. /\ x.loaded = fields[f] /\ x.loaded.status = "UNVERIFIED"
            /\ Decided(x.edited) /\ x.edited.by \in Users
            /\ x.edited.status = "VERIFIED" => x.edited.value = x.loaded.value
        BY <2>6 DEF DecidesOne
      <3>3. x.edited \in FieldRow /\ fields'[f] = x.edited
        BY <2>1, <3>1
      <3> HIDE DEF x
      <3>4. Ledger'[f] = Entry(x.edited) /\ Ledger[f] = Entry(x.loaded)
        BY <2>3, <3>1, <3>2, <3>3
      <3>5. /\ Ledger[f].status = "UNVERIFIED" /\ Ledger'[f] \in Lifecycle!Decision
            /\ Ledger'[f].status = "VERIFIED" => Ledger'[f].value = Ledger[f].value
        BY <3>2, <3>3, <3>4 DEF Lifecycle!Decision, FieldRow, Decided
      <3>6. Lifecycle!Keeps(DOMAIN Ledger \ {f})
        BY <2>3, <2>4, <3>1 DEF Lifecycle!Keeps
      <3> QED
        BY <2>3, <3>1, <3>5, <3>6 DEF Lifecycle!Decide
    <2>7. ASSUME NEW f \in FieldIds, EntersOne(w, f)
          PROVE  Lifecycle!Enter(f)
      <3> DEFINE x == w.fields[f]
      <3>1. /\ f \in DOMAIN w.fields /\ f \notin DOMAIN fields
            /\ DOMAIN fields' = DOMAIN fields \cup {f}
            /\ DOMAIN fields \ DOMAIN w.fields = DOMAIN fields
        BY <2>1, <2>7 DEF EntersOne
      <3>2. x.edited.status = "OVERRIDDEN" /\ x.edited.by \in Users
        BY <2>7 DEF EntersOne
      <3>3. x.edited \in FieldRow /\ fields'[f] = x.edited
        BY <2>1, <3>1
      <3> HIDE DEF x
      <3>4. Ledger'[f] = Entry(x.edited)
        BY <2>3, <3>1, <3>3
      <3>5. Ledger'[f] \in Lifecycle!Decision /\ Ledger'[f].status = "OVERRIDDEN"
        BY <3>2, <3>3, <3>4 DEF Lifecycle!Decision, FieldRow
      <3>6. Lifecycle!Keeps(DOMAIN Ledger)
        BY <2>3, <2>4, <3>1 DEF Lifecycle!Keeps
      <3> QED
        BY <2>3, <3>1, <3>5, <3>6 DEF Lifecycle!Enter
    <2> QED
      BY <2>1, <2>5, <2>6, <2>7 DEF WritesAreFresh, Lifecycle!Next
  <1> QED
    BY <1>1, <1>2, OnlyCommitsWrite

\* With one session at a time, what a session has loaded is what the tables hold.
LEMMA SerialStands == Spec /\ []Serial => [](IInv /\ SerialInv)
  <1>1. Init => IInv /\ BarrierInv /\ SerialInv
    BY InitInvariant, InitBarrier, InitSerial
  <1>2. IInv /\ BarrierInv /\ SerialInv /\ Serial /\ [Next]_vars
          => (IInv /\ BarrierInv /\ SerialInv)'
    BY StepInvariant, StepBarrier, StepSerial
  <1> QED
    BY <1>1, <1>2, PTL DEF Spec

\* apply_verification: while sessions do not overlap, however many there are, a field
\* that has left UNVERIFIED is never written again.
THEOREM DecisionsAreFinal == Spec /\ []Serial => VerifiedIsTerminal
  <1>1. IInv /\ SerialInv /\ [Next]_vars =>
          [\A f \in DOMAIN fields :
             Decided(fields[f]) => f \in DOMAIN fields' /\ fields'[f] = fields[f]]_vars
    BY DecisionsStay
  <1> QED
    BY <1>1, SerialStands, PTL DEF Spec, VerifiedIsTerminal

\* reprocess(): while sessions do not overlap, no step adds an unverified field of a
\* type its document already has decided.
THEOREM ReprocessLeavesDecisions == Spec /\ []Serial => NoRequeueOfVerified
  <1>1. IInv /\ SerialInv /\ [Next]_vars =>
          [\A f \in DOMAIN fields' \ DOMAIN fields, g \in DOMAIN fields :
             ~( /\ fields'[f].status = "UNVERIFIED"
                /\ Decided(fields[g])
                /\ fields[g].doc = fields'[f].doc
                /\ fields[g].type = fields'[f].type )]_vars
    BY DecidedTypesStay
  <1> QED
    BY <1>1, SerialStands, PTL DEF Spec, NoRequeueOfVerified

\* below_quality_floor: while sessions do not overlap, a document's status says on which
\* side of the floor its recorded confidence lies.
THEOREM StatusFollowsTheScan == Spec /\ []Serial => []StatusMatchesConfidence
  <1>1. SerialInv => StatusMatchesConfidence
    BY DEF SerialInv
  <1> QED
    BY <1>1, SerialStands, PTL

\* models/extracted_field.py: while sessions do not overlap, the tables implement the
\* life of a field.  Ledger is the refinement mapping.
THEOREM TablesImplementLifecycle == Spec /\ []Serial => ImplementsLifecycle
  <1>1. Init => Lifecycle!Init
    BY DEF Init, Lifecycle!Init, Ledger, Nothing
  <1>2. IInv /\ SerialInv /\ [Next]_vars => [Lifecycle!Next]_Ledger
    BY LedgerStep
  <1> QED
    BY <1>1, <1>2, SerialStands, PTL DEF Spec, ImplementsLifecycle, Lifecycle!Spec

\* With a single session nothing overlaps: the four guarantees hold of every behaviour,
\* as the run with one session finds of its instance.
THEOREM OneSessionSuffices ==
  ASSUME \A s, t \in Sessions : s = t
  PROVE  Spec => /\ VerifiedIsTerminal
                 /\ NoRequeueOfVerified
                 /\ []StatusMatchesConfidence
                 /\ ImplementsLifecycle
  <1>1. Serial
    BY DEF Serial
  <1> QED
    BY <1>1, DecisionsAreFinal, ReprocessLeavesDecisions, StatusFollowsTheScan,
       TablesImplementLifecycle, PTL

=============================================================================
