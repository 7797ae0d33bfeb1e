----------------------- MODULE LeaseRecordsInductive -----------------------
(* What makes the invariants of LeaseRecords inductive: facts about what the
   sessions carry to the tables.  They hold however the sessions interleave,
   since a key names the run that drew it and no code moves a row to another
   document. *)
EXTENDS LeaseRecords

\* A run's identifier is in the hands of one session or in the tables, never both.
Drawn(x) ==
  IF x.op = "pipeline" THEN {x.run}
  ELSE IF x.op = "commit" THEN DOMAIN x.runs
  ELSE {}

RunsAreDrawnOnce ==
  /\ DOMAIN runs \subseteq started
  /\ \A s \in Sessions : Drawn(sess[s]) \subseteq started \ DOMAIN runs
  /\ \A s, t \in Sessions : s # t => Drawn(sess[s]) \cap Drawn(sess[t]) = {}

LowConfidence(field) == field.confidence < Threshold[field.type]

\* A field belongs to the document of the run in its key.  What was entered by hand
\* is a decision; what a pipeline wrote has an item exactly when its confidence is low.
FieldStands(f) ==
  /\ f[1] \in DOMAIN runs
  /\ fields[f].doc = runs[f[1]].doc
  /\ f[2] \in Sessions => Decided(fields[f])
  /\ f[2] \notin Sessions => (LowConfidence(fields[f]) <=> f \in DOMAIN items)

\* What a pipeline's item i asks about: the field of its own key, or none.
AskedBy(i) == IF i[2] = 0 THEN None ELSE i

ItemStands(i) ==
  /\ i[1] \in DOMAIN runs
  /\ items[i].doc = runs[i[1]].doc
  /\ items[i].field # None => items[i].field \in DOMAIN fields /\ items[i].field[1] = i[1]
  /\ items[i].status = "PENDING" \/ i[2] # 0 => items[i].field = AskedBy(i)

\* A resolving request loaded a pending item, whose document never changes.
LoadedItemStands(r) ==
  /\ r.item \in DOMAIN items
  /\ r.loaded.doc = items[r.item].doc
  /\ r.loaded.status = "PENDING"
  /\ r.loaded.field = AskedBy(r.item)

\* The document of a run once the session has committed.
DocumentOf(w, run) == IF run \in DOMAIN w.runs THEN w.runs[run].edited.doc ELSE runs[run].doc

\* A session changes no field but to decide it, and inserts only what it drew or
\* what a person entered.
FieldWriteStands(w, f) ==
  LET x == w.fields[f] IN
  /\ f[1] \in DOMAIN runs \cup DOMAIN w.runs
  /\ x.edited.doc = DocumentOf(w, f[1]) /\ x.loaded.doc = x.edited.doc
  /\ x.edited.type = x.loaded.type /\ x.edited.confidence = x.loaded.confidence
  /\ x.edited.status = x.loaded.status \/ Decided(x.edited)
  /\ f[2] \in Sessions => Decided(x.edited)
  /\ f \in DOMAIN fields \/ f[1] \in DOMAIN w.runs \/ f[2] \in Sessions
  /\ f[1] \in DOMAIN w.runs => (LowConfidence(x.edited) <=> f \in DOMAIN w.items)

\* A resolution decides the item's field in the same transaction.
ResolutionStands(w, i) ==
  LET y == w.items[i]
      f == y.edited.field
  IN
  /\ y.edited.status = "RESOLVED" /\ y.loaded.status = "PENDING"
  /\ i \in DOMAIN items
  /\ f \in DOMAIN w.fields /\ Decided(w.fields[f].edited)
  /\ w.fields[f].loaded.status = "UNVERIFIED" \/ f[2] \in Sessions

ItemWriteStands(w, i) ==
  LET y == w.items[i]
      f == y.edited.field
  IN
  /\ i[1] \in DOMAIN runs \cup DOMAIN w.runs
  /\ y.edited.doc = DocumentOf(w, i[1]) /\ y.loaded.doc = y.edited.doc
  /\ f # None => f \in DOMAIN fields \cup DOMAIN w.fields /\ f[1] = i[1]
  /\ y.loaded.field = AskedBy(i) /\ (i[2] # 0 => f = i)
  /\ i \in DOMAIN items \/ i[1] \in DOMAIN w.runs
  /\ \/ y.edited = y.loaded /\ y.edited.status = "PENDING"
     \/ ResolutionStands(w, i)

SessionStands(x) ==
  /\ x.op = "resolve" => LoadedItemStands(x)
  /\ x.op = "commit" => /\ \A f \in DOMAIN x.fields : FieldWriteStands(x, f)
                        /\ \A i \in DOMAIN x.items : ItemWriteStands(x, i)

IInv ==
  /\ TypeOK
  /\ sess = [s \in Sessions |-> sess[s]]
  /\ RunsAreDrawnOnce
  /\ \A f \in DOMAIN fields : FieldStands(f)
  /\ \A i \in DOMAIN items : ItemStands(i)
  /\ \A s \in Sessions : SessionStands(sess[s])
  /\ ResolvedItemIsBacked

-----------------------------------------------------------------------------
(* The same for the information barrier, beside IInv. *)

AllowedOf(w, doc) ==
  IF doc \in DOMAIN docs THEN docs[doc].allowed ELSE w.docs[doc].edited.allowed

\* Every run has its document, every item a copy of its allowed teams, and only a
\* decided field names who decided it.
RowsCarryTheBarrier ==
  /\ DOMAIN docs \subseteq DOMAIN runs
  /\ \A r \in DOMAIN runs : runs[r].doc \in DOMAIN docs
  /\ \A i \in DOMAIN items : items[i].allowed = docs[items[i].doc].allowed
  /\ \A f \in DOMAIN fields : ~Decided(fields[f]) => fields[f].by = None

\* A pipeline works on a committed document or on the one it ingests.
PipelineKnowsItsDocument(p) ==
  \/ p.doc \in DOMAIN docs /\ p.loaded.allowed = docs[p.doc].allowed
  \/ p.doc = p.run

DocumentWriteStands(w, d) ==
  /\ w.docs[d].edited.allowed = w.docs[d].loaded.allowed
  /\ d \in DOMAIN docs => w.docs[d].edited.allowed = docs[d].allowed
  /\ d \in DOMAIN docs \/ d \in DOMAIN w.runs

\* Whoever a write names as the decider passed the barrier of the field's document.
DeciderPassed(w, f) ==
  LET x == w.fields[f] IN
  \/ x.edited = x.loaded /\ ~Decided(x.edited) /\ x.edited.by = None
  \/ /\ Decided(x.edited) /\ x.edited.by \in Users
     /\ TeamOf[x.edited.by] \in AllowedOf(w, x.edited.doc)
     /\ \/ x.loaded.status = "UNVERIFIED" /\ x.loaded.by = None
        \/ x.loaded = x.edited /\ f[2] \in Sessions

CopiesTheBarrier(w, i) ==
  LET y == w.items[i] IN
  y.edited.allowed = AllowedOf(w, y.edited.doc) /\ y.loaded.allowed = y.edited.allowed

KeepsTheBarrier(x) ==
  /\ x.op = "pipeline" => PipelineKnowsItsDocument(x)
  /\ x.op = "resolve" => /\ TeamOf[x.user] \in x.loaded.allowed
                         /\ x.loaded.allowed = items[x.item].allowed
  /\ x.op = "commit" =>
       /\ \A d \in DOMAIN x.docs : DocumentWriteStands(x, d)
       /\ \A r \in DOMAIN x.runs : x.runs[r].edited.doc \in DOMAIN docs \cup DOMAIN x.docs
       /\ \A f \in DOMAIN x.fields : DeciderPassed(x, f)
       /\ \A i \in DOMAIN x.items : CopiesTheBarrier(x, i)

BarrierInv ==
  /\ RowsCarryTheBarrier
  /\ \A s \in Sessions : KeepsTheBarrier(sess[s])
  /\ DeciderInsideBarrier

-----------------------------------------------------------------------------
(* The same for the completion messages and for what an exclusion leaves. *)

\* A pipeline has announced nothing yet, and what it will keep is its document's.
NothingIsSaid(p) ==
  /\ \A e \in BagToSet(events) : e.run # p.run
  /\ \A t \in DOMAIN p.verified :
       p.verified[t] \in DOMAIN fields /\ fields[p.verified[t]].doc = p.doc

\* The message of a run whose session has still to commit: it names what the session
\* will insert and what the reprocess kept.
Tells(e, run, w) ==
  /\ e.run = run /\ e.doc = w.runs[run].edited.doc /\ e.status = w.runs[run].edited.status
  /\ {f \in DOMAIN w.fields : f[1] = run} \subseteq e.fields
  /\ e.items = {i \in DOMAIN w.items : i[1] = run}
  /\ \A f \in e.fields : \/ f \in DOMAIN w.fields /\ f[1] = run
                         \/ f \in DOMAIN fields /\ fields[f].doc = e.doc

\* An exclusion writes one item without a field and nothing else of its run.
ExcludesOnly(run, w) ==
  <<run, 0>> \in DOMAIN w.items =>
    \A k \in Positions : <<run, k>> \notin DOMAIN w.fields /\ <<run, k>> \notin DOMAIN w.items

LeavesAnItem(d, w) ==
  w.docs[d].edited.status = "EXCLUDED_LOW_QUALITY" =>
    \E run \in DOMAIN w.runs : w.runs[run].edited.doc = d /\ <<run, 0>> \in DOMAIN w.items

SessionTells(x) ==
  /\ x.op = "pipeline" => NothingIsSaid(x)
  /\ x.op = "commit" =>
       /\ \A run \in DOMAIN x.runs : ExcludesOnly(run, x) /\ \E e \in BagToSet(events) : Tells(e, run, x)
       /\ \A d \in DOMAIN x.docs : LeavesAnItem(d, x)

\* No message has been handed to the producer twice.
SaidOnce == \A e \in BagToSet(events) : events[e] = 1

AnnouncedInv ==
  /\ SaidOnce
  /\ \A e, x \in BagToSet(events) : e.run = x.run => e = x
  /\ \A s \in Sessions : SessionTells(sess[s])
  /\ CommittedIsAnnounced
  /\ ExcludedGoesToManualEntry

-----------------------------------------------------------------------------
(* What holds while no two sessions are at work at once, however many there are:
   whatever a session has loaded is still what the tables hold. *)

Serial == \A s, t \in Sessions : sess[s] # Idle /\ sess[t] # Idle => s = t

Matches(row) ==
  row.status = (IF row.confidence < QualityFloor THEN "EXCLUDED_LOW_QUALITY" ELSE "COMPLETE")

\* A pipeline that has loaded its document knows every type it has decided.
PipelineIsFresh(p) ==
  /\ p.doc \in DOMAIN docs => p.loaded = docs[p.doc]
  /\ \A f \in DOMAIN fields :
       fields[f].doc = p.doc /\ Decided(fields[f]) => fields[f].type \in DOMAIN p.verified

\* The three kinds of transaction: a run's proposals, one decision, one value by hand.
ProposesOnly(w) ==
  \A f \in DOMAIN w.fields :
    /\ f \notin DOMAIN fields
    /\ w.fields[f].edited.status = "UNVERIFIED" /\ w.fields[f].edited.by = None
    /\ f[2] \notin Sessions
    /\ \A g \in DOMAIN fields :
         Decided(fields[g]) /\ fields[g].doc = w.fields[f].edited.doc
           => fields[g].type # w.fields[f].edited.type

DecidesOne(w, f) ==
  LET x == w.fields[f] IN
  /\ DOMAIN w.fields = {f} /\ f \in DOMAIN fields
  /\ x.loaded = fields[f] /\ x.loaded.status = "UNVERIFIED"
  /\ Decided(x.edited) /\ x.edited.by \in Users
  /\ x.edited.status = "VERIFIED" => x.edited.value = x.loaded.value

EntersOne(w, f) ==
  LET i == <<f[1], 0>> IN
  /\ DOMAIN w.fields = {f} /\ f \notin DOMAIN fields
  /\ w.fields[f].edited.status = "OVERRIDDEN" /\ w.fields[f].edited.by \in Users
  /\ i \in DOMAIN w.items /\ w.items[i].edited.status = "RESOLVED"

WritesAreFresh(w) ==
  /\ \A d \in DOMAIN w.docs :
       /\ d \in DOMAIN docs => w.docs[d].loaded = docs[d]
       /\ Matches(w.docs[d].edited)
  /\ \/ ProposesOnly(w)
     \/ \E f \in FieldIds : DecidesOne(w, f) \/ EntersOne(w, f)

IsFresh(x) ==
  /\ x.op = "pipeline" => PipelineIsFresh(x)
  /\ x.op = "resolve" => x.loaded = items[x.item]
  /\ x.op = "commit" => WritesAreFresh(x)

\* An item is answered by hand once: its value is in the fields only if it is RESOLVED.
EnteredOnce ==
  \A f \in DOMAIN fields :
    f[2] \in Sessions =>
      <<f[1], 0>> \in DOMAIN items /\ items[<<f[1], 0>>].status = "RESOLVED"

SerialInv ==
  /\ \A s \in Sessions : IsFresh(sess[s])
  /\ EnteredOnce
  /\ StatusMatchesConfidence

=============================================================================
