----------------------------- MODULE ReviewDesk -----------------------------
(***************************************************************************)
(* The endpoints that answer from the tables of LeaseRecords while its     *)
(* sessions write them: the list of a team's queue (api/review_queue.py)   *)
(* and the demonstration's seed and upload (api/demo_seed.py).  An upload  *)
(* runs the whole pipeline inside its request, commits, and then reads     *)
(* back what the tables hold by then: two statements of READ COMMITTED,    *)
(* between which others commit, and either of which may fail.              *)
(***************************************************************************)
EXTENDS LeaseRecords

CONSTANTS
  Admins,           \* users whose identity headers say x-is-admin
  Barriers,         \* the allowed teams that events may carry
  BaseRent,         \* the types of the two fields that are seeded
  FreeRentPeriod

ASSUME DeskIsTyped == Admins \subseteq Users /\ Barriers \subseteq SUBSET Teams

\* The thresholds, which are settings, lie where the seed's fixed confidences are
\* on the side its docstring names.
ASSUME SeedFits ==
  /\ {BaseRent, FreeRentPeriod} \subseteq FieldTypes
  /\ BaseRent # FreeRentPeriod
  /\ MaxResults >= 1
  /\ Threshold[BaseRent] <= 97 /\ Threshold[FreeRentPeriod] > 55

VARIABLES
  owner,      \* lease_documents.team_id, copied to each item of the document
  discarded,  \* messages the null producer swallowed
  calls,      \* per session: the upload it is serving
  reply       \* the last step's HTTP response, if it sent one

deskVars == <<vars, owner, discarded, calls, reply>>

NoCall == [stage |-> "none"]
NoReply == [kind |-> "none"]

\* The pipeline as an upload builds it: the text layer of the PDF for OCR and a
\* producer that publishes nothing.
TextLayerConfidences == {0, 95}

Local == INSTANCE LeaseRecords WITH
  events <- discarded, OcrConfidences <- TextLayerConfidences

Owned(run, team) == [d \in DOMAIN owner \cup {run} |-> IF d = run THEN team ELSE owner[d]]

-----------------------------------------------------------------------------
(* Sessions of LeaseRecords, beside which everything here happens *)

Ingest(s) ==
  /\ Handle(s)
  /\ sess'[s].loaded.allowed \in Barriers
  /\ \E run \in started' \ started, team \in Teams : owner' = Owned(run, team)

Write(s) ==
  \/ Ingest(s)
  \/ /\ \/ Reprocess(s) \/ Exclude(s) \/ Extract(s) \/ PipelineFails(s)
        \/ Verify(s)
        \/ ResolveLoad(s) \/ ResolveOverride(s) \/ ResolveEnter(s)
        \/ Commit(s) \/ SessionLost(s)
     /\ UNCHANGED owner

Others(s) ==
  /\ calls[s] = NoCall
  /\ Write(s)
  /\ UNCHANGED <<discarded, calls, reply>>

-----------------------------------------------------------------------------
(* The list of a team's queue, read by one session that ends with its answer *)

\* policy/team_scope.py: of the team, or an administrator (whose crossing is logged).
EnforceTeamScopeWithAdminAudit(user, allowed) ==
  TeamOf[user] \in allowed \/ user \in Admins

MutListed(team, statuses) ==
  {i \in DOMAIN items : team \in items[i].allowed /\ items[i].status \in statuses}

\* The rows whose team_id is the team asked for, of one status or of any.
Listed(team, statuses) ==
  {i \in DOMAIN items : owner[items[i].doc] = team /\ items[i].status \in statuses}

ShowQueue(s) ==
  /\ sess[s] = Idle /\ calls[s] = NoCall
  /\ \E user \in Users, team \in Teams, statuses \in {{"PENDING"}, {"RESOLVED"}, {"PENDING", "RESOLVED"}} :
       /\ EnforceTeamScopeWithAdminAudit(user, {team})
       /\ reply' = [kind |-> "queue", team |-> team, statuses |-> statuses,
                    items |-> Listed(team, statuses)]
  /\ UNCHANGED <<vars, owner, discarded, calls>>

-----------------------------------------------------------------------------
(* The seed *)

MutSeedItems(run, team) == Nothing

SeedItems(run, team) ==
  Single(<<run, 1>>, Insert(QueueItem(run, <<run, 1>>, {team})))

\* One document, COMPLETE without a run or a scan, a field in the queue (named as
\* an answer would be) and a field to verify, all written by the one commit.
Seed(s) ==
  /\ sess[s] = Idle /\ calls[s] = NoCall
  /\ \E run \in Runs \ started, team \in Teams, rent, free \in Values :
       /\ started' = started \cup {run}
       /\ owner' = Owned(run, team)
       /\ sess' = [sess EXCEPT ![s] =
            Work(Single(run, Insert([allowed |-> {team}, status |-> "COMPLETE",
                                     confidence |-> None])),
                 Nothing,
                 [f \in {run} \X {1, s} |-> Insert(Extracted(run,
                    IF f[2] = s THEN [type |-> BaseRent, value |-> rent, confidence |-> 97]
                    ELSE [type |-> FreeRentPeriod, value |-> free, confidence |-> 55]))],
                 SeedItems(run, team))]
  /\ UNCHANGED <<tables, events, discarded, calls, reply>>

-----------------------------------------------------------------------------
(* The upload *)

\* An event is made up for the file: a team of its own alone is allowed.
Upload(s) ==
  /\ calls[s] = NoCall
  /\ Handle(s)
  /\ \E team \in Teams :
       /\ sess'[s].loaded.allowed = {team}
       /\ owner' = Owned(sess'[s].run, team)
  /\ calls' = [calls EXCEPT ![s] = [stage |-> "pipeline", run |-> sess'[s].run]]
  /\ UNCHANGED <<discarded, reply>>

\* Fewer than MIN_USABLE_TEXT_CHARS of text are a scan of confidence 0.
UploadRuns(s) ==
  /\ calls[s].stage = "pipeline"
  /\ Local!Exclude(s) \/ Local!Extract(s)
  /\ UNCHANGED <<events, owner, calls, reply>>

MutRefuse(s) ==
  /\ docs' = [d \in DOMAIN docs \cup {sess[s].doc} |->
                IF d = sess[s].doc THEN sess[s].loaded ELSE docs[d]]
  /\ sess' = [sess EXCEPT ![s] = Idle]
  /\ UNCHANGED <<runs, fields, items, events, started>>

\* handle() raised: no commit is reached and closing the session rolls back.
Refuse(s) == PipelineFails(s)

\* 502 when both providers refused, 500 for an error no adapter translates.
UploadFails(s) ==
  /\ calls[s].stage = "pipeline"
  /\ Refuse(s)
  /\ calls' = [calls EXCEPT ![s] = NoCall]
  /\ reply' = [kind |-> "refused", run |-> calls[s].run]
  /\ UNCHANGED <<owner, discarded>>

UploadCommits(s) ==
  /\ calls[s].stage = "pipeline"
  /\ Commit(s)
  /\ calls' = [calls EXCEPT ![s].stage = "stored"]
  /\ UNCHANGED <<owner, discarded, reply>>

\* The request ends early: a transaction that is still open is rolled back.
Abandon(s) ==
  /\ calls[s] # NoCall
  /\ IF calls[s].stage = "pipeline" THEN SessionLost(s) ELSE UNCHANGED vars
  /\ calls' = [calls EXCEPT ![s] = NoCall]
  /\ UNCHANGED <<owner, discarded>>

\* The client hangs up or the process dies, before or after the commit.
UploadLost(s) == Abandon(s) /\ UNCHANGED reply

\* The commit raises, or its answer or one of the two reads does: 500.
UploadBreaks(s) ==
  /\ Abandon(s)
  /\ reply' = [kind |-> "error", run |-> calls[s].run]

ReadFields(s) ==
  /\ calls[s].stage = "stored"
  /\ calls' = [calls EXCEPT ![s] =
       [stage |-> "read", run |-> calls[s].run,
        rows |-> {f \in DOMAIN fields : fields[f].doc = calls[s].run}]]
  /\ UNCHANGED <<vars, owner, discarded, reply>>

MutQueuedFields(doc) ==
  {items[i].field : i \in {j \in DOMAIN items : items[j].doc = doc /\ items[j].status = "PENDING"}}

QueuedFields(doc) ==
  {items[i].field : i \in {j \in DOMAIN items : items[j].doc = doc}}

\* The session does not expire its objects on commit: of the item an exclusion
\* left it may still see the missing field, and not the one entered since.
SeenQueued(run) ==
  {QueuedFields(run), {f \in QueuedFields(run) : f # None /\ f[2] \notin Sessions}}

\* What is not in the queue is reported as auto-populated.
ReadQueue(s) ==
  /\ calls[s].stage = "read"
  /\ \E queued \in SeenQueued(calls[s].run) :
       reply' = [kind |-> "upload", run |-> calls[s].run, rows |-> calls[s].rows,
                 autoPopulated |-> calls[s].rows \ queued,
                 isLease |-> calls[s].rows # {}]
  /\ calls' = [calls EXCEPT ![s] = NoCall]
  /\ UNCHANGED <<vars, owner, discarded>>

-----------------------------------------------------------------------------
DeskInit ==
  /\ Init
  /\ owner = Nothing
  /\ discarded = EmptyBag
  /\ calls = [s \in Sessions |-> NoCall]
  /\ reply = NoReply

\* A reply is only looked at: before anything else happens it is gone.
ReplyIsRead ==
  /\ reply # NoReply
  /\ reply' = NoReply
  /\ UNCHANGED <<vars, owner, discarded, calls>>

Serve(s) ==
  /\ reply = NoReply
  /\ \/ Others(s)
     \/ ShowQueue(s)
     \/ Seed(s)
     \/ Upload(s) \/ UploadRuns(s) \/ UploadFails(s) \/ UploadCommits(s)
     \/ UploadLost(s) \/ UploadBreaks(s) \/ ReadFields(s) \/ ReadQueue(s)

DeskNext == ReplyIsRead \/ \E s \in Sessions : Serve(s)

DeskSpec == DeskInit /\ [][DeskNext]_deskVars

-----------------------------------------------------------------------------
(* Properties *)

CallState(c) ==
  \/ c = NoCall
  \/ c.stage \in {"pipeline", "stored"} /\ c.run \in Runs
  \/ c.stage = "read" /\ c.run \in Runs /\ c.rows \subseteq FieldIds

\* Every document has the team it was drawn for, and the tables are as
\* LeaseRecords has them, uploads and seeds included.
DeskTypeOK ==
  /\ TypeOK
  /\ DOMAIN docs \subseteq DOMAIN owner /\ DOMAIN owner \subseteq started
  /\ \A d \in DOMAIN owner : owner[d] \in Teams
  /\ \A e \in BagToSet(discarded) : MessageState(e)
  /\ \A s \in Sessions : CallState(calls[s])

\* FR-004, ParsedFieldOut.auto_populated: a field reported as auto-populated has
\* the confidence its type demands, although people resolve items and others
\* reprocess the document between the upload's commit and its two reads.
AutoPopulatedMetItsThreshold ==
  reply.kind = "upload" =>
    \A f \in reply.autoPopulated : ShouldAutoPopulate(fields[f])

\* FR-005, review_queue.py:65-68: a team that lists its pending work is shown an item
\* for every undecided field of low confidence in its documents, whoever wrote the
\* field (a run, a reprocess, a seed) and whoever resolves beside it.
QueueShowsWhatIsDue ==
  reply.kind = "queue" /\ "PENDING" \in reply.statuses =>
    \A f \in DOMAIN fields :
      owner[fields[f].doc] = reply.team /\ ~Decided(fields[f]) /\ ~ShouldAutoPopulate(fields[f])
        => \E i \in reply.items : items[i].field = f

Absent(run) ==
  /\ run \notin DOMAIN docs \cup DOMAIN runs
  /\ \A f \in DOMAIN fields : f[1] # run
  /\ \A i \in DOMAIN items : i[1] # run

\* What the swallowed message of an upload names is what its run left.
Whole(run) ==
  /\ run \in DOMAIN docs \cap DOMAIN runs
  /\ \E e \in BagToSet(discarded) :
       /\ e.run = run
       /\ e.fields = {f \in DOMAIN fields : f[1] = run /\ f[2] \in Positions}
       /\ e.items = {i \in DOMAIN items : i[1] = run}

\* demo_seed.py:262-283: 502 means that nothing of the upload was stored, although the
\* pipeline had flushed a document and a run; 500 that nothing was or everything, for
\* the commit stands when a read after it fails; an answer, that everything was.
UploadIsWholeOrAbsent ==
  /\ reply.kind = "refused" => Absent(reply.run)
  /\ reply.kind = "error" => Absent(reply.run) \/ Whole(reply.run)
  /\ reply.kind = "upload" => Whole(reply.run)

=============================================================================
