------------------------------- MODULE Intake -------------------------------
(***************************************************************************)
(* One partition of an intake topic and the process that consumes it:      *)
(* RetryingConsumer and JsonProducer (consumers/base.py) driven by         *)
(* BackfillProcessor (consumers/backfill_consumer.py), whose handler runs  *)
(* the pipeline inside session_scope() (models/db.py).                     *)
(*                                                                         *)
(* The pipeline and its tables are the subject of LeaseRecords; here a     *)
(* handled message only leaves a committed document behind or does not.    *)
(* Offset commits and produced messages are asynchronous: they are queued  *)
(* in the client and reach the broker later, or never if the process dies. *)
(***************************************************************************)
EXTENDS Integers

CONSTANTS
  Length,      \* messages in the partition
  Kinds,       \* what a message may be, see log
  MaxRetries,  \* RetryingConsumer's max_retries
  MaxOutages,  \* bound on how often the providers become unavailable
  MaxFaults    \* bound on crashes, lost requests and failed commits

ASSUME IntakeParameters ==
  /\ Length \in Nat
  /\ Kinds \subseteq {"lease", "other", "malformed", "bare", "poison"}
  /\ MaxRetries \in Nat \ {0}
  /\ MaxOutages \in Nat
  /\ MaxFaults \in Nat

Messages == 1..Length
Offsets == 1..(Length + 1)

VARIABLES
  log,        \* each message: a lease, another document type, a lease event the
              \* handler cannot read (malformed), a payload that is JSON but no object
              \* (bare), or one that is not JSON (poison)
  committed,  \* the group's committed offset: the next message after a restart
  inFlight,   \* offsets of commit requests the broker has not seen
  position,   \* the next message poll() returns
  worker,     \* where run_once() stands, and its attempt counter
  stored,     \* documents committed for each message, up to Many
  outbox,     \* produced messages not yet delivered
  delivered,  \* messages on the completion and dead-letter topics
  escalated,  \* history: dead letters produced for each message, up to Many
  available,  \* the OCR and extraction providers answer
  outages,    \* outages so far
  faults      \* faults so far

broker == <<log, committed, delivered>>
client == <<inFlight, position, worker, outbox>>
history == <<stored, escalated>>
environment == <<available, outages, faults>>
vars == <<broker, client, history, environment>>

Polling == [at |-> "poll", attempt |-> 0]
Down == [at |-> "down", attempt |-> 0]
InHand == position - 1

\* Documents and dead letters of a message are counted to one more than the faults
\* account for.
Many == MaxFaults + 2

OnceMore(counts, m) == [counts EXCEPT ![m] = IF @ < Many THEN @ + 1 ELSE @]

DeadLetterTopic == "lease.extraction.dead-letter"

Completion(m) == [topic |-> "lease.extraction.completed", message |-> m]
MutDeadLetter(m) == Completion(m)

DeadLetter(m) == [topic |-> DeadLetterTopic, message |-> m]

Init ==
  /\ log \in [Messages -> Kinds]
  /\ committed = 1 /\ position = 1
  /\ inFlight = {}
  /\ worker = Polling
  /\ stored = [m \in Messages |-> 0]
  /\ escalated = [m \in Messages |-> 0]
  /\ outbox = {} /\ delivered = {}
  /\ available = TRUE
  /\ outages = 0 /\ faults = 0

-----------------------------------------------------------------------------
(* run_once() *)

\* The payload is parsed outside the try: a poison message ends the process.
MutPoll ==
  /\ worker = Polling
  /\ position \in Messages
  /\ log[position] # "poison"
  /\ position' = position + 1
  /\ worker' = [at |-> "handler", attempt |-> 0]
  /\ inFlight' = inFlight \cup {position + 1}
  /\ UNCHANGED <<broker, outbox, history, environment>>

Poll ==
  /\ worker = Polling
  /\ position \in Messages
  /\ log[position] # "poison"
  /\ position' = position + 1
  /\ worker' = [at |-> "handler", attempt |-> 0]
  /\ UNCHANGED <<broker, inFlight, outbox, history, environment>>

\* What a dead process leaves behind: neither requests nor messages in transit.
Die ==
  /\ worker' = Down
  /\ inFlight' = {}
  /\ outbox' = {}

PollPoison ==
  /\ worker = Polling
  /\ position \in Messages
  /\ log[position] = "poison"
  /\ Die
  /\ UNCHANGED <<broker, position, history, environment>>

MutRetry ==
  /\ worker.attempt + 1 < MaxRetries
  /\ worker' = [at |-> "handler", attempt |-> 0]
  /\ UNCHANGED <<inFlight, outbox, escalated>>

MutRetryOnceMore ==
  /\ worker.attempt < MaxRetries
  /\ worker' = [at |-> "handler", attempt |-> worker.attempt + 1]
  /\ UNCHANGED <<inFlight, outbox, escalated>>

\* except Exception: try again at once, without a pause.
Retry ==
  /\ worker.attempt + 1 < MaxRetries
  /\ worker' = [at |-> "handler", attempt |-> worker.attempt + 1]
  /\ UNCHANGED <<inFlight, outbox, escalated>>

\* At max_retries, produce the dead letter and commit the offset.  Both calls only
\* enqueue; if one of them raises, the process ends, which Crash allows from the
\* state before and the state after.
Escalate ==
  /\ worker.attempt + 1 >= MaxRetries
  /\ log[InHand] # "bare"
  /\ worker' = Polling
  /\ outbox' = outbox \cup {DeadLetter(InHand)}
  /\ escalated' = OnceMore(escalated, InHand)
  /\ inFlight' = inFlight \cup {position}

\* The letter is made with payload.get(): what is JSON but no object raises once
\* more, out of the except branch, before anything is produced or committed.
EscalationRaises ==
  /\ worker.attempt + 1 >= MaxRetries
  /\ log[InHand] = "bare"
  /\ Die
  /\ UNCHANGED escalated

Raised == Retry \/ Escalate \/ EscalationRaises

\* handle() returns None for any document type but LEASE.
Ignore ==
  /\ worker.at = "handler" /\ log[InHand] = "other"
  /\ worker' = [worker EXCEPT !.at = "ack"]
  /\ UNCHANGED <<broker, inFlight, position, outbox, history, environment>>

\* The pipeline completes and hands its message to the producer, the transaction
\* still open.
RunPipeline ==
  /\ worker.at = "handler" /\ log[InHand] = "lease" /\ available
  /\ worker' = [worker EXCEPT !.at = "transaction"]
  /\ outbox' = outbox \cup {Completion(InHand)}
  /\ UNCHANGED <<broker, inFlight, position, history, environment>>

\* OCR or both extraction providers are unavailable, the event lacks a key, or it
\* has no keys at all.
HandlerFails ==
  /\ worker.at = "handler"
  /\ log[InHand] \in {"malformed", "bare"} \/ (log[InHand] = "lease" /\ ~available)
  /\ Raised
  /\ UNCHANGED <<broker, position, stored, environment>>

Stored == OnceMore(stored, InHand)

CommitTransaction ==
  /\ worker.at = "transaction"
  /\ stored' = Stored
  /\ worker' = [worker EXCEPT !.at = "ack"]
  /\ UNCHANGED <<broker, inFlight, position, outbox, escalated, environment>>

\* consumer.commit(msg), asynchronous, then return.
MutAck ==
  /\ worker.at = "ack"
  /\ inFlight' = inFlight \cup {position}
  /\ worker' = [worker EXCEPT !.at = "handler"]
  /\ UNCHANGED <<broker, position, outbox, history, environment>>

Ack ==
  /\ worker.at = "ack"
  /\ inFlight' = inFlight \cup {position}
  /\ worker' = Polling
  /\ UNCHANGED <<broker, position, outbox, history, environment>>

-----------------------------------------------------------------------------
(* The broker, the providers and the platform *)

\* Commit requests of one consumer reach the broker in the order it made them.
ApplyCommit ==
  \E offset \in inFlight :
    /\ \A other \in inFlight : offset <= other
    /\ committed' = offset
    /\ inFlight' = inFlight \ {offset}
    /\ UNCHANGED <<log, delivered, position, worker, outbox, history, environment>>

Deliver ==
  \E message \in outbox :
    /\ delivered' = delivered \cup {message}
    /\ outbox' = outbox \ {message}
    /\ UNCHANGED <<log, committed, inFlight, position, worker, history, environment>>

\* The process is started again and fetches from the committed offset.
Restart ==
  /\ worker = Down
  /\ worker' = Polling
  /\ position' = committed
  /\ UNCHANGED <<broker, inFlight, outbox, history, environment>>

OutageBegins ==
  /\ available /\ outages < MaxOutages
  /\ available' = FALSE
  /\ outages' = outages + 1
  /\ UNCHANGED <<broker, client, history, faults>>

OutageEnds ==
  /\ ~available
  /\ available' = TRUE
  /\ UNCHANGED <<broker, client, history, outages, faults>>

Fault ==
  /\ faults < MaxFaults
  /\ faults' = faults + 1
  /\ UNCHANGED <<available, outages>>

Crash ==
  /\ Fault
  /\ worker # Down
  /\ Die
  /\ UNCHANGED <<broker, position, history>>

\* session.commit() fails, with the transaction rolled back or, when only the
\* answer is lost, in the tables after all.
TransactionFails ==
  /\ Fault
  /\ worker.at = "transaction"
  /\ stored' \in {stored, Stored}
  /\ Raised
  /\ UNCHANGED <<broker, position>>

\* consumer.commit() raises inside the try: the handler runs again.
AckFails ==
  /\ Fault
  /\ worker.at = "ack"
  /\ Raised
  /\ UNCHANGED <<broker, position, stored>>

CommitIsLost ==
  /\ Fault
  /\ \E offset \in inFlight : inFlight' = inFlight \ {offset}
  /\ UNCHANGED <<broker, position, worker, outbox, history>>

\* The delivery callback logs the error.
DeliveryFails ==
  /\ Fault
  /\ \E message \in outbox : outbox' = outbox \ {message}
  /\ UNCHANGED <<broker, inFlight, position, worker, history>>

RunOnce ==
  Poll \/ PollPoison \/ Ignore \/ RunPipeline \/ HandlerFails \/ CommitTransaction \/ Ack

Next ==
  \/ RunOnce
  \/ ApplyCommit \/ Deliver \/ Restart
  \/ OutageBegins \/ OutageEnds
  \/ Crash \/ TransactionFails \/ AckFails \/ CommitIsLost \/ DeliveryFails

Spec == Init /\ [][Next]_vars

\* run_forever() keeps calling run_once(), the platform restarts the process, the
\* client's background thread sends what is queued, and outages end.
Fairness ==
  /\ WF_vars(RunOnce)
  /\ WF_vars(Restart)
  /\ WF_vars(ApplyCommit)
  /\ WF_vars(Deliver)
  /\ WF_vars(OutageEnds)

FairSpec == Spec /\ Fairness

-----------------------------------------------------------------------------
(* Properties *)

TypeOK ==
  /\ log \in [Messages -> Kinds]
  /\ committed \in Offsets /\ position \in Offsets
  /\ inFlight \subseteq Offsets
  /\ worker \in [at : {"poll", "handler", "transaction", "ack", "down"},
                 attempt : 0..(MaxRetries - 1)]
  /\ worker.at \in {"poll", "down"} => worker.attempt = 0
  /\ worker.at \in {"handler", "transaction", "ack"} => InHand \in Messages
  /\ stored \in [Messages -> 0..Many] /\ escalated \in [Messages -> 0..Many]
  /\ \A r \in outbox \cup delivered : \E m \in Messages : r \in {Completion(m), DeadLetter(m)}
  /\ available \in BOOLEAN /\ outages \in 0..MaxOutages /\ faults \in 0..MaxFaults

\* The end a message may come to.
Settled(m) == log[m] = "other" \/ stored[m] > 0 \/ escalated[m] > 0

\* FR-010, RetryingConsumer: whatever crashes and whatever requests are lost, the
\* committed offset never passes a message that neither reached the tables nor
\* was escalated to a dead letter.
SettledBelowOffset ==
  \A m \in Messages : m < committed => Settled(m)

\* A message that ends the process whenever it is fetched, and so is fetched for ever.
Blocks(m) == log[m] \in {"bare", "poison"}

Ends(m) == stored[m] + escalated[m]

\* RetryingConsumer.run_once(), events.md: a message becomes one document or one dead
\* letter, whatever retries and outages it meets, and one more for each fault at most;
\* while there is none, the message that says which has been sent.
RepeatsNeedFaults ==
  (\A m \in Messages : ~Blocks(m)) =>
    \A m \in Messages :
      /\ Ends(m) <= faults + 1
      /\ faults = 0 /\ stored[m] > 0 => Completion(m) \in outbox \cup delivered
      /\ faults = 0 /\ escalated[m] > 0 => DeadLetter(m) \in outbox \cup delivered

\* RetryingConsumer, FR-010: a message comes to an end whatever happens to it and to
\* the messages before it, unless one of these is no JSON object.
EveryMessageSettles ==
  \A m \in Messages : (\A n \in 1..m : ~Blocks(n)) ~> Settled(m)

\* RetryingConsumer's docstring: a message the consumer cannot handle is escalated
\* after max_retries, so it holds up neither itself nor those behind it.
FailuresAreEscalated == \A m \in Messages : <>Settled(m)

\* events.md, lease.extraction.dead-letter: an escalated message is on the topic the
\* alerting reads.  Nothing waits for the letter's delivery: a fault loses it, or the
\* end of the process on a later message that is no JSON object, and nothing else.
EscalationIsDelivered ==
  \A m \in Messages :
    escalated[m] > 0 ~>
      \/ \E letter \in delivered : letter.topic = DeadLetterTopic /\ letter.message = m
      \/ faults > 0
      \/ \E n \in (m + 1)..Length : Blocks(n)

=============================================================================
