---------------------------- MODULE IntakeProofs ----------------------------
(* Type correctness of Intake, that the committed offset never passes a message
   that was neither stored nor escalated, and that only faults repeat the end of a
   message, for any length of the log, any number of retries and any number of
   faults and outages. *)
EXTENDS Intake, TLAPS

\* The offset is safe because every offset that may still become the committed
\* one is: those in flight, and the one the worker would commit next.
SettledBefore(offset) == \A m \in Messages : m < offset => Settled(m)

Offered == IF worker.at = "poll" THEN position ELSE InHand

OffsetsAreSafe ==
  /\ SettledBefore(committed)
  /\ \A offset \in inFlight : SettledBefore(offset)
  /\ worker.at # "down" => SettledBefore(Offered)
  /\ worker.at = "ack" => Settled(InHand)

IInv == TypeOK /\ OffsetsAreSafe

\* Init: no message lies below the first offset.
LEMMA InitInvariant == Init => IInv
<1> SUFFICES ASSUME Init PROVE IInv
  OBVIOUS
<1> USE IntakeParameters
<1>1. TypeOK
  BY DEF Init, TypeOK, Polling, Messages, Offsets, Many
<1>2. \A m \in Messages : ~(m < 1)
  BY DEF Messages
<1>3. OffsetsAreSafe
  BY <1>2 DEF Init, OffsetsAreSafe, SettledBefore, Offered, Polling
<1> QED
  BY <1>1, <1>3 DEF IInv

\* What counting once more does to a count.
LEMMA CountingOnce ==
  ASSUME NEW counts \in [Messages -> 0..Many], NEW n \in Messages
  PROVE  /\ OnceMore(counts, n) \in [Messages -> 0..Many]
         /\ OnceMore(counts, n)[n] > 0 /\ OnceMore(counts, n)[n] <= counts[n] + 1
         /\ \A m \in Messages : m # n => OnceMore(counts, n)[m] = counts[m]
         /\ \A m \in Messages : counts[m] > 0 => OnceMore(counts, n)[m] > 0
<1>1. Many \in Nat /\ Many > 0
  BY IntakeParameters DEF Many
<1> QED
  BY <1>1 DEF OnceMore

\* The end of the process leaves nothing in transit, and the restarted one polls from
\* the committed offset.
LEMMA DyingKeeps ==
  ASSUME IInv, Die, UNCHANGED <<broker, position, escalated>>,
         stored' \in [Messages -> 0..Many], \A m \in Messages : stored[m] > 0 => stored'[m] > 0,
         UNCHANGED <<available, outages>>, faults' \in 0..MaxFaults
  PROVE  IInv'
<1> USE IntakeParameters
<1>1. TypeOK'
  BY DEF IInv, TypeOK, Die, Down, broker, Completion, DeadLetter
<1>2. OffsetsAreSafe'
  BY DEF IInv, OffsetsAreSafe, SettledBefore, Settled, Die, Down, broker
<1> QED
  BY <1>1, <1>2 DEF IInv

\* Raised, the except branch of run_once(): what it leaves in every variable it sets,
\* while the tables only gain documents.
LEMMA RaisedKeeps ==
  ASSUME IInv, Raised, worker.at \in {"handler", "transaction", "ack"},
         UNCHANGED <<broker, position>>, stored' \in {stored, Stored},
         UNCHANGED <<available, outages>>, faults' \in 0..MaxFaults
  PROVE  IInv'
<1> USE IntakeParameters
<1>1. TypeOK /\ InHand \in Messages
  BY DEF IInv, TypeOK
<1>2. stored' \in [Messages -> 0..Many]
  BY <1>1, CountingOnce DEF TypeOK, Stored
<1>3. \A m \in Messages : stored[m] > 0 => stored'[m] > 0
  BY <1>1, CountingOnce DEF TypeOK, Stored
<1>4. position \in Offsets /\ position = InHand + 1 /\ InHand' = InHand
  BY <1>1 DEF TypeOK, InHand, Offsets, Messages
<1>5. CASE Retry
  <2>1. /\ worker.attempt + 1 < MaxRetries
        /\ worker' = [at |-> "handler", attempt |-> worker.attempt + 1]
        /\ UNCHANGED <<inFlight, outbox, escalated>>
    BY <1>5 DEF Retry
  <2>2. TypeOK'
    <3>1. worker.attempt \in 0..(MaxRetries - 1)
      BY <1>1 DEF TypeOK
    <3>2. worker' \in [at : {"poll", "handler", "transaction", "ack", "down"},
                       attempt : 0..(MaxRetries - 1)]
      BY <2>1, <3>1
    <3> QED
      BY <1>1, <1>2, <1>4, <2>1, <3>2 DEF TypeOK, broker
  <2>3. \A m \in Messages : Settled(m) => Settled(m)'
    BY <1>3, <2>1 DEF Settled, broker
  <2>4. SettledBefore(InHand)
    BY DEF IInv, OffsetsAreSafe, Offered
  <2>5. OffsetsAreSafe'
    BY <1>4, <2>1, <2>3, <2>4 DEF IInv, OffsetsAreSafe, SettledBefore, Offered, broker
  <2> QED
    BY <2>2, <2>5 DEF IInv
<1>6. CASE Escalate
  <2>1. /\ worker' = Polling
        /\ outbox' = outbox \cup {DeadLetter(InHand)}
        /\ escalated' = OnceMore(escalated, InHand)
        /\ inFlight' = inFlight \cup {position}
    BY <1>6 DEF Escalate
  <2>0. /\ escalated' \in [Messages -> 0..Many] /\ escalated'[InHand] > 0
        /\ \A m \in Messages : escalated[m] > 0 => escalated'[m] > 0
    BY <1>1, <2>1, CountingOnce DEF TypeOK
  <2>2. TypeOK'
    <3>1. \A r \in outbox' \cup delivered' :
            \E m \in Messages : r \in {Completion(m), DeadLetter(m)}
      BY <1>1, <2>1 DEF TypeOK, broker
    <3>2. worker' \in [at : {"poll", "handler", "transaction", "ack", "down"},
                       attempt : 0..(MaxRetries - 1)]
      BY <2>1 DEF Polling
    <3> QED
      BY <1>1, <1>2, <1>4, <2>1, <2>0, <3>1, <3>2 DEF TypeOK, broker, Polling, Completion, DeadLetter
  <2>3. \A m \in Messages : Settled(m) => Settled(m)'
    BY <1>3, <2>0 DEF Settled, broker
  <2>4. SettledBefore(InHand)
    BY DEF IInv, OffsetsAreSafe, Offered
  <2>5. Settled(InHand)'
    BY <1>4, <2>0 DEF Settled
  <2>6. SettledBefore(position)'
    <3> SUFFICES ASSUME NEW m \in Messages, m < position PROVE Settled(m)'
      BY <1>4 DEF SettledBefore, broker
    <3>1. m < InHand \/ m = InHand
      BY <1>1, <1>4 DEF Messages
    <3> QED
      BY <2>3, <2>4, <2>5, <3>1, <1>4 DEF SettledBefore
  <2>7. OffsetsAreSafe'
    BY <2>1, <2>3, <2>6, <1>4 DEF IInv, OffsetsAreSafe, SettledBefore, Offered, broker, Polling
  <2> QED
    BY <2>2, <2>7 DEF IInv
<1>7. CASE EscalationRaises
  BY <1>1, <1>2, <1>3, <1>7, DyingKeeps DEF EscalationRaises
<1> QED
  BY <1>5, <1>6, <1>7 DEF Raised

\* Each step keeps both; what a step neither stores nor escalates stays as settled as it was.
LEMMA StepInvariant == IInv /\ [Next]_vars => IInv'
<1> SUFFICES ASSUME IInv, [Next]_vars PROVE IInv'
  OBVIOUS
<1> USE IntakeParameters
<1>1. TypeOK /\ OffsetsAreSafe
  BY DEF IInv
<1>2. CASE Poll
  <2>1. TypeOK'
    BY <1>1, <1>2 DEF Poll, TypeOK, broker, history, environment, Offsets, Messages, InHand,
                       Polling, Completion, DeadLetter
  <2>2. Settled(InHand)' \in BOOLEAN /\ InHand' = position
    BY <1>1, <1>2 DEF Poll, InHand, Settled, TypeOK, Offsets
  <2>3. SettledBefore(position)
    BY <1>1, <1>2 DEF OffsetsAreSafe, Poll, Offered, Polling
  <2>4. OffsetsAreSafe'
    BY <1>1, <1>2, <2>2, <2>3
      DEF Poll, OffsetsAreSafe, SettledBefore, Offered, Settled, broker, history
  <2> QED
    BY <2>1, <2>4 DEF IInv
<1>3. CASE PollPoison
  BY <1>1, <1>3, DyingKeeps DEF PollPoison, history, environment, TypeOK
<1>4. CASE Ignore
  <2>1. TypeOK'
    BY <1>1, <1>4 DEF Ignore, TypeOK, broker, history, environment, InHand, Completion, DeadLetter
  <2>2. OffsetsAreSafe'
    BY <1>1, <1>4 DEF Ignore, OffsetsAreSafe, SettledBefore, Offered, Settled, InHand, broker, history,
                       TypeOK
  <2> QED
    BY <2>1, <2>2 DEF IInv
<1>5. CASE RunPipeline
  <2>1. InHand \in Messages
    BY <1>1, <1>5 DEF RunPipeline, TypeOK
  <2>2. TypeOK'
    BY <1>1, <1>5, <2>1 DEF RunPipeline, TypeOK, broker, history, environment, InHand
  <2>3. OffsetsAreSafe'
    BY <1>1, <1>5 DEF RunPipeline, OffsetsAreSafe, SettledBefore, Offered, Settled, InHand, broker,
                       history, TypeOK
  <2> QED
    BY <2>2, <2>3 DEF IInv
<1>6. CASE HandlerFails
  BY <1>1, <1>6, RaisedKeeps DEF HandlerFails, environment, TypeOK
<1>7. CASE CommitTransaction
  <2>1. InHand \in Messages
    BY <1>1, <1>7 DEF CommitTransaction, TypeOK
  <2>2. stored' \in [Messages -> 0..Many] /\ stored'[InHand] > 0
    BY <1>1, <1>7, <2>1, CountingOnce DEF CommitTransaction, Stored, TypeOK
  <2>3. \A m \in Messages : Settled(m) => Settled(m)'
    BY <1>1, <1>7, <2>1, CountingOnce DEF CommitTransaction, Stored, TypeOK, Settled, broker
  <2>4. TypeOK'
    BY <1>1, <1>7, <2>2 DEF CommitTransaction, TypeOK, broker, environment, InHand, Completion, DeadLetter
  <2>5. OffsetsAreSafe'
    BY <1>1, <1>7, <2>2, <2>3 DEF CommitTransaction, OffsetsAreSafe, SettledBefore, Offered, Settled,
                                   InHand, broker, TypeOK
  <2> QED
    BY <2>4, <2>5 DEF IInv
<1>8. CASE Ack
  <2>1. InHand \in Messages /\ position = InHand + 1
    BY <1>1, <1>8 DEF Ack, TypeOK, InHand, Offsets
  <2>2. SettledBefore(position)
    <3> SUFFICES ASSUME NEW m \in Messages, m < position PROVE Settled(m)
      BY DEF SettledBefore
    <3>1. m < InHand \/ m = InHand
      BY <2>1 DEF Messages
    <3>2. SettledBefore(InHand) /\ Settled(InHand)
      BY <1>1, <1>8 DEF Ack, OffsetsAreSafe, Offered
    <3> QED
      BY <3>1, <3>2 DEF SettledBefore
  <2>3. TypeOK'
    BY <1>1, <1>8 DEF Ack, TypeOK, broker, history, environment, Polling, Completion, DeadLetter
  <2>4. OffsetsAreSafe'
    BY <1>1, <1>8, <2>2 DEF Ack, OffsetsAreSafe, SettledBefore, Offered, Settled, broker, history, Polling
  <2> QED
    BY <2>3, <2>4 DEF IInv
<1>9. CASE ApplyCommit
  <2>1. TypeOK'
    BY <1>1, <1>9 DEF ApplyCommit, TypeOK, history, environment, InHand, Completion, DeadLetter
  <2>2. OffsetsAreSafe'
    BY <1>1, <1>9 DEF ApplyCommit, OffsetsAreSafe, SettledBefore, Offered, Settled, InHand, history
  <2> QED
    BY <2>1, <2>2 DEF IInv
<1>10. CASE Deliver
  <2>1. TypeOK'
    BY <1>1, <1>10 DEF Deliver, TypeOK, history, environment, InHand, Completion, DeadLetter
  <2>2. OffsetsAreSafe'
    BY <1>1, <1>10 DEF Deliver, OffsetsAreSafe, SettledBefore, Offered, Settled, InHand, history
  <2> QED
    BY <2>1, <2>2 DEF IInv
<1>11. CASE Restart
  <2>1. TypeOK'
    BY <1>1, <1>11 DEF Restart, TypeOK, broker, history, environment, Polling, Down, Completion, DeadLetter
  <2>2. OffsetsAreSafe'
    BY <1>1, <1>11 DEF Restart, OffsetsAreSafe, SettledBefore, Offered, Settled, InHand, broker, history,
                        Polling
  <2> QED
    BY <2>1, <2>2 DEF IInv
<1>12. CASE OutageBegins \/ OutageEnds
  <2>1. /\ available' \in BOOLEAN /\ outages' \in 0..MaxOutages
        /\ faults' = faults
    <3>1. outages \in 0..MaxOutages /\ (outages < MaxOutages => outages + 1 \in 0..MaxOutages)
      BY <1>1 DEF TypeOK
    <3>2. CASE OutageBegins
      BY <3>1, <3>2 DEF OutageBegins
    <3>3. CASE OutageEnds
      BY <3>1, <3>3 DEF OutageEnds
    <3> QED
      BY <1>12, <3>2, <3>3
  <2>2. UNCHANGED <<broker, client, history>>
    BY <1>12 DEF OutageBegins, OutageEnds
  <2>3. TypeOK'
    BY <1>1, <2>1, <2>2 DEF TypeOK, broker, client, history, InHand, Completion, DeadLetter
  <2>4. OffsetsAreSafe'
    BY <1>1, <2>2 DEF OffsetsAreSafe, SettledBefore, Offered, Settled, InHand, broker, client, history
  <2> QED
    BY <2>3, <2>4 DEF IInv
<1>13. ASSUME Fault PROVE faults' \in 0..MaxFaults /\ UNCHANGED <<available, outages>>
  BY <1>1, <1>13 DEF Fault, TypeOK
<1>14. CASE Crash
  BY <1>1, <1>13, <1>14, DyingKeeps DEF Crash, history, TypeOK
<1>15. CASE TransactionFails
  BY <1>13, <1>15, RaisedKeeps DEF TransactionFails
<1>16. CASE AckFails
  BY <1>13, <1>16, RaisedKeeps DEF AckFails
<1>17. CASE CommitIsLost
  <2>1. TypeOK'
    BY <1>1, <1>13, <1>17 DEF CommitIsLost, TypeOK, broker, history, InHand, Completion, DeadLetter
  <2>2. OffsetsAreSafe'
    BY <1>1, <1>17 DEF CommitIsLost, OffsetsAreSafe, SettledBefore, Offered, Settled, InHand, broker,
                        history
  <2> QED
    BY <2>1, <2>2 DEF IInv
<1>18. CASE DeliveryFails
  <2>1. TypeOK'
    BY <1>1, <1>13, <1>18 DEF DeliveryFails, TypeOK, broker, history, InHand, Completion, DeadLetter
  <2>2. OffsetsAreSafe'
    BY <1>1, <1>18 DEF DeliveryFails, OffsetsAreSafe, SettledBefore, Offered, Settled, InHand, broker,
                        history
  <2> QED
    BY <2>1, <2>2 DEF IInv
<1>19. CASE UNCHANGED vars
  BY <1>1, <1>19 DEF vars, broker, client, history, environment, IInv, TypeOK, OffsetsAreSafe,
                      SettledBefore, Offered, Settled, InHand, Completion, DeadLetter
<1> QED
  BY <1>2, <1>3, <1>4, <1>5, <1>6, <1>7, <1>8, <1>9, <1>10, <1>11, <1>12, <1>14, <1>15, <1>16,
     <1>17, <1>18, <1>19 DEF Next, RunOnce

\* FR-010, RetryingConsumer: however often the process dies, requests are lost or
\* transactions fail, the committed offset never passes an unsettled message.
THEOREM OffsetsAreSettled == Spec => [](TypeOK /\ SettledBelowOffset)
<1>1. IInv => TypeOK /\ SettledBelowOffset
  BY DEF IInv, OffsetsAreSafe, SettledBefore, SettledBelowOffset
<1> QED
  BY InitInvariant, StepInvariant, <1>1, PTL DEF Spec

\* base.py: the worker, its offsets and its counters stay within what the code allows.
THEOREM IntakeIsTyped == Spec => []TypeOK
  BY OffsetsAreSettled, PTL

-----------------------------------------------------------------------------
(* One end *)

NoBlockers == \A m \in Messages : ~Blocks(m)

\* Where the end of a message may still come once more, it has come to no more ends
\* than there were faults: at what the worker, or the next one, has yet to poll, and
\* at what it has in hand until the transaction commits.
EndsAreBounded ==
  /\ \A m \in Messages : Ends(m) <= faults + 1
  /\ \A m \in Messages : worker.at = "down" \/ m >= position => Ends(m) <= faults
  /\ worker.at \in {"handler", "transaction"} => Ends(InHand) <= faults

\* Before the first fault nothing that was produced is lost.
EndsAreSent ==
  /\ \A m \in Messages : stored[m] > 0 => Completion(m) \in outbox \cup delivered
  /\ \A m \in Messages : escalated[m] > 0 => DeadLetter(m) \in outbox \cup delivered
  /\ worker.at = "transaction" => Completion(InHand) \in outbox \cup delivered

EndsInv == NoBlockers => EndsAreBounded /\ (faults = 0 => EndsAreSent)

\* Raised, when the message in hand has been stored no more often than the faults
\* account for, the one that raised included.
LEMMA RaisedEnds ==
  ASSUME TypeOK, NoBlockers, EndsAreBounded, faults = 0 => EndsAreSent,
         Raised, worker.at \in {"handler", "transaction", "ack"},
         UNCHANGED <<broker, position>>, stored' \in {stored, Stored},
         faults' \in {faults, faults + 1}, faults' = faults => stored' = stored,
         stored'[InHand] + escalated[InHand] <= faults'
  PROVE  EndsAreBounded' /\ (faults' = 0 => EndsAreSent')
<1> USE IntakeParameters
<1>1. /\ InHand \in Messages /\ InHand' = InHand /\ position = InHand + 1
      /\ stored \in [Messages -> 0..Many] /\ escalated \in [Messages -> 0..Many]
      /\ faults \in Nat /\ Many \in Nat
  BY DEF TypeOK, InHand, Offsets, Many
<1>2. /\ stored' \in [Messages -> 0..Many]
      /\ \A m \in Messages : m # InHand => stored'[m] = stored[m]
  BY <1>1, CountingOnce DEF Stored
<1>3. faults' = 0 => faults = 0 /\ stored' = stored
  BY <1>1
<1>4. \A m \in Messages : m # InHand =>
        /\ stored'[m] + escalated[m] <= faults' + 1
        /\ m >= position => stored'[m] + escalated[m] <= faults'
  BY <1>1, <1>2 DEF EndsAreBounded, Ends
<1>5. \A m \in Messages : m >= position => m # InHand
  BY <1>1 DEF Messages
<1>6. CASE Retry
  <2>1. worker'.at = "handler" /\ UNCHANGED <<outbox, escalated>>
    BY <1>6 DEF Retry
  <2>2. EndsAreBounded'
    <3>1. ASSUME NEW m \in Messages PROVE Ends(m)' <= faults' + 1
      <4>1. stored'[m] \in 0..Many /\ escalated[m] \in 0..Many
        BY <1>1, <1>2
      <4> QED
        BY <1>1, <1>4, <2>1, <4>1 DEF Ends
    <3> QED
      BY <1>1, <1>4, <1>5, <2>1, <3>1 DEF EndsAreBounded, Ends
  <2>3. faults' = 0 => EndsAreSent'
    BY <1>3, <2>1 DEF EndsAreSent, Completion, DeadLetter, broker
  <2> QED
    BY <2>2, <2>3
<1>7. CASE Escalate
  <2>1. /\ worker'.at = "poll" /\ outbox' = outbox \cup {DeadLetter(InHand)}
        /\ escalated' = OnceMore(escalated, InHand)
    BY <1>7 DEF Escalate, Polling
  <2>2. /\ escalated' \in [Messages -> 0..Many]
        /\ escalated'[InHand] <= escalated[InHand] + 1
        /\ \A m \in Messages : m # InHand => escalated'[m] = escalated[m]
    BY <1>1, <2>1, CountingOnce
  <2>3. EndsAreBounded'
    <3>1. ASSUME NEW m \in Messages PROVE Ends(m)' <= faults' + 1
      <4>1. stored'[m] \in 0..Many /\ escalated[m] \in 0..Many /\ escalated'[m] \in 0..Many
        BY <1>1, <1>2, <2>2
      <4> QED
        BY <1>1, <1>4, <2>2, <4>1 DEF Ends
    <3> QED
      BY <1>4, <1>5, <2>1, <2>2, <3>1 DEF EndsAreBounded, Ends
  <2>4. faults' = 0 => EndsAreSent'
    <3> SUFFICES ASSUME faults' = 0 PROVE EndsAreSent'
      OBVIOUS
    <3>1. EndsAreSent /\ stored' = stored
      BY <1>3
    <3>2. \A m \in Messages : escalated'[m] > 0 => m = InHand \/ escalated[m] > 0
      BY <2>2
    <3> QED
      BY <2>1, <3>1, <3>2 DEF EndsAreSent, Completion, DeadLetter, broker
  <2> QED
    BY <2>3, <2>4
<1>8. ~EscalationRaises
  BY <1>1 DEF EscalationRaises, NoBlockers, Blocks
<1> QED
  BY <1>6, <1>7, <1>8 DEF Raised

LEMMA StepEnds == TypeOK /\ EndsInv /\ [Next]_vars => EndsInv'
<1> SUFFICES ASSUME TypeOK, EndsInv, [Next]_vars, NoBlockers'
             PROVE  EndsAreBounded' /\ (faults' = 0 => EndsAreSent')
  BY DEF EndsInv
<1> USE IntakeParameters
<1>1. log' = log
  BY DEF Next, RunOnce, Poll, PollPoison, Ignore, RunPipeline, HandlerFails, CommitTransaction, Ack,
         ApplyCommit, Deliver, Restart, OutageBegins, OutageEnds, Crash, TransactionFails,
         AckFails, CommitIsLost, DeliveryFails, vars, broker
<1>2. NoBlockers /\ EndsAreBounded /\ (faults = 0 => EndsAreSent)
  BY <1>1 DEF EndsInv, NoBlockers, Blocks
<1>3. /\ position \in Offsets /\ InHand = position - 1 /\ faults \in Nat /\ Many \in Nat
      /\ worker.at \in {"handler", "transaction", "ack"} => InHand \in Messages
      /\ stored \in [Messages -> 0..Many] /\ escalated \in [Messages -> 0..Many]
  BY DEF TypeOK, InHand, Many
<1>4. \A m \in Messages : Ends(m) \in Nat
  BY <1>3 DEF Ends
<1>5. ASSUME Fault PROVE faults' = faults + 1 /\ faults' # 0
  BY <1>3, <1>5 DEF Fault
<1>6. CASE Poll
  <2>1. /\ position \in Messages /\ position' = position + 1 /\ InHand' = position
        /\ worker.at = "poll" /\ worker'.at = "handler"
        /\ UNCHANGED <<stored, escalated, outbox, delivered, faults>>
    BY <1>3, <1>6 DEF Poll, Polling, InHand, broker, history, environment, Offsets
  <2>2. \A m \in Messages : m >= position' => m >= position
    BY <1>3, <2>1 DEF Messages, Offsets
  <2>3. EndsAreBounded'
    <3>1. position >= position
      BY <2>1 DEF Messages
    <3>2. Ends(position) <= faults
      BY <1>2, <2>1, <3>1 DEF EndsAreBounded
    <3> QED
      BY <1>2, <2>1, <2>2, <3>2 DEF EndsAreBounded, Ends
  <2>4. faults' = 0 => EndsAreSent'
    BY <1>2, <2>1 DEF EndsAreSent, Completion, DeadLetter
  <2> QED
    BY <2>3, <2>4
<1>7. CASE PollPoison
  BY <1>2, <1>7 DEF PollPoison, NoBlockers, Blocks
<1>8. CASE Ignore \/ Ack
  <2>1. /\ worker.at # "down" /\ worker'.at \in {"ack", "poll"}
        /\ UNCHANGED <<stored, escalated, outbox, delivered, position, faults>>
    BY <1>8 DEF Ignore, Ack, Polling, broker, history, environment, TypeOK
  <2> QED
    BY <1>2, <2>1 DEF EndsAreBounded, EndsAreSent, Ends, Completion, DeadLetter
<1>9. CASE RunPipeline
  <2>1. /\ worker.at = "handler" /\ worker'.at = "transaction"
        /\ outbox' = outbox \cup {Completion(InHand)}
        /\ UNCHANGED <<stored, escalated, delivered, position, faults>>
    BY <1>9 DEF RunPipeline, broker, history, environment, TypeOK
  <2>2. InHand' = InHand
    BY <2>1 DEF InHand
  <2> QED
    BY <1>2, <2>1, <2>2 DEF EndsAreBounded, EndsAreSent, Ends, Completion, DeadLetter
<1>10. CASE HandlerFails
  <2>1. /\ worker.at = "handler" /\ Raised /\ UNCHANGED <<broker, position, stored, faults>>
    BY <1>10 DEF HandlerFails, environment
  <2>2. stored'[InHand] + escalated[InHand] <= faults'
    BY <1>2, <2>1 DEF EndsAreBounded, Ends
  <2> QED
    BY <1>2, <2>1, <2>2, RaisedEnds
<1>11. CASE CommitTransaction
  <2>1. /\ worker.at = "transaction" /\ worker'.at = "ack" /\ InHand \in Messages
        /\ stored' = Stored /\ InHand' = InHand
        /\ UNCHANGED <<outbox, escalated, delivered, position, faults>>
    BY <1>3, <1>11 DEF CommitTransaction, broker, environment, TypeOK, InHand
  <2>2. /\ stored' \in [Messages -> 0..Many] /\ stored'[InHand] <= stored[InHand] + 1
        /\ \A m \in Messages : m # InHand => stored'[m] = stored[m]
    BY <1>3, <2>1, CountingOnce DEF Stored
  <2>3. \A m \in Messages : m >= position => m # InHand
    BY <1>3 DEF Messages, Offsets
  <2>4. Ends(InHand) <= faults
    BY <1>2, <2>1 DEF EndsAreBounded
  <2>5. EndsAreBounded'
    <3>1. ASSUME NEW m \in Messages PROVE Ends(m)' <= faults' + 1
      <4>1. stored'[m] \in 0..Many /\ stored[m] \in 0..Many /\ escalated[m] \in 0..Many
        BY <1>3, <2>2
      <4>2. Ends(m) <= faults + 1
        BY <1>2 DEF EndsAreBounded
      <4> QED
        BY <1>3, <2>1, <2>2, <2>4, <4>1, <4>2 DEF Ends
    <3> QED
      BY <1>2, <2>1, <2>2, <2>3, <3>1 DEF EndsAreBounded, Ends
  <2>6. faults' = 0 => EndsAreSent'
    <3> SUFFICES ASSUME faults' = 0 PROVE EndsAreSent'
      OBVIOUS
    <3>1. EndsAreSent
      BY <1>2, <2>1
    <3>2. \A m \in Messages : stored'[m] > 0 => m = InHand \/ stored[m] > 0
      BY <2>2
    <3> QED
      BY <2>1, <3>1, <3>2 DEF EndsAreSent, Completion, DeadLetter
  <2> QED
    BY <2>5, <2>6
<1>12. CASE Deliver
  <2>1. /\ outbox' \cup delivered' = outbox \cup delivered
        /\ UNCHANGED <<stored, escalated, worker, position, faults>>
    BY <1>12 DEF Deliver, history, environment
  <2> QED
    BY <1>2, <2>1 DEF EndsAreBounded, EndsAreSent, Ends, Completion, DeadLetter, InHand
<1>13. CASE ApplyCommit \/ OutageBegins \/ OutageEnds \/ UNCHANGED vars
  <2>1. UNCHANGED <<stored, escalated, outbox, delivered, worker, position, faults>>
    BY <1>13 DEF ApplyCommit, OutageBegins, OutageEnds, vars, broker, client, history, environment
  <2> QED
    BY <1>2, <2>1 DEF EndsAreBounded, EndsAreSent, Ends, Completion, DeadLetter, InHand
<1>14. CASE Restart
  <2>1. /\ worker.at = "down" /\ worker'.at = "poll"
        /\ UNCHANGED <<stored, escalated, outbox, delivered, faults>>
    BY <1>14 DEF Restart, Down, Polling, broker, history, environment
  <2> QED
    BY <1>2, <2>1 DEF EndsAreBounded, EndsAreSent, Ends, Completion, DeadLetter
<1>15. CASE Crash
  <2>1. /\ worker'.at = "down" /\ UNCHANGED <<stored, escalated>>
        /\ faults' = faults + 1 /\ faults' # 0
    BY <1>5, <1>15 DEF Crash, Die, Down, history
  <2> QED
    BY <1>2, <1>3, <1>4, <2>1 DEF EndsAreBounded, Ends
<1>16. CASE TransactionFails
  <2>1. /\ worker.at = "transaction" /\ Raised /\ UNCHANGED <<broker, position>>
        /\ stored' \in {stored, Stored} /\ faults' = faults + 1
    BY <1>5, <1>16 DEF TransactionFails
  <2>2. stored'[InHand] + escalated[InHand] <= faults'
    <3>1. InHand \in Messages /\ Ends(InHand) <= faults
      BY <1>2, <1>3, <2>1 DEF EndsAreBounded
    <3>2. stored'[InHand] \in 0..Many /\ stored'[InHand] <= stored[InHand] + 1
      BY <1>3, <2>1, <3>1, CountingOnce DEF Stored
    <3> QED
      BY <1>3, <2>1, <3>1, <3>2 DEF Ends
  <2>3. faults' # faults
    BY <1>3, <2>1
  <2> QED
    BY <1>2, <2>1, <2>2, <2>3, RaisedEnds
<1>17. CASE AckFails
  <2>1. /\ worker.at = "ack" /\ Raised /\ UNCHANGED <<broker, position, stored>>
        /\ faults' = faults + 1
    BY <1>5, <1>17 DEF AckFails
  <2>2. stored'[InHand] + escalated[InHand] <= faults'
    BY <1>2, <1>3, <2>1 DEF EndsAreBounded, Ends
  <2>3. faults' # faults
    BY <1>3, <2>1
  <2> QED
    BY <1>2, <2>1, <2>2, <2>3, RaisedEnds
<1>18. CASE CommitIsLost \/ DeliveryFails
  <2>1. /\ UNCHANGED <<stored, escalated, worker, position>>
        /\ faults' = faults + 1 /\ faults' # 0
    BY <1>5, <1>18 DEF CommitIsLost, DeliveryFails, history
  <2> QED
    BY <1>2, <1>3, <1>4, <2>1 DEF EndsAreBounded, Ends, InHand
<1> QED
  BY <1>6, <1>7, <1>8, <1>9, <1>10, <1>11, <1>12, <1>13, <1>14, <1>15, <1>16, <1>17, <1>18
     DEF Next, RunOnce

\* RetryingConsumer.run_once(), events.md: a message becomes one document or one dead
\* letter, and one more for each fault at most, however many retries and outages it meets.
THEOREM RepeatsAreFaults == Spec => []RepeatsNeedFaults
<1>1. Init => EndsInv
  BY DEF Init, EndsInv, EndsAreBounded, EndsAreSent, Ends, Polling, Messages, NoBlockers
<1>2. TypeOK /\ EndsInv => RepeatsNeedFaults
  BY DEF EndsInv, NoBlockers, EndsAreBounded, EndsAreSent, RepeatsNeedFaults
<1> QED
  BY <1>1, <1>2, StepEnds, IntakeIsTyped, PTL DEF Spec

=============================================================================
