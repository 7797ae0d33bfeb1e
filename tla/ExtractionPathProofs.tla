------------------------ MODULE ExtractionPathProofs ------------------------
(* The breakers' independence, the load a failing provider receives and the
   meaning of ExtractionUnavailableError, for any fail_max, reset timeout and
   number of attempts. *)
EXTENDS ExtractionPath, TLAPS

\* Requests of the call in progress that were already answered by an error.
Spent(p) == IF call.at = p THEN call.attempt - 1 ELSE 0

\* What bounds the load: each counted failure stands for one call's requests, and
\* a breaker is open only between calls.
LoadIsCounted ==
  \A b \in Breakers :
    /\ breaker[b].state = "closed" =>
         unanswered[Guards[b]] <= breaker[b].failures * RequestsPerCall(Guards[b]) + Spent(Guards[b])
    /\ breaker[b].state = "open" => unanswered[Guards[b]] = 0 /\ call.at # Guards[b]
    /\ breaker[b].state = "half-open" => unanswered[Guards[b]] = Spent(Guards[b])

\* How a document comes to the secondary provider, and that it has no result before.
SecondaryIsLast ==
  /\ result # "none" => call = Idle
  /\ call.at = "textract" => call.attempt = 1
  /\ call.at = "openai" => "claude" \in failedFor \/ streak["claude"] = FailMax
  /\ UnavailableMeansBothFailed

IInv == TypeOK /\ BreakersAreIndependent /\ LoadIsCounted /\ SecondaryIsLast

USE ExtractionParameters DEF Providers, Guarded, Breakers, Health, Guards

LEMMA InitInvariant == Init => IInv
<1> SUFFICES ASSUME Init PROVE IInv
  OBVIOUS
<1>1. TypeOK
  BY DEF Init, TypeOK, Closed, Idle
<1>2. BreakersAreIndependent
  BY DEF Init, BreakersAreIndependent, Closed
<1>3. LoadIsCounted
  BY DEF Init, LoadIsCounted, Closed, Idle, Spent, RequestsPerCall
<1>4. SecondaryIsLast
  BY DEF Init, SecondaryIsLast, UnavailableMeansBothFailed, Idle
<1> QED
  BY <1>1, <1>2, <1>3, <1>4 DEF IInv

\* Each counted failure is worth a whole call's requests.
LEMMA OneCallMore ==
  ASSUME NEW f \in Nat, NEW r \in Nat
  PROVE  (f + 1) * r = f * r + r
OBVIOUS

LEMMA FewerCalls ==
  ASSUME NEW f \in Nat, NEW g \in Nat, NEW r \in Nat, f + 1 <= g
  PROVE  f * r + r <= g * r
<1>1. (g - (f + 1)) * r >= 0
  OBVIOUS
<1>2. (g - (f + 1)) * r = g * r - (f * r + r)
  OBVIOUS
<1>3. g * r \in Nat /\ f * r \in Nat
  OBVIOUS
<1> QED
  BY <1>1, <1>2, <1>3

LEMMA BoundFollows == IInv => LoadOnAFailingProvider
<1> SUFFICES ASSUME IInv, NEW b \in Breakers
             PROVE  CASE breaker[b].state = "closed" -> unanswered[Guards[b]] < FailMax * RequestsPerCall(Guards[b])
                      [] breaker[b].state = "open" -> unanswered[Guards[b]] = 0
                      [] OTHER -> unanswered[Guards[b]] < RequestsPerCall(Guards[b])
  BY DEF LoadOnAFailingProvider
<1> DEFINE p == Guards[b]
           r == RequestsPerCall(p)
           f == breaker[b].failures
<1>1. r \in Nat /\ f \in Nat /\ unanswered[p] \in Nat
  BY DEF IInv, TypeOK, RequestsPerCall
<1>2. Spent(p) \in Nat /\ Spent(p) < r
  BY DEF IInv, TypeOK, Spent, RequestsPerCall, SecondaryIsLast
<1>3. CASE breaker[b].state = "closed"
  <2>1. f + 1 <= FailMax
    BY <1>1, <1>3 DEF IInv, TypeOK, BreakersAreIndependent
  <2>2. f * r + r <= FailMax * r
    <3> HIDE DEF r, f
    <3> QED
      BY <1>1, <2>1, FewerCalls
  <2>3. unanswered[p] <= f * r + Spent(p)
    BY <1>3 DEF IInv, LoadIsCounted
  <2>4. f * r \in Nat /\ FailMax * r \in Nat
    <3> HIDE DEF r, f
    <3> QED
      BY <1>1
  <2> HIDE DEF r, f, p
  <2>5. unanswered[p] < FailMax * r
    BY <1>1, <1>2, <2>2, <2>3, <2>4
  <2> QED
    BY <1>3, <2>5 DEF p, r
<1>4. CASE breaker[b].state = "open"
  BY <1>4 DEF IInv, LoadIsCounted
<1>5. CASE breaker[b].state = "half-open"
  BY <1>1, <1>2, <1>5 DEF IInv, LoadIsCounted
<1> QED
  BY <1>3, <1>4, <1>5 DEF IInv, TypeOK

\* The history and breakers after a guarded provider answered.
LEMMA AnswerKeeps ==
  ASSUME IInv, NEW b \in Breakers, call.at = Guards[b], UNCHANGED health,
         breaker' = Succeeded(b), NoteAnswer(Guards[b]), call' \in {Idle, Scanned},
         result' \in {"none", "fields", "excluded"}
  PROVE  TypeOK' /\ BreakersAreIndependent' /\ LoadIsCounted'
<1>1. TypeOK /\ BreakersAreIndependent /\ LoadIsCounted
  BY DEF IInv
<1>2. breaker'[b] = Closed /\ \A c \in Breakers \ {b} : breaker'[c] = breaker[c]
  BY <1>1 DEF TypeOK, Succeeded
<1>3. /\ streak'[Guards[b]] = 0 /\ unanswered'[Guards[b]] = 0
      /\ \A c \in Breakers \ {b} : /\ streak'[Guards[c]] = streak[Guards[c]]
                                  /\ unanswered'[Guards[c]] = unanswered[Guards[c]]
  BY <1>1 DEF TypeOK, NoteAnswer
<1>4. TypeOK'
  <2>1. breaker' \in [Breakers -> [state : {"closed", "open", "half-open"},
                                   failures : 0..FailMax, wait : 0..ResetTimeout]]
    BY <1>1 DEF TypeOK, Succeeded, Closed
  <2>2. streak' \in [Providers -> 0..FailMax] /\ unanswered' \in [Guarded -> Nat]
    BY <1>1 DEF TypeOK, NoteAnswer
  <2>3. \A c \in Breakers : breaker'[c].state = "half-open" => call'.at = Guards[c]
    BY <1>1, <1>2 DEF TypeOK, Closed
  <2> QED
    BY <1>1, <2>1, <2>2, <2>3 DEF TypeOK, NoteAnswer, Idle, Scanned
<1>5. BreakersAreIndependent'
  BY <1>1, <1>2, <1>3 DEF BreakersAreIndependent, Closed
<1>6. LoadIsCounted'
  BY <1>1, <1>2, <1>3 DEF LoadIsCounted, Closed, Spent, Idle, Scanned, RequestsPerCall, TypeOK
<1> QED
  BY <1>4, <1>5, <1>6

\* The same after a failure of its call.
LEMMA FailureKeeps ==
  ASSUME IInv, NEW b \in Breakers, call.at = Guards[b], UNCHANGED health,
         breaker' = Failed(b), NoteFailure(Guards[b]), call' \in {Idle, Asking("openai")},
         result' \in {"none", "ocr_unavailable", "escaped"}
  PROVE  TypeOK' /\ BreakersAreIndependent' /\ LoadIsCounted'
<1> DEFINE p == Guards[b]
<1>1. TypeOK /\ BreakersAreIndependent /\ LoadIsCounted
  BY DEF IInv
<1>2. /\ breaker'[b] = IF Trips(b) THEN Opened ELSE Counted(b)
      /\ \A c \in Breakers \ {b} : breaker'[c] = breaker[c]
  BY <1>1 DEF TypeOK, Failed
<1>3. BreakerOf[p] = b
  BY DEF BreakerOf
<1>4. /\ streak'[p] = IF streak[p] < FailMax THEN streak[p] + 1 ELSE streak[p]
      /\ \A c \in Breakers \ {b} : streak'[Guards[c]] = streak[Guards[c]]
  BY <1>1 DEF TypeOK, NoteFailure
<1>5. /\ unanswered'[p] = IF breaker'[b].state = "open" THEN 0 ELSE unanswered[p] + 1
      /\ \A c \in Breakers \ {b} : unanswered'[Guards[c]] = unanswered[Guards[c]]
  BY <1>1, <1>3 DEF TypeOK, NoteFailure
<1>6. \/ Trips(b) /\ breaker'[b].state = "open"
      \/ /\ ~Trips(b) /\ breaker[b].state = "closed" /\ breaker'[b].state = "closed"
         /\ breaker'[b].failures = breaker[b].failures + 1 /\ breaker'[b].failures < FailMax
  <2>1. breaker[b].state \in {"closed", "half-open"} /\ breaker[b].failures \in 0..FailMax
    BY <1>1 DEF TypeOK, LoadIsCounted
  <2>2. CASE Trips(b)
    BY <1>2, <2>2 DEF Opened
  <2>3. CASE ~Trips(b)
    <3>1. breaker[b].state = "closed" /\ breaker[b].failures + 1 < FailMax
      BY <2>1, <2>3 DEF Trips
    <3>2. /\ breaker'[b].state = breaker[b].state
          /\ breaker'[b].failures = breaker[b].failures + 1
      BY <1>1, <1>2, <2>3 DEF Counted, TypeOK
    <3> QED
      BY <2>3, <3>1, <3>2
  <2> QED
    BY <2>2, <2>3
<1>7. TypeOK'
  <2>1. breaker' \in [Breakers -> [state : {"closed", "open", "half-open"},
                                   failures : 0..FailMax, wait : 0..ResetTimeout]]
    <3>1. DOMAIN breaker' = Breakers /\ breaker' = [c \in Breakers |-> breaker'[c]]
      BY <1>1 DEF TypeOK, Failed
    <3>2. breaker'[b] \in [state : {"closed", "open", "half-open"},
                           failures : 0..FailMax, wait : 0..ResetTimeout]
      BY <1>1, <1>2, <1>6 DEF TypeOK, Opened, Counted
    <3> QED
      BY <1>1, <1>2, <3>1, <3>2 DEF TypeOK
  <2>2. streak' \in [Providers -> 0..FailMax] /\ unanswered' \in [Guarded -> Nat]
    BY <1>1 DEF TypeOK, NoteFailure
  <2>3. \A c \in Breakers : breaker'[c].state = "half-open" => call'.at = Guards[c]
    BY <1>1, <1>2, <1>6 DEF TypeOK
  <2> QED
    BY <1>1, <2>1, <2>2, <2>3 DEF TypeOK, NoteFailure, Idle, Asking
<1>8. BreakersAreIndependent'
  <2>1. CASE Trips(b)
    <3>1. breaker'[b].state = "open" /\ streak'[p] = FailMax
      BY <1>1, <1>4, <1>6, <2>1 DEF BreakersAreIndependent, Trips, TypeOK
    <3> QED
      BY <1>1, <1>2, <1>4, <3>1 DEF BreakersAreIndependent
  <2>2. CASE ~Trips(b)
    <3>1. /\ breaker[b].state = "closed" /\ breaker[b].failures = streak[p] /\ streak[p] < FailMax
      BY <1>1, <1>6, <2>2 DEF BreakersAreIndependent
    <3>2. /\ breaker'[b].state = "closed" /\ breaker'[b].failures = streak[p] + 1
          /\ breaker'[b].failures < FailMax
      BY <1>6, <2>2, <3>1
    <3>3. streak'[p] = streak[p] + 1
      BY <1>4, <3>1
    <3>4. \A c \in Breakers \ {b} : /\ breaker'[c] = breaker[c]
                                   /\ streak'[Guards[c]] = streak[Guards[c]]
      BY <1>2, <1>4
    <3> HIDE DEF p
    <3>5. breaker'[b].failures = streak'[p] /\ streak'[p] < FailMax
      BY <3>2, <3>3
    <3> QED
      BY <1>1, <3>2, <3>4, <3>5 DEF BreakersAreIndependent, p
  <2> QED
    BY <2>1, <2>2
<1>9. LoadIsCounted'
  <2>1. \A c \in Breakers \ {b} : Spent(Guards[c])' = 0 /\ Spent(Guards[c]) = 0
    BY DEF Spent, Idle, Asking
  <2>2. call'.at # p
    BY DEF Idle, Asking
  <2>5. \A c \in Breakers \ {b} :
          /\ breaker'[c] = breaker[c] /\ unanswered'[Guards[c]] = unanswered[Guards[c]]
          /\ call'.at # Guards[c]
    BY <1>2, <1>5 DEF Idle, Asking
  <2>3. CASE Trips(b)
    <3>1. breaker'[b].state = "open" /\ unanswered'[p] = 0
      BY <1>5, <1>6, <2>3
    <3> QED
      BY <1>1, <2>1, <2>2, <2>5, <3>1 DEF LoadIsCounted, RequestsPerCall
  <2>4. CASE ~Trips(b)
    <3> DEFINE r == RequestsPerCall(p)
               f == breaker[b].failures
    <3>1. r \in Nat /\ f \in Nat /\ unanswered[p] \in Nat
      BY <1>1 DEF TypeOK, RequestsPerCall
    <3>2. Spent(p) \in Nat /\ Spent(p) + 1 <= r
      BY DEF IInv, TypeOK, Spent, RequestsPerCall, SecondaryIsLast
    <3>3. unanswered[p] <= f * r + Spent(p)
      BY <1>1, <1>6, <2>4 DEF LoadIsCounted
    <3>4. unanswered'[p] = unanswered[p] + 1 /\ Spent(p)' = 0
      BY <1>5, <1>6, <2>2, <2>4 DEF Spent
    <3>5. unanswered[p] + 1 <= (f + 1) * r
      <4> HIDE DEF r, f, p
      <4> QED
        BY <3>1, <3>2, <3>3, OneCallMore
    <3>6. breaker'[b].state = "closed" /\ breaker'[b].failures = f + 1
      BY <1>6, <2>4
    <3>7. unanswered'[p] <= breaker'[b].failures * RequestsPerCall(p) + Spent(p)'
      <4>1. (f + 1) * r \in Nat
        <5> HIDE DEF r, f
        <5> QED
          BY <3>1
      <4> QED
        BY <3>4, <3>5, <3>6, <4>1
    <3> QED
      BY <1>1, <2>1, <2>2, <2>5, <3>6, <3>7 DEF LoadIsCounted, RequestsPerCall
  <2> QED
    BY <2>3, <2>4
<1> QED
  BY <1>7, <1>8, <1>9

\* The calls to OpenAI leave the breakers and what they count alone.
LEMMA UnguardedKeeps ==
  ASSUME IInv, UNCHANGED <<health, breaker>>, call.at \in {"openai", "idle", "scanned"},
         call' \in {Idle, Asking("openai")},
         result' \in {"none", "fields", "ocr_unavailable", "unavailable", "escaped"},
         failedFor' \subseteq Providers,
         streak' \in [Providers -> 0..FailMax], unanswered' = unanswered,
         \A b \in Breakers : streak'[Guards[b]] = streak[Guards[b]]
  PROVE  TypeOK' /\ BreakersAreIndependent' /\ LoadIsCounted'
<1>1. TypeOK /\ BreakersAreIndependent /\ LoadIsCounted
  BY DEF IInv
<1>2. TypeOK'
  BY <1>1 DEF TypeOK, Idle, Asking
<1>3. BreakersAreIndependent'
  BY <1>1 DEF BreakersAreIndependent
<1>4. \A b \in Breakers : Spent(Guards[b]) = 0 /\ Spent(Guards[b])' = 0 /\ call'.at # Guards[b]
  BY DEF Spent, Idle, Asking
<1>5. LoadIsCounted'
  BY <1>1, <1>4 DEF LoadIsCounted, RequestsPerCall
<1> QED
  BY <1>2, <1>3, <1>5

\* A call enters its breaker; the probe that follows an open breaker's timeout starts
\* a new count of requests.
LEMMA EnteredKeeps ==
  ASSUME IInv, NEW b \in Breakers, call \in {Idle, Scanned}, UNCHANGED <<health, streak, unanswered>>,
         breaker' = Entered(b), call' = Asking(Guards[b]),
         result' \in {"none", result}, failedFor' \in {{}, failedFor}
  PROVE  TypeOK' /\ BreakersAreIndependent' /\ LoadIsCounted'
<1>1. TypeOK /\ BreakersAreIndependent /\ LoadIsCounted
  BY DEF IInv
<1>2. /\ breaker'[b] = [breaker[b] EXCEPT !.state = IF @ = "open" THEN "half-open" ELSE @]
      /\ \A c \in Breakers \ {b} : breaker'[c] = breaker[c]
  BY <1>1 DEF TypeOK, Entered
<1>3. breaker[b].state \in {"closed", "open"}
  BY <1>1 DEF TypeOK, Idle, Scanned
<1>4. /\ breaker'[b].failures = breaker[b].failures /\ breaker'[b].wait = breaker[b].wait
      /\ breaker[b].state = "closed" => breaker'[b].state = "closed"
      /\ breaker[b].state = "open" => breaker'[b].state = "half-open"
  BY <1>1, <1>2 DEF TypeOK
<1>5. TypeOK'
  <2>1. breaker' \in [Breakers -> [state : {"closed", "open", "half-open"},
                                   failures : 0..FailMax, wait : 0..ResetTimeout]]
    <3>1. DOMAIN breaker' = Breakers /\ breaker' = [c \in Breakers |-> breaker'[c]]
      BY <1>1 DEF TypeOK, Entered
    <3>2. breaker'[b] \in [state : {"closed", "open", "half-open"},
                           failures : 0..FailMax, wait : 0..ResetTimeout]
      BY <1>1, <1>2 DEF TypeOK
    <3> QED
      BY <1>1, <1>2, <3>1, <3>2 DEF TypeOK
  <2>2. \A c \in Breakers : breaker'[c].state = "half-open" => call'.at = Guards[c]
    <3>1. \A c \in Breakers : breaker[c].state # "half-open"
      BY <1>1 DEF TypeOK, Idle, Scanned
    <3> QED
      BY <1>2, <3>1 DEF Asking
  <2>3. call' \in [at : {"idle", "scanned"} \cup Providers, attempt : 0..MaxAttempts]
    BY DEF Asking
  <2>4. call'.at \in Providers => call'.attempt \in 1..MaxAttempts
    BY DEF Asking
  <2>5. result' \in {"none", "fields", "excluded", "ocr_unavailable", "unavailable", "escaped"}
        /\ failedFor' \subseteq Providers
    BY <1>1 DEF TypeOK
  <2> QED
    BY <1>1, <2>1, <2>2, <2>3, <2>4, <2>5 DEF TypeOK
<1>6. BreakersAreIndependent'
  <2> SUFFICES ASSUME NEW c \in Breakers
               PROVE  IF breaker'[c].state = "closed"
                        THEN breaker'[c].failures = streak[Guards[c]] /\ streak[Guards[c]] < FailMax
                        ELSE streak[Guards[c]] = FailMax
    BY DEF BreakersAreIndependent
  <2>1. CASE c = b
    BY <1>1, <1>3, <1>4, <2>1 DEF BreakersAreIndependent
  <2>2. CASE c # b
    BY <1>1, <1>2, <2>2 DEF BreakersAreIndependent
  <2> QED
    BY <2>1, <2>2
<1>7. \A c \in Breakers : Spent(Guards[c]) = 0 /\ Spent(Guards[c])' = 0
  BY DEF Spent, Idle, Scanned, Asking
<1>8. LoadIsCounted'
  <2> SUFFICES ASSUME NEW c \in Breakers
               PROVE  /\ breaker'[c].state = "closed" =>
                           unanswered[Guards[c]] <= breaker'[c].failures * RequestsPerCall(Guards[c]) + 0
                      /\ breaker'[c].state = "open" =>
                           unanswered[Guards[c]] = 0 /\ call'.at # Guards[c]
                      /\ breaker'[c].state = "half-open" => unanswered[Guards[c]] = 0
    BY <1>7 DEF LoadIsCounted, RequestsPerCall
  <2>1. CASE c = b
    BY <1>1, <1>3, <1>4, <1>7, <2>1 DEF LoadIsCounted
  <2>2. CASE c # b
    BY <1>1, <1>2, <1>7, <2>2 DEF LoadIsCounted, Asking
  <2> QED
    BY <2>1, <2>2
<1> QED
  BY <1>5, <1>6, <1>8

\* Another attempt: one request more was answered by an error.
LEMMA RetryKeeps ==
  ASSUME IInv, NEW p \in {"claude", "openai"}, Retry(p)
  PROVE  IInv'
<1>1. TypeOK /\ BreakersAreIndependent /\ LoadIsCounted /\ SecondaryIsLast
  BY DEF IInv
<1>2. call.at = p /\ call.attempt \in 1..MaxAttempts /\ call.attempt < MaxAttempts
  BY <1>1 DEF Retry, Request, GivesUp, TypeOK
<1>3. call'.at = p /\ call'.attempt = call.attempt + 1
      /\ call' \in [at : {"idle", "scanned"} \cup Providers, attempt : 0..MaxAttempts]
  BY <1>1, <1>2 DEF Retry, TypeOK
<1>4. \A q \in Guarded : /\ unanswered[q] \in Nat
                        /\ unanswered'[q] = unanswered[q] + (IF q = p THEN 1 ELSE 0)
  BY <1>1 DEF Retry, TypeOK
<1>5. TypeOK'
  <2>1. unanswered' \in [Guarded -> Nat]
    BY <1>4 DEF Retry
  <2> QED
    BY <1>1, <1>2, <1>3, <2>1 DEF TypeOK, Retry
<1>6. BreakersAreIndependent'
  BY <1>1 DEF BreakersAreIndependent, Retry
<1>7. \A q \in Guarded : Spent(q)' = Spent(q) + (IF q = p THEN 1 ELSE 0) /\ Spent(q) \in Nat
  BY <1>2, <1>3 DEF Spent
<1>8. LoadIsCounted'
  <2> SUFFICES ASSUME NEW b \in Breakers
               PROVE  /\ breaker[b].state = "closed" =>
                           unanswered'[Guards[b]]
                             <= breaker[b].failures * RequestsPerCall(Guards[b]) + Spent(Guards[b])'
                      /\ breaker[b].state = "open" => unanswered'[Guards[b]] = 0 /\ call'.at # Guards[b]
                      /\ breaker[b].state = "half-open" => unanswered'[Guards[b]] = Spent(Guards[b])'
    BY DEF LoadIsCounted, Retry, RequestsPerCall
  <2> DEFINE product == breaker[b].failures * RequestsPerCall(Guards[b])
  <2>1. product \in Nat
    <3>1. breaker[b].failures \in Nat /\ RequestsPerCall(Guards[b]) \in Nat
      BY <1>1 DEF TypeOK, RequestsPerCall
    <3> QED
      BY <3>1
  <2>2. Guards[b] \in Guarded
    OBVIOUS
  <2>3. /\ breaker[b].state = "closed" => unanswered[Guards[b]] <= product + Spent(Guards[b])
        /\ breaker[b].state = "open" => unanswered[Guards[b]] = 0 /\ call.at # Guards[b]
        /\ breaker[b].state = "half-open" => unanswered[Guards[b]] = Spent(Guards[b])
    BY <1>1 DEF LoadIsCounted
  <2> HIDE DEF product
  <2>4. CASE Guards[b] = p
    BY <1>2, <1>3, <1>4, <1>7, <2>1, <2>2, <2>3, <2>4 DEF product
  <2>5. CASE Guards[b] # p
    BY <1>2, <1>3, <1>4, <1>7, <2>1, <2>2, <2>3, <2>5 DEF product
  <2> QED
    BY <2>4, <2>5
<1>9. SecondaryIsLast'
  BY <1>1, <1>2, <1>3 DEF SecondaryIsLast, UnavailableMeansBothFailed, Retry, Idle
<1> QED
  BY <1>5, <1>6, <1>8, <1>9 DEF IInv

LEMMA StepInvariant == IInv /\ [Next]_vars => IInv'
<1> SUFFICES ASSUME IInv, [Next]_vars PROVE IInv'
  OBVIOUS
<1>1. TypeOK /\ BreakersAreIndependent /\ LoadIsCounted /\ SecondaryIsLast
  BY DEF IInv
<1>3. CASE Scan
  <2>1. TypeOK' /\ BreakersAreIndependent' /\ LoadIsCounted'
    BY <1>3, EnteredKeeps DEF Scan
  <2>2. SecondaryIsLast'
    BY <1>3 DEF Scan, SecondaryIsLast, UnavailableMeansBothFailed, Asking
  <2> QED
    BY <2>1, <2>2 DEF IInv
<1>4. CASE ScanRejected
  <2>1. TypeOK' /\ BreakersAreIndependent' /\ LoadIsCounted'
    BY <1>1, <1>4, UnguardedKeeps DEF ScanRejected, Idle, TypeOK
  <2>2. SecondaryIsLast'
    BY <1>1, <1>4 DEF ScanRejected, SecondaryIsLast, UnavailableMeansBothFailed, Idle
  <2> QED
    BY <2>1, <2>2 DEF IInv
<1>5. CASE ScanAnswered
  <2>1. TypeOK' /\ BreakersAreIndependent' /\ LoadIsCounted'
    BY <1>1, <1>5, AnswerKeeps DEF ScanAnswered, Request, BreakerOf, SecondaryIsLast, Idle
  <2>2. SecondaryIsLast'
    BY <1>1, <1>5 DEF ScanAnswered, Request, SecondaryIsLast, UnavailableMeansBothFailed, Idle, Scanned
  <2> QED
    BY <2>1, <2>2 DEF IInv
<1>6. CASE ScanFails
  <2>1. TypeOK' /\ BreakersAreIndependent' /\ LoadIsCounted'
    BY <1>6, FailureKeeps DEF ScanFails, Request, BreakerOf
  <2>2. SecondaryIsLast'
    BY <1>6 DEF ScanFails, SecondaryIsLast, UnavailableMeansBothFailed, Idle
  <2> QED
    BY <2>1, <2>2 DEF IInv
<1>7. CASE AskClaude
  <2>1. TypeOK' /\ BreakersAreIndependent' /\ LoadIsCounted'
    BY <1>7, EnteredKeeps DEF AskClaude, BreakerOf, history
  <2>2. SecondaryIsLast'
    BY <1>1, <1>7 DEF AskClaude, SecondaryIsLast, UnavailableMeansBothFailed, Asking, Idle, Scanned
  <2> QED
    BY <2>1, <2>2 DEF IInv
<1>8. CASE ClaudeRejected
  <2>1. result = "none"
    BY <1>1, <1>8 DEF ClaudeRejected, SecondaryIsLast, Idle, Scanned
  <2>2. TypeOK' /\ BreakersAreIndependent' /\ LoadIsCounted'
    BY <1>1, <1>8, <2>1, UnguardedKeeps DEF ClaudeRejected, history, Scanned, TypeOK
  <2>3. streak["claude"] = FailMax
    BY <1>1, <1>8 DEF ClaudeRejected, Admits, BreakerOf, BreakersAreIndependent
  <2>4. SecondaryIsLast'
    BY <1>8, <2>1, <2>3 DEF ClaudeRejected, SecondaryIsLast, UnavailableMeansBothFailed, Asking, history
  <2> QED
    BY <2>2, <2>4 DEF IInv
<1>9. CASE \E p \in {"claude", "openai"} : Retry(p)
  BY <1>9, RetryKeeps
<1>10. CASE ClaudeAnswers
  <2>1. TypeOK' /\ BreakersAreIndependent' /\ LoadIsCounted'
    BY <1>10, AnswerKeeps DEF ClaudeAnswers, Request, BreakerOf
  <2>2. SecondaryIsLast'
    BY <1>10 DEF ClaudeAnswers, SecondaryIsLast, UnavailableMeansBothFailed, Idle
  <2> QED
    BY <2>1, <2>2 DEF IInv
<1>11. CASE ClaudeFails
  <2>1. call.at = "claude" /\ result = "none"
    BY <1>1, <1>11 DEF ClaudeFails, Request, SecondaryIsLast, Idle
  <2>2. TypeOK' /\ BreakersAreIndependent' /\ LoadIsCounted'
    BY <1>11, <2>1, FailureKeeps DEF ClaudeFails, BreakerOf
  <2>3. SecondaryIsLast'
    BY <1>11, <2>1 DEF ClaudeFails, NoteFailure, SecondaryIsLast, UnavailableMeansBothFailed, Asking
  <2> QED
    BY <2>2, <2>3 DEF IInv
<1>12. CASE ClaudeMalformed
  <2>1. call.at = "claude" /\ result = "none"
    BY <1>1, <1>12 DEF ClaudeMalformed, Request, SecondaryIsLast, Idle
  <2>2. TypeOK' /\ BreakersAreIndependent' /\ LoadIsCounted'
    BY <1>12, <2>1, FailureKeeps DEF ClaudeMalformed, BreakerOf
  <2>3. SecondaryIsLast'
    BY <1>12, <2>1 DEF ClaudeMalformed, NoteFailure, SecondaryIsLast, UnavailableMeansBothFailed, Asking,
                       Idle
  <2> QED
    BY <2>2, <2>3 DEF IInv
<1>13. ASSUME NoteAnswer("openai") \/ (NoteFailure("openai") /\ UNCHANGED breaker)
       PROVE  /\ failedFor' \in {failedFor, failedFor \cup {"openai"}}
              /\ streak' \in [Providers -> 0..FailMax] /\ unanswered' = unanswered
              /\ \A b \in Breakers : streak'[Guards[b]] = streak[Guards[b]]
              /\ streak'["claude"] = streak["claude"]
  BY <1>1, <1>13 DEF NoteAnswer, NoteFailure, TypeOK
<1>14. CASE OpenAiAnswers
  <2>1. TypeOK' /\ BreakersAreIndependent' /\ LoadIsCounted'
    BY <1>1, <1>13, <1>14, UnguardedKeeps DEF OpenAiAnswers, Request, TypeOK
  <2>2. SecondaryIsLast'
    BY <1>14 DEF OpenAiAnswers, SecondaryIsLast, UnavailableMeansBothFailed, Idle
  <2> QED
    BY <2>1, <2>2 DEF IInv
<1>15. CASE OpenAiFails
  <2>1. TypeOK' /\ BreakersAreIndependent' /\ LoadIsCounted'
    BY <1>1, <1>13, <1>15, UnguardedKeeps DEF OpenAiFails, Request, TypeOK
  <2>2. "claude" \in failedFor' \/ streak'["claude"] = FailMax
    BY <1>1, <1>13, <1>15 DEF OpenAiFails, Request, SecondaryIsLast
  <2>3. SecondaryIsLast'
    BY <1>15, <2>2 DEF OpenAiFails, NoteFailure, SecondaryIsLast, UnavailableMeansBothFailed, Idle
  <2> QED
    BY <2>1, <2>3 DEF IInv
<1>16. CASE OpenAiMalformed
  <2>1. TypeOK' /\ BreakersAreIndependent' /\ LoadIsCounted'
    BY <1>1, <1>13, <1>16, UnguardedKeeps DEF OpenAiMalformed, Request, TypeOK
  <2>2. SecondaryIsLast'
    BY <1>16 DEF OpenAiMalformed, SecondaryIsLast, UnavailableMeansBothFailed, Idle
  <2> QED
    BY <2>1, <2>2 DEF IInv
<1>17. CASE Changes
  BY <1>1, <1>17 DEF Changes, history, IInv, TypeOK, BreakersAreIndependent, LoadIsCounted, Spent,
                     RequestsPerCall, SecondaryIsLast, UnavailableMeansBothFailed
<1>18. CASE Tick
  <2>1. \A b \in Breakers : /\ breaker'[b].state = breaker[b].state
                            /\ breaker'[b].failures = breaker[b].failures
                            /\ breaker'[b] \in [state : {"closed", "open", "half-open"},
                                                failures : 0..FailMax, wait : 0..ResetTimeout]
    BY <1>1, <1>18 DEF Tick, TypeOK
  <2>2. TypeOK'
    BY <1>1, <1>18, <2>1 DEF Tick, TypeOK, history
  <2>3. BreakersAreIndependent'
    BY <1>1, <1>18, <2>1 DEF Tick, BreakersAreIndependent, history
  <2>4. LoadIsCounted'
    BY <1>1, <1>18, <2>1 DEF Tick, LoadIsCounted, Spent, RequestsPerCall, history
  <2>5. SecondaryIsLast'
    BY <1>1, <1>18 DEF Tick, SecondaryIsLast, UnavailableMeansBothFailed, history
  <2> QED
    BY <2>2, <2>3, <2>4, <2>5 DEF IInv
<1>19. CASE UNCHANGED vars
  BY <1>1, <1>19 DEF vars, history, IInv, TypeOK, BreakersAreIndependent, LoadIsCounted, Spent,
                     RequestsPerCall, SecondaryIsLast, UnavailableMeansBothFailed
<1> QED
  BY <1>3, <1>4, <1>5, <1>6, <1>7, <1>8, <1>9, <1>10, <1>11, <1>12, <1>14, <1>15, <1>16, <1>17,
     <1>18, <1>19 DEF Next, Step

\* FR-011, FR-012: whatever the providers do, each breaker follows its own provider, a
\* failing provider's load is bounded, and a document is unavailable only when both
\* model providers failed it.
THEOREM CallsAreBounded ==
  Spec => [](/\ TypeOK
             /\ BreakersAreIndependent
             /\ LoadOnAFailingProvider
             /\ UnavailableMeansBothFailed)
<1>1. IInv => /\ TypeOK
              /\ BreakersAreIndependent
              /\ LoadOnAFailingProvider
              /\ UnavailableMeansBothFailed
  BY BoundFollows DEF IInv, SecondaryIsLast
<1> QED
  BY InitInvariant, StepInvariant, <1>1, PTL DEF Spec

\* FR-011, circuit_breaker.py: each provider's breaker counts the failures of that
\* provider alone.
THEOREM BreakersStandApart == Spec => []BreakersAreIndependent
  BY CallsAreBounded, PTL

\* failover.py: no document is given up while one of the model providers would answer.
THEOREM GivenUpAfterBoth == Spec => []UnavailableMeansBothFailed
  BY CallsAreBounded, PTL

\* circuit_breaker.py, retry.py: counters, timers and calls stay within their bounds.
THEOREM PathIsTyped == Spec => []TypeOK
  BY CallsAreBounded, PTL


=============================================================================
