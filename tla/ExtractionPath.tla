--------------------------- MODULE ExtractionPath ---------------------------
(***************************************************************************)
(* The calls one document makes to the providers: TextractAdapter          *)
(* (ocr/textract_adapter.py), then FailoverExtractionAdapter, which asks   *)
(* Claude and, failing that, OpenAI (extraction/).  Textract and Claude    *)
(* are called through a circuit breaker each (queue/circuit_breaker.py);   *)
(* requests to the language models are retried (fallback/).                *)
(*                                                                         *)
(* The adapters block the process, so it makes one call at a time.  The    *)
(* breakers live in its memory: a restart is Init again.  A clock is kept  *)
(* only as the time left until an open breaker lets a probe through.       *)
(***************************************************************************)
EXTENDS Integers

CONSTANTS
  FailMax,       \* circuit_breaker_fail_max
  ResetTimeout,  \* circuit_breaker_reset_timeout_seconds, in ticks
  MaxAttempts    \* retry_with_jitter's max_attempts

ASSUME ExtractionParameters ==
  /\ FailMax \in Nat \ {0}
  /\ ResetTimeout \in Nat
  /\ MaxAttempts \in Nat \ {0}

Providers == {"textract", "claude", "openai"}
Guarded == {"textract", "claude"}
Breakers == {"ocr", "extraction"}
Health == {"up", "down", "erratic"}

VARIABLES
  health,      \* what each provider is like just now
  breaker,     \* pybreaker's state, failure counter and time left until a probe
  call,        \* the call the document stands in, and its attempt
  result,      \* how the last document ended; "none" while one is on its way
  failedFor,   \* history: the providers that failed on the current document
  streak,      \* history: calls to each provider that failed in a row, to FailMax
  unanswered   \* history: requests to each guarded provider since it last answered
               \* or its breaker last opened

history == <<failedFor, streak, unanswered>>
vars == <<health, breaker, call, result, history>>

MutBreakerOf == [textract |-> "ocr", claude |-> "ocr"]
BreakerOf == [textract |-> "ocr", claude |-> "extraction"]

Idle == [at |-> "idle", attempt |-> 0]
Scanned == [at |-> "scanned", attempt |-> 0]
Asking(p) == [at |-> p, attempt |-> 1]

Closed == [state |-> "closed", failures |-> 0, wait |-> 0]
Opened == [state |-> "open", failures |-> FailMax, wait |-> ResetTimeout]

Init ==
  /\ health \in [Providers -> Health]
  /\ breaker = [b \in Breakers |-> Closed]
  /\ call = Idle
  /\ result = "none"
  /\ failedFor = {}
  /\ streak = [p \in Providers |-> 0]
  /\ unanswered = [p \in Guarded |-> 0]

-----------------------------------------------------------------------------
(* pybreaker, as call_with_breaker() uses it *)

MutAdmits(b) == breaker[b].state # "open"
Admits(b) == breaker[b].state = "open" => breaker[b].wait = 0

\* The call that follows an open breaker's timeout is its half-open probe.
Entered(b) == [breaker EXCEPT ![b].state = IF @ = "open" THEN "half-open" ELSE @]

Succeeded(b) == [breaker EXCEPT ![b] = Closed]

\* The failure that opens the breaker is replaced by CircuitBreakerError.
MutTrips(b) == breaker[b].state = "half-open" \/ breaker[b].failures >= FailMax
Trips(b) == breaker[b].state = "half-open" \/ breaker[b].failures + 1 >= FailMax

Counted(b) == [breaker[b] EXCEPT !.failures = @ + 1]
Failed(b) == [breaker EXCEPT ![b] = IF Trips(b) THEN Opened ELSE Counted(b)]

-----------------------------------------------------------------------------
(* Outcomes of one request: an answer; a transient error (5xx, connection); a
   refusal (4xx, or an answer without the fields object); an answer with an item
   the adapter cannot read, of unknown field_type or without confidence. *)

Outcomes(p) ==
  CASE health[p] = "up" -> {"answer"}
    [] health[p] = "down" -> {"transient", "refused"}
    [] OTHER -> {"answer", "transient", "refused", "malformed"}

Request(p, outcome) == call.at = p /\ outcome \in Outcomes(p)

\* retry_with_jitter() and _call_with_retry(): another attempt, or the end of them.
MutGivesUp(outcome) == outcome = "refused" \/ (outcome = "transient" /\ call.attempt > MaxAttempts)
GivesUp(outcome) == outcome = "refused" \/ (outcome = "transient" /\ call.attempt = MaxAttempts)

Retry(p) ==
  /\ Request(p, "transient") /\ ~GivesUp("transient")
  /\ call' = [call EXCEPT !.attempt = @ + 1]
  /\ unanswered' = [q \in Guarded |-> unanswered[q] + (IF q = p THEN 1 ELSE 0)]
  /\ UNCHANGED <<health, breaker, result, failedFor, streak>>

NoteAnswer(p) ==
  /\ streak' = [streak EXCEPT ![p] = 0]
  /\ unanswered' = [q \in Guarded |-> IF q = p THEN 0 ELSE unanswered[q]]
  /\ UNCHANGED failedFor

NoteFailure(p) ==
  /\ failedFor' = failedFor \cup {p}
  /\ streak' = [streak EXCEPT ![p] = IF @ < FailMax THEN @ + 1 ELSE @]
  /\ unanswered' =
       [q \in Guarded |->
          CASE q # p -> unanswered[q]
            [] q = p /\ breaker'[BreakerOf[q]].state = "open" -> 0
            [] OTHER -> unanswered[q] + 1]

-----------------------------------------------------------------------------
(* TextractAdapter.extract_text(): every failure is OcrUnavailableError *)

Scan ==
  /\ call = Idle /\ Admits("ocr")
  /\ breaker' = Entered("ocr")
  /\ call' = Asking("textract")
  /\ result' = "none" /\ failedFor' = {}
  /\ UNCHANGED <<health, streak, unanswered>>

ScanRejected ==
  /\ call = Idle /\ ~Admits("ocr")
  /\ result' = "ocr_unavailable" /\ failedFor' = {}
  /\ UNCHANGED <<health, breaker, call, streak, unanswered>>

\* The document is scanned, or excluded as unreadable: no extraction then.
ScanAnswered ==
  /\ Request("textract", "answer")
  /\ breaker' = Succeeded(BreakerOf["textract"])
  /\ NoteAnswer("textract")
  /\ \/ call' = Scanned /\ UNCHANGED result
     \/ call' = Idle /\ result' = "excluded"
  /\ UNCHANGED health

ScanFails ==
  /\ \E outcome \in {"transient", "refused", "malformed"} : Request("textract", outcome)
  /\ breaker' = Failed(BreakerOf["textract"])
  /\ NoteFailure("textract")
  /\ call' = Idle /\ result' = "ocr_unavailable"
  /\ UNCHANGED health

-----------------------------------------------------------------------------
(* ClaudeExtractionAdapter.extract_fields(), inside FailoverExtractionAdapter *)

AskClaude ==
  /\ call = Scanned /\ Admits(BreakerOf["claude"])
  /\ breaker' = Entered(BreakerOf["claude"])
  /\ call' = Asking("claude")
  /\ UNCHANGED <<health, result, history>>

ClaudeRejected ==
  /\ call = Scanned /\ ~Admits(BreakerOf["claude"])
  /\ call' = Asking("openai")
  /\ UNCHANGED <<health, breaker, result, history>>

ClaudeAnswers ==
  /\ Request("claude", "answer")
  /\ breaker' = Succeeded(BreakerOf["claude"])
  /\ NoteAnswer("claude")
  /\ call' = Idle /\ result' = "fields"
  /\ UNCHANGED health

MutClaudeFails ==
  /\ \E outcome \in {"transient", "refused"} : Request("claude", outcome) /\ GivesUp(outcome)
  /\ breaker' = Failed(BreakerOf["claude"])
  /\ NoteFailure("claude")
  /\ IF Trips(BreakerOf["claude"]) THEN call' = Asking("openai") /\ UNCHANGED result
                                   ELSE call' = Idle /\ result' = "unavailable"
  /\ UNCHANGED health

ClaudeFails ==
  /\ \E outcome \in {"transient", "refused"} : Request("claude", outcome) /\ GivesUp(outcome)
  /\ breaker' = Failed(BreakerOf["claude"])
  /\ NoteFailure("claude")
  /\ call' = Asking("openai")
  /\ UNCHANGED <<health, result>>

\* The reading of the items is no provider error: it leaves the failover, unless it
\* is the failure that trips the breaker.
ClaudeMalformed ==
  /\ Request("claude", "malformed")
  /\ breaker' = Failed(BreakerOf["claude"])
  /\ NoteFailure("claude")
  /\ IF Trips(BreakerOf["claude"]) THEN call' = Asking("openai") /\ UNCHANGED result
                                   ELSE call' = Idle /\ result' = "escaped"
  /\ UNCHANGED health

(* OpenAiExtractionAdapter.extract_fields(): no breaker *)

OpenAiAnswers ==
  /\ Request("openai", "answer")
  /\ NoteAnswer("openai")
  /\ call' = Idle /\ result' = "fields"
  /\ UNCHANGED <<health, breaker>>

OpenAiFails ==
  /\ \E outcome \in {"transient", "refused"} : Request("openai", outcome) /\ GivesUp(outcome)
  /\ UNCHANGED breaker
  /\ NoteFailure("openai")
  /\ call' = Idle /\ result' = "unavailable"
  /\ UNCHANGED health

OpenAiMalformed ==
  /\ Request("openai", "malformed")
  /\ UNCHANGED breaker
  /\ NoteFailure("openai")
  /\ call' = Idle /\ result' = "escaped"
  /\ UNCHANGED health

-----------------------------------------------------------------------------

Changes ==
  \E p \in Providers : \E h \in Health \ {health[p]} :
    /\ health' = [health EXCEPT ![p] = h]
    /\ UNCHANGED <<breaker, call, result, history>>

\* Time passes for every open breaker alike.
Tick ==
  /\ \E b \in Breakers : breaker[b].wait > 0
  /\ breaker' = [b \in Breakers |->
                   [breaker[b] EXCEPT !.wait = IF @ > 0 THEN @ - 1 ELSE 0]]
  /\ UNCHANGED <<health, call, result, history>>

Step ==
  \/ Scan \/ ScanRejected \/ ScanAnswered \/ ScanFails
  \/ AskClaude \/ ClaudeRejected \/ Retry("claude")
  \/ ClaudeAnswers \/ ClaudeFails \/ ClaudeMalformed
  \/ Retry("openai") \/ OpenAiAnswers \/ OpenAiFails \/ OpenAiMalformed

Next == Step \/ Changes \/ Tick

Spec == Init /\ [][Next]_vars

\* Time passes, requests end, and documents keep coming.
FairSpec == Spec /\ WF_vars(Tick) /\ WF_vars(Step)

-----------------------------------------------------------------------------
(* Properties *)

Guards == [ocr |-> "textract", extraction |-> "claude"]
RequestsPerCall(p) == IF p = "textract" THEN 1 ELSE MaxAttempts

TypeOK ==
  /\ health \in [Providers -> Health]
  /\ breaker \in [Breakers -> [state : {"closed", "open", "half-open"},
                               failures : 0..FailMax, wait : 0..ResetTimeout]]
  /\ \A b \in Breakers : breaker[b].state = "half-open" => call.at = Guards[b]
  /\ call \in [at : {"idle", "scanned"} \cup Providers, attempt : 0..MaxAttempts]
  /\ call.at \in Providers => call.attempt \in 1..MaxAttempts
  /\ result \in {"none", "fields", "excluded", "ocr_unavailable", "unavailable", "escaped"}
  /\ failedFor \subseteq Providers
  /\ streak \in [Providers -> 0..FailMax]
  /\ unanswered \in [Guarded -> Nat]

\* FR-011, circuit_breaker.py "independent breakers": what each breaker counts, and
\* whether it lets calls through, follows from the last calls to its own provider:
\* it is closed exactly while fewer than FailMax of them failed in a row.
BreakersAreIndependent ==
  \A b \in Breakers :
    IF breaker[b].state = "closed"
      THEN breaker[b].failures = streak[Guards[b]] /\ streak[Guards[b]] < FailMax
      ELSE streak[Guards[b]] = FailMax

\* FR-011: a provider that never answers gets at most FailMax calls' requests, then
\* none while its breaker is open, and after each timeout one call's requests.
LoadOnAFailingProvider ==
  \A b \in Breakers : LET p == Guards[b] IN
    CASE breaker[b].state = "closed" -> unanswered[p] < FailMax * RequestsPerCall(p)
      [] breaker[b].state = "open" -> unanswered[p] = 0
      [] OTHER -> unanswered[p] < RequestsPerCall(p)

\* ExtractionUnavailableError "only when BOTH the primary and secondary providers
\* have failed": OpenAI failed on this very document, and Claude failed on it too or
\* was not asked because its last FailMax calls had failed.
UnavailableMeansBothFailed ==
  result = "unavailable" =>
    /\ "openai" \in failedFor
    /\ "claude" \in failedFor \/ streak["claude"] = FailMax

\* FR-012: once Textract and the secondary answer for good and the primary either
\* answers or fails as a provider does, no document fails any more.
Serviceable ==
  /\ health["textract"] = "up" /\ health["openai"] = "up"
  /\ health["claude"] \in {"up", "down"}
SecondarySuffices ==
  <>[]Serviceable => <>[](result \notin {"ocr_unavailable", "unavailable", "escaped"})

=============================================================================
