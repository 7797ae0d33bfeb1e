----------------------------- MODULE Idempotency -----------------------------
(***************************************************************************)
(* The Idempotency-Key middleware (api/middleware/idempotency.py) in front *)
(* of the POST endpoints.  Each replica of the API keeps its own table of  *)
(* replies in memory.  A request is looked up, runs its endpoint if there  *)
(* is no reply yet, and stores what the endpoint answered; the lookup and  *)
(* the store are separated by every await of the endpoint.                 *)
(*                                                                         *)
(* The endpoints are what the middleware sees of them: verify and resolve  *)
(* refuse (409) what they find decided, the others act on every request.   *)
(* An endpoint that fails after it has committed has acted as well.        *)
(***************************************************************************)
EXTENDS Integers

CONSTANTS
  Requests,     \* the POSTs that clients send, retries included
  Replicas,     \* processes that serve the API
  Paths,        \* paths of the state-changing endpoints
  Guarded,      \* those that refuse a second effect: verify, resolve
  Headers,      \* values of the Idempotency-Key header
  None,         \* no such header
  MaxRestarts   \* bound on the restarts of the replicas

ASSUME ParametersAreTyped ==
  Guarded \subseteq Paths /\ None \notin Headers /\ MaxRestarts \in Nat

VARIABLES
  store,       \* InMemoryIdempotencyStore._entries of each replica
  effects,     \* how often each endpoint has taken effect, in the database
  request,     \* where each request is
  acts,        \* history: effects of each key during its replica's present life
  lost,        \* history: those of them whose answer was not stored
  overlapped,  \* history: keys whose requests have overlapped in that life
  restarts

vars == <<store, effects, request, acts, lost, overlapped, restarts>>

Keys == Paths \X Headers
Reply == [by : Requests, status : {"ok", "conflict"}]

New == [at |-> "new"]

MutCacheKey(path, header) == header

CacheKey(path, header) == <<path, header>>

InFlight(r) == request[r].at \in {"endpoint", "loaded", "answered"}

\* Requests of one key that a replica is running the endpoint for.
Running(replica, key) ==
  {r \in Requests : /\ InFlight(r)
                    /\ request[r].replica = replica /\ request[r].header # None
                    /\ CacheKey(request[r].path, request[r].header) = key}

MutCached(replica, path, header) ==
  /\ header # None /\ CacheKey(path, header) \in DOMAIN store[replica]
  /\ store[replica][CacheKey(path, header)].status = "ok"

\* The lookup: a request without the header is never looked up.
Cached(replica, path, header) ==
  header # None /\ CacheKey(path, header) \in DOMAIN store[replica]

-----------------------------------------------------------------------------
\* dispatch(), a stored reply: it is returned and the endpoint does not run.
Replay(r) ==
  /\ request[r] = New
  /\ \E replica \in Replicas, path \in Paths, header \in Headers :
       /\ Cached(replica, path, header)
       /\ request' = [request EXCEPT ![r] =
            [at |-> "replied", path |-> path, header |-> header,
             reply |-> store[replica][CacheKey(path, header)]]]
  /\ UNCHANGED <<store, effects, acts, lost, overlapped, restarts>>

\* dispatch(), no header or no reply yet: call_next runs the endpoint.
CallNext(r) ==
  /\ request[r] = New
  /\ \E replica \in Replicas, path \in Paths, header \in Headers \cup {None} :
       LET key == CacheKey(path, header) IN
       /\ ~Cached(replica, path, header)
       /\ overlapped' = [overlapped EXCEPT ![replica] =
            IF Running(replica, key) # {} THEN @ \cup {key} ELSE @]
       /\ request' = [request EXCEPT ![r] =
            [at |-> "endpoint", replica |-> replica, path |-> path, header |-> header]]
  /\ UNCHANGED <<store, effects, acts, lost, restarts>>

\* The endpoint reads its row, and on a later await commits its effect.
Load(r) ==
  /\ request[r].at = "endpoint"
  /\ LET q == request[r] IN
     request' = [request EXCEPT ![r] =
       [at |-> "loaded", replica |-> q.replica, path |-> q.path, header |-> q.header,
        status |-> IF q.path \in Guarded /\ effects[q.path] > 0 THEN "conflict" ELSE "ok"]]
  /\ UNCHANGED <<store, effects, acts, lost, overlapped, restarts>>

Counted(counts, key) == [counts EXCEPT ![key] = @ + 1]

Answer(r) ==
  /\ request[r].at = "loaded"
  /\ LET q == request[r]
         key == CacheKey(q.path, q.header)
     IN
     /\ effects' = [effects EXCEPT ![q.path] = IF q.status = "ok" THEN @ + 1 ELSE @]
     /\ acts' = [acts EXCEPT ![q.replica] =
          IF q.status = "ok" /\ q.header # None THEN Counted(@, key) ELSE @]
     /\ request' = [request EXCEPT ![r] =
          [at |-> "answered", replica |-> q.replica, path |-> q.path, header |-> q.header,
           reply |-> [by |-> r, status |-> q.status]]]
  /\ UNCHANGED <<store, lost, overlapped, restarts>>

\* An exception before the commit passes through the middleware: rolled back,
\* answered 500, not stored.
EndpointFails(r) ==
  /\ request[r].at \in {"endpoint", "loaded"}
  /\ request' = [request EXCEPT ![r] = [at |-> "failed"]]
  /\ UNCHANGED <<store, effects, acts, lost, overlapped, restarts>>

\* An exception after it: what the endpoint reads back cannot be read, or the answer
\* of the commit itself is lost.  The 500 is not stored either.
AnswerLost(r) ==
  /\ request[r].at = "answered"
  /\ LET q == request[r]
         key == CacheKey(q.path, q.header)
     IN
     lost' = [lost EXCEPT ![q.replica] =
       IF q.reply.status = "ok" /\ q.header # None THEN Counted(@, key) ELSE @]
  /\ request' = [request EXCEPT ![r] = [at |-> "failed"]]
  /\ UNCHANGED <<store, effects, acts, overlapped, restarts>>

MutPut(table, key, reply) ==
  [k \in DOMAIN table \cup (IF reply.status = "ok" THEN {} ELSE {key}) |->
     IF k = key THEN reply ELSE table[k]]

\* store.put(): whatever was there is replaced.
Put(table, key, reply) ==
  [k \in DOMAIN table \cup {key} |-> IF k = key THEN reply ELSE table[k]]

\* The body has been collected: put() and the reply, with no await between them.
Respond(r) ==
  /\ request[r].at = "answered"
  /\ LET q == request[r] IN
     /\ store' = IF q.header = None THEN store
                 ELSE [store EXCEPT ![q.replica] = Put(@, CacheKey(q.path, q.header), q.reply)]
     /\ request' = [request EXCEPT ![r] =
          [at |-> "replied", path |-> q.path, header |-> q.header, reply |-> q.reply]]
  /\ UNCHANGED <<effects, acts, lost, overlapped, restarts>>

\* A replica restarts: its replies are gone, and the requests it was serving.
Restart(replica) ==
  /\ restarts < MaxRestarts
  /\ restarts' = restarts + 1
  /\ store' = [store EXCEPT ![replica] = [k \in {} |-> None]]
  /\ acts' = [acts EXCEPT ![replica] = [k \in Keys |-> 0]]
  /\ lost' = [lost EXCEPT ![replica] = [k \in Keys |-> 0]]
  /\ overlapped' = [overlapped EXCEPT ![replica] = {}]
  /\ request' = [r \in Requests |->
       IF InFlight(r) /\ request[r].replica = replica THEN [at |-> "failed"] ELSE request[r]]
  /\ UNCHANGED effects

Init ==
  /\ store = [replica \in Replicas |-> [k \in {} |-> None]]
  /\ effects = [path \in Paths |-> 0]
  /\ request = [r \in Requests |-> New]
  /\ acts = [replica \in Replicas |-> [k \in Keys |-> 0]]
  /\ lost = [replica \in Replicas |-> [k \in Keys |-> 0]]
  /\ overlapped = [replica \in Replicas |-> {}]
  /\ restarts = 0

Next ==
  \/ \E r \in Requests :
       \/ Replay(r) \/ CallNext(r)
       \/ Load(r) \/ Answer(r) \/ EndpointFails(r)
       \/ AnswerLost(r) \/ Respond(r)
  \/ \E replica \in Replicas : Restart(replica)

Spec == Init /\ [][Next]_vars

-----------------------------------------------------------------------------
(* Properties *)

RequestState(q) ==
  \/ q = New \/ q.at = "failed"
  \/ /\ q.at \in {"endpoint", "loaded", "answered"}
     /\ q.replica \in Replicas /\ q.path \in Paths /\ q.header \in Headers \cup {None}
     /\ q.at = "loaded" => q.status \in {"ok", "conflict"}
     /\ q.at = "answered" => q.reply \in Reply
  \/ /\ q.at = "replied"
     /\ q.path \in Paths /\ q.header \in Headers \cup {None} /\ q.reply \in Reply

\* Every table holds replies under keys of its own, and every request is somewhere.
TypeOK ==
  /\ \A replica \in Replicas :
       /\ DOMAIN store[replica] \subseteq Keys
       /\ \A k \in DOMAIN store[replica] : store[replica][k] \in Reply
  /\ effects \in [Paths -> Nat]
  /\ acts \in [Replicas -> [Keys -> Nat]]
  /\ lost \in [Replicas -> [Keys -> Nat]]
  /\ overlapped \in [Replicas -> SUBSET Keys]
  /\ \A r \in Requests : RequestState(request[r])
  /\ restarts \in 0..MaxRestarts

\* api.md, Cross-cutting: a client that retries one request at a time is acted for
\* again, while its replica lives, only when the answer of an act was lost before it
\* could be stored; verify and resolve, which look at their row, act once even then.
OnlyLostAnswersActAgain ==
  \A replica \in Replicas : \A k \in Keys \ overlapped[replica] :
    /\ acts[replica][k] <= lost[replica][k] + 1
    /\ k[1] \in Guarded => acts[replica][k] <= 1

\* idempotency.py:5-6: a reply is the original one, of a request to the same endpoint
\* with the same key; without a key it is the request's own.
RepliesAreOfTheirKey ==
  \A r \in Requests :
    request[r].at = "replied" =>
      LET q == request[r].reply.by IN
      /\ request[r].header = None => q = r
      /\ request[q].at = "replied"
      /\ request[q].path = request[r].path /\ request[q].header = request[r].header

\* A later reply may replace an earlier one only while requests of the key overlap:
\* once none runs, the stored reply stands until the replica restarts and the
\* endpoint does not run for that key again.
QuietKeyIsSettled ==
  [][\A replica \in Replicas : \A k \in DOMAIN store[replica] :
       Running(replica, k) = {} =>
         \/ store'[replica] = [j \in {} |-> None]
         \/ /\ k \in DOMAIN store'[replica] /\ store'[replica][k] = store[replica][k]
            /\ Running(replica, k)' = {}]_vars

=============================================================================
