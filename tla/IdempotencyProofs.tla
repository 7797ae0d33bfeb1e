-------------------------- MODULE IdempotencyProofs --------------------------
(* Proofs about Idempotency, for any number of requests, replicas and restarts. *)
EXTENDS Idempotency, TLAPS

-----------------------------------------------------------------------------
(* The inductive invariant *)

KeyOf(q) == CacheKey(q.path, q.header)

\* Which key and which replica each reply belongs to: the answer a request waits to
\* deliver is its own, and what was stored or delivered came from the same key.
RepliesStand ==
  /\ \A r \in Requests : request[r].at = "answered" => request[r].reply.by = r
  /\ RepliesAreOfTheirKey
  /\ \A replica \in Replicas : \A k \in DOMAIN store[replica] :
       LET q == store[replica][k].by IN
       /\ request[q].at = "replied" /\ request[q].header # None
       /\ KeyOf(request[q]) = k

\* A request about to deliver the answer of an effect.
Delivers(r) == request[r].at = "answered" /\ request[r].reply.status = "ok"

\* Where requests of a key have not overlapped, at most one runs, none once a reply is
\* stored, and an effect is followed by its answer, its reply or the loss of both.
KeyStands(replica, k) ==
  /\ \A r, q \in Running(replica, k) : r = q
  /\ k \in DOMAIN store[replica] => Running(replica, k) = {}
  /\ acts[replica][k] <= lost[replica][k] + 1
  /\ acts[replica][k] <= lost[replica][k] \/ k \in DOMAIN store[replica]
       \/ \E r \in Running(replica, k) : Delivers(r)

\* A guarded endpoint that has acted for a key finds that it has.
GuardStands(replica, k) ==
  k[1] \in Guarded =>
    /\ acts[replica][k] <= 1
    /\ acts[replica][k] > 0 => effects[k[1]] > 0
    /\ \A r \in Running(replica, k) :
         request[r].at = "loaded" /\ request[r].status = "ok" => acts[replica][k] = 0

IInv ==
  /\ TypeOK
  /\ store = [replica \in Replicas |-> store[replica]]
  /\ request = [r \in Requests |-> request[r]]
  /\ RepliesStand
  /\ \A replica \in Replicas : \A k \in Keys \ overlapped[replica] :
       KeyStands(replica, k) /\ GuardStands(replica, k)

-----------------------------------------------------------------------------
LEMMA InitInvariant == Init => IInv
  <1> SUFFICES ASSUME Init
               PROVE  IInv
    OBVIOUS
  <1>1. TypeOK
    BY ParametersAreTyped DEF Init, TypeOK, RequestState, New, Keys
  <1>2. RepliesStand
    BY DEF Init, RepliesStand, RepliesAreOfTheirKey, New
  <1>3. ASSUME NEW replica \in Replicas, NEW k \in Keys
        PROVE  KeyStands(replica, k) /\ GuardStands(replica, k)
    BY DEF Init, KeyStands, GuardStands, Running, InFlight, New
  <1>4. QED
    BY <1>1, <1>2, <1>3 DEF Init, IInv

-----------------------------------------------------------------------------
(* How a request's step changes what runs *)

JoinsKey(q, replica, k) ==
  /\ q.at \in {"endpoint", "loaded", "answered"}
  /\ q.replica = replica /\ q.header # None
  /\ CacheKey(q.path, q.header) = k

LEMMA RequestStep ==
  ASSUME IInv, NEW r \in Requests, NEW q, request' = [request EXCEPT ![r] = q]
  PROVE  /\ request' = [t \in Requests |-> request'[t]]
         /\ request'[r] = q /\ \A t \in Requests : t # r => request'[t] = request[t]
  BY DEF IInv

-----------------------------------------------------------------------------
(* Types *)

LEMMA TypeStep == IInv /\ Next => TypeOK'
  <1> SUFFICES ASSUME IInv, Next
               PROVE  TypeOK'
    OBVIOUS
  <1>1. TypeOK
    BY DEF IInv
  <1>2. ASSUME NEW r \in Requests, NEW q, RequestState(q),
               request' = [request EXCEPT ![r] = q],
               UNCHANGED <<store, effects, acts, lost, restarts>>,
               overlapped' \in [Replicas -> SUBSET Keys]
        PROVE  TypeOK'
    BY <1>1, <1>2, RequestStep DEF TypeOK
  <1>3. ASSUME NEW r \in Requests, Replay(r)
        PROVE  TypeOK'
    <2>1. PICK replica \in Replicas, path \in Paths, header \in Headers :
            /\ Cached(replica, path, header)
            /\ request' = [request EXCEPT ![r] =
                 [at |-> "replied", path |-> path, header |-> header,
                  reply |-> store[replica][CacheKey(path, header)]]]
      BY <1>3 DEF Replay
    <2>2. store[replica][CacheKey(path, header)] \in Reply
      BY <1>1, <2>1 DEF TypeOK, Cached
    <2>3. RequestState([at |-> "replied", path |-> path, header |-> header,
                        reply |-> store[replica][CacheKey(path, header)]])
      BY <2>2 DEF RequestState
    <2>4. overlapped' \in [Replicas -> SUBSET Keys] /\ UNCHANGED <<store, effects, acts, lost, restarts>>
      BY <1>1, <1>3 DEF Replay, TypeOK
    <2>5. QED
      BY <1>2, <2>1, <2>3, <2>4
  <1>4. ASSUME NEW r \in Requests, CallNext(r)
        PROVE  TypeOK'
    <2>1. PICK replica \in Replicas, path \in Paths, header \in Headers \cup {None} :
            /\ overlapped' = [overlapped EXCEPT ![replica] =
                 IF Running(replica, CacheKey(path, header)) # {}
                   THEN @ \cup {CacheKey(path, header)} ELSE @]
            /\ request' = [request EXCEPT ![r] =
                 [at |-> "endpoint", replica |-> replica, path |-> path, header |-> header]]
      BY <1>4 DEF CallNext
    <2>2. RequestState([at |-> "endpoint", replica |-> replica, path |-> path, header |-> header])
      BY DEF RequestState
    <2>3. header = None => Running(replica, CacheKey(path, header)) = {}
      BY DEF Running, CacheKey
    <2>4. header # None => CacheKey(path, header) \in Keys
      BY DEF CacheKey, Keys
    <2>5. overlapped' \in [Replicas -> SUBSET Keys]
      BY <1>1, <2>1, <2>3, <2>4 DEF TypeOK
    <2>6. UNCHANGED <<store, effects, acts, lost, restarts>>
      BY <1>4 DEF CallNext
    <2>7. QED
      BY <1>2, <2>1, <2>2, <2>5, <2>6
  <1>5. ASSUME NEW r \in Requests, Load(r)
        PROVE  TypeOK'
    <2> DEFINE q == request[r]
               status == IF q.path \in Guarded /\ effects[q.path] > 0 THEN "conflict" ELSE "ok"
               next == [at |-> "loaded", replica |-> q.replica, path |-> q.path,
                        header |-> q.header, status |-> status]
    <2>1. RequestState(next)
      BY <1>1, <1>5 DEF Load, TypeOK, RequestState, New
    <2>2. /\ request' = [request EXCEPT ![r] = next] /\ UNCHANGED <<store, effects, acts, lost, restarts>>
          /\ overlapped' \in [Replicas -> SUBSET Keys]
      BY <1>1, <1>5 DEF Load, TypeOK
    <2> HIDE DEF next
    <2>3. QED
      BY <1>2, <2>1, <2>2
  <1>6. ASSUME NEW r \in Requests, Answer(r)
        PROVE  TypeOK'
    <2> DEFINE q == request[r]
               reply == [by |-> r, status |-> q.status]
               next == [at |-> "answered", replica |-> q.replica, path |-> q.path,
                        header |-> q.header, reply |-> reply]
    <2>1. /\ q.at = "loaded" /\ q.replica \in Replicas /\ q.path \in Paths
          /\ q.header \in Headers \cup {None} /\ q.status \in {"ok", "conflict"}
      BY <1>1, <1>6 DEF Answer, TypeOK, RequestState, New
    <2>2. RequestState(next)
      BY <2>1 DEF RequestState, Reply
    <2>3. request' = [request EXCEPT ![r] = next] /\ UNCHANGED <<store, lost, overlapped, restarts>>
      BY <1>6 DEF Answer
    <2>4. effects' \in [Paths -> Nat]
      BY <1>1, <1>6, <2>1 DEF Answer, TypeOK
    <2>5. acts' \in [Replicas -> [Keys -> Nat]]
      <3>1. q.header # None => CacheKey(q.path, q.header) \in Keys
        BY <2>1 DEF CacheKey, Keys
      <3>2. \A counts \in [Keys -> Nat], k \in Keys : Counted(counts, k) \in [Keys -> Nat]
        BY DEF Counted
      <3>3. acts' = [acts EXCEPT ![q.replica] =
              IF q.status = "ok" /\ q.header # None
                THEN Counted(acts[q.replica], CacheKey(q.path, q.header)) ELSE acts[q.replica]]
        BY <1>6 DEF Answer
      <3>4. QED
        BY <1>1, <2>1, <3>1, <3>2, <3>3 DEF TypeOK
    <2> HIDE DEF next
    <2>6. QED
      BY <1>1, <2>2, <2>3, <2>4, <2>5, RequestStep DEF TypeOK
  <1>7. ASSUME NEW r \in Requests, EndpointFails(r)
        PROVE  TypeOK'
    <2>1. RequestState([at |-> "failed"])
      BY DEF RequestState
    <2>2. overlapped' \in [Replicas -> SUBSET Keys] /\ UNCHANGED <<store, effects, acts, lost, restarts>>
      BY <1>1, <1>7 DEF EndpointFails, TypeOK
    <2>3. QED
      BY <1>2, <1>7, <2>1, <2>2 DEF EndpointFails
  <1>8. ASSUME NEW r \in Requests, Respond(r)
        PROVE  TypeOK'
    <2> DEFINE q == request[r]
               next == [at |-> "replied", path |-> q.path, header |-> q.header, reply |-> q.reply]
    <2>1. /\ q.at = "answered" /\ q.replica \in Replicas /\ q.path \in Paths
          /\ q.header \in Headers \cup {None} /\ q.reply \in Reply
      BY <1>1, <1>8 DEF Respond, TypeOK, RequestState, New
    <2>2. RequestState(next)
      BY <2>1 DEF RequestState
    <2>3. request' = [request EXCEPT ![r] = next] /\ UNCHANGED <<effects, acts, lost, overlapped, restarts>>
      BY <1>8 DEF Respond
    <2>4. ASSUME NEW replica \in Replicas
          PROVE  /\ DOMAIN store'[replica] \subseteq Keys
                 /\ \A k \in DOMAIN store'[replica] : store'[replica][k] \in Reply
      <3>1. CASE q.header = None
        BY <1>1, <1>8, <3>1 DEF Respond, TypeOK
      <3>2. CASE q.header # None
        <4>1. CacheKey(q.path, q.header) \in Keys
          BY <2>1, <3>2 DEF CacheKey, Keys
        <4>2. store'[replica] = IF replica = q.replica
                THEN Put(store[replica], CacheKey(q.path, q.header), q.reply) ELSE store[replica]
          BY <1>8, <2>1, <3>2 DEF Respond, IInv
        <4>3. QED
          BY <1>1, <2>1, <4>1, <4>2 DEF TypeOK, Put
      <3>3. QED
        BY <3>1, <3>2
    <2> HIDE DEF next
    <2>5. QED
      BY <1>1, <2>2, <2>3, <2>4, RequestStep DEF TypeOK
  <1>9. ASSUME NEW replica \in Replicas, Restart(replica)
        PROVE  TypeOK'
    <2>1. \A r \in Requests : RequestState(request'[r])
      BY <1>1, <1>9 DEF Restart, TypeOK, RequestState
    <2>2. \A other \in Replicas :
            store'[other] = IF other = replica THEN [k \in {} |-> None] ELSE store[other]
      BY <1>9 DEF Restart, IInv
    <2>3. /\ acts' \in [Replicas -> [Keys -> Nat]] /\ lost' \in [Replicas -> [Keys -> Nat]]
          /\ overlapped' \in [Replicas -> SUBSET Keys]
      BY <1>1, <1>9 DEF Restart, TypeOK
    <2>4. effects' \in [Paths -> Nat] /\ restarts' \in 0..MaxRestarts
      BY <1>1, <1>9, ParametersAreTyped DEF Restart, TypeOK
    <2>5. ASSUME NEW other \in Replicas
          PROVE  /\ DOMAIN store'[other] \subseteq Keys
                 /\ \A k \in DOMAIN store'[other] : store'[other][k] \in Reply
      <3>1. DOMAIN [k \in {} |-> None] = {}
        OBVIOUS
      <3>2. CASE other = replica
        BY <2>2, <3>1, <3>2
      <3>3. CASE other # replica
        BY <1>1, <2>2, <3>3 DEF TypeOK
      <3>4. QED
        BY <3>2, <3>3
    <2>6. QED
      BY <2>1, <2>3, <2>4, <2>5 DEF TypeOK
  <1>10. ASSUME NEW r \in Requests, AnswerLost(r)
         PROVE  TypeOK'
    <2> DEFINE q == request[r]
               key == CacheKey(q.path, q.header)
    <2>1. q.replica \in Replicas /\ (q.header # None => key \in Keys)
      BY <1>1, <1>10 DEF AnswerLost, TypeOK, RequestState, New, CacheKey, Keys
    <2>2. \A counts \in [Keys -> Nat], k \in Keys : Counted(counts, k) \in [Keys -> Nat]
      BY DEF Counted
    <2>3. lost' = [lost EXCEPT ![q.replica] =
            IF q.reply.status = "ok" /\ q.header # None
              THEN Counted(lost[q.replica], key) ELSE lost[q.replica]]
      BY <1>10 DEF AnswerLost
    <2>4. lost' \in [Replicas -> [Keys -> Nat]]
      BY <1>1, <2>1, <2>2, <2>3 DEF TypeOK
    <2>5. RequestState([at |-> "failed"])
      BY DEF RequestState
    <2>6. /\ request' = [request EXCEPT ![r] = [at |-> "failed"]]
          /\ UNCHANGED <<store, effects, acts, overlapped, restarts>>
      BY <1>10 DEF AnswerLost
    <2>7. QED
      BY <1>1, <2>4, <2>5, <2>6, RequestStep DEF TypeOK
  <1>11. QED
    BY <1>3, <1>4, <1>5, <1>6, <1>7, <1>8, <1>9, <1>10 DEF Next

-----------------------------------------------------------------------------
(* Replies *)

\* What a step of one request has to respect for every reply to stay with its key.
LEMMA RepliesKept ==
  ASSUME IInv, NEW r \in Requests, NEW q, request' = [request EXCEPT ![r] = q],
         request[r].at # "replied",
         q.at = "answered" => q.reply.by = r,
         q.at = "replied" =>
           /\ q.header = None => q.reply.by = r
           /\ \/ q.reply.by = r
              \/ /\ q.reply.by \in Requests /\ request[q.reply.by].at = "replied"
                 /\ request[q.reply.by].path = q.path /\ request[q.reply.by].header = q.header,
         \A replica \in Replicas : \A k \in DOMAIN store'[replica] :
           \/ k \in DOMAIN store[replica] /\ store'[replica][k] = store[replica][k]
           \/ /\ store'[replica][k].by = r /\ q.at = "replied"
              /\ q.header # None /\ KeyOf(q) = k
  PROVE  RepliesStand'
  <1>1. request'[r] = q /\ \A t \in Requests : t # r => request'[t] = request[t]
    BY RequestStep
  <1>2. TypeOK /\ RepliesStand
    BY DEF IInv
  <1>3. \A t \in Requests : request'[t].at = "answered" => request'[t].reply.by = t
    BY <1>1, <1>2 DEF RepliesStand
  <1>4. ASSUME NEW t \in Requests, request'[t].at = "replied"
        PROVE  LET b == request'[t].reply.by IN
               /\ request'[t].header = None => b = t
               /\ request'[b].at = "replied"
               /\ request'[b].path = request'[t].path /\ request'[b].header = request'[t].header
    <2>1. CASE t = r
      BY <1>1, <1>4, <2>1
    <2>2. CASE t # r
      <3>1. request'[t] = request[t] /\ request[t].at = "replied"
        BY <1>1, <1>4, <2>2
      <3>2. request[t].reply.by \in Requests
        BY <1>2, <3>1 DEF TypeOK, RequestState, New, Reply
      <3>3. request[t].reply.by # r
        BY <1>2, <3>1 DEF RepliesStand, RepliesAreOfTheirKey
      <3>4. QED
        BY <1>1, <1>2, <3>1, <3>2, <3>3 DEF RepliesStand, RepliesAreOfTheirKey
    <2>3. QED
      BY <2>1, <2>2
  <1>5. ASSUME NEW replica \in Replicas, NEW k \in DOMAIN store'[replica]
        PROVE  LET b == store'[replica][k].by IN
               /\ request'[b].at = "replied" /\ request'[b].header # None
               /\ KeyOf(request'[b]) = k
    <2>1. CASE store'[replica][k].by = r /\ q.at = "replied" /\ q.header # None /\ KeyOf(q) = k
      BY <1>1, <2>1
    <2>2. CASE k \in DOMAIN store[replica] /\ store'[replica][k] = store[replica][k]
      <3> DEFINE b == store[replica][k].by
      <3>1. request[b].at = "replied" /\ request[b].header # None /\ KeyOf(request[b]) = k
        BY <1>2, <2>2 DEF RepliesStand
      <3>2. b \in Requests /\ b # r
        BY <1>2, <2>2, <3>1 DEF TypeOK, Reply
      <3>3. request'[b] = request[b]
        BY <1>1, <3>2
      <3>4. QED
        BY <2>2, <3>1, <3>3
    <2>3. QED
      BY <2>1, <2>2
  <1>6. QED
    BY <1>3, <1>4, <1>5 DEF RepliesStand, RepliesAreOfTheirKey, KeyOf

LEMMA RepliesStep == IInv /\ Next => RepliesStand'
  <1> SUFFICES ASSUME IInv, Next
               PROVE  RepliesStand'
    OBVIOUS
  <1>1. TypeOK /\ RepliesStand
    BY DEF IInv
  <1>2. ASSUME NEW r \in Requests, NEW q, request' = [request EXCEPT ![r] = q],
               store' = store, request[r].at # "replied", q.at # "replied",
               q.at = "answered" => q.reply.by = r
        PROVE  RepliesStand'
    BY <1>2, RepliesKept
  <1>3. ASSUME NEW r \in Requests, Replay(r)
        PROVE  RepliesStand'
    <2>1. PICK replica \in Replicas, path \in Paths, header \in Headers :
            /\ Cached(replica, path, header)
            /\ request' = [request EXCEPT ![r] =
                 [at |-> "replied", path |-> path, header |-> header,
                  reply |-> store[replica][CacheKey(path, header)]]]
      BY <1>3 DEF Replay
    <2> DEFINE reply == store[replica][CacheKey(path, header)]
               next == [at |-> "replied", path |-> path, header |-> header, reply |-> reply]
    <2>2. header # None /\ CacheKey(path, header) \in DOMAIN store[replica]
      BY <2>1 DEF Cached
    <2>3. reply.by \in Requests
      BY <1>1, <2>2 DEF TypeOK, Reply
    <2>4. request[reply.by].at = "replied" /\ KeyOf(request[reply.by]) = CacheKey(path, header)
      BY <1>1, <2>2 DEF RepliesStand
    <2>5. request[reply.by].path = path /\ request[reply.by].header = header
      BY <2>4 DEF KeyOf, CacheKey
    <2>6. store' = store /\ request[r].at # "replied"
      BY <1>3 DEF Replay, New
    <2>7. next.at = "replied" /\ next.path = path /\ next.header = header /\ next.reply = reply
      OBVIOUS
    <2>8. request' = [request EXCEPT ![r] = next]
      BY <2>1
    <2> HIDE DEF next, reply
    <2>9. QED
      BY <2>2, <2>3, <2>4, <2>5, <2>6, <2>7, <2>8, RepliesKept
  <1>4. ASSUME NEW r \in Requests, CallNext(r)
        PROVE  RepliesStand'
    <2>1. PICK replica \in Replicas, path \in Paths, header \in Headers \cup {None} :
            request' = [request EXCEPT ![r] =
              [at |-> "endpoint", replica |-> replica, path |-> path, header |-> header]]
      BY <1>4 DEF CallNext
    <2> DEFINE next == [at |-> "endpoint", replica |-> replica, path |-> path, header |-> header]
    <2>2. next.at = "endpoint" /\ request' = [request EXCEPT ![r] = next]
      BY <2>1
    <2>3. store' = store /\ request[r].at # "replied"
      BY <1>4 DEF CallNext, New
    <2> HIDE DEF next
    <2>4. QED
      BY <1>2, <2>2, <2>3
  <1>5. ASSUME NEW r \in Requests, Load(r)
        PROVE  RepliesStand'
    <2> DEFINE q == request[r]
               status == IF q.path \in Guarded /\ effects[q.path] > 0 THEN "conflict" ELSE "ok"
               next == [at |-> "loaded", replica |-> q.replica, path |-> q.path,
                        header |-> q.header, status |-> status]
    <2>1. /\ request' = [request EXCEPT ![r] = next] /\ store' = store
          /\ q.at # "replied" /\ next.at = "loaded"
      BY <1>5 DEF Load
    <2> HIDE DEF next
    <2>2. QED
      BY <1>2, <2>1
  <1>6. ASSUME NEW r \in Requests, Answer(r)
        PROVE  RepliesStand'
    <2> DEFINE q == request[r]
               next == [at |-> "answered", replica |-> q.replica, path |-> q.path,
                        header |-> q.header, reply |-> [by |-> r, status |-> q.status]]
    <2>1. request' = [request EXCEPT ![r] = next] /\ store' = store /\ q.at # "replied"
      BY <1>6 DEF Answer
    <2>2. next.at = "answered" /\ next.reply.by = r
      OBVIOUS
    <2> HIDE DEF next
    <2>3. QED
      BY <1>2, <2>1, <2>2
  <1>7. ASSUME NEW r \in Requests, EndpointFails(r) \/ AnswerLost(r)
        PROVE  RepliesStand'
    <2> DEFINE next == [at |-> "failed"]
    <2>1. /\ request' = [request EXCEPT ![r] = next] /\ store' = store
          /\ request[r].at # "replied" /\ next.at = "failed"
      BY <1>7 DEF EndpointFails, AnswerLost
    <2> HIDE DEF next
    <2>2. QED
      BY <1>2, <2>1
  <1>8. ASSUME NEW r \in Requests, Respond(r)
        PROVE  RepliesStand'
    <2> DEFINE q == request[r]
               next == [at |-> "replied", path |-> q.path, header |-> q.header, reply |-> q.reply]
    <2>1. request' = [request EXCEPT ![r] = next] /\ q.at = "answered"
      BY <1>8 DEF Respond
    <2>2. q.reply.by = r
      BY <1>1, <2>1 DEF RepliesStand
    <2>3. /\ next.at = "replied" /\ next.header = q.header /\ next.reply = q.reply
          /\ KeyOf(next) = CacheKey(q.path, q.header)
      BY DEF KeyOf
    <2>4. ASSUME NEW replica \in Replicas, NEW k \in DOMAIN store'[replica]
          PROVE  \/ k \in DOMAIN store[replica] /\ store'[replica][k] = store[replica][k]
                 \/ /\ store'[replica][k].by = r /\ next.at = "replied"
                    /\ next.header # None /\ KeyOf(next) = k
      <3>1. CASE q.header = None
        BY <1>8, <2>4, <3>1 DEF Respond
      <3>2. CASE q.header # None
        <4>1. store'[replica] = IF replica = q.replica
                THEN Put(store[replica], CacheKey(q.path, q.header), q.reply) ELSE store[replica]
          BY <1>8, <3>2 DEF Respond, IInv
        <4>2. QED
          BY <2>2, <2>3, <2>4, <3>2, <4>1 DEF Put
      <3>3. QED
        BY <3>1, <3>2
    <2> HIDE DEF next
    <2>5. QED
      BY <2>1, <2>2, <2>3, <2>4, RepliesKept
  <1>9. ASSUME NEW replica \in Replicas, Restart(replica)
        PROVE  RepliesStand'
    <2>1. \A r \in Requests : /\ request'[r] = request[r] \/ request'[r].at = "failed"
                              /\ request[r].at = "replied" => request'[r] = request[r]
      BY <1>9 DEF Restart, InFlight
    <2>2. \A other \in Replicas :
            store'[other] = IF other = replica THEN [k \in {} |-> None] ELSE store[other]
      BY <1>9 DEF Restart, IInv
    <2>3. \A r \in Requests : request'[r].at = "answered" => request'[r].reply.by = r
      BY <1>1, <2>1 DEF RepliesStand
    <2>4. ASSUME NEW r \in Requests, request'[r].at = "replied"
          PROVE  LET q == request'[r].reply.by IN
                 /\ request'[r].header = None => q = r
                 /\ request'[q].at = "replied"
                 /\ request'[q].path = request'[r].path /\ request'[q].header = request'[r].header
      <3>1. request'[r] = request[r] /\ request[r].at = "replied"
        BY <2>1, <2>4
      <3>2. request[r].reply.by \in Requests
        BY <1>1, <3>1 DEF TypeOK, RequestState, New, Reply
      <3>3. request'[request[r].reply.by] = request[request[r].reply.by]
        BY <1>1, <2>1, <3>1, <3>2 DEF RepliesStand, RepliesAreOfTheirKey
      <3>4. QED
        BY <1>1, <3>1, <3>3 DEF RepliesStand, RepliesAreOfTheirKey
    <2>5. ASSUME NEW other \in Replicas, NEW k \in DOMAIN store'[other]
          PROVE  LET q == store'[other][k].by IN
                 /\ request'[q].at = "replied" /\ request'[q].header # None
                 /\ KeyOf(request'[q]) = k
      <3>1. DOMAIN [j \in {} |-> None] = {}
        OBVIOUS
      <3>2. other # replica
        BY <2>2, <2>5, <3>1
      <3>3. store'[other] = store[other] /\ k \in DOMAIN store[other]
        BY <2>2, <2>5, <3>2
      <3>4. store[other][k].by \in Requests
        BY <1>1, <3>3 DEF TypeOK, Reply
      <3>5. request'[store[other][k].by] = request[store[other][k].by]
        BY <1>1, <2>1, <3>3, <3>4 DEF RepliesStand
      <3>6. QED
        BY <1>1, <3>3, <3>5 DEF RepliesStand
    <2>6. QED
      BY <2>3, <2>4, <2>5 DEF RepliesStand, RepliesAreOfTheirKey, KeyOf
  <1>10. QED
    BY <1>3, <1>4, <1>5, <1>6, <1>7, <1>8, <1>9 DEF Next

-----------------------------------------------------------------------------
(* Keys *)

\* A step that starts nothing for the key and leaves its reply, its counts and the
\* answers that wait for delivery.
LEMMA KeyKept ==
  ASSUME NEW replica \in Replicas, NEW k \in Keys, KeyStands(replica, k),
         Running(replica, k)' \subseteq Running(replica, k),
         \A t \in Running(replica, k) :
           request[t].at = "answered" =>
             t \in Running(replica, k)' /\ request'[t] = request[t],
         store'[replica] = store[replica], acts'[replica][k] = acts[replica][k],
         lost'[replica][k] = lost[replica][k]
  PROVE  KeyStands(replica, k)'
  BY DEF KeyStands, Delivers

LEMMA KeysStep ==
  IInv /\ Next => (\A replica \in Replicas : \A k \in Keys \ overlapped[replica] :
                     KeyStands(replica, k))'
  <1> SUFFICES ASSUME IInv, Next, NEW replica \in Replicas, NEW k \in Keys,
                      k \notin overlapped'[replica]
               PROVE  KeyStands(replica, k)'
    OBVIOUS
  <1>1. TypeOK
    BY DEF IInv
  <1>2. k \notin overlapped[replica] => KeyStands(replica, k)
    BY DEF IInv
  \* A request that does not answer, and does not join or leave what it was not in.
  <1>3. ASSUME NEW r \in Requests, NEW q, request' = [request EXCEPT ![r] = q],
               UNCHANGED <<store, acts, lost, overlapped>>,
               request[r].at # "answered",
               JoinsKey(q, replica, k) => r \in Running(replica, k)
        PROVE  KeyStands(replica, k)'
    <2>1. Running(replica, k)' = (Running(replica, k) \ {r})
                                   \cup (IF JoinsKey(q, replica, k) THEN {r} ELSE {})
      <3>1. request'[r] = q /\ \A t \in Requests : t # r => request'[t] = request[t]
        BY <1>3, RequestStep
      <3>2. QED
        BY <3>1 DEF Running, InFlight, JoinsKey
    <2>2. \A t \in Requests : t # r => request'[t] = request[t]
      BY <1>3, RequestStep
    <2>3. Running(replica, k)' \subseteq Running(replica, k)
      BY <1>3, <2>1
    <2>4. ASSUME NEW t \in Running(replica, k), request[t].at = "answered"
          PROVE  t \in Running(replica, k)' /\ request'[t] = request[t]
      <3>1. t # r /\ t \in Requests
        BY <1>3, <2>4 DEF Running
      <3>2. QED
        BY <2>1, <2>2, <2>4, <3>1
    <2>5. KeyStands(replica, k)
      BY <1>2, <1>3
    <2>6. QED
      BY <1>3, <2>3, <2>4, <2>5, KeyKept
  <1>4. ASSUME NEW r \in Requests, Replay(r)
        PROVE  KeyStands(replica, k)'
    <2>1. PICK other \in Replicas, path \in Paths, header \in Headers :
            request' = [request EXCEPT ![r] =
              [at |-> "replied", path |-> path, header |-> header,
               reply |-> store[other][CacheKey(path, header)]]]
      BY <1>4 DEF Replay
    <2> DEFINE next == [at |-> "replied", path |-> path, header |-> header,
                        reply |-> store[other][CacheKey(path, header)]]
    <2>2. request' = [request EXCEPT ![r] = next] /\ ~JoinsKey(next, replica, k)
      BY <2>1 DEF JoinsKey
    <2>3. UNCHANGED <<store, acts, lost, overlapped>> /\ request[r].at # "answered"
      BY <1>4 DEF Replay, New
    <2> HIDE DEF next
    <2>4. QED
      BY <1>3, <2>2, <2>3
  <1>5. ASSUME NEW r \in Requests, CallNext(r)
        PROVE  KeyStands(replica, k)'
    <2>1. PICK other \in Replicas, path \in Paths, header \in Headers \cup {None} :
            /\ ~Cached(other, path, header)
            /\ overlapped' = [overlapped EXCEPT ![other] =
                 IF Running(other, CacheKey(path, header)) # {}
                   THEN @ \cup {CacheKey(path, header)} ELSE @]
            /\ request' = [request EXCEPT ![r] =
                 [at |-> "endpoint", replica |-> other, path |-> path, header |-> header]]
      BY <1>5 DEF CallNext
    <2> DEFINE next == [at |-> "endpoint", replica |-> other, path |-> path, header |-> header]
    <2>2. /\ request' = [request EXCEPT ![r] = next] /\ request[r].at = "new"
          /\ UNCHANGED <<store, acts, lost>>
      <3>1. request[r] = New /\ UNCHANGED <<store, acts, lost>>
        BY <1>5 DEF CallNext
      <3>2. QED
        BY <2>1, <3>1 DEF New
    <2>3. k \notin overlapped[replica]
      BY <1>1, <2>1 DEF TypeOK
    <2>4. KeyStands(replica, k)
      BY <1>2, <2>3
    <2>5. JoinsKey(next, replica, k) <=>
            other = replica /\ header # None /\ CacheKey(path, header) = k
      BY DEF JoinsKey
    <2>6. next.at = "endpoint"
      OBVIOUS
    <2> HIDE DEF next
    <2>7. r \notin Running(replica, k)
      BY <2>2 DEF Running, InFlight
    <2>8. Running(replica, k)' = Running(replica, k)
                                   \cup (IF JoinsKey(next, replica, k) THEN {r} ELSE {})
      <3>1. request'[r] = next /\ \A t \in Requests : t # r => request'[t] = request[t]
        BY <2>2, RequestStep
      <3>2. QED
        BY <2>7, <3>1 DEF Running, InFlight, JoinsKey
    <2>9. \A t \in Requests : t # r => request'[t] = request[t]
      BY <2>2, RequestStep
    <2>10. CASE JoinsKey(next, replica, k)
      <3>1. Running(replica, k) = {}
        BY <1>1, <2>1, <2>5, <2>10 DEF TypeOK
      <3>2. k \notin DOMAIN store[replica]
        BY <2>1, <2>5, <2>10 DEF Cached
      <3>3. acts[replica][k] <= lost[replica][k]
        BY <2>4, <3>1, <3>2 DEF KeyStands
      <3>4. Running(replica, k)' = {r}
        BY <2>8, <2>10, <3>1
      <3>5. acts'[replica][k] <= lost'[replica][k]
        BY <2>2, <3>3
      <3>6. acts'[replica][k] <= lost'[replica][k] + 1
        BY <1>1, <2>2, <3>5 DEF TypeOK
      <3>7. QED
        BY <2>2, <3>2, <3>4, <3>5, <3>6 DEF KeyStands
    <2>11. CASE ~JoinsKey(next, replica, k)
      <3>1. Running(replica, k)' = Running(replica, k)
        BY <2>8, <2>11
      <3>2. \A t \in Running(replica, k) : request'[t] = request[t]
        BY <2>7, <2>9 DEF Running
      <3>3. QED
        BY <2>2, <2>4, <3>1, <3>2, KeyKept
    <2>12. QED
      BY <2>10, <2>11
  <1>6. ASSUME NEW r \in Requests, Load(r)
        PROVE  KeyStands(replica, k)'
    <2> DEFINE q == request[r]
               status == IF q.path \in Guarded /\ effects[q.path] > 0 THEN "conflict" ELSE "ok"
               next == [at |-> "loaded", replica |-> q.replica, path |-> q.path,
                        header |-> q.header, status |-> status]
    <2>1. /\ request' = [request EXCEPT ![r] = next] /\ UNCHANGED <<store, acts, lost, overlapped>>
          /\ q.at = "endpoint"
      BY <1>6 DEF Load
    <2>2. JoinsKey(next, replica, k) => r \in Running(replica, k)
      BY <2>1 DEF JoinsKey, Running, InFlight
    <2>3. request[r].at # "answered"
      BY <2>1
    <2> HIDE DEF next
    <2>4. QED
      BY <1>3, <2>1, <2>2, <2>3
  <1>7. ASSUME NEW r \in Requests, Answer(r)
        PROVE  KeyStands(replica, k)'
    <2> DEFINE q == request[r]
               next == [at |-> "answered", replica |-> q.replica, path |-> q.path,
                        header |-> q.header, reply |-> [by |-> r, status |-> q.status]]
    <2>1. /\ request' = [request EXCEPT ![r] = next] /\ UNCHANGED <<store, lost, overlapped>>
          /\ q.at = "loaded"
          /\ acts' = [acts EXCEPT ![q.replica] =
               IF q.status = "ok" /\ q.header # None
                 THEN Counted(acts[q.replica], CacheKey(q.path, q.header)) ELSE acts[q.replica]]
      BY <1>7 DEF Answer
    <2>2. JoinsKey(next, replica, k) <=> r \in Running(replica, k)
      BY <2>1 DEF JoinsKey, Running, InFlight
    <2>3. next.at = "answered" /\ next.reply.status = q.status
      OBVIOUS
    <2> HIDE DEF next
    <2>4. Running(replica, k)' = Running(replica, k)
      <3>1. request'[r] = next /\ \A t \in Requests : t # r => request'[t] = request[t]
        BY <2>1, RequestStep
      <3>2. QED
        BY <2>2, <3>1 DEF Running, InFlight, JoinsKey
    <2>5. request'[r] = next /\ \A t \in Requests : t # r => request'[t] = request[t]
      BY <2>1, RequestStep
    <2>6. KeyStands(replica, k)
      BY <1>2, <2>1
    <2>7. CASE r \in Running(replica, k)
      <3>1. /\ q.replica = replica /\ q.header # None /\ CacheKey(q.path, q.header) = k
        BY <2>7 DEF Running
      <3>2. \A t \in Running(replica, k) : t = r
        BY <2>6, <2>7 DEF KeyStands
      <3>3. k \notin DOMAIN store[replica]
        BY <2>6, <2>7 DEF KeyStands
      <3>4. acts[replica][k] <= lost[replica][k]
        BY <2>1, <2>6, <3>2, <3>3 DEF KeyStands, Delivers
      <3>5. acts'[replica] = IF q.status = "ok" THEN Counted(acts[replica], k) ELSE acts[replica]
        BY <1>1, <2>1, <3>1 DEF TypeOK
      <3>6. acts[replica] \in [Keys -> Nat] /\ lost'[replica][k] = lost[replica][k]
            /\ lost[replica][k] \in Nat
        BY <1>1, <2>1 DEF TypeOK
      <3>7. /\ acts'[replica][k] <= lost'[replica][k] + 1
            /\ q.status = "ok" \/ acts'[replica][k] <= lost'[replica][k]
        BY <3>4, <3>5, <3>6 DEF Counted
      <3>8. \A t \in Running(replica, k)' : t = r
        BY <2>4, <3>2
      <3>9. r \in Running(replica, k)' /\ (q.status = "ok" => Delivers(r)')
        BY <2>3, <2>4, <2>5, <2>7 DEF Delivers
      <3>10. k \notin DOMAIN store'[replica]
        BY <2>1, <3>3
      <3>11. QED
        BY <3>7, <3>8, <3>9, <3>10 DEF KeyStands
    <2>8. CASE r \notin Running(replica, k)
      <3>1. acts'[replica][k] = acts[replica][k]
        <4>1. acts[replica] \in [Keys -> Nat]
          BY <1>1 DEF TypeOK
        <4>2. CASE q.replica = replica /\ q.status = "ok" /\ q.header # None
          <5>1. CacheKey(q.path, q.header) # k
            BY <2>1, <2>8, <4>2 DEF Running, InFlight
          <5>2. acts'[replica] = Counted(acts[replica], CacheKey(q.path, q.header))
            BY <1>1, <2>1, <4>2 DEF TypeOK
          <5>3. QED
            BY <4>1, <5>1, <5>2 DEF Counted
        <4>3. CASE ~(q.replica = replica /\ q.status = "ok" /\ q.header # None)
          BY <1>1, <2>1, <4>3 DEF TypeOK
        <4>4. QED
          BY <4>2, <4>3
      <3>2. \A t \in Running(replica, k) : request'[t] = request[t]
        BY <2>5, <2>8 DEF Running
      <3>3. QED
        BY <2>1, <2>4, <2>6, <3>1, <3>2, KeyKept
    <2>9. QED
      BY <2>7, <2>8
  <1>8. ASSUME NEW r \in Requests, EndpointFails(r)
        PROVE  KeyStands(replica, k)'
    <2> DEFINE next == [at |-> "failed"]
    <2>1. /\ request' = [request EXCEPT ![r] = next] /\ UNCHANGED <<store, acts, lost, overlapped>>
          /\ request[r].at # "answered" /\ ~JoinsKey(next, replica, k)
      BY <1>8 DEF EndpointFails, JoinsKey
    <2> HIDE DEF next
    <2>2. QED
      BY <1>3, <2>1
  <1>9. ASSUME NEW r \in Requests, Respond(r)
        PROVE  KeyStands(replica, k)'
    <2> DEFINE q == request[r]
               next == [at |-> "replied", path |-> q.path, header |-> q.header, reply |-> q.reply]
    <2>1. /\ request' = [request EXCEPT ![r] = next] /\ UNCHANGED <<acts, lost, overlapped>>
          /\ q.at = "answered" /\ ~JoinsKey(next, replica, k)
      BY <1>9 DEF Respond, JoinsKey
    <2> HIDE DEF next
    <2>2. Running(replica, k)' = Running(replica, k) \ {r}
      <3>1. request'[r] = next /\ \A t \in Requests : t # r => request'[t] = request[t]
        BY <2>1, RequestStep
      <3>2. QED
        BY <2>1, <3>1 DEF Running, InFlight, JoinsKey
    <2>3. \A t \in Requests : t # r => request'[t] = request[t]
      BY <2>1, RequestStep
    <2>4. KeyStands(replica, k)
      BY <1>2, <2>1
    <2>5. q.header # None =>
            store' = [store EXCEPT ![q.replica] =
                        Put(store[q.replica], CacheKey(q.path, q.header), q.reply)]
      BY <1>9 DEF Respond
    <2>6. q.header = None => store' = store
      BY <1>9 DEF Respond
    <2>7. CASE r \in Running(replica, k)
      <3>1. /\ q.replica = replica /\ q.header # None /\ CacheKey(q.path, q.header) = k
        BY <2>7 DEF Running
      <3>2. Running(replica, k)' = {}
        BY <2>2, <2>4, <2>7 DEF KeyStands
      <3>3. store'[replica] = Put(store[replica], k, q.reply)
        BY <2>5, <3>1 DEF IInv
      <3>4. k \in DOMAIN store'[replica]
        BY <3>3 DEF Put
      <3>5. acts'[replica][k] <= lost'[replica][k] + 1
        BY <2>1, <2>4 DEF KeyStands
      <3>6. QED
        BY <3>2, <3>4, <3>5 DEF KeyStands
    <2>8. CASE r \notin Running(replica, k)
      <3>1. Running(replica, k)' = Running(replica, k)
        BY <2>2, <2>8
      <3>2. \A t \in Running(replica, k) : request'[t] = request[t]
        BY <2>3, <2>8 DEF Running
      <3>3. k \in DOMAIN store'[replica] <=> k \in DOMAIN store[replica]
        <4>1. CASE q.header # None /\ q.replica = replica
          <5>1. CacheKey(q.path, q.header) # k
            BY <2>1, <2>8, <4>1 DEF Running, InFlight
          <5>2. store'[replica] = Put(store[replica], CacheKey(q.path, q.header), q.reply)
            BY <2>5, <4>1 DEF IInv
          <5>3. QED
            BY <5>1, <5>2 DEF Put
        <4>2. CASE ~(q.header # None /\ q.replica = replica)
          BY <2>5, <2>6, <4>2 DEF IInv
        <4>3. QED
          BY <4>1, <4>2
      <3>4. acts'[replica][k] = acts[replica][k] /\ lost'[replica][k] = lost[replica][k]
        BY <2>1
      <3>5. QED
        BY <2>4, <3>1, <3>2, <3>3, <3>4 DEF KeyStands, Delivers
    <2>9. QED
      BY <2>7, <2>8
  <1>10. ASSUME NEW other \in Replicas, Restart(other)
         PROVE  KeyStands(replica, k)'
    <2>1. request' = [r \in Requests |->
            IF InFlight(r) /\ request[r].replica = other THEN [at |-> "failed"] ELSE request[r]]
      BY <1>10 DEF Restart
    <2>2. \A r \in Requests :
            request'[r] = request[r]
              \/ (request[r].replica = other /\ InFlight(r) /\ request'[r].at = "failed")
      BY <2>1
    <2>3. \A r \in Requests :
            InFlight(r) /\ request[r].replica = other => request'[r].at = "failed"
      BY <2>1
    <2>4. CASE other = replica
      <3>1. Running(replica, k)' = {}
        BY <2>2, <2>3, <2>4 DEF Running, InFlight
      <3>2. DOMAIN [j \in {} |-> None] = {}
        OBVIOUS
      <3>3. k \notin DOMAIN store'[replica]
        BY <1>10, <2>4, <3>2 DEF Restart, IInv
      <3>4. acts'[replica][k] = 0 /\ lost'[replica][k] = 0
        BY <1>1, <1>10, <2>4 DEF Restart, TypeOK
      <3>5. QED
        BY <3>1, <3>3, <3>4 DEF KeyStands
    <2>5. CASE other # replica
      <3>1. Running(replica, k)' = Running(replica, k)
        BY <2>2, <2>3, <2>5 DEF Running, InFlight
      <3>2. \A r \in Running(replica, k) : request'[r] = request[r]
        BY <2>2, <2>5 DEF Running
      <3>3. /\ store'[replica] = store[replica] /\ acts'[replica] = acts[replica]
            /\ lost'[replica] = lost[replica] /\ overlapped'[replica] = overlapped[replica]
        BY <1>1, <1>10, <2>5 DEF Restart, IInv, TypeOK
      <3>4. KeyStands(replica, k)
        BY <1>2, <3>3
      <3>5. QED
        BY <3>1, <3>2, <3>3, <3>4, KeyKept
    <2>6. QED
      BY <2>4, <2>5
  <1>11. ASSUME NEW r \in Requests, AnswerLost(r)
         PROVE  KeyStands(replica, k)'
    <2> DEFINE q == request[r]
               key == CacheKey(q.path, q.header)
    <2>1. /\ request' = [request EXCEPT ![r] = [at |-> "failed"]]
          /\ UNCHANGED <<store, acts, overlapped>> /\ q.at = "answered"
          /\ lost' = [lost EXCEPT ![q.replica] =
               IF q.reply.status = "ok" /\ q.header # None
                 THEN Counted(lost[q.replica], key) ELSE lost[q.replica]]
      BY <1>11 DEF AnswerLost
    <2>2. /\ request'[r] = [at |-> "failed"]
          /\ \A t \in Requests : t # r => request'[t] = request[t]
      BY <2>1, RequestStep
    <2>3. Running(replica, k)' = Running(replica, k) \ {r}
      BY <2>2 DEF Running, InFlight
    <2>4. KeyStands(replica, k)
      BY <1>2, <2>1
    <2>5. /\ acts'[replica][k] = acts[replica][k] /\ acts[replica][k] \in Nat
          /\ lost[replica] \in [Keys -> Nat]
      BY <1>1, <2>1 DEF TypeOK
    <2>6. CASE r \in Running(replica, k)
      <3>1. q.replica = replica /\ q.header # None /\ key = k
        BY <2>6 DEF Running
      <3>2. \A t \in Running(replica, k) : t = r
        BY <2>4, <2>6 DEF KeyStands
      <3>3. k \notin DOMAIN store[replica] /\ Running(replica, k)' = {}
        BY <2>3, <2>4, <2>6, <3>2 DEF KeyStands
      <3>4. lost'[replica] = IF q.reply.status = "ok" THEN Counted(lost[replica], k) ELSE lost[replica]
        BY <1>1, <2>1, <3>1 DEF TypeOK
      <3>5. CASE q.reply.status = "ok"
        <4>1. lost'[replica][k] = lost[replica][k] + 1
          BY <2>5, <3>4, <3>5 DEF Counted
        <4>2. /\ acts'[replica][k] <= lost'[replica][k]
              /\ acts'[replica][k] <= lost'[replica][k] + 1
          BY <2>4, <2>5, <4>1 DEF KeyStands
        <4>3. QED
          BY <2>1, <3>3, <4>2 DEF KeyStands
      <3>6. CASE q.reply.status # "ok"
        <4>1. lost'[replica][k] = lost[replica][k] /\ acts[replica][k] <= lost[replica][k]
          BY <2>4, <3>2, <3>3, <3>4, <3>6 DEF KeyStands, Delivers
        <4>2. /\ acts'[replica][k] <= lost'[replica][k]
              /\ acts'[replica][k] <= lost'[replica][k] + 1
          BY <2>5, <4>1
        <4>3. QED
          BY <2>1, <3>3, <4>2 DEF KeyStands
      <3>7. QED
        BY <3>5, <3>6
    <2>7. CASE r \notin Running(replica, k)
      <3>1. Running(replica, k)' = Running(replica, k)
        BY <2>3, <2>7
      <3>2. \A t \in Running(replica, k) : request'[t] = request[t]
        BY <2>2, <2>7 DEF Running
      <3>3. lost'[replica][k] = lost[replica][k]
        <4>1. CASE q.replica = replica /\ q.header # None
          <5>1. key # k
            BY <2>1, <2>7, <4>1 DEF Running, InFlight
          <5>2. lost'[replica] \in {lost[replica], Counted(lost[replica], key)}
            BY <1>1, <2>1, <4>1 DEF TypeOK
          <5>3. QED
            BY <2>5, <5>1, <5>2 DEF Counted
        <4>2. CASE ~(q.replica = replica /\ q.header # None)
          BY <1>1, <2>1, <4>2 DEF TypeOK
        <4>3. QED
          BY <4>1, <4>2
      <3>4. store'[replica] = store[replica]
        BY <2>1
      <3>5. QED
        BY <2>4, <2>5, <3>1, <3>2, <3>3, <3>4, KeyKept
    <2>8. QED
      BY <2>6, <2>7
  <1>12. QED
    BY <1>4, <1>5, <1>6, <1>7, <1>8, <1>9, <1>10, <1>11 DEF Next

-----------------------------------------------------------------------------
(* Guarded endpoints *)

\* A step that does not act for the key: who is about to act was about to before, or
\* has just found a row on which nothing has acted.
LEMMA GuardKept ==
  ASSUME NEW replica \in Replicas, NEW k \in Keys, GuardStands(replica, k),
         effects[k[1]] \in Nat, effects'[k[1]] \in Nat, effects'[k[1]] >= effects[k[1]],
         acts[replica][k] \in Nat, acts'[replica][k] = acts[replica][k],
         \A t \in Running(replica, k)' :
           request'[t].at = "loaded" /\ request'[t].status = "ok" =>
             \/ t \in Running(replica, k) /\ request'[t] = request[t]
             \/ k[1] \in Guarded => effects[k[1]] = 0
  PROVE  GuardStands(replica, k)'
  BY DEF GuardStands

LEMMA GuardsStep ==
  IInv /\ Next => (\A replica \in Replicas : \A k \in Keys \ overlapped[replica] :
                     GuardStands(replica, k))'
  <1> SUFFICES ASSUME IInv, Next, NEW replica \in Replicas, NEW k \in Keys,
                      k \notin overlapped'[replica]
               PROVE  GuardStands(replica, k)'
    OBVIOUS
  <1>1. /\ TypeOK /\ k[1] \in Paths
        /\ effects[k[1]] \in Nat /\ acts[replica] \in [Keys -> Nat]
    BY DEF IInv, TypeOK, Keys
  <1>2. k \notin overlapped[replica] => KeyStands(replica, k) /\ GuardStands(replica, k)
    BY DEF IInv
  \* A request's step that does not act.
  <1>3. ASSUME NEW r \in Requests, NEW q, request' = [request EXCEPT ![r] = q],
               UNCHANGED <<effects, acts>>, k \notin overlapped[replica],
               q.at = "loaded" /\ q.status = "ok" /\ JoinsKey(q, replica, k) =>
                 (k[1] \in Guarded => effects[k[1]] = 0)
        PROVE  GuardStands(replica, k)'
    <2>1. request'[r] = q /\ \A t \in Requests : t # r => request'[t] = request[t]
      BY <1>3, RequestStep
    <2>2. ASSUME NEW t \in Running(replica, k)',
                 request'[t].at = "loaded" /\ request'[t].status = "ok"
          PROVE  \/ t \in Running(replica, k) /\ request'[t] = request[t]
                 \/ k[1] \in Guarded => effects[k[1]] = 0
      <3>1. CASE t = r
        BY <1>3, <2>1, <2>2, <3>1 DEF Running, InFlight, JoinsKey
      <3>2. CASE t # r
        BY <2>1, <2>2, <3>2 DEF Running, InFlight
      <3>3. QED
        BY <3>1, <3>2
    <2>3. QED
      BY <1>1, <1>2, <1>3, <2>2, GuardKept
  <1>4. ASSUME NEW r \in Requests, Replay(r) \/ EndpointFails(r) \/ AnswerLost(r) \/ Respond(r)
        PROVE  GuardStands(replica, k)'
    <2>1. PICK q : request' = [request EXCEPT ![r] = q] /\ q.at \in {"replied", "failed"}
      <3>1. CASE Replay(r)
        <4>1. PICK other \in Replicas, path \in Paths, header \in Headers :
                request' = [request EXCEPT ![r] =
                  [at |-> "replied", path |-> path, header |-> header,
                   reply |-> store[other][CacheKey(path, header)]]]
          BY <3>1 DEF Replay
        <4> DEFINE q == [at |-> "replied", path |-> path, header |-> header,
                         reply |-> store[other][CacheKey(path, header)]]
        <4>2. request' = [request EXCEPT ![r] = q] /\ q.at = "replied"
          BY <4>1
        <4> HIDE DEF q
        <4>3. QED
          BY <4>2
      <3>2. CASE EndpointFails(r) \/ AnswerLost(r)
        <4> DEFINE q == [at |-> "failed"]
        <4>1. request' = [request EXCEPT ![r] = q] /\ q.at = "failed"
          BY <3>2 DEF EndpointFails, AnswerLost
        <4> HIDE DEF q
        <4>2. QED
          BY <4>1
      <3>3. CASE Respond(r)
        <4> DEFINE q == [at |-> "replied", path |-> request[r].path,
                         header |-> request[r].header, reply |-> request[r].reply]
        <4>1. request' = [request EXCEPT ![r] = q] /\ q.at = "replied"
          BY <3>3 DEF Respond
        <4> HIDE DEF q
        <4>2. QED
          BY <4>1
      <3>4. QED
        BY <1>4, <3>1, <3>2, <3>3
    <2>2. UNCHANGED <<effects, acts, overlapped>>
      BY <1>4 DEF Replay, EndpointFails, AnswerLost, Respond
    <2>3. QED
      BY <1>3, <2>1, <2>2
  <1>5. ASSUME NEW r \in Requests, CallNext(r)
        PROVE  GuardStands(replica, k)'
    <2>1. PICK other \in Replicas, path \in Paths, header \in Headers \cup {None} :
            /\ overlapped' = [overlapped EXCEPT ![other] =
                 IF Running(other, CacheKey(path, header)) # {}
                   THEN @ \cup {CacheKey(path, header)} ELSE @]
            /\ request' = [request EXCEPT ![r] =
                 [at |-> "endpoint", replica |-> other, path |-> path, header |-> header]]
      BY <1>5 DEF CallNext
    <2> DEFINE next == [at |-> "endpoint", replica |-> other, path |-> path, header |-> header]
    <2>2. request' = [request EXCEPT ![r] = next] /\ next.at = "endpoint"
      BY <2>1
    <2>3. k \notin overlapped[replica]
      BY <1>1, <2>1 DEF TypeOK
    <2>4. UNCHANGED <<effects, acts>>
      BY <1>5 DEF CallNext
    <2> HIDE DEF next
    <2>5. QED
      BY <1>3, <2>2, <2>3, <2>4
  <1>6. ASSUME NEW r \in Requests, Load(r)
        PROVE  GuardStands(replica, k)'
    <2> DEFINE q == request[r]
               status == IF q.path \in Guarded /\ effects[q.path] > 0 THEN "conflict" ELSE "ok"
               next == [at |-> "loaded", replica |-> q.replica, path |-> q.path,
                        header |-> q.header, status |-> status]
    <2>1. request' = [request EXCEPT ![r] = next] /\ UNCHANGED <<effects, acts, overlapped>>
      BY <1>6 DEF Load
    <2>2. JoinsKey(next, replica, k) => k[1] = q.path
      BY DEF JoinsKey, CacheKey
    <2>3. next.status = "ok" /\ q.path \in Guarded => ~(effects[q.path] > 0)
      OBVIOUS
    <2>4. next.at = "loaded" /\ next.status = "ok" /\ JoinsKey(next, replica, k) =>
            (k[1] \in Guarded => effects[k[1]] = 0)
      BY <1>1, <2>2, <2>3
    <2> HIDE DEF next
    <2>5. QED
      BY <1>3, <2>1, <2>4
  <1>7. ASSUME NEW r \in Requests, Answer(r)
        PROVE  GuardStands(replica, k)'
    <2> DEFINE q == request[r]
               next == [at |-> "answered", replica |-> q.replica, path |-> q.path,
                        header |-> q.header, reply |-> [by |-> r, status |-> q.status]]
    <2>1. /\ request' = [request EXCEPT ![r] = next] /\ overlapped' = overlapped
          /\ q.at = "loaded"
          /\ effects' = [effects EXCEPT ![q.path] =
               IF q.status = "ok" THEN effects[q.path] + 1 ELSE effects[q.path]]
          /\ acts' = [acts EXCEPT ![q.replica] =
               IF q.status = "ok" /\ q.header # None
                 THEN Counted(acts[q.replica], CacheKey(q.path, q.header)) ELSE acts[q.replica]]
      BY <1>7 DEF Answer
    <2>2. next.at = "answered"
      OBVIOUS
    <2> HIDE DEF next
    <2>3. request'[r] = next /\ \A t \in Requests : t # r => request'[t] = request[t]
      BY <2>1, RequestStep
    <2>4. KeyStands(replica, k) /\ GuardStands(replica, k)
      BY <1>2, <2>1
    <2>5. effects \in [Paths -> Nat] /\ q.path \in Paths /\ q.replica \in Replicas
      BY <1>1, <2>1 DEF TypeOK, RequestState, New
    <2>6. effects'[k[1]] \in Nat /\ effects'[k[1]] >= effects[k[1]]
      BY <1>1, <2>1, <2>5
    <2>7. ASSUME NEW t \in Running(replica, k)', request'[t].at = "loaded"
          PROVE  t \in Running(replica, k) /\ request'[t] = request[t]
      <3>1. t \in Requests /\ t # r
        BY <2>2, <2>3, <2>7 DEF Running
      <3>2. QED
        BY <2>3, <2>7, <3>1 DEF Running, InFlight
    <2>8. CASE r \in Running(replica, k) /\ q.status = "ok"
      <3>1. /\ q.replica = replica /\ q.header # None /\ CacheKey(q.path, q.header) = k
            /\ k[1] = q.path
        BY <2>8 DEF Running, CacheKey
      <3>2. acts'[replica] = Counted(acts[replica], k) /\ effects'[k[1]] = effects[k[1]] + 1
        BY <1>1, <2>1, <2>5, <2>8, <3>1 DEF TypeOK
      <3>3. k[1] \in Guarded => acts[replica][k] = 0
        BY <2>1, <2>4, <2>8 DEF GuardStands
      <3>4. k[1] \in Guarded => acts'[replica][k] = 1 /\ effects'[k[1]] > 0
        BY <1>1, <3>2, <3>3 DEF Counted
      <3>5. \A t \in Running(replica, k)' : request'[t].at # "loaded"
        BY <2>2, <2>3, <2>4, <2>7, <2>8 DEF KeyStands
      <3>6. QED
        BY <3>4, <3>5 DEF GuardStands
    <2>9. CASE ~(r \in Running(replica, k) /\ q.status = "ok")
      <3>1. acts'[replica][k] = acts[replica][k]
        <4>1. CASE q.replica = replica /\ q.status = "ok" /\ q.header # None
          <5>1. CacheKey(q.path, q.header) # k
            BY <2>1, <2>9, <4>1 DEF Running, InFlight
          <5>2. acts'[replica] = Counted(acts[replica], CacheKey(q.path, q.header))
            BY <1>1, <2>1, <4>1 DEF TypeOK
          <5>3. QED
            BY <1>1, <5>1, <5>2 DEF Counted
        <4>2. CASE ~(q.replica = replica /\ q.status = "ok" /\ q.header # None)
          BY <1>1, <2>1, <4>2 DEF TypeOK
        <4>3. QED
          BY <4>1, <4>2
      <3>2. QED
        BY <1>1, <2>4, <2>6, <2>7, <3>1, GuardKept
    <2>10. QED
      BY <2>8, <2>9
  <1>8. ASSUME NEW other \in Replicas, Restart(other)
        PROVE  GuardStands(replica, k)'
    <2>1. \A r \in Requests :
            \/ request'[r] = request[r]
            \/ request[r].replica = other /\ InFlight(r) /\ request'[r].at = "failed"
      BY <1>8 DEF Restart
    <2>2. effects' = effects
      BY <1>8 DEF Restart
    <2>3. CASE other = replica
      <3>1. acts'[replica][k] = 0
        BY <1>1, <1>8, <2>3 DEF Restart, TypeOK
      <3>2. QED
        BY <3>1 DEF GuardStands
    <2>4. CASE other # replica
      <3>1. acts'[replica] = acts[replica] /\ overlapped'[replica] = overlapped[replica]
        BY <1>1, <1>8, <2>4 DEF Restart, TypeOK
      <3>2. GuardStands(replica, k)
        BY <1>2, <3>1
      <3>3. \A t \in Running(replica, k)' :
              request'[t].at = "loaded" => t \in Running(replica, k) /\ request'[t] = request[t]
        BY <2>1 DEF Running, InFlight
      <3>4. QED
        BY <1>1, <2>2, <3>1, <3>2, <3>3, GuardKept
    <2>5. QED
      BY <2>3, <2>4
  <1>9. QED
    BY <1>4, <1>5, <1>6, <1>7, <1>8 DEF Next
-----------------------------------------------------------------------------
(* The theorem *)

LEMMA StepInvariant == IInv /\ [Next]_vars => IInv'
  <1> SUFFICES ASSUME IInv, [Next]_vars
               PROVE  IInv'
    OBVIOUS
  <1>1. CASE Next
    <2>1. TypeOK' /\ RepliesStand'
      BY <1>1, TypeStep, RepliesStep
    <2>2. (\A replica \in Replicas : \A k \in Keys \ overlapped[replica] :
             KeyStands(replica, k) /\ GuardStands(replica, k))'
      BY <1>1, KeysStep, GuardsStep
    <2>3. store' = [replica \in Replicas |-> store'[replica]]
      BY <1>1 DEF IInv, Next, Replay, CallNext, Load, Answer, EndpointFails, AnswerLost, Respond, Restart
    <2>4. request' = [r \in Requests |-> request'[r]]
      BY <1>1 DEF IInv, Next, Replay, CallNext, Load, Answer, EndpointFails, AnswerLost, Respond, Restart
    <2>5. QED
      BY <2>1, <2>2, <2>3, <2>4 DEF IInv
  <1>2. CASE UNCHANGED vars
    <2>1. UNCHANGED <<store, effects, request, acts, lost, overlapped, restarts>>
      BY <1>2 DEF vars
    <2>2. TypeOK'
      BY <2>1 DEF IInv, TypeOK
    <2>3. RepliesStand'
      BY <2>1 DEF IInv, RepliesStand, RepliesAreOfTheirKey
    <2>4. ASSUME NEW replica \in Replicas, NEW k \in Keys, k \notin overlapped'[replica]
          PROVE  KeyStands(replica, k)' /\ GuardStands(replica, k)'
      <3>1. Running(replica, k)' = Running(replica, k)
        BY <2>1 DEF Running, InFlight
      <3>2. KeyStands(replica, k) /\ GuardStands(replica, k)
        BY <2>1, <2>4 DEF IInv
      <3>3. QED
        BY <2>1, <3>1, <3>2 DEF KeyStands, GuardStands, Delivers
    <2>5. QED
      BY <2>1, <2>2, <2>3, <2>4 DEF IInv
  <1>3. QED
    BY <1>1, <1>2

\* For any number of requests, replicas, endpoints and restarts: a client that retries
\* one request at a time is acted for, in one life of its replica, at most once more
\* than answers of its acts were lost, at most once by a guarded endpoint; and every
\* reply is of a request to the same endpoint with the same key.
THEOREM RetriesActOnLostAnswers == Spec => [](TypeOK /\ OnlyLostAnswersActAgain /\ RepliesAreOfTheirKey)
  <1>1. IInv => TypeOK /\ OnlyLostAnswersActAgain /\ RepliesAreOfTheirKey
    BY DEF IInv, RepliesStand, KeyStands, GuardStands, OnlyLostAnswersActAgain
  <1>2. QED
    BY <1>1, InitInvariant, StepInvariant, PTL DEF Spec

\* idempotency.py: what a key is answered with is the reply to a request of that key
\* and path, on whichever replica.
THEOREM RepliesAreMatched == Spec => []RepliesAreOfTheirKey
  BY RetriesActOnLostAnswers, PTL

\* idempotency.py: stores, requests and replicas stay well formed.
THEOREM MiddlewareIsTyped == Spec => []TypeOK
  BY RetriesActOnLostAnswers, PTL

-----------------------------------------------------------------------------
(* A quiet key *)

\* No step but a lookup that finds nothing lets a request of a key begin to run.
LEMMA OnlyMissesRun ==
  ASSUME IInv, NEW r \in Requests, NEW q, request' = [request EXCEPT ![r] = q],
         NEW replica \in Replicas, NEW k, JoinsKey(q, replica, k) => r \in Running(replica, k)
  PROVE  Running(replica, k)' \subseteq Running(replica, k)
  <1>1. request'[r] = q /\ \A t \in Requests : t # r => request'[t] = request[t]
    BY RequestStep
  <1>2. \A t \in Requests : t # r => (t \in Running(replica, k)' <=> t \in Running(replica, k))
    BY <1>1 DEF Running, InFlight
  <1>3. r \in Running(replica, k)' => JoinsKey(q, replica, k)
    BY <1>1 DEF Running, InFlight, JoinsKey
  <1>4. Running(replica, k)' \subseteq Requests
    BY DEF Running
  <1> QED
    BY <1>2, <1>3, <1>4

LEMMA QuietStep ==
  ASSUME IInv, [Next]_vars, NEW replica \in Replicas, NEW k \in DOMAIN store[replica],
         Running(replica, k) = {}
  PROVE  \/ store'[replica] = [j \in {} |-> None]
         \/ /\ k \in DOMAIN store'[replica] /\ store'[replica][k] = store[replica][k]
            /\ Running(replica, k)' = {}
  <1>1. TypeOK /\ store = [p \in Replicas |-> store[p]]
    BY DEF IInv
  <1>2. ASSUME NEW r \in Requests, NEW q, request' = [request EXCEPT ![r] = q],
               ~JoinsKey(q, replica, k), UNCHANGED store
        PROVE  k \in DOMAIN store'[replica] /\ store'[replica][k] = store[replica][k]
               /\ Running(replica, k)' = {}
    BY <1>2, OnlyMissesRun
  <1>3. \A r \in Requests : ~JoinsKey(request[r], replica, k)
    BY DEF Running, InFlight, JoinsKey
  <1>4. ASSUME NEW r \in Requests, Replay(r)
        PROVE  \E q : /\ request' = [request EXCEPT ![r] = q] /\ ~JoinsKey(q, replica, k)
                      /\ UNCHANGED store
    <2>1. PICK p \in Replicas, path \in Paths, header \in Headers :
            request' = [request EXCEPT ![r] =
              [at |-> "replied", path |-> path, header |-> header,
               reply |-> store[p][CacheKey(path, header)]]]
      BY <1>4 DEF Replay
    <2> DEFINE q == [at |-> "replied", path |-> path, header |-> header,
                     reply |-> store[p][CacheKey(path, header)]]
    <2>2. request' = [request EXCEPT ![r] = q] /\ q.at = "replied"
      BY <2>1
    <2> HIDE DEF q
    <2> QED
      BY <1>4, <2>2 DEF Replay, JoinsKey
  <1>5. ASSUME NEW r \in Requests, CallNext(r)
        PROVE  \E q : /\ request' = [request EXCEPT ![r] = q] /\ ~JoinsKey(q, replica, k)
                      /\ UNCHANGED store
    <2>1. PICK p \in Replicas, path \in Paths, header \in Headers \cup {None} :
            /\ ~Cached(p, path, header)
            /\ request' = [request EXCEPT ![r] =
                 [at |-> "endpoint", replica |-> p, path |-> path, header |-> header]]
      BY <1>5 DEF CallNext
    <2> DEFINE q == [at |-> "endpoint", replica |-> p, path |-> path, header |-> header]
    <2>2. /\ request' = [request EXCEPT ![r] = q]
          /\ q.replica = p /\ q.path = path /\ q.header = header
      BY <2>1
    <2> HIDE DEF q
    <2>3. ~JoinsKey(q, replica, k)
      BY <2>1, <2>2 DEF JoinsKey, Cached
    <2> QED
      BY <1>5, <2>2, <2>3 DEF CallNext
  <1>6. ASSUME NEW r \in Requests, Load(r) \/ Answer(r) \/ EndpointFails(r) \/ AnswerLost(r)
        PROVE  \E q : /\ request' = [request EXCEPT ![r] = q] /\ ~JoinsKey(q, replica, k)
                      /\ UNCHANGED store
    <2>1. PICK q : /\ request' = [request EXCEPT ![r] = q]
                   /\ \/ q.at = "failed"
                      \/ /\ request[r].at \in {"endpoint", "loaded"}
                         /\ q.replica = request[r].replica /\ q.path = request[r].path
                         /\ q.header = request[r].header
      <3>1. CASE Load(r) \/ Answer(r)
        BY <3>1 DEF Load, Answer
      <3>2. CASE EndpointFails(r) \/ AnswerLost(r)
        <4> DEFINE q == [at |-> "failed"]
        <4>1. request' = [request EXCEPT ![r] = q] /\ q.at = "failed"
          BY <3>2 DEF EndpointFails, AnswerLost
        <4> HIDE DEF q
        <4>2. QED
          BY <4>1
      <3>3. QED
        BY <1>6, <3>1, <3>2
    <2>2. ~JoinsKey(q, replica, k)
      BY <1>3, <2>1 DEF JoinsKey
    <2> QED
      BY <1>6, <2>1, <2>2 DEF Load, Answer, EndpointFails, AnswerLost
  <1>7. ASSUME NEW r \in Requests, Respond(r)
        PROVE  k \in DOMAIN store'[replica] /\ store'[replica][k] = store[replica][k]
               /\ Running(replica, k)' = {}
    <2> DEFINE q == request[r]
               done == [at |-> "replied", path |-> q.path, header |-> q.header, reply |-> q.reply]
    <2>1. request' = [request EXCEPT ![r] = done] /\ done.at = "replied" /\ q.at = "answered"
      BY <1>7 DEF Respond
    <2> HIDE DEF done
    <2>2. Running(replica, k)' = {}
      BY <2>1, OnlyMissesRun DEF JoinsKey
    <2>3. CASE q.header = None
      BY <1>7, <2>2, <2>3 DEF Respond
    <2>4. CASE q.header # None
      <3>1. store' = [store EXCEPT ![q.replica] =
                        Put(store[q.replica], CacheKey(q.path, q.header), q.reply)]
        BY <1>7, <2>4 DEF Respond
      <3>2. ~(q.replica = replica /\ CacheKey(q.path, q.header) = k)
        BY <1>3, <2>1, <2>4 DEF JoinsKey
      <3>3. CASE q.replica = replica
        <4>1. store'[replica] = Put(store[replica], CacheKey(q.path, q.header), q.reply)
          BY <1>1, <3>1, <3>3
        <4> QED
          BY <2>2, <3>2, <3>3, <4>1 DEF Put
      <3>4. CASE q.replica # replica
        BY <1>1, <2>2, <3>1, <3>4
      <3> QED
        BY <3>3, <3>4
    <2> QED
      BY <2>3, <2>4
  <1>8. ASSUME NEW p \in Replicas, Restart(p)
        PROVE  \/ store'[replica] = [j \in {} |-> None]
               \/ /\ k \in DOMAIN store'[replica] /\ store'[replica][k] = store[replica][k]
                  /\ Running(replica, k)' = {}
    <2>1. CASE p = replica
      BY <1>1, <1>8, <2>1 DEF Restart
    <2>2. CASE p # replica
      <3>1. store'[replica] = store[replica]
        BY <1>1, <1>8, <2>2 DEF Restart
      <3>2. \A r \in Requests : request'[r] = [at |-> "failed"] \/ request'[r] = request[r]
        BY <1>8 DEF Restart
      <3>3. \A r \in Requests : r \in Running(replica, k)' => r \in Running(replica, k)
        BY <3>2 DEF Running, InFlight
      <3>4. Running(replica, k)' \subseteq Requests
        BY DEF Running
      <3> QED
        BY <3>1, <3>3, <3>4
    <2> QED
      BY <2>1, <2>2
  <1>9. CASE UNCHANGED vars
    BY <1>9 DEF vars, Running, InFlight
  <1>10. ASSUME NEW r \in Requests,
                \/ Replay(r) \/ CallNext(r) \/ Load(r) \/ Answer(r)
                \/ EndpointFails(r) \/ AnswerLost(r)
         PROVE  k \in DOMAIN store'[replica] /\ store'[replica][k] = store[replica][k]
                /\ Running(replica, k)' = {}
    BY <1>2, <1>4, <1>5, <1>6, <1>10
  <1> QED
    BY <1>7, <1>8, <1>9, <1>10 DEF Next

\* idempotency.py: once no request of a key runs, its stored reply stands and its
\* endpoint does not run again until the replica restarts.
THEOREM QuietKeysStaySettled == Spec => QuietKeyIsSettled
  <1>1. IInv /\ [Next]_vars =>
          [\A replica \in Replicas : \A k \in DOMAIN store[replica] :
             Running(replica, k) = {} =>
               \/ store'[replica] = [j \in {} |-> None]
               \/ /\ k \in DOMAIN store'[replica] /\ store'[replica][k] = store[replica][k]
                  /\ Running(replica, k)' = {}]_vars
    BY QuietStep
  <1>2. QED
    BY <1>1, InitInvariant, StepInvariant, PTL DEF Spec, QuietKeyIsSettled

=============================================================================
