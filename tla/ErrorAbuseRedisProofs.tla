----------------------- MODULE ErrorAbuseRedisProofs -----------------------
(***************************************************************************)
(* Proofs about ErrorAbuseRedis: a request is parked exactly as long as    *)
(* one command on one connection will call it back, and a worker never has *)
(* a second connection (RInv); the breaker of a worker opens in time, and  *)
(* Redis holds every error it counted, once, so that it bans no identity   *)
(* too early (EInv).                                                       *)
(***************************************************************************)
EXTENDS ErrorAbuseRedis, FiniteSetTheorems, SequenceTheorems,
        WellFoundedInduction, TLAPS

-----------------------------------------------------------------------------
(***************************************************************************)
(* Induction up to a natural.                                              *)
(***************************************************************************)

\* A nonempty set of naturals has a least element.
LEMMA LeastNatural ==
    ASSUME NEW S \in SUBSET Nat, S # {}
    PROVE  \E m \in S : \A n \in S : m <= n
<1> DEFINE R == OpToRel(<, Nat)
<1>1. R = {ss \in Nat \X Nat : ss[1] < ss[2]}
  BY Zenon DEF OpToRel
<1>2. \A a, b \in Nat : a < b => <<a, b>> \in R
  BY <1>1
<1>3. IsWellFoundedOn(R, Nat)
  BY NatLessThanWellFounded
<1> HIDE DEF R
<1>4. PICK m \in S : \A n \in S : <<n, m>> \notin R
  BY <1>3, WFMin
<1>5. \A n \in S : ~ (n < m)
  <2> SUFFICES ASSUME NEW n \in S, n < m PROVE FALSE
    BY Zenon
  <2> QED
    BY <1>2, <1>4, Zenon
<1>6. \A n \in S : m <= n
  BY <1>5
<1> QED
  BY <1>6, Zenon

\* Induction up to n, on membership in a set.
LEMMA UpTo ==
    ASSUME NEW n \in Nat, NEW S, 0 \in S,
           \A m \in 1 .. n : m - 1 \in S => m \in S
    PROVE  \A m \in 0 .. n : m \in S
<1> DEFINE Bad == {m \in 0 .. n : m \notin S}
<1>1. SUFFICES ASSUME Bad # {} PROVE FALSE
  BY Zenon
<1>2. Bad \in SUBSET Nat
  OBVIOUS
<1>3. PICK m \in Bad : \A k \in Bad : m <= k
  BY <1>1, <1>2, LeastNatural, Zenon
<1>4. m \in 1 .. n /\ m - 1 \in 0 .. n
  BY <1>3
<1>5. m - 1 \notin Bad
  BY <1>3, <1>4
<1> QED
  BY <1>3, <1>4, <1>5

-----------------------------------------------------------------------------
(***************************************************************************)
(* The invariant of the requests and the connections.                      *)
(***************************************************************************)

Op == {"HELLO", "LOAD", "GET", "EVAL"}

Conn == {"none", "connecting", "open", "closing", "stale"}

Stage == {"free", "preaccess", "parked", "passed", "rejected"}

NonceType == (Worker \cup {NoRequest}) \X Nat

Answer == {"none", "OK", "ERROR", "STRING", "NIL", "ARRAY", "NOSCRIPT", "NULL"}

\* The commands about an identity name it.
CommandType ==
    {c \in [op : Op, req : Request \cup {NoRequest}, key : Key \cup {NoRequest},
            nonce : NonceType, reply : Answer, value : Nat] :
        c.op \in {"GET", "EVAL"} => c.key \in Key}

\* The fields of a worker that the argument is about have a type; the others
\* are just there.
WorkerOK(s) ==
    s \in [conn : Conn, ready : BOOLEAN, timer : BOOLEAN, sequence : Nat,
           exiting : BOOLEAN, denied : BOOLEAN, cut : BOOLEAN,
           backoff : {s.backoff}, failures : {s.failures},
           breaker : {s.breaker}]

RequestOK(q) ==
    /\ q \in [stage : Stage, worker : Worker \cup {NoRequest},
              key : Key \cup {NoRequest}, until : {q.until}]
    /\ q.stage # "free" => q.worker \in Worker /\ q.key \in Key

DbType == [up : BOOLEAN, script : BOOLEAN,
           events : [Key -> SUBSET [at : Nat, nonce : NonceType]],
           block : [Key -> [deadline : Nat, ends : Nat]]]

Types ==
    /\ clock \in Nat
    /\ db \in DbType
    /\ worker = [w \in Worker |-> worker[w]]
    /\ \A w \in Worker : WorkerOK(worker[w])
    /\ queue \in [Worker -> Seq(CommandType)]
    /\ req = [r \in Request |-> req[r]]
    /\ \A r \in Request : RequestOK(req[r])

\* Commands wait only on an established connection, and the timer runs only
\* when there is none.
Connections ==
    \A w \in Worker :
        /\ worker[w].conn \notin {"open", "closing"} => queue[w] = <<>>
        /\ worker[w].timer => worker[w].conn = "none"

\* A command with a request is the GET of a request parked on that worker.
CalledBack ==
    \A w \in Worker : \A i \in DOMAIN queue[w] :
        queue[w][i].req # NoRequest =>
            /\ req[queue[w][i].req].stage = "parked"
            /\ req[queue[w][i].req].worker = w

\* No request is called back twice.
CalledOnce ==
    \A w \in Worker : \A i, j \in DOMAIN queue[w] :
        queue[w][i].req = queue[w][j].req /\ queue[w][i].req # NoRequest
            => i = j

\* No parked request is forgotten.
NotForgotten ==
    \A r \in Request :
        req[r].stage = "parked" =>
            \E i \in DOMAIN queue[req[r].worker] :
                queue[req[r].worker][i].req = r

Parking == CalledBack /\ CalledOnce /\ NotForgotten

\* The inductive invariant.
RInv == Types /\ Connections /\ Parking

-----------------------------------------------------------------------------
(***************************************************************************)
(* What the invariant says.                                                *)
(***************************************************************************)

LEMMA RInvOneConnection == RInv => OneConnection
BY DEF RInv, Connections, OneConnection

LEMMA PendingFacts ==
    ASSUME NEW r
    PROVE  \A x : x \in Pending(r) <=>
               \E w \in Worker : \E i \in DOMAIN queue[w] :
                   x = <<w, i>> /\ queue[w][i].req = r
BY DEF Pending, Positions

LEMMA RInvParkedOnce == RInv => ParkedOnce
<1> SUFFICES ASSUME RInv, NEW r \in Request
             PROVE  Cardinality(Pending(r))
                        = IF req[r].stage = "parked" THEN 1 ELSE 0
  BY DEF ParkedOnce
<1> DEFINE P == Pending(r)
<1>1. r # NoRequest
  BY RedisParameters
<1>2. \A x \in P : \E w \in Worker : \E i \in DOMAIN queue[w] :
          /\ x = <<w, i>> /\ queue[w][i].req = r
          /\ req[r].stage = "parked" /\ req[r].worker = w
  BY <1>1, PendingFacts DEF RInv, Parking, CalledBack
<1>3. CASE req[r].stage = "parked"
  <2> DEFINE w == req[r].worker
  <2>1. w \in Worker
    BY <1>3 DEF RInv, Types, RequestOK
  <2>2. PICK i \in DOMAIN queue[w] : queue[w][i].req = r
    BY <1>3 DEF RInv, Parking, NotForgotten
  <2>3. <<w, i>> \in P
    BY <2>1, <2>2, PendingFacts
  <2>4. \A x \in P : x = <<w, i>>
    BY <1>1, <1>2, <2>1, <2>2 DEF RInv, Parking, CalledOnce
  <2>5. P = {<<w, i>>}
    BY <2>3, <2>4
  <2> QED BY <1>3, <2>5, FS_Singleton
<1>4. CASE req[r].stage # "parked"
  <2>1. P = {}
    BY <1>2, <1>4
  <2> QED BY <1>4, <2>1, FS_EmptySet
<1> QED BY <1>3, <1>4

-----------------------------------------------------------------------------
(***************************************************************************)
(* Workers.                                                                *)
(***************************************************************************)

\* redis_arm_reconnect leaves the connection alone.
LEMMA ArmFacts ==
    ASSUME NEW s, WorkerOK(s)
    PROVE  WorkerOK(ArmReconnect(s)) /\ ArmReconnect(s).conn = s.conn
<1>1. CASE s.exiting \/ s.timer
  BY <1>1 DEF ArmReconnect
<1>2. CASE ~ (s.exiting \/ s.timer)
  <2> DEFINE b == Min({2 * (IF s.backoff = 0 THEN 1 ELSE s.backoff),
                       BackoffMax})
             t == [s EXCEPT !.timer = TRUE, !.backoff = b]
  <2>1. ArmReconnect(s) = t
    BY <1>2 DEF ArmReconnect
  <2> HIDE DEF b
  <2>2. WorkerOK(t) /\ t.conn = s.conn
    BY DEF WorkerOK
  <2> QED BY <2>1, <2>2
<1> QED BY <1>1, <1>2

LEMMA DisconnectedFacts ==
    ASSUME NEW s, WorkerOK(s)
    PROVE  WorkerOK(Disconnected(s)) /\ Disconnected(s).conn = "none"
<1> DEFINE t == [s EXCEPT !.conn = "none", !.ready = FALSE]
<1>1. WorkerOK(t) /\ t.conn = "none"
  BY DEF WorkerOK, Conn
<1> HIDE DEF t
<1>2. Disconnected(s) = ArmReconnect(t)
  BY DEF Disconnected, t
<1> QED BY <1>1, <1>2, ArmFacts

LEMMA RecordFailureFacts ==
    ASSUME NEW s, NEW now, WorkerOK(s)
    PROVE  /\ WorkerOK(RecordFailure(s, now))
           /\ RecordFailure(s, now).timer = s.timer
           /\ RecordFailure(s, now).conn = s.conn
<1> DEFINE e == TimeAddSaturate(now, BreakerDuration)
<1>1. RecordFailure(s, now) = IF s.failures + 1 >= BreakerThreshold
                              THEN [s EXCEPT !.breaker = e, !.failures = 0]
                              ELSE [s EXCEPT !.failures = @ + 1]
  BY DEF RecordFailure
<1> HIDE DEF e
<1>2. LET t == [s EXCEPT !.breaker = e, !.failures = 0]
      IN  WorkerOK(t) /\ t.timer = s.timer /\ t.conn = s.conn
  BY DEF WorkerOK
<1>3. LET t == [s EXCEPT !.failures = @ + 1]
      IN  WorkerOK(t) /\ t.timer = s.timer /\ t.conn = s.conn
  BY DEF WorkerOK
<1> QED BY <1>1, <1>2, <1>3

\* A callback closes the connection at most, and touches no timer.
LEMMA CallbackFacts ==
    ASSUME NEW s, NEW c, NEW now, WorkerOK(s)
    PROVE  LET t == Callback(s, c, now)
           IN  /\ WorkerOK(t)
               /\ t.timer = s.timer
               /\ t.conn \in {s.conn, "closing"}
<1>1. /\ WorkerOK(HandshakeFailed(s))
      /\ HandshakeFailed(s).timer = s.timer
      /\ HandshakeFailed(s).conn = "closing"
  BY DEF HandshakeFailed, WorkerOK, Conn
<1>2. /\ WorkerOK(GoodAnswer(s))
      /\ GoodAnswer(s).timer = s.timer
      /\ GoodAnswer(s).conn = s.conn
  BY DEF GoodAnswer, WorkerOK
<1>3. /\ WorkerOK(RecordFailure(s, now))
      /\ RecordFailure(s, now).timer = s.timer
      /\ RecordFailure(s, now).conn = s.conn
  BY RecordFailureFacts
<1> DEFINE t == Callback(s, c, now)
<1>4. \/ t = HandshakeFailed(s) \/ t = GoodAnswer(s)
      \/ t = RecordFailure(s, now) \/ t = s
  BY DEF Callback
<1> HIDE DEF t
<1>5. /\ WorkerOK(t)
      /\ t.timer = s.timer
      /\ t.conn \in {s.conn, "closing"}
  BY <1>1, <1>2, <1>3, <1>4
<1> QED BY <1>5 DEF t

\* A connection that closes is gone when nothing is left to answer, and not
\* before.
LEMMA SettledFacts ==
    ASSUME NEW s, NEW commands, WorkerOK(s)
    PROVE  LET t == Settled(s, commands)
           IN  /\ WorkerOK(t)
               /\ \/ t = s /\ ~ (s.conn = "closing" /\ commands = <<>>)
                  \/ t.conn = "none" /\ commands = <<>>
BY DisconnectedFacts DEF Settled

\* Commands of no request.
LEMMA NewCommand ==
    ASSUME NEW op \in Op, NEW r \in Request \cup {NoRequest},
           NEW k \in Key \cup {NoRequest},
           NEW n \in NonceType, op \in {"GET", "EVAL"} => k \in Key
    PROVE  Command(op, r, k, n) \in CommandType /\ Command(op, r, k, n).req = r
BY DEF Command, CommandType, Answer

LEMMA NoNonceType == NoNonce \in NonceType
BY DEF NoNonce, NonceType

-----------------------------------------------------------------------------
(***************************************************************************)
(* Steps of requests.                                                      *)
(***************************************************************************)

LEMMA InitRInv == Init => RInv
<1> SUFFICES ASSUME Init PROVE RInv
  OBVIOUS
<1>1. /\ WorkerOK(NewWorker) /\ NewWorker.conn = "none"
      /\ NewWorker.timer = FALSE
  BY DEF NewWorker, WorkerOK, Conn
<1> DEFINE c == [NewWorker EXCEPT !.conn = "connecting"]
<1>2. WorkerOK(c) /\ c.conn = "connecting" /\ c.timer = FALSE
  BY DEF NewWorker, WorkerOK, Conn
<1>3. WorkerOK(ArmReconnect(NewWorker)) /\ ArmReconnect(NewWorker).conn = "none"
  BY <1>1, ArmFacts
<1>4. worker \in [Worker -> {c, ArmReconnect(NewWorker)}]
  BY DEF Init
<1> HIDE DEF c
<1>5. /\ worker = [w \in Worker |-> worker[w]]
      /\ \A w \in Worker : /\ WorkerOK(worker[w])
                           /\ worker[w].timer => worker[w].conn = "none"
  BY <1>2, <1>3, <1>4
<1>6. queue = [w \in Worker |-> <<>>] /\ queue \in [Worker -> Seq(CommandType)]
  BY DEF Init
<1>7. /\ req = [r \in Request |-> req[r]]
      /\ \A r \in Request : RequestOK(req[r]) /\ req[r].stage = "free"
  BY DEF Init, FreeSlot, RequestOK, Stage
<1>8. clock \in Nat /\ db \in DbType
  BY RedisParameters DEF Init, DbType, NotBlocked
<1> QED BY <1>5, <1>6, <1>7, <1>8
        DEF RInv, Types, Connections, Parking, CalledBack, CalledOnce,
            NotForgotten

\* Steps after which the same commands wait for the same parked requests.
LEMMA ParkingKept ==
    ASSUME RInv,
           \A w \in Worker : \A i \in DOMAIN queue'[w] :
               queue'[w][i].req # NoRequest =>
                   /\ i \in DOMAIN queue[w]
                   /\ queue'[w][i].req = queue[w][i].req,
           \A w \in Worker : \A i \in DOMAIN queue[w] :
               queue[w][i].req # NoRequest =>
                   /\ i \in DOMAIN queue'[w]
                   /\ queue'[w][i].req = queue[w][i].req,
           \A r \in Request :
               /\ req'[r].stage = "parked" <=> req[r].stage = "parked"
               /\ req[r].stage = "parked" => req'[r].worker = req[r].worker
    PROVE  Parking'
<1>1. \A w \in Worker : \A i \in DOMAIN queue[w] :
          queue[w][i].req \in Request \cup {NoRequest}
  <2> TAKE w \in Worker
  <2> TAKE i \in DOMAIN queue[w]
  <2>1. queue[w] \in Seq(CommandType)
    BY DEF RInv, Types
  <2>2. queue[w][i] \in CommandType
    BY <2>1
  <2> QED BY <2>2 DEF CommandType
<1>2. CalledBack'
  <2> SUFFICES ASSUME NEW w \in Worker, NEW i \in DOMAIN queue'[w],
                      queue'[w][i].req # NoRequest
               PROVE  /\ req'[queue'[w][i].req].stage = "parked"
                      /\ req'[queue'[w][i].req].worker = w
    BY DEF CalledBack
  <2> DEFINE r == queue[w][i].req
  <2>1. /\ i \in DOMAIN queue[w] /\ queue'[w][i].req = r
        /\ r \in Request
    BY <1>1
  <2>2. req[r].stage = "parked" /\ req[r].worker = w
    BY <2>1 DEF RInv, Parking, CalledBack
  <2> QED BY <2>1, <2>2
<1>3. CalledOnce'
  BY DEF RInv, Parking, CalledOnce
<1>4. NotForgotten'
  <2> SUFFICES ASSUME NEW r \in Request, req'[r].stage = "parked"
               PROVE  \E i \in DOMAIN queue'[req'[r].worker] :
                          queue'[req'[r].worker][i].req = r
    BY DEF NotForgotten
  <2>1. /\ req[r].stage = "parked" /\ req'[r].worker = req[r].worker
        /\ req[r].worker \in Worker /\ r # NoRequest
    BY RedisParameters DEF RInv, Types, RequestOK
  <2>2. PICK i \in DOMAIN queue[req[r].worker] :
            queue[req[r].worker][i].req = r
    BY <2>1 DEF RInv, Parking, NotForgotten
  <2> QED BY <2>1, <2>2
<1> QED BY <1>2, <1>3, <1>4 DEF Parking

\* A worker changes, and no queue does.
LEMMA WorkerSteps ==
    ASSUME RInv, NEW w \in Worker, NEW s, WorkerOK(s),
           worker' = [worker EXCEPT ![w] = s],
           s.timer => s.conn = "none",
           s.conn \notin {"open", "closing"} => queue[w] = <<>>,
           UNCHANGED <<db, queue, req>>, clock' = clock
    PROVE  RInv'
<1>1. /\ worker' = [v \in Worker |-> worker'[v]]
      /\ worker'[w] = s /\ \A v \in Worker \ {w} : worker'[v] = worker[v]
  BY DEF RInv, Types
<1>2. Types'
  BY <1>1 DEF RInv, Types
<1>3. Connections'
  BY <1>1 DEF RInv, Connections
<1>4. Parking'
  BY ParkingKept
<1> QED BY <1>2, <1>3, <1>4 DEF RInv

\* A request that is not parked goes on, and the workers stay as they are.
LEMMA RequestSteps ==
    ASSUME RInv, NEW r \in Request, NEW q, RequestOK(q),
           req[r].stage # "parked", q.stage # "parked",
           req' = [req EXCEPT ![r] = q],
           UNCHANGED <<clock, db, queue>>
    PROVE  /\ req' = [x \in Request |-> req'[x]]
           /\ \A x \in Request : RequestOK(req'[x])
           /\ Parking'
<1>1. /\ req' = [x \in Request |-> req'[x]]
      /\ req'[r] = q /\ \A x \in Request \ {r} : req'[x] = req[x]
  BY DEF RInv, Types
<1>2. \A x \in Request : RequestOK(req'[x])
  BY <1>1 DEF RInv, Types
<1>3. Parking'
  BY <1>1, ParkingKept
<1> QED BY <1>1, <1>2, <1>3

LEMMA ArriveRInv ==
    ASSUME RInv, NEW r \in Request, NEW w \in Worker, NEW k \in Key,
           Arrive(r, w, k)
    PROVE  RInv'
<1> DEFINE q == [FreeSlot EXCEPT !.stage = "preaccess", !.worker = w,
                                 !.key = k]
<1>1. RequestOK(q) /\ q.stage # "parked"
  BY DEF FreeSlot, RequestOK, Stage
<1> HIDE DEF q
<1>2. /\ req[r].stage = "free" /\ req' = [req EXCEPT ![r] = q]
      /\ UNCHANGED <<clock, db, worker, queue>>
  BY DEF Arrive, q
<1>3. /\ req' = [x \in Request |-> req'[x]]
      /\ \A x \in Request : RequestOK(req'[x])
      /\ Parking'
  BY <1>1, <1>2, RequestSteps
<1> QED BY <1>2, <1>3 DEF RInv, Types, Connections

\* A request that does not wait for Redis.
LEMMA PassedFacts ==
    ASSUME RInv, NEW r \in Request, req[r].stage = "preaccess",
           PassUnchecked(r), UNCHANGED <<clock, db, queue>>
    PROVE  /\ req' = [x \in Request |-> req'[x]]
           /\ \A x \in Request : RequestOK(req'[x])
           /\ Parking'
<1> DEFINE q == [req[r] EXCEPT !.stage = "passed"]
<1>1. RequestOK(req[r])
  BY DEF RInv, Types
<1>2. RequestOK(q) /\ q.stage # "parked"
  BY <1>1 DEF RequestOK, Stage
<1>3. req' = [req EXCEPT ![r] = q]
  BY DEF PassUnchecked
<1> HIDE DEF q
<1> QED BY <1>2, <1>3, RequestSteps

\* The one step that parks a request queues the one command that calls it
\* back, behind those that wait already.
LEMMA ParkRInv ==
    ASSUME RInv, NEW r \in Request, req[r].stage = "preaccess",
           worker[req[r].worker].conn = "open",
           Park(r), UNCHANGED <<clock, db>>
    PROVE  RInv'
<1> DEFINE w == req[r].worker
           c == Command("GET", r, req[r].key, NoNonce)
           q == [req[r] EXCEPT !.stage = "parked"]
<1>1. RequestOK(req[r]) /\ w \in Worker /\ req[r].key \in Key
      /\ r # NoRequest
  BY RedisParameters DEF RInv, Types, RequestOK
<1>2. RequestOK(q) /\ q.stage = "parked" /\ q.worker = w
  BY <1>1 DEF RequestOK, Stage
<1>3. c \in CommandType /\ c.req = r
  BY <1>1, NoNonceType, NewCommand DEF Op
<1>4. /\ queue' = [queue EXCEPT ![w] = Append(queue[w], c)]
      /\ req' = [req EXCEPT ![r] = q] /\ UNCHANGED worker
  BY DEF Park
<1> DEFINE n == Len(queue[w])
<1>5. /\ queue[w] \in Seq(CommandType) /\ n \in Nat
      /\ DOMAIN queue[w] = 1..n
  BY <1>1 DEF RInv, Types
<1> HIDE DEF c, q
<1>6. /\ queue' \in [Worker -> Seq(CommandType)]
      /\ queue'[w] = Append(queue[w], c)
      /\ \A v \in Worker \ {w} : queue'[v] = queue[v]
  BY <1>1, <1>3, <1>4, <1>5 DEF RInv, Types
<1>7. /\ DOMAIN queue'[w] = 1..(n + 1) /\ queue'[w][n + 1] = c
      /\ \A i \in 1..n : queue'[w][i] = queue[w][i]
  BY <1>3, <1>5, <1>6
<1> DEFINE same(v, i) == /\ i \in DOMAIN queue[v] /\ i \in DOMAIN queue'[v]
                         /\ queue'[v][i] = queue[v][i]
<1>8. \A v \in Worker :
           /\ \A i \in DOMAIN queue'[v] : same(v, i) \/ (v = w /\ i = n + 1)
           /\ \A i \in DOMAIN queue[v] : same(v, i)
  <2> TAKE v \in Worker
  <2>1. CASE v = w
    <3>1. \A i \in DOMAIN queue'[w] : i \in 1..n \/ i = n + 1
      BY <1>5, <1>7
    <3>2. \A i \in DOMAIN queue[w] : i \in 1..(n + 1)
      BY <1>5
    <3> QED BY <1>5, <1>7, <2>1, <3>1, <3>2
  <2>2. CASE v # w
    BY <1>6, <2>2
  <2> QED BY <2>1, <2>2
<1> HIDE DEF same
<1>9. /\ req' = [x \in Request |-> req'[x]]
      /\ req'[r] = q /\ \A x \in Request \ {r} : req'[x] = req[x]
  BY <1>4 DEF RInv, Types
<1>10. \A v \in Worker : \A i \in DOMAIN queue[v] :
          /\ queue[v][i].req # r
          /\ queue[v][i].req \in Request \cup {NoRequest}
  <2> TAKE v \in Worker
  <2> TAKE i \in DOMAIN queue[v]
  <2>1. queue[v] \in Seq(CommandType)
    BY DEF RInv, Types
  <2>2. queue[v][i] \in CommandType
    BY <2>1
  <2> QED BY <1>1, <2>2 DEF CommandType, RInv, Parking, CalledBack
<1>11. Types'
  BY <1>2, <1>4, <1>6, <1>9 DEF RInv, Types
<1>12. Connections'
  BY <1>1, <1>4, <1>6 DEF RInv, Connections
<1>13. CalledBack'
  <2> SUFFICES ASSUME NEW v \in Worker, NEW i \in DOMAIN queue'[v],
                      queue'[v][i].req # NoRequest
               PROVE  /\ req'[queue'[v][i].req].stage = "parked"
                      /\ req'[queue'[v][i].req].worker = v
    BY DEF CalledBack
  <2>1. CASE v = w /\ i = n + 1
    BY <1>2, <1>3, <1>7, <1>9, <2>1
  <2>2. CASE ~ (v = w /\ i = n + 1)
    <3>1. i \in DOMAIN queue[v] /\ queue'[v][i] = queue[v][i]
      BY <1>8, <2>2 DEF same
    <3> QED BY <1>9, <1>10, <3>1 DEF RInv, Parking, CalledBack
  <2> QED BY <2>1, <2>2
<1>14. CalledOnce'
  <2> SUFFICES ASSUME NEW v \in Worker,
                      NEW i \in DOMAIN queue'[v], NEW j \in DOMAIN queue'[v],
                      queue'[v][i].req = queue'[v][j].req,
                      queue'[v][i].req # NoRequest
               PROVE  i = j
    BY DEF CalledOnce
  <2>1. \A x \in DOMAIN queue'[v] :
            \/ v = w /\ x = n + 1 /\ queue'[v][x].req = r
            \/ /\ x \in DOMAIN queue[v] /\ queue'[v][x] = queue[v][x]
               /\ queue'[v][x].req # r
    BY <1>3, <1>7, <1>10, <1>8 DEF same
  <2> QED BY <2>1 DEF RInv, Parking, CalledOnce
<1>15. NotForgotten'
  <2> SUFFICES ASSUME NEW x \in Request, req'[x].stage = "parked"
               PROVE  \E i \in DOMAIN queue'[req'[x].worker] :
                          queue'[req'[x].worker][i].req = x
    BY DEF NotForgotten
  <2>1. CASE x = r
    BY <1>2, <1>3, <1>5, <1>7, <1>9, <2>1
  <2>2. CASE x # r
    <3>1. req'[x] = req[x] /\ req[x].worker \in Worker
      BY <1>9, <2>2 DEF RInv, Types, RequestOK
    <3>2. PICK i \in DOMAIN queue[req[x].worker] :
              queue[req[x].worker][i].req = x
      BY <3>1 DEF RInv, Parking, NotForgotten
    <3>3. /\ i \in DOMAIN queue'[req[x].worker]
          /\ queue'[req[x].worker][i] = queue[req[x].worker][i]
      BY <1>8, <3>1, <3>2 DEF same
    <3> QED BY <3>1, <3>2, <3>3
  <2> QED BY <2>1, <2>2
<1> QED BY <1>11, <1>12, <1>13, <1>14, <1>15 DEF RInv, Parking

LEMMA RedisCheckRInv ==
    ASSUME RInv, NEW r \in Request, RedisCheck(r)
    PROVE  RInv'
<1> DEFINE w == req[r].worker
<1> USE DEF RedisCheck
<1>1. CASE UNCHANGED <<worker, queue, req>>
  <2>1. Parking'
    BY <1>1, ParkingKept
  <2> QED BY <1>1, <2>1 DEF RInv, Types, Connections
<1>2. CASE req[r].stage = "preaccess" /\ Park(r)
           /\ Available(worker[w], Seconds(clock))
  BY <1>2, ParkRInv DEF Available
<1>3. CASE req[r].stage = "preaccess" /\ (NoKeys(r) \/ Skip(r))
  <2>1. PassUnchecked(r) /\ UNCHANGED <<clock, db, worker, queue>>
    BY <1>3 DEF NoKeys, Skip
  <2>2. /\ req' = [x \in Request |-> req'[x]]
        /\ \A x \in Request : RequestOK(req'[x])
        /\ Parking'
    BY <1>3, <2>1, PassedFacts
  <2> QED BY <2>1, <2>2 DEF RInv, Types, Connections
<1>4. CASE req[r].stage = "preaccess" /\ RefusedGet(r)
  <2> DEFINE s == RecordFailure(worker[w], Seconds(clock))
  <2>1. /\ w \in Worker /\ WorkerOK(worker[w])
    BY <1>4 DEF RInv, Types, RequestOK
  <2>2. /\ WorkerOK(s) /\ s.timer = worker[w].timer
        /\ s.conn = worker[w].conn
    BY <2>1, RecordFailureFacts
  <2>3. /\ PassUnchecked(r) /\ UNCHANGED <<clock, db, queue>>
        /\ worker' = [worker EXCEPT ![w] = s]
    BY <1>4 DEF RefusedGet
  <2> HIDE DEF s
  <2>4. /\ req' = [x \in Request |-> req'[x]]
        /\ \A x \in Request : RequestOK(req'[x])
        /\ Parking'
    BY <1>4, <2>3, PassedFacts
  <2>5. /\ worker' = [v \in Worker |-> worker'[v]]
        /\ worker'[w] = s /\ \A v \in Worker \ {w} : worker'[v] = worker[v]
    BY <2>1, <2>3 DEF RInv, Types
  <2>6. Types'
    BY <2>2, <2>3, <2>4, <2>5 DEF RInv, Types
  <2>7. Connections'
    BY <2>1, <2>2, <2>3, <2>5 DEF RInv, Connections
  <2> QED BY <2>4, <2>6, <2>7 DEF RInv
<1> QED BY <1>1, <1>2, <1>3, <1>4

\* Commands nobody waits for, behind those of the requests.
LEMMA AppendedFacts ==
    ASSUME RInv, NEW w \in Worker, NEW c \in CommandType, c.req = NoRequest,
           queue' = [queue EXCEPT ![w] = Append(@, c)]
    PROVE  /\ queue' \in [Worker -> Seq(CommandType)]
           /\ \A v \in Worker \ {w} : queue'[v] = queue[v]
           /\ \A v \in Worker : \A i \in DOMAIN queue[v] :
                 i \in DOMAIN queue'[v] /\ queue'[v][i] = queue[v][i]
           /\ \A v \in Worker : \A i \in DOMAIN queue'[v] :
                 \/ i \in DOMAIN queue[v] /\ queue'[v][i] = queue[v][i]
                 \/ queue'[v][i].req = NoRequest
<1> DEFINE n == Len(queue[w])
<1>1. /\ queue[w] \in Seq(CommandType) /\ n \in Nat
      /\ DOMAIN queue[w] = 1..n
  BY DEF RInv, Types
<1>2. /\ queue' \in [Worker -> Seq(CommandType)]
      /\ queue'[w] = Append(queue[w], c)
      /\ \A v \in Worker \ {w} : queue'[v] = queue[v]
  BY <1>1 DEF RInv, Types
<1>3. /\ DOMAIN queue'[w] = 1..(n + 1) /\ queue'[w][n + 1] = c
      /\ \A i \in 1..n : queue'[w][i] = queue[w][i]
  BY <1>1, <1>2
<1>4. \A i \in 1..(n + 1) : i \in 1..n \/ i = n + 1
  BY <1>1
<1>5. \A i \in 1..n : i \in 1..(n + 1)
  BY <1>1
<1> HIDE DEF n
<1>6. \A i \in DOMAIN queue[w] :
          i \in DOMAIN queue'[w] /\ queue'[w][i] = queue[w][i]
  BY <1>1, <1>3, <1>5
<1>7. \A i \in DOMAIN queue'[w] :
          \/ i \in DOMAIN queue[w] /\ queue'[w][i] = queue[w][i]
          \/ queue'[w][i].req = NoRequest
  BY <1>1, <1>3, <1>4
<1> QED BY <1>2, <1>6, <1>7

LEMMA RedisRecordRInv ==
    ASSUME RInv, NEW r \in Request, RedisRecord(r)
    PROVE  RInv'
<1> DEFINE w == req[r].worker
           n == worker[w].sequence + 1
           c == Command("EVAL", NoRequest, req[r].key, Nonce(w, n))
           s == [worker[w] EXCEPT !.sequence = n]
<1>1. /\ req[r].stage = "passed" /\ req' = [req EXCEPT ![r] = FreeSlot]
      /\ UNCHANGED <<clock, db>>
      /\ \/ UNCHANGED <<worker, queue>>
         \/ /\ Available(worker[w], Seconds(clock))
            /\ worker' = [worker EXCEPT ![w] = s]
            /\ \/ UNCHANGED queue
               \/ queue' = [queue EXCEPT ![w] = Append(@, c)]
  BY DEF RedisRecord
<1>2. w \in Worker /\ req[r].key \in Key /\ WorkerOK(worker[w])
  BY <1>1 DEF RInv, Types, RequestOK
<1>3. /\ WorkerOK(s) /\ s.conn = worker[w].conn /\ s.timer = worker[w].timer
      /\ n \in Nat
  BY <1>2 DEF WorkerOK
<1>4. c \in CommandType /\ c.req = NoRequest
  <2>1. Nonce(w, n) \in NonceType
    BY <1>2, <1>3 DEF Nonce, NonceType
  <2> QED BY <1>2, <2>1, NewCommand DEF Op
<1> HIDE DEF c, s, n
<1>5. /\ queue' \in [Worker -> Seq(CommandType)]
      /\ \A v \in Worker : \/ queue'[v] = queue[v]
                           \/ v = w /\ worker[w].conn = "open"
      /\ \A v \in Worker : \A i \in DOMAIN queue[v] :
            i \in DOMAIN queue'[v] /\ queue'[v][i] = queue[v][i]
      /\ \A v \in Worker : \A i \in DOMAIN queue'[v] :
            \/ i \in DOMAIN queue[v] /\ queue'[v][i] = queue[v][i]
            \/ queue'[v][i].req = NoRequest
  <2>1. CASE UNCHANGED queue
    BY <2>1 DEF RInv, Types
  <2>2. CASE queue' = [queue EXCEPT ![w] = Append(@, c)]
             /\ Available(worker[w], Seconds(clock))
    BY <1>2, <1>4, <2>2, AppendedFacts DEF Available
  <2> QED BY <1>1, <2>1, <2>2
<1>6. /\ worker' = [v \in Worker |-> worker'[v]]
      /\ \A v \in Worker : /\ WorkerOK(worker'[v])
                           /\ worker'[v].conn = worker[v].conn
                           /\ worker'[v].timer = worker[v].timer
  BY <1>1, <1>2, <1>3 DEF RInv, Types
<1>7. /\ req' = [x \in Request |-> req'[x]]
      /\ \A x \in Request : RequestOK(req'[x])
      /\ \A x \in Request : x # r => req'[x] = req[x]
      /\ req'[r].stage = "free"
  BY <1>1 DEF RInv, Types, RequestOK, FreeSlot, Stage
<1>8. Parking'
  BY <1>1, <1>5, <1>7, ParkingKept
<1>9. Connections'
  BY <1>2, <1>5, <1>6 DEF RInv, Connections
<1>10. Types'
  BY <1>1, <1>5, <1>6, <1>7 DEF RInv, Types
<1> QED BY <1>8, <1>9, <1>10 DEF RInv

LEMMA RespondRInv ==
    ASSUME RInv, NEW r \in Request, Respond(r)
    PROVE  RInv'
<1>1. RequestOK(FreeSlot) /\ FreeSlot.stage = "free"
  BY DEF FreeSlot, RequestOK, Stage
<1>2. /\ req[r].stage # "parked" /\ req' = [req EXCEPT ![r] = FreeSlot]
      /\ UNCHANGED <<clock, db, worker, queue>>
  BY DEF Respond
<1>3. /\ req' = [x \in Request |-> req'[x]]
      /\ \A x \in Request : RequestOK(req'[x])
      /\ Parking'
  BY <1>1, <1>2, RequestSteps
<1> QED BY <1>2, <1>3 DEF RInv, Types, Connections

-----------------------------------------------------------------------------
(***************************************************************************)
(* Steps of connections.                                                   *)
(***************************************************************************)

LEMMA ReconnectRInv ==
    ASSUME RInv, NEW w \in Worker, Reconnect(w)
    PROVE  RInv'
<1> DEFINE s == [worker[w] EXCEPT !.timer = FALSE]
           t == [s EXCEPT !.conn = "connecting", !.denied = FALSE,
                          !.cut = ~ db.up]
<1>1. WorkerOK(worker[w]) /\ db.up \in BOOLEAN
  BY DEF RInv, Types, DbType
<1>2. /\ worker[w].timer /\ worker[w].conn = "none" /\ queue[w] = <<>>
  BY DEF Reconnect, RInv, Connections
<1>3. /\ WorkerOK(s) /\ s.conn = "none"
      /\ WorkerOK(t) /\ t.conn = "connecting" /\ t.timer = FALSE
  BY <1>1, <1>2 DEF WorkerOK, Conn
<1>4. WorkerOK(ArmReconnect(s)) /\ ArmReconnect(s).conn = "none"
  BY <1>3, ArmFacts
<1>5. /\ \/ worker' = [worker EXCEPT ![w] = t]
         \/ worker' = [worker EXCEPT ![w] = ArmReconnect(s)]
      /\ UNCHANGED <<clock, db, queue, req>>
  BY DEF Reconnect
<1> HIDE DEF s, t
<1> QED BY <1>2, <1>3, <1>4, <1>5, WorkerSteps

LEMMA ConnectFailedRInv ==
    ASSUME RInv, NEW w \in Worker, ConnectFailed(w)
    PROVE  RInv'
<1> DEFINE s == [worker[w] EXCEPT !.conn = "stale", !.ready = FALSE]
<1>1. WorkerOK(worker[w])
  BY DEF RInv, Types
<1>2. /\ worker[w].conn = "connecting" /\ queue[w] = <<>>
      /\ worker[w].timer = FALSE
  BY <1>1 DEF ConnectFailed, RInv, Connections, WorkerOK
<1>3. WorkerOK(s) /\ s.conn = "stale" /\ s.timer = FALSE
  BY <1>1, <1>2 DEF WorkerOK, Conn
<1>4. worker' = [worker EXCEPT ![w] = s] /\ UNCHANGED <<clock, db, queue, req>>
  BY DEF ConnectFailed
<1> HIDE DEF s
<1> QED BY <1>2, <1>3, <1>4, WorkerSteps

LEMMA ConnectedRInv ==
    ASSUME RInv, NEW w \in Worker, Connected(w)
    PROVE  RInv'
<1> DEFINE s == [worker[w] EXCEPT !.conn = "open", !.ready = TRUE,
                                  !.backoff = 0]
           f == Settled(HandshakeFailed(s), <<>>)
           hello == <<Command("HELLO", NoRequest, NoRequest, NoNonce),
                      Command("LOAD", NoRequest, NoRequest, NoNonce)>>
<1>1. WorkerOK(worker[w])
  BY DEF RInv, Types
<1>2. /\ worker[w].conn = "connecting" /\ queue[w] = <<>>
      /\ worker[w].timer = FALSE
  BY <1>1 DEF Connected, RInv, Connections, WorkerOK
<1>3. WorkerOK(s) /\ s.conn = "open" /\ s.timer = FALSE
  BY <1>1, <1>2 DEF WorkerOK, Conn
<1>4. WorkerOK(f) /\ f.conn = "none"
  <2>1. WorkerOK(HandshakeFailed(s)) /\ HandshakeFailed(s).conn = "closing"
    BY <1>3 DEF HandshakeFailed, WorkerOK, Conn
  <2> HIDE DEF s
  <2> QED BY <2>1, DisconnectedFacts DEF Settled
<1>5. /\ hello \in Seq(CommandType)
      /\ \A i \in DOMAIN hello : hello[i].req = NoRequest
  BY NoNonceType, NewCommand DEF Op
<1>6. /\ \/ /\ worker' = [worker EXCEPT ![w] = s]
            /\ queue' = [queue EXCEPT ![w] = hello]
         \/ /\ worker' = [worker EXCEPT ![w] = f]
            /\ UNCHANGED queue
      /\ UNCHANGED <<clock, db, req>>
  BY DEF Connected
<1> HIDE DEF s, f, hello
<1>7. CASE worker' = [worker EXCEPT ![w] = f] /\ UNCHANGED queue
  BY <1>2, <1>4, <1>6, <1>7, WorkerSteps
<1>8. CASE /\ worker' = [worker EXCEPT ![w] = s]
           /\ queue' = [queue EXCEPT ![w] = hello]
  <2>1. /\ queue' \in [Worker -> Seq(CommandType)] /\ queue'[w] = hello
        /\ \A v \in Worker \ {w} : queue'[v] = queue[v]
    BY <1>5, <1>8 DEF RInv, Types
  <2>2. /\ worker' = [v \in Worker |-> worker'[v]]
        /\ worker'[w] = s /\ \A v \in Worker \ {w} : worker'[v] = worker[v]
    BY <1>8 DEF RInv, Types
  <2>3. Types'
    BY <1>3, <1>6, <2>1, <2>2 DEF RInv, Types
  <2>4. Connections'
    BY <1>3, <2>1, <2>2 DEF RInv, Connections
  <2>5. Parking'
    <3>1. \A v \in Worker : \A i \in DOMAIN queue'[v] :
              queue'[v][i].req # NoRequest =>
                  i \in DOMAIN queue[v] /\ queue'[v][i].req = queue[v][i].req
      BY <1>5, <2>1
    <3>2. \A v \in Worker : \A i \in DOMAIN queue[v] :
              queue[v][i].req # NoRequest =>
                  i \in DOMAIN queue'[v] /\ queue'[v][i].req = queue[v][i].req
      <4>1. \A i : i \notin DOMAIN queue[w]
        BY <1>2
      <4> QED BY <2>1, <4>1
    <3> QED BY <1>6, <3>1, <3>2, ParkingKept
  <2> QED BY <2>3, <2>4, <2>5 DEF RInv
<1> QED BY <1>6, <1>7, <1>8

\* Answers come and go in a queue, and who waits for them does not change.
LEMMA AddReadFailsRInv ==
    ASSUME RInv, NEW w \in Worker, AddReadFails(w)
    PROVE  RInv'
<1> DEFINE s == [worker[w] EXCEPT !.ready = FALSE, !.cut = TRUE]
           unanswered == [i \in DOMAIN queue[w] |->
                             [queue[w][i] EXCEPT !.reply = "none"]]
<1>1. WorkerOK(worker[w]) /\ queue[w] \in Seq(CommandType)
  BY DEF RInv, Types
<1>2. /\ WorkerOK(s) /\ s.conn = worker[w].conn /\ s.timer = worker[w].timer
  BY <1>1 DEF WorkerOK
<1>3. /\ unanswered \in Seq(CommandType)
      /\ DOMAIN unanswered = DOMAIN queue[w]
      /\ \A i \in DOMAIN queue[w] : unanswered[i].req = queue[w][i].req
  <2>1. \A i \in DOMAIN queue[w] :
            /\ [queue[w][i] EXCEPT !.reply = "none"] \in CommandType
            /\ [queue[w][i] EXCEPT !.reply = "none"].req = queue[w][i].req
    <3> TAKE i \in DOMAIN queue[w]
    <3>1. queue[w][i] \in CommandType
      BY <1>1
    <3> QED BY <3>1 DEF CommandType, Answer
  <2>2. DOMAIN queue[w] = 1..Len(queue[w]) /\ Len(queue[w]) \in Nat
    BY <1>1
  <2> QED BY <2>1, <2>2
<1>4. /\ worker[w].conn = "open"
      /\ worker' = [worker EXCEPT ![w] = s]
      /\ queue' = [queue EXCEPT ![w] = unanswered]
      /\ UNCHANGED <<clock, db, req>>
  BY DEF AddReadFails
<1> HIDE DEF s, unanswered
<1>5. /\ queue' \in [Worker -> Seq(CommandType)] /\ queue'[w] = unanswered
      /\ \A v \in Worker \ {w} : queue'[v] = queue[v]
  BY <1>3, <1>4 DEF RInv, Types
<1>6. /\ worker' = [v \in Worker |-> worker'[v]]
      /\ worker'[w] = s /\ \A v \in Worker \ {w} : worker'[v] = worker[v]
  BY <1>4 DEF RInv, Types
<1>7. Types'
  BY <1>2, <1>4, <1>5, <1>6 DEF RInv, Types
<1>8. Connections'
  BY <1>2, <1>4, <1>5, <1>6 DEF RInv, Connections
<1>9. Parking'
  BY <1>3, <1>4, <1>5, ParkingKept
<1> QED BY <1>7, <1>8, <1>9 DEF RInv

\* A connection is gone, and with it the commands: each request that waited
\* for one has been called back.
LEMMA DroppedParking ==
    ASSUME RInv, NEW w \in Worker,
           queue' = [queue EXCEPT ![w] = <<>>],
           \A r \in Request :
               IF req[r].stage = "parked" /\ req[r].worker # w
               THEN req'[r] = req[r]
               ELSE req'[r].stage # "parked"
    PROVE  /\ queue' \in [Worker -> Seq(CommandType)]
           /\ queue'[w] = <<>> /\ \A v \in Worker \ {w} : queue'[v] = queue[v]
           /\ Parking'
<1>1. /\ queue' \in [Worker -> Seq(CommandType)]
      /\ queue'[w] = <<>> /\ \A v \in Worker \ {w} : queue'[v] = queue[v]
  BY DEF RInv, Types
<1>2. \A i : i \notin DOMAIN queue'[w]
  BY <1>1
<1>3. CalledBack'
  <2> SUFFICES ASSUME NEW v \in Worker, NEW i \in DOMAIN queue'[v],
                      queue'[v][i].req # NoRequest
               PROVE  /\ req'[queue'[v][i].req].stage = "parked"
                      /\ req'[queue'[v][i].req].worker = v
    BY DEF CalledBack
  <2> DEFINE r == queue[v][i].req
  <2>1. v # w /\ queue'[v] = queue[v]
    BY <1>1, <1>2
  <2>2. queue[v][i] \in CommandType
    BY <2>1 DEF RInv, Types
  <2>3. r \in Request /\ req[r].stage = "parked" /\ req[r].worker = v
    BY <2>1, <2>2 DEF CommandType, RInv, Parking, CalledBack
  <2> QED BY <2>1, <2>3
<1>4. CalledOnce'
  BY <1>1, <1>2 DEF RInv, Parking, CalledOnce
<1>5. NotForgotten'
  <2> SUFFICES ASSUME NEW r \in Request, req'[r].stage = "parked"
               PROVE  \E i \in DOMAIN queue'[req'[r].worker] :
                          queue'[req'[r].worker][i].req = r
    BY DEF NotForgotten
  <2>1. /\ req[r].stage = "parked" /\ req[r].worker # w /\ req'[r] = req[r]
        /\ req[r].worker \in Worker
    BY DEF RInv, Types, RequestOK
  <2>2. queue'[req'[r].worker] = queue[req[r].worker]
    BY <1>1, <2>1
  <2> QED BY <2>1, <2>2 DEF RInv, Parking, NotForgotten
<1> QED BY <1>1, <1>3, <1>4, <1>5 DEF Parking

LEMMA LostRInv ==
    ASSUME RInv, NEW w \in Worker, Lost(w)
    PROVE  RInv'
<1> DEFINE failed == AfterAll(w)
           s == [worker[w] EXCEPT !.failures = failed.worker.failures,
                                  !.breaker = failed.worker.breaker]
           t == Disconnected(s)
<1>1. /\ worker' = [worker EXCEPT ![w] = t]
      /\ queue' = [queue EXCEPT ![w] = <<>>]
      /\ req' = [r \in Request |->
                    IF req[r].stage = "parked" /\ req[r].worker = w
                    THEN [req[r] EXCEPT !.stage = "passed"] ELSE req[r]]
      /\ UNCHANGED <<clock, db>>
  BY DEF Lost
<1> HIDE DEF failed
<1>2. WorkerOK(s)
  BY DEF RInv, Types, WorkerOK
<1> HIDE DEF s
<1>3. WorkerOK(t) /\ t.conn = "none"
  BY <1>2, DisconnectedFacts
<1> HIDE DEF t
<1>4. \A r \in Request : RequestOK(req'[r])
  <2> TAKE r \in Request
  <2>1. RequestOK(req[r])
    BY DEF RInv, Types
  <2>2. req[r].stage = "parked" =>
            RequestOK([req[r] EXCEPT !.stage = "passed"])
    BY <2>1 DEF RequestOK, Stage
  <2> QED BY <1>1, <2>1, <2>2
<1>5. \A r \in Request :
          IF req[r].stage = "parked" /\ req[r].worker # w
          THEN req'[r] = req[r]
          ELSE req'[r].stage # "parked"
  <2> TAKE r \in Request
  <2>1. RequestOK(req[r])
    BY DEF RInv, Types
  <2>2. [req[r] EXCEPT !.stage = "passed"].stage = "passed"
    BY <2>1 DEF RequestOK
  <2> QED BY <1>1, <2>2
<1>6. /\ queue' \in [Worker -> Seq(CommandType)] /\ queue'[w] = <<>>
      /\ \A v \in Worker \ {w} : queue'[v] = queue[v]
      /\ Parking'
  BY <1>1, <1>5, DroppedParking
<1>7. /\ worker' = [v \in Worker |-> worker'[v]]
      /\ worker'[w] = t /\ \A v \in Worker \ {w} : worker'[v] = worker[v]
  BY <1>1 DEF RInv, Types
<1>8. Types'
  BY <1>1, <1>3, <1>4, <1>6, <1>7 DEF RInv, Types
<1>9. Connections'
  BY <1>3, <1>6, <1>7 DEF RInv, Connections
<1> QED BY <1>6, <1>8, <1>9 DEF RInv

LEMMA ExitProcessRInv ==
    ASSUME RInv, NEW w \in Worker, ExitProcess(w)
    PROVE  RInv'
<1> DEFINE s == [NewWorker EXCEPT !.exiting = TRUE]
<1>1. /\ worker' = [worker EXCEPT ![w] = s]
      /\ queue' = [queue EXCEPT ![w] = <<>>]
      /\ req' = [r \in Request |-> IF req[r].worker = w THEN FreeSlot
                                                        ELSE req[r]]
      /\ UNCHANGED <<clock, db>>
  BY DEF ExitProcess
<1>2. WorkerOK(s) /\ s.conn = "none"
  BY DEF NewWorker, WorkerOK, Conn
<1> HIDE DEF s
<1>3. RequestOK(FreeSlot) /\ FreeSlot.stage = "free"
  BY DEF FreeSlot, RequestOK, Stage
<1>4. \A r \in Request : RequestOK(req'[r])
  BY <1>1, <1>3 DEF RInv, Types
<1>5. \A r \in Request :
          IF req[r].stage = "parked" /\ req[r].worker # w
          THEN req'[r] = req[r]
          ELSE req'[r].stage # "parked"
  BY <1>1, <1>3
<1>6. /\ queue' \in [Worker -> Seq(CommandType)] /\ queue'[w] = <<>>
      /\ \A v \in Worker \ {w} : queue'[v] = queue[v]
      /\ Parking'
  BY <1>1, <1>5, DroppedParking
<1>7. /\ worker' = [v \in Worker |-> worker'[v]]
      /\ worker'[w] = s /\ \A v \in Worker \ {w} : worker'[v] = worker[v]
  BY <1>1 DEF RInv, Types
<1>8. Types'
  BY <1>1, <1>2, <1>4, <1>6, <1>7 DEF RInv, Types
<1>9. Connections'
  BY <1>2, <1>6, <1>7 DEF RInv, Connections
<1> QED BY <1>6, <1>8, <1>9 DEF RInv

\* check_callback leaves nobody parked.
LEMMA ResumedFacts ==
    ASSUME NEW q, NEW c, RequestOK(q), q.stage = "parked"
    PROVE  RequestOK(Resumed(q, c)) /\ Resumed(q, c).stage # "parked"
<1> DEFINE u == Min({c.value, TimeAddSaturate(Seconds(clock), Block)})
           t == [q EXCEPT !.stage = "rejected", !.until = u]
           p == [q EXCEPT !.stage = "passed"]
<1>1. Resumed(q, c) = IF c.reply = "STRING" THEN t ELSE p
  BY DEF Resumed
<1> HIDE DEF u
<1>2. RequestOK(t) /\ t.stage = "rejected"
  BY DEF RequestOK, Stage
<1>3. RequestOK(p) /\ p.stage = "passed"
  BY DEF RequestOK, Stage
<1> QED BY <1>1, <1>2, <1>3

\* Taking the first command off a queue, and perhaps queueing one that nobody
\* waits for.
LEMMA RestFacts ==
    ASSUME NEW q \in Seq(CommandType), q # <<>>,
           NEW more \in Seq(CommandType),
           \A i \in DOMAIN more : more[i].req = NoRequest
    PROVE  LET rest == Tail(q) \o more
           IN  /\ rest \in Seq(CommandType)
               /\ \A i \in DOMAIN q : i # 1 =>
                     i - 1 \in DOMAIN rest /\ rest[i - 1] = q[i]
               /\ \A i \in DOMAIN rest : rest[i].req # NoRequest =>
                     i + 1 \in DOMAIN q /\ rest[i] = q[i + 1]
<1> DEFINE n == Len(q)
           rest == Tail(q) \o more
<1>1. n \in Nat \ {0} /\ DOMAIN q = 1..n
  BY EmptySeq
<1>2. /\ Tail(q) \in Seq(CommandType) /\ Len(Tail(q)) = n - 1
      /\ \A i \in 1..(n - 1) : Tail(q)[i] = q[i + 1]
  BY <1>1
<1>3. /\ rest \in Seq(CommandType)
      /\ Len(rest) = n - 1 + Len(more)
      /\ \A i \in 1..(n - 1) : rest[i] = q[i + 1]
      /\ \A i \in n..(n - 1 + Len(more)) : rest[i] = more[i - (n - 1)]
  BY <1>1, <1>2
<1> HIDE DEF rest
<1>4. \A i \in DOMAIN q : i # 1 =>
          i - 1 \in DOMAIN rest /\ rest[i - 1] = q[i]
  BY <1>1, <1>3
<1>5. \A i \in DOMAIN rest : rest[i].req # NoRequest =>
          i + 1 \in DOMAIN q /\ rest[i] = q[i + 1]
  <2> SUFFICES ASSUME NEW i \in DOMAIN rest, rest[i].req # NoRequest
               PROVE  i + 1 \in DOMAIN q /\ rest[i] = q[i + 1]
    OBVIOUS
  <2>1. i \in 1..(n - 1 + Len(more)) /\ Len(more) \in Nat
    BY <1>3
  <2>2. CASE i \in 1..(n - 1)
    BY <1>1, <1>3, <2>2
  <2>3. CASE i \in n..(n - 1 + Len(more))
    <3>1. i - (n - 1) \in DOMAIN more
      BY <1>1, <2>1, <2>3
    <3> QED BY <1>3, <2>3, <3>1
  <2> QED BY <1>1, <2>1, <2>2, <2>3
<1> QED BY <1>3, <1>4, <1>5 DEF rest

LEMMA DeliverRInv ==
    ASSUME RInv, NEW w \in Worker, Deliver(w)
    PROVE  RInv'
<1> DEFINE q == queue[w]
           c == Head(q)
           s == Callback(worker[w], c, Seconds(clock))
           more == Reload(s, c)
           rest == Tail(q) \o more
           t == Settled(s, rest)
<1>1. /\ q # <<>>
      /\ queue' = [queue EXCEPT ![w] = rest]
      /\ worker' = [worker EXCEPT ![w] = t]
      /\ req' = [r \in Request |-> IF r = c.req THEN Resumed(req[r], c)
                                               ELSE req[r]]
      /\ UNCHANGED <<clock, db>>
  BY DEF Deliver
<1>2. /\ q \in Seq(CommandType) /\ 1 \in DOMAIN q /\ c = q[1]
      /\ WorkerOK(worker[w]) /\ worker[w].conn \in {"open", "closing"}
      /\ worker[w].timer = FALSE
  <2>1. q \in Seq(CommandType) /\ WorkerOK(worker[w])
    BY DEF RInv, Types
  <2>2. 1 \in DOMAIN q /\ c = q[1]
    BY <1>1, <2>1
  <2>3. worker[w].conn \in {"open", "closing"}
    BY <1>1 DEF RInv, Connections
  <2>4. worker[w].timer = FALSE
    BY <2>1, <2>3 DEF RInv, Connections, WorkerOK
  <2> QED BY <2>1, <2>2, <2>3, <2>4
<1>3. /\ WorkerOK(s) /\ s.timer = FALSE /\ s.conn \in {"open", "closing"}
  BY <1>2, CallbackFacts
<1> HIDE DEF s
<1>4. /\ more \in Seq(CommandType)
      /\ \A i \in DOMAIN more : more[i].req = NoRequest
  BY NoNonceType, NewCommand DEF Reload, Op
<1> HIDE DEF more
<1>5. /\ rest \in Seq(CommandType)
      /\ \A i \in DOMAIN q : i # 1 =>
            i - 1 \in DOMAIN rest /\ rest[i - 1] = q[i]
      /\ \A i \in DOMAIN rest : rest[i].req # NoRequest =>
            i + 1 \in DOMAIN q /\ rest[i] = q[i + 1]
  BY <1>1, <1>2, <1>4, RestFacts
<1> HIDE DEF rest
<1>6. /\ WorkerOK(t)
      /\ \/ t.timer = FALSE /\ t.conn \in {"open", "closing"}
         \/ t.conn = "none" /\ rest = <<>>
  BY <1>3, SettledFacts
<1> HIDE DEF t
<1>7. /\ queue' \in [Worker -> Seq(CommandType)] /\ queue'[w] = rest
      /\ \A v \in Worker \ {w} : queue'[v] = queue[v]
  BY <1>1, <1>5 DEF RInv, Types
<1>8. /\ worker' = [v \in Worker |-> worker'[v]]
      /\ worker'[w] = t /\ \A v \in Worker \ {w} : worker'[v] = worker[v]
  BY <1>1 DEF RInv, Types
<1>9. \A r \in Request : r = c.req => /\ req[r].stage = "parked"
                                      /\ req[r].worker = w
                                      /\ req'[r].stage # "parked"
                                      /\ RequestOK(req'[r])
  <2> SUFFICES ASSUME NEW r \in Request, r = c.req
               PROVE  /\ req[r].stage = "parked" /\ req[r].worker = w
                      /\ req'[r].stage # "parked" /\ RequestOK(req'[r])
    OBVIOUS
  <2>1. req[r].stage = "parked" /\ req[r].worker = w
    BY <1>2, RedisParameters DEF RInv, Parking, CalledBack
  <2>2. req'[r] = Resumed(req[r], c) /\ RequestOK(req[r])
    BY <1>1 DEF RInv, Types
  <2> QED BY <2>1, <2>2, ResumedFacts
<1>10. \A r \in Request : r # c.req => req'[r] = req[r]
  BY <1>1
<1>11. Types'
  <2>1. req' = [r \in Request |-> req'[r]]
    BY <1>1
  <2>2. \A r \in Request : RequestOK(req'[r])
    BY <1>9, <1>10 DEF RInv, Types
  <2> QED BY <1>1, <1>6, <1>7, <1>8, <2>1, <2>2 DEF RInv, Types
<1>12. Connections'
  BY <1>6, <1>7, <1>8 DEF RInv, Connections
<1>13. CalledBack'
  <2> SUFFICES ASSUME NEW v \in Worker, NEW i \in DOMAIN queue'[v],
                      queue'[v][i].req # NoRequest
               PROVE  /\ req'[queue'[v][i].req].stage = "parked"
                      /\ req'[queue'[v][i].req].worker = v
    BY DEF CalledBack
  <2> DEFINE r == queue'[v][i].req
  <2>1. PICK j \in DOMAIN queue[v] :
            queue'[v][i] = queue[v][j] /\ (v = w => j = i + 1)
    BY <1>5, <1>7
  <2>2. queue[v][j] \in CommandType
    BY <2>1 DEF RInv, Types
  <2>3. r \in Request /\ req[r].stage = "parked" /\ req[r].worker = v
    BY <2>1, <2>2 DEF CommandType, RInv, Parking, CalledBack
  <2>4. r # c.req
    <3> SUFFICES ASSUME r = c.req PROVE FALSE
      OBVIOUS
    <3>1. v = w
      BY <1>9, <2>3
    <3>2. j = 1
      BY <1>2, <2>1, <3>1 DEF RInv, Parking, CalledOnce
    <3>3. i \in Nat /\ i # 0
      BY <1>5, <1>7, <3>1
    <3> QED BY <2>1, <3>1, <3>2, <3>3
  <2> QED BY <1>10, <2>3, <2>4
<1>14. CalledOnce'
  <2> SUFFICES ASSUME NEW v \in Worker,
                      NEW i \in DOMAIN queue'[v], NEW j \in DOMAIN queue'[v],
                      queue'[v][i].req = queue'[v][j].req,
                      queue'[v][i].req # NoRequest
               PROVE  i = j
    BY DEF CalledOnce
  <2>1. CASE v = w
    <3>1. /\ i + 1 \in DOMAIN q /\ rest[i] = q[i + 1]
          /\ j + 1 \in DOMAIN q /\ rest[j] = q[j + 1]
          /\ i \in Nat /\ j \in Nat
      BY <1>5, <1>7, <2>1
    <3>2. i + 1 = j + 1
      BY <1>7, <2>1, <3>1 DEF RInv, Parking, CalledOnce
    <3> QED BY <3>1, <3>2
  <2>2. CASE v # w
    BY <1>7, <2>2 DEF RInv, Parking, CalledOnce
  <2> QED BY <2>1, <2>2
<1>15. NotForgotten'
  <2> SUFFICES ASSUME NEW r \in Request, req'[r].stage = "parked"
               PROVE  \E i \in DOMAIN queue'[req'[r].worker] :
                          queue'[req'[r].worker][i].req = r
    BY DEF NotForgotten
  <2>1. r # c.req /\ req'[r] = req[r] /\ req[r].worker \in Worker
    BY <1>9, <1>10 DEF RInv, Types, RequestOK
  <2>2. PICK i \in DOMAIN queue[req[r].worker] :
            queue[req[r].worker][i].req = r
    BY <2>1 DEF RInv, Parking, NotForgotten
  <2>3. CASE req[r].worker = w
    <3>1. i - 1 \in DOMAIN rest /\ rest[i - 1] = q[i]
      BY <1>2, <1>5, <2>1, <2>2, <2>3
    <3> QED BY <1>7, <2>1, <2>2, <2>3, <3>1
  <2>4. CASE req[r].worker # w
    BY <1>7, <2>1, <2>2, <2>4
  <2> QED BY <2>3, <2>4
<1> QED BY <1>11, <1>12, <1>13, <1>14, <1>15 DEF RInv, Parking

LEMMA CountedFacts ==
    ASSUME clock \in Nat, NEW d \in DbType, NEW k \in Key,
           NEW m \in [at : Nat, nonce : NonceType]
    PROVE  Counted(d, k, m) \in DbType
<1> DEFINE kept == {e \in d.events[k] : e.at > clock - Interval * Second}
           now  == kept \cup {m}
           ends == clock + Block * Second
           ban == [deadline |-> Seconds(ends), ends |-> ends]
           b == [d EXCEPT !.events[k] = {}, !.block[k] = ban]
           o == [d EXCEPT !.events[k] = now]
<1>1. Counted(d, k, m) \in {b, o}
  BY DEF Counted
<1>2. now \in SUBSET [at : Nat, nonce : NonceType]
  BY DEF DbType
<1>3. ban \in [deadline : Nat, ends : Nat]
  <2>1. ends \in Nat
    BY RedisParameters
  <2>2. Second \in Nat \ {0}
    BY RedisParameters
  <2> HIDE DEF ends
  <2>3. Seconds(ends) \in Nat
    BY <2>1, <2>2 DEF Seconds
  <2> QED BY <2>1, <2>3
<1> HIDE DEF now, ban
<1>4. b \in DbType /\ o \in DbType
  BY <1>2, <1>3 DEF DbType
<1> QED BY <1>1, <1>4

LEMMA ExecuteRInv ==
    ASSUME RInv, NEW w \in Worker, Execute(w)
    PROVE  RInv'
<1> DEFINE i == 1 + Cardinality({j \in DOMAIN queue[w] :
                                    queue[w][j].reply # "none"})
           c == queue[w][i]
           denied == [worker[w] EXCEPT !.denied = TRUE]
           member == [at |-> clock, nonce |-> c.nonce]
           answered(x) == [c EXCEPT !.reply = x,
                                    !.value = IF x = "STRING"
                                              THEN db.block[c.key].deadline
                                              ELSE 0]
<1> DEFINE answer(x) == queue' = [queue EXCEPT ![w][i] =
               [@ EXCEPT !.reply = x,
                         !.value = IF x = "STRING"
                                   THEN db.block[c.key].deadline ELSE 0]]
<1>1. /\ i \in DOMAIN queue[w] /\ UNCHANGED <<clock, req>>
      /\ \/ /\ c.op = "HELLO" /\ UNCHANGED db
            /\ \/ answer("OK") /\ UNCHANGED worker
               \/ /\ answer("ERROR")
                  /\ worker' = [worker EXCEPT ![w].denied = TRUE]
         \/ /\ c.op = "LOAD" /\ UNCHANGED worker
            /\ answer(IF worker[w].denied THEN "ERROR" ELSE "OK")
            /\ db' = [db EXCEPT !.script = @ \/ ~ worker[w].denied]
         \/ /\ c.op = "GET" /\ UNCHANGED <<db, worker>>
            /\ answer(IF worker[w].denied THEN "ERROR"
                      ELSE IF db.block[c.key].ends > clock THEN "STRING"
                      ELSE "NIL")
         \/ /\ c.op = "EVAL" /\ UNCHANGED worker
            /\ LET ran == db.script /\ ~ worker[w].denied
               IN  /\ answer(CASE ran -> "ARRAY"
                               [] worker[w].denied -> "ERROR"
                               [] OTHER -> "NOSCRIPT")
                   /\ db' = IF ran THEN Counted(db, c.key, member) ELSE db
  BY DEF Execute
<1> HIDE DEF i
<1>2. /\ queue[w] \in Seq(CommandType) /\ c \in CommandType
      /\ WorkerOK(worker[w]) /\ db \in DbType /\ clock \in Nat
  <2>1. queue[w] \in Seq(CommandType)
    BY DEF RInv, Types
  <2>2. c \in CommandType
    BY <1>1, <2>1
  <2> QED BY <2>1, <2>2 DEF RInv, Types
<1>3. db' \in DbType
  <2>1. CASE UNCHANGED db
    BY <1>2, <2>1
  <2>2. CASE db' = [db EXCEPT !.script = @ \/ ~ worker[w].denied]
    BY <1>2, <2>2 DEF DbType
  <2>3. CASE c.op = "EVAL" /\ db' = Counted(db, c.key, member)
    <3>1. c.key \in Key /\ member \in [at : Nat, nonce : NonceType]
      BY <1>2, <2>3 DEF CommandType
    <3> QED BY <1>2, <2>3, <3>1, CountedFacts
  <2> HIDE DEF c, member, answer
  <2> QED BY <1>1, <2>1, <2>2, <2>3
<1>4. /\ worker' = [v \in Worker |-> worker'[v]]
      /\ \A v \in Worker : /\ WorkerOK(worker'[v])
                           /\ worker'[v].conn = worker[v].conn
                           /\ worker'[v].timer = worker[v].timer
  <2>1. CASE UNCHANGED worker
    BY <2>1 DEF RInv, Types
  <2>2. CASE worker' = [worker EXCEPT ![w] = denied]
    <3>1. WorkerOK(denied) /\ denied.conn = worker[w].conn
          /\ denied.timer = worker[w].timer
      BY <1>2 DEF WorkerOK
    <3> HIDE DEF denied
    <3> QED BY <2>2, <3>1 DEF RInv, Types
  <2> QED BY <1>1, <2>1, <2>2
<1>5. \E x \in Answer : answer(x) /\ (x = "STRING" => c.op = "GET")
  <2> HIDE DEF c, answer
  <2> QED BY <1>1 DEF Answer
<1>6. PICK x \in Answer : answer(x) /\ (x = "STRING" => c.op = "GET")
  BY <1>5
<1> DEFINE a == [c EXCEPT !.reply = x,
                          !.value = IF x = "STRING"
                                    THEN db.block[c.key].deadline ELSE 0]
<1>7. a \in CommandType /\ a.req = c.req
  <2>1. CASE x = "STRING"
    <3>1. db.block[c.key].deadline \in Nat
      BY <1>2, <1>6, <2>1 DEF CommandType, DbType
    <3> QED BY <1>2, <2>1, <3>1 DEF CommandType
  <2>2. CASE x # "STRING"
    BY <1>2, <2>2 DEF CommandType
  <2> QED BY <2>1, <2>2
<1>8. queue' = [queue EXCEPT ![w] = [queue[w] EXCEPT ![i] = a]]
  BY <1>6
<1> HIDE DEF a, answer
<1>9. /\ queue' \in [Worker -> Seq(CommandType)]
      /\ \A v \in Worker : /\ DOMAIN queue'[v] = DOMAIN queue[v]
                           /\ queue'[v] = <<>> <=> queue[v] = <<>>
                           /\ \A j \in DOMAIN queue[v] :
                                 queue'[v][j].req = queue[v][j].req
  <2> DEFINE q == [queue[w] EXCEPT ![i] = a]
  <2>1. /\ q \in Seq(CommandType) /\ DOMAIN q = DOMAIN queue[w]
        /\ q # <<>> /\ queue[w] # <<>>
        /\ \A j \in DOMAIN queue[w] : q[j].req = queue[w][j].req
    BY <1>1, <1>2, <1>7
  <2> HIDE DEF q
  <2> QED BY <1>8, <2>1 DEF RInv, Types, q
<1>10. Types'
  BY <1>1, <1>3, <1>4, <1>9 DEF RInv, Types
<1>11. Connections'
  BY <1>4, <1>9 DEF RInv, Connections
<1>12. Parking'
  <2>1. UNCHANGED req
    BY <1>1
  <2>2. \A v \in Worker : \A j \in DOMAIN queue'[v] :
            j \in DOMAIN queue[v] /\ queue'[v][j].req = queue[v][j].req
    BY <1>9
  <2>3. \A v \in Worker : \A j \in DOMAIN queue[v] :
            j \in DOMAIN queue'[v] /\ queue'[v][j].req = queue[v][j].req
    BY <1>9
  <2> QED BY <2>1, <2>2, <2>3, ParkingKept
<1> QED BY <1>10, <1>11, <1>12 DEF RInv

-----------------------------------------------------------------------------
(***************************************************************************)
(* The environment, and the theorems.                                      *)
(***************************************************************************)

LEMMA TickRInv == ASSUME RInv, Tick PROVE RInv'
<1> DEFINE expired(k) == \A e \in db.events[k] :
                             e.at + Inactive * Second <= clock + 1
           ev == [k \in Key |-> IF expired(k) THEN {} ELSE db.events[k]]
           bl == [k \in Key |-> IF db.block[k].ends <= clock + 1
                                THEN NotBlocked ELSE db.block[k]]
<1>1. /\ clock' = clock + 1 /\ UNCHANGED <<worker, queue, req>>
      /\ db' = [db EXCEPT !.events = ev, !.block = bl]
  BY DEF Tick
<1>2. db \in DbType /\ clock \in Nat
  BY DEF RInv, Types
<1>3. ev \in [Key -> SUBSET [at : Nat, nonce : NonceType]]
  <2> HIDE DEF expired
  <2> QED BY <1>2 DEF DbType
<1>4. bl \in [Key -> [deadline : Nat, ends : Nat]]
  <2>1. NotBlocked \in [deadline : Nat, ends : Nat]
    BY DEF NotBlocked
  <2> QED BY <1>2, <2>1 DEF DbType
<1> HIDE DEF ev, bl
<1>5. db' \in DbType
  BY <1>1, <1>2, <1>3, <1>4 DEF DbType
<1>6. Parking'
  BY <1>1, ParkingKept
<1> QED BY <1>1, <1>2, <1>5, <1>6 DEF RInv, Types, Connections

LEMMA OutageRInv == ASSUME RInv, Outage PROVE RInv'
<1> DEFINE s(w) == [worker[w] EXCEPT !.cut = (worker[w].conn # "none")]
<1>1. /\ db' \in {[db EXCEPT !.up = FALSE],
                  [up |-> FALSE, script |-> FALSE,
                   events |-> [k \in Key |-> {}],
                   block |-> [k \in Key |-> NotBlocked]]}
      /\ worker' = [w \in Worker |-> s(w)]
      /\ UNCHANGED <<clock, queue, req>>
  BY DEF Outage
<1>2. db' \in DbType
  <2>1. [db EXCEPT !.up = FALSE] \in DbType
    BY DEF RInv, Types, DbType
  <2>2. NotBlocked \in [deadline : Nat, ends : Nat]
    BY DEF NotBlocked
  <2>3. [up |-> FALSE, script |-> FALSE, events |-> [k \in Key |-> {}],
         block |-> [k \in Key |-> NotBlocked]] \in DbType
    BY <2>2 DEF DbType
  <2> QED BY <1>1, <2>1, <2>3
<1>3. \A w \in Worker : /\ WorkerOK(s(w)) /\ s(w).conn = worker[w].conn
                        /\ s(w).timer = worker[w].timer
  BY DEF RInv, Types, WorkerOK
<1> HIDE DEF s
<1>4. Parking'
  BY <1>1, ParkingKept
<1>5. Types'
  BY <1>1, <1>2, <1>3 DEF RInv, Types
<1>6. Connections'
  BY <1>1, <1>3 DEF RInv, Connections
<1> QED BY <1>4, <1>5, <1>6 DEF RInv

LEMMA ServerRInv == ASSUME RInv, Recovery \/ ScriptFlush PROVE RInv'
<1>1. /\ db' \in {[db EXCEPT !.up = TRUE], [db EXCEPT !.script = FALSE]}
      /\ UNCHANGED <<clock, worker, queue, req>>
  BY DEF Recovery, ScriptFlush
<1>2. db' \in DbType
  BY <1>1 DEF RInv, Types, DbType
<1>3. Parking'
  BY <1>1, ParkingKept
<1> QED BY <1>1, <1>2, <1>3 DEF RInv, Types, Connections

LEMMA NextRInv == RInv /\ [Next]_vars => RInv'
<1> SUFFICES ASSUME RInv, [Next]_vars PROVE RInv'
  OBVIOUS
<1>1. CASE UNCHANGED vars
  <2>1. UNCHANGED <<clock, db, worker, queue, req>>
    BY <1>1 DEF vars
  <2>2. Parking'
    BY <2>1, ParkingKept
  <2> QED BY <2>1, <2>2 DEF RInv, Types, Connections
<1>2. CASE Tick \/ Outage \/ Recovery \/ ScriptFlush
  BY <1>2, TickRInv, OutageRInv, ServerRInv
<1>3. CASE \E r \in Request, w \in Worker, k \in Key : Arrive(r, w, k)
  BY <1>3, ArriveRInv
<1>4. CASE \E r \in Request : RedisCheck(r) \/ RedisRecord(r) \/ Respond(r)
  BY <1>4, RedisCheckRInv, RedisRecordRInv, RespondRInv
<1>5. CASE \E w \in Worker : Execute(w) \/ Deliver(w) \/ Lost(w)
  BY <1>5, ExecuteRInv, DeliverRInv, LostRInv
<1>6. CASE \E w \in Worker : \/ Reconnect(w) \/ Connected(w)
                             \/ ConnectFailed(w) \/ AddReadFails(w)
                             \/ ExitProcess(w)
  BY <1>6, ReconnectRInv, ConnectedRInv, ConnectFailedRInv,
     AddReadFailsRInv, ExitProcessRInv
<1> QED BY <1>1, <1>2, <1>3, <1>4, <1>5, <1>6 DEF Next

LEMMA SpecRInv == Spec => []RInv
BY InitRInv, NextRInv, PTL DEF Spec

\* redis_connect, arm_reconnect, disconnect_callback: whatever fails in
\* whatever order, the reconnect timer never runs while a worker has a
\* context, so that no second connection is attached to its one adapter.
THEOREM OneConnectionAlways == Spec => []OneConnection
BY SpecRInv, RInvOneConnection, PTL

\* redis_check, check_callback: however many requests, commands, outages and
\* restarts there are, each parked request is called back by exactly one
\* command, and no command calls back a request that does not wait.
THEOREM ParkedExactlyOnce == Spec => []ParkedOnce
BY SpecRInv, RInvParkedOnce, PTL

-----------------------------------------------------------------------------
(***************************************************************************)
(* The circuit breaker.                                                    *)
(***************************************************************************)

\* A worker s that has seen b failures in a row: they are counted towards the
\* breaker, which has opened when there were BreakerThreshold of them.
CountsFailures(s, b) ==
    /\ s.failures \in 0 .. BreakerThreshold - 1
    /\ s.breaker \in Nat
    /\ b \in 0 .. BreakerThreshold
    /\ b < BreakerThreshold => s.failures = b

\* One callback, or several: s with b failures becomes t with c.
FailuresKept(s, b, t, c) ==
    /\ CountsFailures(t, c)
    /\ t.breaker # s.breaker =>
          c = BreakerThreshold /\ t.breaker > Seconds(clock)
    /\ b < BreakerThreshold /\ c = BreakerThreshold
          => t.breaker > Seconds(clock)

\* What BreakerCountsFailures says of a worker that goes from s to t.
OpensInTime(s, b, t, c) ==
    /\ t.breaker > s.breaker => c >= BreakerThreshold
    /\ b < BreakerThreshold /\ c >= BreakerThreshold
           => t.breaker > Seconds(clock)

BreakerInv ==
    /\ clock \in 0 .. MaxTime
    /\ bad = [w \in Worker |-> bad[w]]
    /\ \A w \in Worker : CountsFailures(worker[w], bad[w])

BreakerStep ==
    \A w \in Worker : OpensInTime(worker[w], bad[w], worker'[w], bad'[w])

LEMMA MinTwo ==
    ASSUME NEW a \in Int, NEW b \in Int
    PROVE  Min({a, b}) = IF a <= b THEN a ELSE b
<1> DEFINE m == IF a <= b THEN a ELSE b
           Least(x) == \A y \in {a, b} : x <= y
<1>1. m \in {a, b} /\ Least(m) /\ \A x \in {a, b} : Least(x) => x = m
  OBVIOUS
<1>2. Min({a, b}) = CHOOSE x \in {a, b} : Least(x)
  BY DEF Min
<1> HIDE DEF m, Least
<1>3. Min({a, b}) = m
  BY <1>1, <1>2
<1> QED BY <1>3 DEF m

LEMMA BreakerNumbers ==
    /\ BreakerThreshold \in Nat \ {0} /\ BreakerDuration \in Nat \ {0}
    /\ Second \in Nat \ {0} /\ TimeMax \in Nat
    /\ clock \in 0 .. MaxTime =>
          Seconds(clock) \in Nat /\ Seconds(clock) < TimeMax
<1>1. /\ BreakerThreshold \in Nat \ {0} /\ BreakerDuration \in Nat \ {0}
      /\ Second \in Nat \ {0} /\ TimeMax \in Nat /\ MaxTime \in Nat
  BY RedisParameters, TimeRange
<1>2. ASSUME clock \in 0 .. MaxTime
      PROVE  Seconds(clock) \in Nat /\ Seconds(clock) < TimeMax
  BY <1>1, <1>2, RedisClock DEF Seconds
<1> QED BY <1>1, <1>2

\* redis_record_failure: the breaker opens with the failure that makes
\* BreakerThreshold in a row, and for a while from now.
LEMMA FailureCounts ==
    ASSUME NEW s, NEW b, WorkerOK(s), CountsFailures(s, b),
           clock \in 0 .. MaxTime
    PROVE  LET t == RecordFailure(s, Seconds(clock))
               c == Min({b + 1, BreakerThreshold})
           IN  FailuresKept(s, b, t, c)
<1> DEFINE now == Seconds(clock)
           e == TimeAddSaturate(now, BreakerDuration)
           c == Min({b + 1, BreakerThreshold})
           t == RecordFailure(s, now)
<1>1. /\ BreakerThreshold \in Nat \ {0}
      /\ s.failures \in 0 .. BreakerThreshold - 1 /\ s.breaker \in Nat
      /\ b \in 0 .. BreakerThreshold
      /\ b < BreakerThreshold => s.failures = b
  BY BreakerNumbers DEF CountsFailures
<1>2. e \in Nat /\ e > now
  BY BreakerNumbers DEF TimeAddSaturate
<1>3. c = IF b + 1 <= BreakerThreshold THEN b + 1 ELSE BreakerThreshold
  BY <1>1, MinTwo
<1>4. t = IF s.failures + 1 >= BreakerThreshold
          THEN [s EXCEPT !.breaker = e, !.failures = 0]
          ELSE [s EXCEPT !.failures = @ + 1]
  BY DEF RecordFailure
<1> HIDE DEF e, c, t, now
<1>5. CASE s.failures + 1 >= BreakerThreshold
  <2>1. t.failures = 0 /\ t.breaker = e
    BY <1>4, <1>5 DEF WorkerOK
  <2>2. c = BreakerThreshold
    BY <1>1, <1>3, <1>5
  <2> QED BY <1>1, <1>2, <2>1, <2>2 DEF CountsFailures, FailuresKept, c, t, now
<1>6. CASE ~ (s.failures + 1 >= BreakerThreshold)
  <2>1. t.failures = s.failures + 1 /\ t.breaker = s.breaker
    BY <1>4, <1>6 DEF WorkerOK
  <2>2. /\ t.failures \in 0 .. BreakerThreshold - 1
        /\ c \in 0 .. BreakerThreshold
        /\ c < BreakerThreshold => t.failures = c
        /\ b < BreakerThreshold => c < BreakerThreshold
    BY <1>1, <1>3, <1>6, <2>1
  <2> QED BY <1>1, <2>1, <2>2 DEF CountsFailures, FailuresKept, c, t, now
<1> QED BY <1>5, <1>6

\* Both callbacks: a failure counts, a good answer ends the row, and the
\* handshake and a lost script are neither.
LEMMA CallbackCounts ==
    ASSUME NEW s, NEW b, NEW c, WorkerOK(s), CountsFailures(s, b),
           clock \in 0 .. MaxTime,
           c.op \in Op, c.reply \in Answer \ {"none"},
           c.op \in {"GET", "EVAL"} => c.reply # "OK"
    PROVE  LET t == Callback(s, c, Seconds(clock))
               n == BadAfter(b, c)
           IN  FailuresKept(s, b, t, n)
<1> DEFINE t == Callback(s, c, Seconds(clock))
           n == BadAfter(b, c)
<1>1. CASE c.op \in {"GET", "EVAL"} /\ c.reply \in {"ERROR", "NULL"}
  <2>1. t = RecordFailure(s, Seconds(clock))
    BY <1>1 DEF Callback
  <2>2. n = Min({b + 1, BreakerThreshold})
    BY <1>1 DEF BadAfter
  <2> HIDE DEF t, n
  <2>3. FailuresKept(s, b, t, n)
    BY <2>1, <2>2, FailureCounts
  <2> QED BY <2>3 DEF t, n
<1>2. CASE c.op \in {"GET", "EVAL"} /\ c.reply \in {"STRING", "NIL", "ARRAY"}
  <2>1. t.failures = 0 /\ t.breaker = s.breaker
    BY <1>2 DEF Callback, GoodAnswer, WorkerOK
  <2>2. n = 0
    BY <1>2 DEF BadAfter
  <2> HIDE DEF t, n
  <2>3. FailuresKept(s, b, t, n)
    BY <2>1, <2>2, BreakerNumbers DEF CountsFailures, FailuresKept
  <2> QED BY <2>3 DEF t, n
<1>3. CASE c.op \notin {"GET", "EVAL"} \/ c.reply = "NOSCRIPT"
  <2>1. t.failures = s.failures /\ t.breaker = s.breaker
    <3>1. t \in {s, HandshakeFailed(s)}
      BY <1>3 DEF Callback
    <3>2. /\ HandshakeFailed(s).failures = s.failures
          /\ HandshakeFailed(s).breaker = s.breaker
      BY DEF HandshakeFailed, WorkerOK
    <3> HIDE DEF t
    <3> QED BY <3>1, <3>2
  <2>2. n = b
    BY <1>3 DEF BadAfter
  <2> HIDE DEF t, n
  <2>3. FailuresKept(s, b, t, n)
    BY <2>1, <2>2, BreakerNumbers DEF CountsFailures, FailuresKept
  <2> QED BY <2>3 DEF t, n
<1>4. \/ c.op \in {"GET", "EVAL"} /\ c.reply \in {"ERROR", "NULL"}
      \/ c.op \in {"GET", "EVAL"} /\ c.reply \in {"STRING", "NIL", "ARRAY"}
      \/ c.op \notin {"GET", "EVAL"} \/ c.reply = "NOSCRIPT"
  BY DEF Answer
<1> HIDE DEF t, n
<1>5. FailuresKept(s, b, t, n)
  BY <1>1, <1>2, <1>3, <1>4 DEF t, n
<1> QED BY <1>5 DEF t, n

\* A failure does not end the row of failures.
LEMMA NullCounts ==
    ASSUME NEW b \in 0 .. BreakerThreshold, NEW c, c.reply = "NULL"
    PROVE  /\ BadAfter(b, c) \in Nat /\ BadAfter(b, c) >= b
           /\ c.op \in {"GET", "EVAL"} => BadAfter(b, c) >= 1
<1>1. /\ BadAfter(b, c) \in {b, Min({b + 1, BreakerThreshold})}
      /\ c.op \in {"GET", "EVAL"} =>
            BadAfter(b, c) = Min({b + 1, BreakerThreshold})
  BY DEF BadAfter
<1>2. Min({b + 1, BreakerThreshold})
          = IF b + 1 <= BreakerThreshold THEN b + 1 ELSE BreakerThreshold
  BY BreakerNumbers, MinTwo
<1> QED BY <1>1, <1>2, BreakerNumbers

\* The callbacks of a connection that is lost, one after the other.
LEMMA AfterAllCounts ==
    ASSUME RInv, BreakerInv, NEW w \in Worker
    PROVE  LET a == AfterAll(w)
           IN  /\ FailuresKept(worker[w], bad[w], a.worker, a.bad)
               /\ \A i \in DOMAIN queue[w] :
                     queue[w][i].op \in {"GET", "EVAL"} => a.bad >= 1
<1> DEFINE q == AllNull(w)
           n == Len(q)
           first == [worker |-> worker[w], bad |-> bad[w]]
           Step(g, i) ==
               IF i = 0 THEN first
               ELSE [worker |-> Callback(g[i - 1].worker, q[i],
                                         Seconds(clock)),
                     bad |-> BadAfter(g[i - 1].bad, q[i])]
           IsRun(g, m) == g = [i \in 0 .. m |-> Step(g, i)]
<1>1. /\ n \in Nat /\ DOMAIN queue[w] = 1 .. n
      /\ \A i \in 1 .. n : /\ q[i].op \in Op /\ q[i].reply = "NULL"
                           /\ q[i].op = queue[w][i].op
  <2>1. queue[w] \in Seq(CommandType)
    BY DEF RInv, Types
  <2>2. PICK l \in Nat : DOMAIN queue[w] = 1 .. l
    BY <2>1
  <2>3. q = [i \in 1 .. l |-> [queue[w][i] EXCEPT !.reply = "NULL"]]
    BY <2>2 DEF AllNull
  <2>4. n = l
    BY <2>3
  <2>5. ASSUME NEW i \in 1 .. n
        PROVE  /\ q[i].op \in Op /\ q[i].reply = "NULL"
               /\ q[i].op = queue[w][i].op
    <3>1. queue[w][i] \in CommandType
      BY <2>1, <2>2, <2>4
    <3>2. q[i] = [queue[w][i] EXCEPT !.reply = "NULL"]
      BY <2>3, <2>4
    <3> HIDE DEF q
    <3> QED BY <3>1, <3>2 DEF CommandType
  <2> HIDE DEF n, q
  <2> QED BY <2>2, <2>4, <2>5
<1> HIDE DEF q, first
<1>2. \A m \in 0 .. n : \E g : IsRun(g, m)
  <2> DEFINE S == {m \in 0 .. n : \E g : IsRun(g, m)}
  <2>1. 0 \in S
    <3>1. PICK g : g = [i \in 0 .. 0 |-> first]
      OBVIOUS
    <3>2. \A i \in 0 .. 0 : Step(g, i) = first
      OBVIOUS
    <3> HIDE DEF Step
    <3>3. IsRun(g, 0)
      BY <3>1, <3>2
    <3> QED BY <1>1, <3>3
  <2>2. ASSUME NEW m \in 1 .. n, m - 1 \in S
        PROVE  m \in S
    <3>1. PICK g : IsRun(g, m - 1)
      BY <2>2, Zenon
    <3>2. PICK h : h = [i \in 0 .. m |-> IF i = m THEN Step(g, i) ELSE g[i]]
      OBVIOUS
    <3> HIDE DEF n
    <3>3. \A i \in 0 .. m : i # m => i \in 0 .. m - 1
      BY <1>1
    <3>4. \A i \in 0 .. m : i # 0 => i - 1 \in 0 .. m - 1 /\ i - 1 # m
      BY <1>1
    <3>5. \A i \in 0 .. m - 1 : i \in 0 .. m /\ i # m /\ g[i] = Step(g, i)
      <4> HIDE DEF Step
      <4>1. \A i \in 0 .. m - 1 : g[i] = Step(g, i)
        BY <3>1
      <4> QED BY <1>1, <4>1
    <3>6. \A i \in 0 .. m - 1 : h[i] = g[i]
      BY <3>2, <3>5
    <3>7. ASSUME NEW i \in 0 .. m PROVE h[i] = Step(h, i)
      <4>1. i # 0 => h[i - 1] = g[i - 1]
        BY <3>4, <3>6
      <4>2. Step(h, i) = Step(g, i)
        BY <4>1
      <4>3. h[i] = Step(g, i)
        BY <3>2, <3>3, <3>5
      <4> QED BY <4>2, <4>3, Zenon
    <3>8. IsRun(h, m)
      <4> HIDE DEF Step
      <4>1. h = [i \in 0 .. m |-> h[i]]
        BY <3>2
      <4> QED BY <3>7, <4>1
    <3> HIDE DEF IsRun
    <3> QED BY <1>1, <3>8
  <2> HIDE DEF S
  <2>3. \A m \in 0 .. n : m \in S
    BY <1>1, <2>1, <2>2, UpTo
  <2> QED BY <2>3 DEF S
<1>3. PICK k : IsRun(k, n) /\ AfterAll(w) = k[n]
  <2>1. AfterAll(w) = (CHOOSE g : IsRun(g, n))[n]
    BY DEF AfterAll, q, first
  <2> HIDE DEF IsRun, n
  <2>2. \E g : IsRun(g, n)
    BY <1>1, <1>2
  <2> QED BY <2>1, <2>2
<1>4. \A i \in 0 .. n : k[i] = Step(k, i)
  <2> HIDE DEF Step, n
  <2> QED BY <1>1, <1>3
<1> HIDE DEF IsRun
<1> DEFINE Good(i) ==
        /\ WorkerOK(k[i].worker)
        /\ FailuresKept(worker[w], bad[w], k[i].worker, k[i].bad)
        /\ \A j \in 1 .. i : q[j].op \in {"GET", "EVAL"} => k[i].bad >= 1
<1>5. Good(0)
  <2>1. 0 \in 0 .. n
    BY <1>1
  <2>2. k[0] = first
    BY <1>4, <2>1
  <2>3. k[0].worker = worker[w] /\ k[0].bad = bad[w]
    BY <2>2 DEF first
  <2>4. WorkerOK(worker[w]) /\ CountsFailures(worker[w], bad[w])
    BY DEF RInv, Types, BreakerInv
  <2>5. FailuresKept(worker[w], bad[w], worker[w], bad[w])
    BY <2>4, BreakerNumbers DEF FailuresKept, CountsFailures
  <2> QED BY <2>3, <2>4, <2>5
<1>6. ASSUME NEW i \in 1 .. n, Good(i - 1)
      PROVE  Good(i)
  <2> DEFINE s == k[i - 1].worker
             b == k[i - 1].bad
             t == Callback(s, q[i], Seconds(clock))
             c == BadAfter(b, q[i])
  <2>1. i \in 0 .. n /\ i # 0
    BY <1>1
  <2>2. k[i].worker = t /\ k[i].bad = c
    <3>1. k[i] = [worker |-> t, bad |-> c]
      BY <1>4, <2>1
    <3> HIDE DEF t, c
    <3> QED BY <3>1
  <2>3. /\ WorkerOK(s) /\ FailuresKept(worker[w], bad[w], s, b)
        /\ q[i].op \in Op /\ q[i].reply = "NULL"
    BY <1>1, <1>6
  <2>4. CountsFailures(s, b) /\ b \in 0 .. BreakerThreshold
    BY <2>3 DEF FailuresKept, CountsFailures
  <2>5. clock \in 0 .. MaxTime
    BY DEF BreakerInv
  <2> HIDE DEF s, b
  <2>6. WorkerOK(t)
    BY <2>3, CallbackFacts
  <2>7. FailuresKept(s, b, t, c)
    BY <2>3, <2>4, <2>5, CallbackCounts DEF Answer
  <2>8. /\ c \in Nat /\ c >= b
        /\ q[i].op \in {"GET", "EVAL"} => c >= 1
    BY <2>3, <2>4, NullCounts
  <2>9. \A j \in 1 .. i - 1 : q[j].op \in {"GET", "EVAL"} => b >= 1
    BY <1>6 DEF b
  <2> HIDE DEF t, c
  <2>10. FailuresKept(worker[w], bad[w], t, c)
    BY <2>3, <2>4, <2>7, <2>8, BreakerNumbers DEF FailuresKept, CountsFailures
  <2>11. ASSUME NEW j \in 1 .. i, q[j].op \in {"GET", "EVAL"}
         PROVE  c >= 1
    <3>1. i \in Nat /\ b \in Nat
      BY <1>1, <2>4, BreakerNumbers
    <3>2. j = i \/ j \in 1 .. i - 1
      BY <3>1
    <3>3. CASE j = i
      BY <2>8, <2>11, <3>3
    <3>4. CASE j \in 1 .. i - 1
      <4>1. b >= 1
        BY <2>9, <2>11, <3>4
      <4> QED BY <2>8, <3>1, <4>1
    <3> QED BY <3>2, <3>3, <3>4
  <2> QED BY <2>2, <2>6, <2>10, <2>11
<1>7. Good(n)
  <2> DEFINE S == {i \in 0 .. n : Good(i)}
  <2> HIDE DEF Good, n
  <2>1. 0 \in S
    BY <1>1, <1>5
  <2>2. \A i \in 1 .. n : i - 1 \in S => i \in S
    BY <1>1, <1>6
  <2> HIDE DEF S
  <2>3. \A i \in 0 .. n : i \in S
    BY <1>1, <2>1, <2>2, UpTo
  <2> QED BY <1>1, <2>3 DEF S
<1> QED BY <1>1, <1>3, <1>7

-----------------------------------------------------------------------------
(***************************************************************************)
(* The numbers of errors.  Each error has a member of its own in the       *)
(* sorted set of Redis because a worker numbers its errors and never       *)
(* queues a number twice; and Redis takes each command once, because it    *)
(* answers in order.                                                       *)
(***************************************************************************)

\* An error that waits has a number its worker has used up.
Numbered ==
    \A w \in Worker : \A i \in DOMAIN queue[w] :
        queue[w][i].op = "EVAL" =>
            \E n \in Nat : /\ n <= worker[w].sequence
                           /\ queue[w][i].nonce = <<w, n>>

\* Two errors that wait have different numbers.
DistinctNumbers ==
    \A w \in Worker : \A i, j \in DOMAIN queue[w] :
        ( /\ queue[w][i].op = "EVAL" /\ queue[w][j].op = "EVAL"
          /\ queue[w][i].nonce = queue[w][j].nonce ) => i = j

\* An error that Redis has yet to take is not among those it holds, unless
\* the connection is cut and it never will.
Untaken ==
    \A w \in Worker : \A i \in DOMAIN queue[w] :
        ( /\ queue[w][i].op = "EVAL" /\ queue[w][i].reply = "none"
          /\ ~ worker[w].cut ) =>
            \A k \in Key : \A e \in db.events[k] :
                e.nonce # queue[w][i].nonce

\* What Redis holds has been numbered.
Held ==
    \A k \in Key : \A e \in db.events[k] :
        \E v \in Worker : \E n \in Nat :
            /\ e.nonce = <<v, n>>
            /\ worker[v].exiting \/ n <= worker[v].sequence

\* Redis answers in order, and nothing but the handshake with OK.
InOrder ==
    \A w \in Worker : \A i, j \in DOMAIN queue[w] :
        i < j /\ queue[w][j].reply # "none" => queue[w][i].reply # "none"

Replies ==
    \A w \in Worker : \A i \in DOMAIN queue[w] :
        queue[w][i].op \in {"GET", "EVAL"} => queue[w][i].reply # "OK"

Numbers == Numbered /\ DistinctNumbers /\ Untaken /\ Held /\ InOrder /\ Replies

\* A worker that exits has no connection and no request, and gets none, so
\* that its numbers are over too.
Gone ==
    \A w \in Worker : worker[w].exiting =>
        /\ worker[w].conn = "none" /\ ~ worker[w].timer
        /\ \A r \in Request : req[r].stage = "free" \/ req[r].worker # w

\* A queue q after p: commands have left its front, others that count nothing
\* have joined at the end.
Follows(q, p) ==
    \E d \in Nat : \A i \in DOMAIN q :
        \/ i + d \in DOMAIN p /\ q[i] = p[i + d]
        \/ i + d \notin DOMAIN p /\ q[i].op # "EVAL" /\ q[i].reply = "none"

LEMMA FollowsFacts ==
    /\ \A p \in Seq(CommandType) : Follows(p, p)
    /\ \A p : Follows(<<>>, p)
<1>1. ASSUME NEW p \in Seq(CommandType) PROVE Follows(p, p)
  <2>1. \A i \in DOMAIN p : i + 0 \in DOMAIN p /\ p[i] = p[i + 0]
    OBVIOUS
  <2> QED BY <2>1 DEF Follows
<1>2. ASSUME NEW p PROVE Follows(<<>>, p)
  BY DEF Follows
<1> QED BY <1>1, <1>2

LEMMA NumbersKept ==
    ASSUME RInv, RInv', Numbers,
           \A v \in Worker :
               /\ Follows(queue'[v], queue[v])
               /\ \/ queue'[v] = <<>>
                  \/ /\ worker'[v].sequence = worker[v].sequence
                     /\ worker[v].cut => worker'[v].cut
               /\ worker[v].exiting => worker'[v].exiting
               /\ \/ worker'[v].exiting
                  \/ worker'[v].sequence >= worker[v].sequence,
           \A k \in Key : db'.events[k] \subseteq db.events[k]
    PROVE  Numbers'
<1>1. \A v \in Worker : /\ queue[v] \in Seq(CommandType)
                        /\ queue'[v] \in Seq(CommandType)
                        /\ worker[v].sequence \in Nat
                        /\ worker'[v].sequence \in Nat
  BY DEF RInv, Types, WorkerOK
<1>2. ASSUME NEW v \in Worker
      PROVE  /\ \A i \in DOMAIN queue'[v] :
                   queue'[v][i].op = "EVAL" =>
                      \E n \in Nat : /\ n <= worker'[v].sequence
                                     /\ queue'[v][i].nonce = <<v, n>>
             /\ \A i, j \in DOMAIN queue'[v] :
                   ( /\ queue'[v][i].op = "EVAL" /\ queue'[v][j].op = "EVAL"
                     /\ queue'[v][i].nonce = queue'[v][j].nonce ) => i = j
             /\ \A i \in DOMAIN queue'[v] :
                   ( /\ queue'[v][i].op = "EVAL"
                     /\ queue'[v][i].reply = "none" /\ ~ worker'[v].cut ) =>
                        \A k \in Key : \A e \in db'.events[k] :
                            e.nonce # queue'[v][i].nonce
             /\ \A i, j \in DOMAIN queue'[v] :
                   i < j /\ queue'[v][j].reply # "none"
                       => queue'[v][i].reply # "none"
             /\ \A i \in DOMAIN queue'[v] :
                   queue'[v][i].op \in {"GET", "EVAL"}
                       => queue'[v][i].reply # "OK"
  <2> DEFINE q == queue'[v]
             p == queue[v]
  <2>1. PICK d \in Nat : \A i \in DOMAIN q :
            \/ i + d \in DOMAIN p /\ q[i] = p[i + d]
            \/ i + d \notin DOMAIN p /\ q[i].op # "EVAL" /\ q[i].reply = "none"
    BY DEF Follows
  <2>2. PICK m \in Nat : DOMAIN q = 1 .. m
    BY <1>1
  <2>3. PICK l \in Nat : DOMAIN p = 1 .. l
    BY <1>1
  <2>4. \A i \in DOMAIN q : q[i].op = "EVAL" =>
            i + d \in DOMAIN p /\ q[i] = p[i + d]
    BY <2>1
  <2>5. \A i \in DOMAIN q : q[i].reply # "none" =>
            i + d \in DOMAIN p /\ q[i] = p[i + d]
    BY <2>1
  <2>6. \A i, j \in DOMAIN q :
            /\ i \in Nat /\ j \in Nat
            /\ i + d = j + d => i = j
            /\ i < j => i + d < j + d
            /\ i < j /\ j + d \in DOMAIN p => i + d \in DOMAIN p
    BY <2>2, <2>3
  <2>7. \A i, j \in DOMAIN q :
            q[i].op = "EVAL" /\ q[j].op = "EVAL" /\ q[i].nonce = q[j].nonce
                => i = j
    BY <2>4, <2>6 DEF Numbers, DistinctNumbers
  <2>8. \A i, j \in DOMAIN q :
            i < j /\ q[j].reply # "none" => q[i].reply # "none"
    <3> SUFFICES ASSUME NEW i \in DOMAIN q, NEW j \in DOMAIN q,
                        i < j, q[j].reply # "none"
                 PROVE  q[i].reply # "none"
      OBVIOUS
    <3>1. j + d \in DOMAIN p /\ q[j] = p[j + d]
      BY <2>5
    <3>2. i + d \in DOMAIN p /\ q[i] = p[i + d] /\ i + d < j + d
      BY <2>1, <2>6, <3>1
    <3> QED BY <3>1, <3>2 DEF Numbers, InOrder
  <2>9. \A i \in DOMAIN q :
            q[i].op \in {"GET", "EVAL"} => q[i].reply # "OK"
    BY <2>1 DEF Numbers, Replies
  <2>10. CASE queue'[v] = <<>>
    <3>1. \A i : i \notin DOMAIN q
      BY <2>10
    <3> QED BY <3>1
  <2>11. CASE /\ worker'[v].sequence = worker[v].sequence
              /\ worker[v].cut => worker'[v].cut
    <3>1. \A i \in DOMAIN q : q[i].op = "EVAL" =>
              \E n \in Nat : /\ n <= worker'[v].sequence
                             /\ q[i].nonce = <<v, n>>
      BY <2>4, <2>11 DEF Numbers, Numbered
    <3>2. \A i \in DOMAIN q :
              q[i].op = "EVAL" /\ q[i].reply = "none" /\ ~ worker'[v].cut
                  => \A k \in Key : \A e \in db'.events[k] :
                         e.nonce # q[i].nonce
      <4> SUFFICES ASSUME NEW i \in DOMAIN q, q[i].op = "EVAL",
                          q[i].reply = "none", ~ worker'[v].cut,
                          NEW k \in Key, NEW e \in db'.events[k]
                   PROVE  e.nonce # q[i].nonce
        OBVIOUS
      <4>1. i + d \in DOMAIN p /\ q[i] = p[i + d]
        BY <2>4
      <4>2. ~ worker[v].cut /\ e \in db.events[k]
        BY <2>11
      <4> QED BY <4>1, <4>2 DEF Numbers, Untaken
    <3> QED BY <2>7, <2>8, <2>9, <3>1, <3>2
  <2> QED BY <2>10, <2>11
<1>3. Held'
  <2> SUFFICES ASSUME NEW k \in Key, NEW e \in db'.events[k]
               PROVE  \E v \in Worker : \E n \in Nat :
                          /\ e.nonce = <<v, n>>
                          /\ worker'[v].exiting \/ n <= worker'[v].sequence
    BY DEF Held
  <2>1. PICK v \in Worker, n \in Nat :
            /\ e.nonce = <<v, n>>
            /\ worker[v].exiting \/ n <= worker[v].sequence
    BY DEF Numbers, Held
  <2>2. worker'[v].exiting \/ n <= worker'[v].sequence
    BY <1>1, <2>1
  <2> QED BY <2>1, <2>2
<1>4. Numbered' /\ DistinctNumbers'
  BY <1>2 DEF Numbered, DistinctNumbers
<1>5. Untaken' /\ InOrder' /\ Replies'
  BY <1>2 DEF Untaken, InOrder, Replies
<1> QED BY <1>3, <1>4, <1>5 DEF Numbers

\* Worker w queues an error under the next number: the number is new.
LEMMA NumbersTaken ==
    ASSUME RInv, RInv', Numbers, NEW w \in Worker, ~ worker[w].exiting,
           NEW c, c.op = "EVAL", c.reply = "none",
           c.nonce = <<w, worker[w].sequence + 1>>,
           queue' = [queue EXCEPT ![w] = Append(@, c)],
           worker' = [worker EXCEPT
                         ![w] = [@ EXCEPT !.sequence = worker[w].sequence + 1]],
           UNCHANGED db
    PROVE  Numbers'
<1> DEFINE q == queue[w]
           m == worker[w].sequence + 1
<1>1. /\ q \in Seq(CommandType) /\ WorkerOK(worker[w])
      /\ worker = [v \in Worker |-> worker[v]]
  BY DEF RInv, Types
<1>2. PICK l \in Nat : l = Len(q) /\ DOMAIN q = 1 .. l
  BY <1>1
<1>3. /\ queue'[w] = Append(q, c)
      /\ \A v \in Worker \ {w} : queue'[v] = queue[v]
  BY DEF RInv, Types
<1>4. /\ DOMAIN queue'[w] = 1 .. (l + 1)
      /\ queue'[w][l + 1] = c
      /\ \A i \in 1 .. l : queue'[w][i] = q[i]
  <2>1. c = queue'[w][Len(queue'[w])] /\ queue'[w] \in Seq(CommandType)
    BY <1>1, <1>3 DEF RInv, Types
  <2>2. Len(queue'[w]) = l + 1
    BY <1>1, <1>2, <1>3
  <2>3. DOMAIN queue'[w] = 1 .. (l + 1)
    BY <2>1, <2>2
  <2> QED BY <1>1, <1>2, <1>3, <2>1, <2>2, <2>3
<1>5. /\ \A v \in Worker \ {w} : worker'[v] = worker[v]
      /\ worker'[w].sequence = m /\ worker'[w].cut = worker[w].cut
      /\ worker'[w].exiting = worker[w].exiting
      /\ worker[w].sequence \in Nat
  BY <1>1 DEF WorkerOK
<1>6. \A i \in 1 .. (l + 1) : i \in 1 .. l \/ i = l + 1
  BY <1>2
<1>7. Numbered'
  <2> SUFFICES ASSUME NEW v \in Worker, NEW i \in DOMAIN queue'[v],
                      queue'[v][i].op = "EVAL"
               PROVE  \E n \in Nat : /\ n <= worker'[v].sequence
                                     /\ queue'[v][i].nonce = <<v, n>>
    BY DEF Numbered
  <2>1. CASE v = w /\ i = l + 1
    BY <1>4, <1>5, <2>1
  <2>2. CASE v = w /\ i \in 1 .. l
    <3>1. PICK n \in Nat : n <= worker[w].sequence /\ q[i].nonce = <<w, n>>
      BY <1>2, <1>4, <2>2 DEF Numbers, Numbered
    <3>2. n <= worker'[w].sequence
      BY <1>5, <3>1
    <3> QED BY <1>4, <2>2, <3>1, <3>2
  <2>3. CASE v # w
    BY <1>3, <1>5, <2>3 DEF Numbers, Numbered
  <2> QED BY <1>4, <1>6, <2>1, <2>2, <2>3
<1>8. DistinctNumbers'
  <2> SUFFICES ASSUME NEW v \in Worker, NEW i \in DOMAIN queue'[v],
                      NEW j \in DOMAIN queue'[v],
                      queue'[v][i].op = "EVAL", queue'[v][j].op = "EVAL",
                      queue'[v][i].nonce = queue'[v][j].nonce
               PROVE  i = j
    BY DEF DistinctNumbers
  <2>1. CASE v # w
    BY <1>3, <2>1 DEF Numbers, DistinctNumbers
  <2>2. CASE v = w
    <3>1. \A x \in 1 .. l : q[x].op = "EVAL" => q[x].nonce # c.nonce
      <4> SUFFICES ASSUME NEW x \in 1 .. l, q[x].op = "EVAL"
                   PROVE  q[x].nonce # c.nonce
        OBVIOUS
      <4>1. PICK n \in Nat : n <= worker[w].sequence /\ q[x].nonce = <<w, n>>
        BY <1>2 DEF Numbers, Numbered
      <4> QED BY <1>5, <4>1
    <3> QED BY <1>2, <1>4, <1>6, <2>2, <3>1 DEF Numbers, DistinctNumbers
  <2> QED BY <2>1, <2>2
<1>9. Untaken'
  <2> SUFFICES ASSUME NEW v \in Worker, NEW i \in DOMAIN queue'[v],
                      queue'[v][i].op = "EVAL", queue'[v][i].reply = "none",
                      ~ worker'[v].cut, NEW k \in Key, NEW e \in db.events[k]
               PROVE  e.nonce # queue'[v][i].nonce
    BY DEF Untaken
  <2>1. CASE v = w /\ i = l + 1
    <3>1. PICK u \in Worker, n \in Nat :
              /\ e.nonce = <<u, n>>
              /\ worker[u].exiting \/ n <= worker[u].sequence
      BY DEF Numbers, Held
    <3>2. e.nonce # <<w, m>>
      BY <1>5, <3>1
    <3> QED BY <1>4, <2>1, <3>2
  <2>2. CASE v = w /\ i \in 1 .. l
    BY <1>2, <1>4, <1>5, <2>2 DEF Numbers, Untaken
  <2>3. CASE v # w
    BY <1>3, <1>5, <2>3 DEF Numbers, Untaken
  <2> QED BY <1>4, <1>6, <2>1, <2>2, <2>3
<1>10. Held'
  <2> SUFFICES ASSUME NEW k \in Key, NEW e \in db.events[k]
               PROVE  \E v \in Worker : \E n \in Nat :
                          /\ e.nonce = <<v, n>>
                          /\ worker'[v].exiting \/ n <= worker'[v].sequence
    BY DEF Held
  <2>1. PICK v \in Worker, n \in Nat :
            /\ e.nonce = <<v, n>>
            /\ worker[v].exiting \/ n <= worker[v].sequence
    BY DEF Numbers, Held
  <2>2. worker'[v].exiting \/ n <= worker'[v].sequence
    BY <1>5, <2>1
  <2> QED BY <2>1, <2>2
<1>11. InOrder'
  <2> SUFFICES ASSUME NEW v \in Worker, NEW i \in DOMAIN queue'[v],
                      NEW j \in DOMAIN queue'[v],
                      i < j, queue'[v][j].reply # "none"
               PROVE  queue'[v][i].reply # "none"
    BY DEF InOrder
  <2>1. CASE v # w
    BY <1>3, <2>1 DEF Numbers, InOrder
  <2>2. CASE v = w
    <3>1. j \in 1 .. l
      BY <1>4, <1>6, <2>2
    <3>2. i \in 1 .. l
      BY <1>4, <1>6, <2>2, <3>1
    <3> QED BY <1>2, <1>4, <2>2, <3>1, <3>2 DEF Numbers, InOrder
  <2> QED BY <2>1, <2>2
<1>12. Replies'
  <2>1. \A v \in Worker \ {w} : queue'[v] = queue[v]
    BY <1>3
  <2> QED BY <1>2, <1>4, <1>6, <2>1 DEF Numbers, Replies
<1> QED BY <1>7, <1>8, <1>9, <1>10, <1>11, <1>12 DEF Numbers

\* A number can be used up and not queued.
LEMMA NumbersRaised ==
    ASSUME RInv, RInv', Numbers, UNCHANGED <<queue, db>>,
           \A v \in Worker : /\ worker'[v].sequence >= worker[v].sequence
                             /\ worker'[v].cut = worker[v].cut
                             /\ worker'[v].exiting = worker[v].exiting
    PROVE  Numbers'
<1>1. \A v \in Worker :
          /\ worker[v].sequence \in Nat /\ worker'[v].sequence \in Nat
          /\ \A n \in Nat : n <= worker[v].sequence => n <= worker'[v].sequence
  BY DEF RInv, Types, WorkerOK
<1>2. Numbered'
  <2> SUFFICES ASSUME NEW v \in Worker, NEW i \in DOMAIN queue[v],
                      queue[v][i].op = "EVAL"
               PROVE  \E n \in Nat : /\ n <= worker'[v].sequence
                                     /\ queue[v][i].nonce = <<v, n>>
    BY DEF Numbered
  <2> QED BY <1>1 DEF Numbers, Numbered
<1>3. Held'
  <2> SUFFICES ASSUME NEW k \in Key, NEW e \in db.events[k]
               PROVE  \E v \in Worker : \E n \in Nat :
                          /\ e.nonce = <<v, n>>
                          /\ worker'[v].exiting \/ n <= worker'[v].sequence
    BY DEF Held
  <2>1. PICK v \in Worker, n \in Nat :
            /\ e.nonce = <<v, n>>
            /\ worker[v].exiting \/ n <= worker[v].sequence
    BY DEF Numbers, Held
  <2> QED BY <1>1, <2>1
<1>4. DistinctNumbers' /\ InOrder' /\ Replies' /\ Untaken'
  BY DEF Numbers, DistinctNumbers, InOrder, Replies, Untaken
<1> QED BY <1>2, <1>3, <1>4 DEF Numbers

\* A connection is no longer heard: Redis takes none of its commands again.
LEMMA AddReadFailsNumbers ==
    ASSUME RInv, Numbers, NEW w \in Worker, AddReadFails(w)
    PROVE  Numbers'
<1> DEFINE q == queue[w]
           unanswered == [i \in DOMAIN q |-> [q[i] EXCEPT !.reply = "none"]]
<1>1. /\ worker' = [worker EXCEPT ![w] = [@ EXCEPT !.ready = FALSE,
                                                   !.cut = TRUE]]
      /\ queue' = [queue EXCEPT ![w] = unanswered]
      /\ UNCHANGED db
  BY DEF AddReadFails
<1>2. q \in Seq(CommandType) /\ WorkerOK(worker[w])
  BY DEF RInv, Types
<1>3. \A i \in DOMAIN q :
          /\ unanswered[i].op = q[i].op /\ unanswered[i].nonce = q[i].nonce
          /\ unanswered[i].reply = "none"
  <2> TAKE i \in DOMAIN q
  <2>1. q[i] \in CommandType
    BY <1>2
  <2> QED BY <2>1 DEF CommandType
<1>4. DOMAIN unanswered = DOMAIN q
  OBVIOUS
<1> HIDE DEF unanswered
<1>5. /\ queue'[w] = unanswered
      /\ \A v \in Worker \ {w} : queue'[v] = queue[v]
  BY <1>1 DEF RInv, Types
<1>6. /\ \A v \in Worker \ {w} : worker'[v] = worker[v]
      /\ worker'[w].cut = TRUE
      /\ worker'[w].sequence = worker[w].sequence
      /\ worker'[w].exiting = worker[w].exiting
  BY <1>1, <1>2 DEF RInv, Types, WorkerOK
<1>7. Numbered'
  BY <1>3, <1>4, <1>5, <1>6 DEF Numbers, Numbered
<1>8. DistinctNumbers'
  BY <1>3, <1>4, <1>5 DEF Numbers, DistinctNumbers
<1>9. Untaken'
  BY <1>1, <1>5, <1>6 DEF Numbers, Untaken
<1>10. Held'
  BY <1>1, <1>6 DEF Numbers, Held
<1>11. InOrder' /\ Replies'
  BY <1>3, <1>4, <1>5 DEF Numbers, InOrder, Replies
<1> QED BY <1>7, <1>8, <1>9, <1>10, <1>11 DEF Numbers

\* The command Redis takes is the first one without an answer.
LEMMA TakenOnce ==
    ASSUME RInv, InOrder, NEW w \in Worker,
           NEW i, i = 1 + Cardinality({j \in DOMAIN queue[w] :
                                          queue[w][j].reply # "none"}),
           i \in DOMAIN queue[w]
    PROVE  /\ queue[w][i].reply = "none"
           /\ \A j \in DOMAIN queue[w] : j < i => queue[w][j].reply # "none"
<1> DEFINE A == {j \in DOMAIN queue[w] : queue[w][j].reply # "none"}
<1>1. PICK l \in Nat : DOMAIN queue[w] = 1 .. l
  BY DEF RInv, Types
<1>2. IsFiniteSet(A) /\ A \subseteq 1 .. l
  <2>1. A \subseteq 1 .. l /\ IsFiniteSet(1 .. l)
    BY <1>1, FS_Interval
  <2> QED BY <2>1, FS_Subset
<1>3. i = 1 + Cardinality(A) /\ i \in 1 .. l /\ Cardinality(A) \in Nat
  BY <1>1, <1>2, FS_CardinalityType
<1>4. \A j \in 1 .. l : j \in A <=> queue[w][j].reply # "none"
  BY <1>1
<1>5. \A j \in 1 .. l : \A x \in 1 .. l : j < x /\ x \in A => j \in A
  BY <1>1 DEF InOrder
<1> HIDE DEF A
<1>6. i \notin A
  <2> SUFFICES ASSUME i \in A PROVE FALSE
    OBVIOUS
  <2>1. 1 .. i \subseteq A
    <3> SUFFICES ASSUME NEW j \in 1 .. i PROVE j \in A
      OBVIOUS
    <3>1. j \in 1 .. l /\ (j < i \/ j = i)
      BY <1>3
    <3> QED BY <1>3, <1>5, <3>1
  <2>2. Cardinality(1 .. i) = i
    BY <1>3, FS_Interval
  <2>3. Cardinality(1 .. i) <= Cardinality(A)
    BY <1>2, <2>1, FS_Subset
  <2> QED BY <1>3, <2>2, <2>3
<1>7. \A j \in 1 .. l : j < i => j \in A
  <2> SUFFICES ASSUME NEW j \in 1 .. l, j < i, j \notin A PROVE FALSE
    OBVIOUS
  <2>1. A \subseteq 1 .. (j - 1)
    BY <1>2, <1>5
  <2>2. Cardinality(1 .. (j - 1)) = j - 1 /\ IsFiniteSet(1 .. (j - 1))
    BY FS_Interval
  <2>3. Cardinality(A) <= Cardinality(1 .. (j - 1))
    BY <2>1, <2>2, FS_Subset
  <2> QED BY <1>3, <2>2, <2>3
<1> QED BY <1>1, <1>3, <1>4, <1>6, <1>7

\* The errors of S, which Redis holds, and the counted ones of s are equally
\* many wherever the window begins from now on.
Matches(S, s, now) ==
    /\ IsFiniteSet(S)
    /\ s \in Seq(Nat)
    /\ \A t \in Int : t >= now - Interval * Second =>
          Cardinality({e \in S : e.at > t})
              = Cardinality({i \in DOMAIN s : s[i] > t})

Counts ==
    /\ errs = [k \in Key |-> errs[k]]
    /\ \A k \in Key : Matches(db.events[k], errs[k], clock)

LEMMA MatchesNone == ASSUME NEW now PROVE Matches({}, <<>>, now)
<1>1. ASSUME NEW t
      PROVE  /\ {e \in {} : e.at > t} = {}
             /\ {i \in DOMAIN <<>> : <<>>[i] > t} = {}
  OBVIOUS
<1>2. IsFiniteSet({}) /\ <<>> \in Seq(Nat)
  BY FS_EmptySet
<1> QED BY <1>1, <1>2 DEF Matches

\* The script adds a new error m.
LEMMA MatchesOneMore ==
    ASSUME NEW now \in Nat, NEW n, NEW s, NEW S \in SUBSET [at : Nat, nonce : n],
           Matches(S, s, now), NEW m \in [at : Nat, nonce : n],
           m.at = now, m \notin S
    PROVE  Matches({e \in S : e.at > now - Interval * Second} \cup {m},
                   Append(s, now), now)
<1> DEFINE b == now - Interval * Second
           kept == {e \in S : e.at > b}
           more == kept \cup {m}
           p == Append(s, now)
           l == Len(s)
<1>1. b \in Int /\ b < now
  BY RedisParameters
<1>2. /\ s \in Seq(Nat) /\ l \in Nat /\ DOMAIN s = 1 .. l
      /\ p \in Seq(Nat) /\ DOMAIN p = 1 .. (l + 1)
      /\ p[l + 1] = now /\ \A i \in 1 .. l : p[i] = s[i] /\ s[i] \in Nat
  BY DEF Matches
<1>3. IsFiniteSet(more)
  <2>1. IsFiniteSet(S) /\ kept \subseteq S
    BY DEF Matches
  <2>2. IsFiniteSet(kept)
    BY <2>1, FS_Subset
  <2> QED BY <2>2, FS_AddElement
<1> HIDE DEF b, p
<1>4. ASSUME NEW t \in Int, t >= b
      PROVE  Cardinality({e \in more : e.at > t})
                 = Cardinality({i \in DOMAIN p : p[i] > t})
  <2> DEFINE A == {e \in S : e.at > t}
             B == {i \in DOMAIN s : s[i] > t}
             C == {e \in more : e.at > t}
             D == {i \in DOMAIN p : p[i] > t}
  <2>1. Cardinality(A) = Cardinality(B)
    BY <1>4 DEF Matches, b
  <2>2. IsFiniteSet(A) /\ IsFiniteSet(B) /\ m \notin A /\ l + 1 \notin B
    <3>1. IsFiniteSet(S) /\ A \subseteq S
      BY DEF Matches
    <3>2. IsFiniteSet(1 .. l) /\ B \subseteq 1 .. l
      BY <1>2, FS_Interval
    <3>3. IsFiniteSet(A) /\ IsFiniteSet(B)
      BY <3>1, <3>2, FS_Subset
    <3>4. m \notin A /\ l + 1 \notin B
      BY <1>2
    <3> QED BY <3>3, <3>4
  <2>3. CASE now > t
    <3>1. C = A \cup {m}
      <4>1. \A e \in S : e.at > t => e.at > b
        BY <1>1, <1>4
      <4> QED BY <2>3, <4>1
    <3>2. D = B \cup {l + 1}
      BY <1>2, <2>3
    <3> HIDE DEF A, B, C, D
    <3>3. Cardinality(A \cup {m}) = Cardinality(A) + 1
      BY <2>2, FS_AddElement
    <3>4. Cardinality(B \cup {l + 1}) = Cardinality(B) + 1
      BY <2>2, FS_AddElement
    <3>5. Cardinality(C) = Cardinality(D)
      BY <2>1, <3>1, <3>2, <3>3, <3>4
    <3> QED BY <3>5 DEF C, D
  <2>4. CASE ~ (now > t)
    <3>1. C = A
      <4>1. \A e \in S : e.at > t => e.at > b
        BY <1>1, <1>4
      <4> QED BY <2>4, <4>1
    <3>2. D = B
      BY <1>2, <2>4
    <3> QED BY <2>1, <3>1, <3>2
  <2> QED BY <2>3, <2>4
<1> QED BY <1>2, <1>3, <1>4 DEF Matches, b, p

\* Time goes on, and Redis drops an identity that had no error for Inactive.
LEMMA MatchesLater ==
    ASSUME NEW now \in Nat, NEW n, NEW s, NEW S \in SUBSET [at : Nat, nonce : n],
           Matches(S, s, now)
    PROVE  /\ Matches(S, s, now + 1)
           /\ (\A e \in S : e.at + Inactive * Second <= now + 1)
                  => Matches({}, s, now + 1)
<1>1. /\ Interval * Second \in Nat /\ Inactive * Second \in Nat
      /\ Inactive * Second >= Interval * Second
  <2>1. Inactive \in Nat /\ Interval \in Nat /\ Second \in Nat
        /\ Inactive >= Interval
    BY RedisParameters
  <2> QED BY <2>1
<1>2. \A t \in Int : t >= (now + 1) - Interval * Second
                         => t >= now - Interval * Second
  BY <1>1
<1>3. Matches(S, s, now + 1)
  <2>1. /\ IsFiniteSet(S) /\ s \in Seq(Nat)
        /\ \A t \in Int : t >= (now + 1) - Interval * Second =>
              Cardinality({e \in S : e.at > t})
                  = Cardinality({i \in DOMAIN s : s[i] > t})
    BY <1>2 DEF Matches
  <2> QED BY <2>1 DEF Matches
<1>4. ASSUME \A e \in S : e.at + Inactive * Second <= now + 1
      PROVE  Matches({}, s, now + 1)
  <2>0. IsFiniteSet({}) /\ s \in Seq(Nat)
    BY FS_EmptySet DEF Matches
  <2> SUFFICES ASSUME NEW t \in Int, t >= (now + 1) - Interval * Second
               PROVE  Cardinality({e \in {} : e.at > t})
                          = Cardinality({i \in DOMAIN s : s[i] > t})
    BY <2>0 DEF Matches
  <2>1. \A e \in S : ~ (e.at > t)
    BY <1>1, <1>4
  <2>2. {e \in S : e.at > t} = {} /\ {e \in {} : e.at > t} = {}
    BY <2>1
  <2>3. Cardinality({e \in S : e.at > t})
            = Cardinality({i \in DOMAIN s : s[i] > t})
    BY <1>2 DEF Matches
  <2> QED BY <2>2, <2>3
<1> QED BY <1>3, <1>4

\* Until Redis takes an error, only the clock and a crash of Redis change
\* what it holds.
LEMMA CountsKept ==
    ASSUME Counts, UNCHANGED clock,
           \/ errs' = errs /\ db'.events = db.events
           \/ /\ errs' = [k \in Key |-> <<>>]
              /\ db'.events = [k \in Key |-> {}]
    PROVE  Counts'
<1>1. CASE errs' = errs /\ db'.events = db.events
  BY <1>1 DEF Counts
<1>2. CASE /\ errs' = [k \in Key |-> <<>>]
           /\ db'.events = [k \in Key |-> {}]
  BY <1>2, MatchesNone DEF Counts
<1> QED BY <1>1, <1>2

\* What Execute does: it answers one command, and counts an error if it takes
\* an EVALSHA.
Takes(w, i, a) ==
    LET c == queue[w][i]
    IN  /\ a \in CommandType
        /\ a.op = c.op /\ a.nonce = c.nonce
        /\ a.req = c.req /\ a.key = c.key
        /\ a.reply # "none"
        /\ a.op = "GET" => a.reply \in {"STRING", "NIL", "ERROR"}
        /\ a.op = "GET" /\ a.reply = "NIL" => ~ (db.block[c.key].ends > clock)
        /\ a.op \in {"GET", "EVAL"} => a.reply # "OK"
        /\ queue' = [queue EXCEPT ![w] = [queue[w] EXCEPT ![i] = a]]

CountsError(c) ==
    /\ c.op = "EVAL"
    /\ db' = Counted(db, c.key, [at |-> clock, nonce |-> c.nonce])
    /\ errs' = [errs EXCEPT ![c.key] =
                   IF db'.events[c.key] = {} THEN <<>>
                   ELSE Append(errs[c.key], clock)]

LEMMA ExecuteFacts ==
    ASSUME RInv, InOrder, Counts, NEW w \in Worker, Execute(w)
    PROVE  /\ UNCHANGED <<clock, req, bad>>
           /\ ~ worker[w].cut
           /\ \A v \in Worker : worker'[v].sequence = worker[v].sequence
           /\ \A v \in Worker : worker'[v].cut = worker[v].cut
           /\ \A v \in Worker : worker'[v].exiting = worker[v].exiting
           /\ \A v \in Worker : worker'[v].conn = worker[v].conn
           /\ \A v \in Worker : worker'[v].timer = worker[v].timer
           /\ \A v \in Worker : worker'[v].failures = worker[v].failures
           /\ \A v \in Worker : worker'[v].breaker = worker[v].breaker
           /\ \E i \in DOMAIN queue[w] : \E a :
                 /\ queue[w][i] \in CommandType
                 /\ queue[w][i].reply = "none"
                 /\ \A j \in DOMAIN queue[w] :
                       j < i => queue[w][j].reply # "none"
                 /\ Takes(w, i, a)
                 /\ \/ /\ db'.events = db.events /\ db'.block = db.block
                       /\ UNCHANGED errs
                    \/ CountsError(queue[w][i])
<1> DEFINE i == 1 + Cardinality({j \in DOMAIN queue[w] :
                                    queue[w][j].reply # "none"})
           c == queue[w][i]
           member == [at |-> clock, nonce |-> c.nonce]
           answer(x) == queue' = [queue EXCEPT ![w][i] =
               [@ EXCEPT !.reply = x,
                         !.value = IF x = "STRING"
                                   THEN db.block[c.key].deadline ELSE 0]]
           d == Counted(db, c.key, member)
           ran == db.script /\ ~ worker[w].denied
<1>1. /\ i \in DOMAIN queue[w] /\ UNCHANGED <<clock, req, bad>>
      /\ ~ worker[w].cut
      /\ \/ /\ c.op = "HELLO" /\ UNCHANGED <<db, errs>>
            /\ \/ answer("OK") /\ UNCHANGED worker
               \/ /\ answer("ERROR")
                  /\ worker' = [worker EXCEPT ![w].denied = TRUE]
         \/ /\ c.op = "LOAD" /\ UNCHANGED <<worker, errs>>
            /\ answer(IF worker[w].denied THEN "ERROR" ELSE "OK")
            /\ db' = [db EXCEPT !.script = @ \/ ~ worker[w].denied]
         \/ /\ c.op = "GET" /\ UNCHANGED <<db, worker, errs>>
            /\ answer(IF worker[w].denied THEN "ERROR"
                      ELSE IF db.block[c.key].ends > clock THEN "STRING"
                      ELSE "NIL")
         \/ /\ c.op = "EVAL" /\ UNCHANGED worker
            /\ answer(CASE ran -> "ARRAY"
                        [] worker[w].denied -> "ERROR"
                        [] OTHER -> "NOSCRIPT")
            /\ db' = IF ran THEN d ELSE db
            /\ errs' = [errs EXCEPT ![c.key] =
                           IF ~ ran THEN @
                           ELSE IF d.events[c.key] = {} THEN <<>>
                           ELSE Append(@, clock)]
  BY DEF Execute
<1>2. /\ c.reply = "none"
      /\ \A j \in DOMAIN queue[w] : j < i => queue[w][j].reply # "none"
  BY <1>1, TakenOnce
<1> HIDE DEF i
<1>3. /\ queue[w] \in Seq(CommandType) /\ c \in CommandType
      /\ WorkerOK(worker[w]) /\ db \in DbType
      /\ errs' = errs \/ c.op = "EVAL"
  <2>1. queue[w] \in Seq(CommandType)
    BY DEF RInv, Types
  <2>2. c \in CommandType
    BY <1>1, <2>1
  <2> HIDE DEF c, answer, d, ran
  <2> QED BY <1>1, <2>1, <2>2 DEF RInv, Types
<1>4. \E x \in Answer \ {"none"} :
          /\ answer(x)
          /\ x = "STRING" => c.op = "GET"
          /\ c.op \in {"GET", "EVAL"} => x # "OK"
          /\ c.op = "GET" =>
                /\ x \in {"STRING", "NIL", "ERROR"}
                /\ x = "NIL" => ~ (db.block[c.key].ends > clock)
  <2> HIDE DEF c, answer, d, ran
  <2> QED BY <1>1 DEF Answer
<1>5. PICK x \in Answer \ {"none"} :
          /\ answer(x)
          /\ x = "STRING" => c.op = "GET"
          /\ c.op \in {"GET", "EVAL"} => x # "OK"
          /\ c.op = "GET" =>
                /\ x \in {"STRING", "NIL", "ERROR"}
                /\ x = "NIL" => ~ (db.block[c.key].ends > clock)
  BY <1>4
<1> DEFINE a == [c EXCEPT !.reply = x,
                          !.value = IF x = "STRING"
                                    THEN db.block[c.key].deadline ELSE 0]
<1>6. /\ a \in CommandType /\ a.op = c.op /\ a.nonce = c.nonce /\ a.reply = x
      /\ a.req = c.req /\ a.key = c.key
  <2>1. CASE x = "STRING"
    <3>1. db.block[c.key].deadline \in Nat
      BY <1>3, <1>5, <2>1 DEF CommandType, DbType
    <3> QED BY <1>3, <2>1, <3>1 DEF CommandType
  <2>2. CASE x # "STRING"
    BY <1>3, <2>2 DEF CommandType
  <2> QED BY <2>1, <2>2
<1>7. queue' = [queue EXCEPT ![w] = [queue[w] EXCEPT ![i] = a]]
  BY <1>5
<1> HIDE DEF a, answer
<1>8. Takes(w, i, a)
  BY <1>5, <1>6, <1>7 DEF Takes
<1>9. \/ UNCHANGED worker
      \/ worker' = [worker EXCEPT ![w] = [worker[w] EXCEPT !.denied = TRUE]]
  <2> HIDE DEF c, d, ran
  <2> QED BY <1>1
<1>10. \A v \in Worker : /\ worker'[v].sequence = worker[v].sequence
                         /\ worker'[v].cut = worker[v].cut
                         /\ worker'[v].exiting = worker[v].exiting
                         /\ worker'[v].conn = worker[v].conn
                         /\ worker'[v].timer = worker[v].timer
                         /\ worker'[v].failures = worker[v].failures
                         /\ worker'[v].breaker = worker[v].breaker
  <2> DEFINE s == [worker[w] EXCEPT !.denied = TRUE]
  <2>1. /\ s.sequence = worker[w].sequence /\ s.cut = worker[w].cut
        /\ s.exiting = worker[w].exiting /\ s.conn = worker[w].conn
        /\ s.timer = worker[w].timer /\ s.failures = worker[w].failures
        /\ s.breaker = worker[w].breaker
    BY <1>3 DEF WorkerOK
  <2> HIDE DEF s
  <2>2. UNCHANGED worker \/ worker' = [worker EXCEPT ![w] = s]
    BY <1>9 DEF s
  <2> QED BY <2>1, <2>2 DEF RInv, Types
<1>11. \/ /\ db'.events = db.events /\ db'.block = db.block
          /\ UNCHANGED errs
       \/ CountsError(c)
  <2>1. CASE c.op # "EVAL"
    <3>1. UNCHANGED errs
      BY <1>3, <2>1
    <3>2. \/ UNCHANGED db
          \/ db' = [db EXCEPT !.script = @ \/ ~ worker[w].denied]
      <4> HIDE DEF c, d, ran
      <4> QED BY <1>1, <2>1
    <3>3. db'.events = db.events /\ db'.block = db.block
      BY <1>3, <3>2 DEF DbType
    <3> QED BY <3>1, <3>3
  <2>2. CASE c.op = "EVAL"
    <3>1. /\ db' = IF ran THEN d ELSE db
          /\ errs' = [errs EXCEPT ![c.key] =
                         IF ~ ran THEN @
                         ELSE IF d.events[c.key] = {} THEN <<>>
                         ELSE Append(@, clock)]
      <4> HIDE DEF c, d, ran
      <4> QED BY <1>1, <2>2
    <3>2. CASE ran
      <4> HIDE DEF d, ran
      <4>1. db' = d
        BY <3>1, <3>2
      <4>2. errs' = [errs EXCEPT ![c.key] =
                        IF d.events[c.key] = {} THEN <<>>
                        ELSE Append(errs[c.key], clock)]
        BY <3>1, <3>2
      <4> QED BY <2>2, <4>1, <4>2 DEF CountsError, d
    <3>3. CASE ~ ran
      <4> HIDE DEF d, ran
      <4>1. db' = db
        BY <3>1, <3>3
      <4>2. errs' = [errs EXCEPT ![c.key] = @]
        BY <3>1, <3>3
      <4>3. errs' = errs
        BY <4>2 DEF Counts
      <4> QED BY <4>1, <4>3
    <3> QED BY <3>2, <3>3
  <2> QED BY <2>1, <2>2
<1> QED BY <1>1, <1>2, <1>3, <1>8, <1>10, <1>11

\* The errors of k in the window once m has joined them.
With(k, m) ==
    {e \in db.events[k] : e.at > clock - Interval * Second} \cup {m}

\* The script makes d of db: an error m that fills the window empties it and
\* starts the ban, any other joins those that are left in it.
Joins(k, m, d) ==
    /\ \A o \in Key \ {k} : /\ d.events[o] = db.events[o]
                            /\ d.block[o] = db.block[o]
    /\ \/ Cardinality(With(k, m)) >= Threshold /\ d.events[k] = {}
       \/ d.events[k] = With(k, m) /\ d.block[k] = db.block[k]

LEMMA CountedCases ==
    ASSUME db \in DbType, NEW k \in Key, NEW m
    PROVE  Joins(k, m, Counted(db, k, m))
<1> DEFINE d    == Counted(db, k, m)
           now  == With(k, m)
           ends == clock + Block * Second
           ban  == [deadline |-> Seconds(ends), ends |-> ends]
<1>1. d = IF Cardinality(now) >= Threshold
          THEN [db EXCEPT !.events[k] = {}, !.block[k] = ban]
          ELSE [db EXCEPT !.events[k] = now]
  BY DEF Counted, With
<1> HIDE DEF d, now, ban
<1>2. CASE Cardinality(now) >= Threshold
  <2>1. /\ d.events = [db.events EXCEPT ![k] = {}]
        /\ d.block = [db.block EXCEPT ![k] = ban]
    BY <1>1, <1>2 DEF DbType
  <2>2. /\ \A o \in Key \ {k} : /\ d.events[o] = db.events[o]
                                /\ d.block[o] = db.block[o]
        /\ d.events[k] = {}
    BY <2>1 DEF DbType
  <2> QED BY <1>2, <2>2 DEF d, now, Joins
<1>3. CASE ~ (Cardinality(now) >= Threshold)
  <2>1. /\ d.events = [db.events EXCEPT ![k] = now] /\ d.block = db.block
    BY <1>1, <1>3 DEF DbType
  <2>2. /\ \A o \in Key \ {k} : /\ d.events[o] = db.events[o]
                                /\ d.block[o] = db.block[o]
        /\ d.events[k] = now /\ d.block[k] = db.block[k]
    BY <2>1 DEF DbType
  <2> QED BY <2>2 DEF d, now, Joins
<1> QED BY <1>2, <1>3

\* Redis takes a command: an error it counts is the one that waited, and no
\* other with its number waits behind it.
LEMMA ExecuteNumbers ==
    ASSUME RInv, RInv', Numbers, Counts, NEW w \in Worker, Execute(w)
    PROVE  Numbers'
<1>0. RInv /\ InOrder /\ Counts
  BY DEF Numbers
<1>1. /\ ~ worker[w].cut
      /\ \A v \in Worker : /\ worker'[v].sequence = worker[v].sequence
                           /\ worker'[v].cut = worker[v].cut
                           /\ worker'[v].exiting = worker[v].exiting
  BY <1>0, ExecuteFacts
<1>2. PICK i \in DOMAIN queue[w] : \E a :
          /\ queue[w][i] \in CommandType
          /\ queue[w][i].reply = "none"
          /\ \A j \in DOMAIN queue[w] : j < i => queue[w][j].reply # "none"
          /\ Takes(w, i, a)
          /\ \/ db'.events = db.events
             \/ CountsError(queue[w][i])
  BY <1>0, ExecuteFacts
<1>3. PICK a : Takes(w, i, a)
  BY <1>2
<1> DEFINE q == queue[w]
           p == queue'[w]
           c == q[i]
<1>4. q \in Seq(CommandType) /\ queue \in [Worker -> Seq(CommandType)]
  BY DEF RInv, Types
<1>5. /\ DOMAIN p = DOMAIN q
      /\ p[i] = a /\ \A j \in DOMAIN q : j # i => p[j] = q[j]
      /\ \A v \in Worker \ {w} : queue'[v] = queue[v]
  BY <1>3, <1>4 DEF Takes
<1>6. /\ a.op = c.op /\ a.nonce = c.nonce /\ a.reply # "none"
      /\ a.op \in {"GET", "EVAL"} => a.reply # "OK"
      /\ c.reply = "none"
  BY <1>2, <1>3 DEF Takes
<1>7. \A j \in DOMAIN q : /\ p[j].op = q[j].op /\ p[j].nonce = q[j].nonce
                          /\ j # i => p[j] = q[j]
  BY <1>5, <1>6
<1>8. \A k \in Key : \A e \in db'.events[k] :
          e \in db.events[k] \/ (c.op = "EVAL" /\ e.nonce = c.nonce)
  <2>1. CASE db'.events = db.events
    BY <2>1
  <2>2. CASE CountsError(c)
    <3> DEFINE m == [at |-> clock, nonce |-> c.nonce]
               k == c.key
    <3>1. c.op = "EVAL" /\ k \in Key /\ m.nonce = c.nonce
      BY <1>2, <2>2 DEF CountsError, CommandType
    <3>2. Joins(k, m, db')
      <4>1. db' = Counted(db, k, m) /\ db \in DbType
        BY <2>2 DEF CountsError, RInv, Types
      <4> HIDE DEF m, k
      <4> QED BY <3>1, <4>1, CountedCases
    <3> HIDE DEF m, k
    <3>3. \A e \in With(k, m) : e \in db.events[k] \/ e = m
      BY DEF With
    <3>4. \A o \in Key : \A e \in db'.events[o] : e \in db.events[o] \/ e = m
      BY <3>2, <3>3 DEF Joins
    <3> QED BY <3>1, <3>4
  <2> QED BY <1>2, <2>1, <2>2
<1> HIDE DEF p, c
<1>9. Numbered'
  <2> SUFFICES ASSUME NEW v \in Worker, NEW j \in DOMAIN queue'[v],
                      queue'[v][j].op = "EVAL"
               PROVE  \E n \in Nat : /\ n <= worker'[v].sequence
                                     /\ queue'[v][j].nonce = <<v, n>>
    BY DEF Numbered
  <2>1. /\ j \in DOMAIN queue[v] /\ queue[v][j].op = "EVAL"
        /\ queue'[v][j].nonce = queue[v][j].nonce
    BY <1>5, <1>7 DEF p
  <2> QED BY <1>1, <2>1 DEF Numbers, Numbered
<1>10. DistinctNumbers'
  <2> SUFFICES ASSUME NEW v \in Worker, NEW j \in DOMAIN queue'[v],
                      NEW x \in DOMAIN queue'[v],
                      queue'[v][j].op = "EVAL", queue'[v][x].op = "EVAL",
                      queue'[v][j].nonce = queue'[v][x].nonce
               PROVE  j = x
    BY DEF DistinctNumbers
  <2>1. /\ j \in DOMAIN queue[v] /\ queue[v][j].op = "EVAL"
        /\ x \in DOMAIN queue[v] /\ queue[v][x].op = "EVAL"
        /\ queue[v][j].nonce = queue[v][x].nonce
    BY <1>5, <1>7 DEF p
  <2> QED BY <2>1 DEF Numbers, DistinctNumbers
<1>11. Untaken'
  <2> SUFFICES ASSUME NEW v \in Worker, NEW j \in DOMAIN queue'[v],
                      queue'[v][j].op = "EVAL", queue'[v][j].reply = "none",
                      ~ worker'[v].cut, NEW k \in Key, NEW e \in db'.events[k]
               PROVE  e.nonce # queue'[v][j].nonce
    BY DEF Untaken
  <2>1. /\ j \in DOMAIN queue[v] /\ queue'[v][j] = queue[v][j]
        /\ v = w => j # i
    BY <1>5, <1>6, <1>7 DEF p
  <2>2. ~ worker[v].cut
    BY <1>1
  <2>3. e \in db.events[k] => e.nonce # queue[v][j].nonce
    BY <2>1, <2>2 DEF Numbers, Untaken
  <2>4. c.op = "EVAL" => c.nonce # queue[v][j].nonce
    <3> SUFFICES ASSUME c.op = "EVAL" PROVE c.nonce # queue[v][j].nonce
      OBVIOUS
    <3>1. PICK n \in Nat : c.nonce = <<w, n>>
      BY DEF Numbers, Numbered, c
    <3>2. PICK l \in Nat : queue[v][j].nonce = <<v, l>>
      BY <2>1 DEF Numbers, Numbered
    <3>3. CASE v = w
      BY <2>1, <3>3 DEF Numbers, DistinctNumbers, c
    <3>4. CASE v # w
      BY <3>1, <3>2, <3>4
    <3> QED BY <3>3, <3>4
  <2> QED BY <1>8, <2>1, <2>3, <2>4
<1>12. Held'
  <2> SUFFICES ASSUME NEW k \in Key, NEW e \in db'.events[k]
               PROVE  \E v \in Worker : \E n \in Nat :
                          /\ e.nonce = <<v, n>>
                          /\ worker'[v].exiting \/ n <= worker'[v].sequence
    BY DEF Held
  <2>1. CASE e \in db.events[k]
    BY <1>1, <2>1 DEF Numbers, Held
  <2>2. CASE c.op = "EVAL" /\ e.nonce = c.nonce
    <3>1. PICK n \in Nat : n <= worker[w].sequence /\ c.nonce = <<w, n>>
      BY <2>2 DEF Numbers, Numbered, c
    <3> QED BY <1>1, <2>2, <3>1
  <2> QED BY <1>8, <2>1, <2>2
<1>13. InOrder'
  <2> SUFFICES ASSUME NEW v \in Worker, NEW j \in DOMAIN queue'[v],
                      NEW x \in DOMAIN queue'[v],
                      j < x, queue'[v][x].reply # "none"
               PROVE  queue'[v][j].reply # "none"
    BY DEF InOrder
  <2>1. CASE v # w
    BY <1>5, <2>1 DEF Numbers, InOrder
  <2>2. CASE v = w /\ x # i
    <3>1. q[x].reply # "none" /\ q[j].reply # "none"
      BY <1>5, <1>7, <2>2 DEF Numbers, InOrder, p
    <3> QED BY <1>5, <1>6, <1>7, <2>2, <3>1 DEF p
  <2>3. CASE v = w /\ x = i
    <3>1. PICK l \in Nat : DOMAIN q = 1 .. l
      BY <1>4
    <3>2. j \in DOMAIN q /\ j # i /\ i \in 1 .. l /\ j \in 1 .. l
      BY <1>5, <2>3, <3>1 DEF p
    <3>3. q[j].reply # "none"
      BY <1>2, <2>3, <3>1, <3>2
    <3> QED BY <1>5, <1>7, <2>3, <3>2, <3>3 DEF p
  <2> QED BY <2>1, <2>2, <2>3
<1>14. Replies'
  BY <1>5, <1>6, <1>7 DEF Numbers, Replies, p
<1> QED BY <1>9, <1>10, <1>11, <1>12, <1>13, <1>14 DEF Numbers

LEMMA ExecuteCounts ==
    ASSUME RInv, Numbers, Counts, NEW w \in Worker, Execute(w)
    PROVE  Counts'
<1>0. RInv /\ InOrder /\ Counts
  BY DEF Numbers
<1>1. UNCHANGED clock /\ ~ worker[w].cut
  BY <1>0, ExecuteFacts
<1>2. PICK i \in DOMAIN queue[w] :
          /\ queue[w][i] \in CommandType
          /\ queue[w][i].reply = "none"
          /\ \/ db'.events = db.events /\ UNCHANGED errs
             \/ CountsError(queue[w][i])
  BY <1>0, ExecuteFacts
<1> DEFINE c == queue[w][i]
           m == [at |-> clock, nonce |-> c.nonce]
           k == c.key
<1>3. CASE db'.events = db.events /\ UNCHANGED errs
  BY <1>1, <1>3, CountsKept
<1>4. CASE CountsError(c)
  <2>1. /\ c.op = "EVAL" /\ k \in Key /\ m.nonce = c.nonce /\ m.at = clock
        /\ m \in [at : Nat, nonce : NonceType]
        /\ db \in DbType /\ clock \in Nat
    BY <1>2, <1>4 DEF CountsError, CommandType, RInv, Types
  <2>2. /\ db' = Counted(db, k, m)
        /\ errs' = [errs EXCEPT ![k] = IF db'.events[k] = {} THEN <<>>
                                       ELSE Append(errs[k], clock)]
    BY <1>4 DEF CountsError
  <2>3. m \notin db.events[k]
    <3>1. \A e \in db.events[k] : e.nonce # c.nonce
      BY <1>1, <1>2, <2>1 DEF Numbers, Untaken
    <3> QED BY <2>1, <3>1
  <2> HIDE DEF m, k, c
  <2>4. Joins(k, m, db')
    BY <2>1, <2>2, CountedCases
  <2>5. /\ db.events[k] \in SUBSET [at : Nat, nonce : NonceType]
        /\ errs = [o \in Key |-> errs[o]]
        /\ \A o \in Key : Matches(db.events[o], errs[o], clock)
    BY <2>1 DEF Counts, DbType
  <2>6. /\ errs' = [o \in Key |-> errs'[o]]
        /\ \A o \in Key \ {k} : errs'[o] = errs[o]
        /\ errs'[k] = IF db'.events[k] = {} THEN <<>>
                      ELSE Append(errs[k], clock)
    BY <2>1, <2>2, <2>5
  <2>7. Matches(With(k, m), Append(errs[k], clock), clock)
    BY <2>1, <2>3, <2>5, MatchesOneMore DEF With
  <2>8. Matches(db'.events[k], errs'[k], clock)
    <3>1. CASE db'.events[k] = {}
      BY <2>6, <3>1, MatchesNone
    <3>2. CASE db'.events[k] = With(k, m)
      <4>1. m \in With(k, m)
        BY DEF With
      <4> QED BY <2>6, <2>7, <3>2, <4>1
    <3> QED BY <2>4, <3>1, <3>2 DEF Joins
  <2>9. \A o \in Key : Matches(db'.events[o], errs'[o], clock)
    BY <2>4, <2>5, <2>6, <2>8 DEF Joins
  <2> QED BY <1>1, <2>6, <2>9 DEF Counts
<1> QED BY <1>2, <1>3, <1>4

LEMMA TickCounts ==
    ASSUME RInv, Counts, Tick
    PROVE  Counts' /\ \A k \in Key : db'.events[k] \subseteq db.events[k]
<1> DEFINE expired(k) == \A e \in db.events[k] :
                             e.at + Inactive * Second <= clock + 1
           ev == [k \in Key |-> IF expired(k) THEN {} ELSE db.events[k]]
           bl == [k \in Key |-> IF db.block[k].ends <= clock + 1
                                THEN NotBlocked ELSE db.block[k]]
<1>1. /\ clock' = clock + 1 /\ UNCHANGED errs
      /\ db' = [db EXCEPT !.events = ev, !.block = bl]
  BY DEF Tick
<1>2. db \in DbType /\ clock \in Nat
  BY DEF RInv, Types
<1>3. db'.events = ev
  <2> HIDE DEF ev, bl
  <2> QED BY <1>1, <1>2 DEF DbType
<1>4. ASSUME NEW k \in Key
      PROVE  /\ Matches(db'.events[k], errs[k], clock + 1)
             /\ db'.events[k] \subseteq db.events[k]
  <2>1. db'.events[k] = IF expired(k) THEN {} ELSE db.events[k]
    BY <1>3
  <2>2. /\ Matches(db.events[k], errs[k], clock)
        /\ db.events[k] \in SUBSET [at : Nat, nonce : NonceType]
    BY <1>2 DEF Counts, DbType
  <2>3. /\ Matches(db.events[k], errs[k], clock + 1)
        /\ expired(k) => Matches({}, errs[k], clock + 1)
    BY <1>2, <2>2, MatchesLater
  <2> HIDE DEF expired
  <2> QED BY <2>1, <2>3
<1> QED BY <1>1, <1>4 DEF Counts

-----------------------------------------------------------------------------
(***************************************************************************)
(* The steps, and what they leave of a worker.                             *)
(***************************************************************************)

\* The inductive invariant of errors and failures.
EInv == RInv /\ BreakerInv /\ Numbers /\ Gone /\ Counts

\* Worker s goes on as t.
Keeps(s, t) ==
    t.sequence = s.sequence /\ t.exiting = s.exiting /\ t.cut = s.cut

Quiet(s, t) == t.failures = s.failures /\ t.breaker = s.breaker

LEMMA QuietCounts ==
    ASSUME NEW s, NEW b, NEW t, CountsFailures(s, b), Quiet(s, t),
           clock \in 0 .. MaxTime
    PROVE  FailuresKept(s, b, t, b)
BY BreakerNumbers DEF FailuresKept, CountsFailures, Quiet

LEMMA ArmQuiet ==
    ASSUME NEW s, WorkerOK(s)
    PROVE  Keeps(s, ArmReconnect(s)) /\ Quiet(s, ArmReconnect(s))
<1>1. CASE s.exiting \/ s.timer
  BY <1>1 DEF ArmReconnect, Keeps, Quiet
<1>2. CASE ~ (s.exiting \/ s.timer)
  <2> DEFINE b == Min({2 * (IF s.backoff = 0 THEN 1 ELSE s.backoff),
                       BackoffMax})
             t == [s EXCEPT !.timer = TRUE, !.backoff = b]
  <2>1. ArmReconnect(s) = t
    BY <1>2 DEF ArmReconnect
  <2> HIDE DEF b
  <2>2. Keeps(s, t) /\ Quiet(s, t)
    BY DEF WorkerOK, Keeps, Quiet
  <2> QED BY <2>1, <2>2
<1> QED BY <1>1, <1>2

LEMMA DisconnectedQuiet ==
    ASSUME NEW s, WorkerOK(s)
    PROVE  Keeps(s, Disconnected(s)) /\ Quiet(s, Disconnected(s))
<1> DEFINE t == [s EXCEPT !.conn = "none", !.ready = FALSE]
<1>1. WorkerOK(t) /\ Keeps(s, t) /\ Quiet(s, t)
  BY DEF WorkerOK, Conn, Keeps, Quiet
<1> HIDE DEF t
<1>2. Disconnected(s) = ArmReconnect(t)
  BY DEF Disconnected, t
<1> QED BY <1>1, <1>2, ArmQuiet DEF Keeps, Quiet

LEMMA SettledQuiet ==
    ASSUME NEW s, NEW commands, WorkerOK(s)
    PROVE  Keeps(s, Settled(s, commands)) /\ Quiet(s, Settled(s, commands))
<1>1. Settled(s, commands) \in {s, Disconnected(s)}
  BY DEF Settled
<1> QED BY <1>1, DisconnectedQuiet DEF Keeps, Quiet

LEMMA HandshakeQuiet ==
    ASSUME NEW s, WorkerOK(s)
    PROVE  /\ WorkerOK(HandshakeFailed(s))
           /\ Keeps(s, HandshakeFailed(s)) /\ Quiet(s, HandshakeFailed(s))
BY DEF HandshakeFailed, WorkerOK, Conn, Keeps, Quiet

LEMMA RecordFailureKeeps ==
    ASSUME NEW s, NEW now, WorkerOK(s)
    PROVE  Keeps(s, RecordFailure(s, now))
<1> DEFINE e == TimeAddSaturate(now, BreakerDuration)
           o == [s EXCEPT !.breaker = e, !.failures = 0]
           n == [s EXCEPT !.failures = @ + 1]
<1>1. RecordFailure(s, now) \in {o, n}
  BY DEF RecordFailure
<1> HIDE DEF e
<1>2. Keeps(s, o) /\ Keeps(s, n)
  BY DEF WorkerOK, Keeps
<1> HIDE DEF o, n
<1> QED BY <1>1, <1>2

LEMMA CallbackKeeps ==
    ASSUME NEW s, NEW c, NEW now, WorkerOK(s)
    PROVE  Keeps(s, Callback(s, c, now))
<1> DEFINE t == Callback(s, c, now)
<1>1. Keeps(s, s) /\ Keeps(s, GoodAnswer(s))
  BY DEF GoodAnswer, WorkerOK, Keeps
<1>2. \/ t = HandshakeFailed(s) \/ t = GoodAnswer(s)
      \/ t = RecordFailure(s, now) \/ t = s
  BY DEF Callback
<1> HIDE DEF t
<1>3. Keeps(s, t)
  BY <1>1, <1>2, HandshakeQuiet, RecordFailureKeeps
<1> QED BY <1>3 DEF t

\* The breaker of every worker.
LEMMA BreakerKept ==
    ASSUME BreakerInv, clock' \in 0 .. MaxTime,
           bad' = [v \in Worker |-> bad'[v]],
           \A v \in Worker :
               FailuresKept(worker[v], bad[v], worker'[v], bad'[v])
    PROVE  BreakerInv' /\ BreakerStep
<1>1. ASSUME NEW v \in Worker
      PROVE  /\ CountsFailures(worker'[v], bad'[v])
             /\ OpensInTime(worker[v], bad[v], worker'[v], bad'[v])
  <2>1. /\ CountsFailures(worker[v], bad[v])
        /\ FailuresKept(worker[v], bad[v], worker'[v], bad'[v])
    BY DEF BreakerInv
  <2> QED BY <2>1, BreakerNumbers DEF FailuresKept, CountsFailures, OpensInTime
<1> QED BY <1>1 DEF BreakerInv, BreakerStep

\* No request comes to a worker that exits.
LEMMA GoneKept ==
    ASSUME Gone,
           \A v \in Worker : worker'[v].exiting =>
               /\ worker[v].exiting
               /\ worker'[v].conn = worker[v].conn
               /\ worker'[v].timer = worker[v].timer,
           \A r \in Request :
               \/ req'[r].stage = "free"
               \/ /\ req[r].stage # "free"
                  /\ req'[r].worker = req[r].worker
               \/ ~ worker'[req'[r].worker].exiting
    PROVE  Gone'
BY DEF Gone

\* Neither workers nor queues change.
LEMMA OthersStep ==
    ASSUME EInv, RInv', UNCHANGED <<worker, queue, bad>>,
           clock' \in 0 .. MaxTime, Counts',
           \A k \in Key : db'.events[k] \subseteq db.events[k],
           Gone'
    PROVE  EInv' /\ BreakerStep
<1>1. BreakerInv' /\ BreakerStep
  <2>1. /\ bad' = [v \in Worker |-> bad'[v]]
        /\ \A v \in Worker :
               FailuresKept(worker[v], bad[v], worker'[v], bad'[v])
    BY QuietCounts DEF EInv, BreakerInv, Quiet
  <2> QED BY <2>1, BreakerKept DEF EInv
<1>2. Numbers'
  <2>1. \A v \in Worker : /\ Follows(queue'[v], queue[v])
                          /\ worker'[v] = worker[v]
                          /\ worker[v].sequence \in Nat
    BY FollowsFacts DEF EInv, RInv, Types, WorkerOK
  <2> QED BY <2>1, NumbersKept DEF EInv
<1> QED BY <1>1, <1>2 DEF EInv

\* One worker w goes on as s, and counts nothing new.
LEMMA WorkerStep ==
    ASSUME EInv, RInv', NEW w \in Worker, NEW s,
           worker' = [worker EXCEPT ![w] = s],
           ~ s.exiting, ~ worker[w].exiting,
           s.sequence = worker[w].sequence,
           \/ queue'[w] = <<>>
           \/ Follows(queue'[w], queue[w]) /\ (worker[w].cut => s.cut),
           \A v \in Worker \ {w} : queue'[v] = queue[v] /\ bad'[v] = bad[v],
           bad' = [v \in Worker |-> bad'[v]],
           FailuresKept(worker[w], bad[w], s, bad'[w]),
           \A r \in Request :
               \/ req'[r].stage = "free"
               \/ /\ req[r].stage # "free"
                  /\ req'[r].worker = req[r].worker,
           UNCHANGED <<clock, db, errs>>
    PROVE  EInv' /\ BreakerStep
<1>1. /\ worker'[w] = s
      /\ \A v \in Worker \ {w} : worker'[v] = worker[v]
  BY DEF EInv, RInv, Types
<1>2. BreakerInv' /\ BreakerStep
  <2>1. ASSUME NEW v \in Worker \ {w}
        PROVE  FailuresKept(worker[v], bad[v], worker'[v], bad'[v])
    <3>1. worker'[v] = worker[v] /\ bad'[v] = bad[v]
      BY <1>1
    <3>2. CountsFailures(worker[v], bad[v]) /\ clock \in 0 .. MaxTime
      BY DEF EInv, BreakerInv
    <3> QED BY <3>1, <3>2, QuietCounts DEF Quiet
  <2>2. \A v \in Worker :
            FailuresKept(worker[v], bad[v], worker'[v], bad'[v])
    BY <1>1, <2>1
  <2>3. clock' \in 0 .. MaxTime /\ BreakerInv
    BY DEF EInv, BreakerInv
  <2> QED BY <2>2, <2>3, BreakerKept
<1>3. Numbers'
  <2>1. ASSUME NEW v \in Worker
        PROVE  /\ Follows(queue'[v], queue[v])
               /\ \/ queue'[v] = <<>>
                  \/ /\ worker'[v].sequence = worker[v].sequence
                     /\ worker[v].cut => worker'[v].cut
               /\ worker[v].exiting => worker'[v].exiting
               /\ worker'[v].sequence >= worker[v].sequence
    <3>1. queue[v] \in Seq(CommandType) /\ worker[v].sequence \in Nat
      BY DEF EInv, RInv, Types, WorkerOK
    <3>2. CASE v = w
      BY <1>1, <3>1, <3>2, FollowsFacts
    <3>3. CASE v # w
      BY <1>1, <3>1, <3>3, FollowsFacts
    <3> QED BY <3>2, <3>3
  <2> QED BY <2>1, NumbersKept DEF EInv
<1>4. Gone'
  <2>1. \A v \in Worker : worker'[v].exiting => worker'[v] = worker[v]
    BY <1>1
  <2> QED BY <2>1, GoneKept DEF EInv
<1>5. Counts'
  BY CountsKept DEF EInv
<1> QED BY <1>2, <1>3, <1>4, <1>5 DEF EInv

-----------------------------------------------------------------------------
(***************************************************************************)
(* Every step keeps the invariant, and opens a breaker in time.            *)
(***************************************************************************)

LEMMA InitEInv == Init => EInv
<1> SUFFICES ASSUME Init PROVE EInv
  OBVIOUS
<1>1. RInv
  BY InitRInv
<1>2. /\ bad = [w \in Worker |-> 0] /\ queue = [w \in Worker |-> <<>>]
      /\ errs = [k \in Key |-> <<>>] /\ db.events = [k \in Key |-> {}]
      /\ clock = Second /\ req = [r \in Request |-> FreeSlot]
      /\ worker \in [Worker -> {[NewWorker EXCEPT !.conn = "connecting"],
                                ArmReconnect(NewWorker)}]
  BY DEF Init
<1> DEFINE c == [NewWorker EXCEPT !.conn = "connecting"]
<1>3. /\ c.failures = 0 /\ c.breaker = 0 /\ c.exiting = FALSE
      /\ ArmReconnect(NewWorker).failures = 0
      /\ ArmReconnect(NewWorker).breaker = 0
      /\ ArmReconnect(NewWorker).exiting = FALSE
  <2>1. /\ WorkerOK(NewWorker) /\ NewWorker.failures = 0
        /\ NewWorker.breaker = 0 /\ NewWorker.exiting = FALSE
    BY DEF NewWorker, WorkerOK, Conn
  <2>2. c.failures = 0 /\ c.breaker = 0 /\ c.exiting = FALSE
    BY DEF NewWorker
  <2> QED BY <2>1, <2>2, ArmQuiet DEF Keeps, Quiet
<1> HIDE DEF c
<1>4. \A w \in Worker : /\ worker[w].failures = 0 /\ worker[w].breaker = 0
                        /\ worker[w].exiting = FALSE
  BY <1>2, <1>3 DEF c
<1>5. BreakerInv
  <2>1. clock \in 0 .. MaxTime
    BY <1>2, RedisParameters, RedisClock
  <2> QED BY <1>2, <1>4, <2>1, BreakerNumbers DEF BreakerInv, CountsFailures
<1>6. Numbers
  <2>1. \A w \in Worker : \A i : i \notin DOMAIN queue[w]
    BY <1>2
  <2>2. \A k \in Key : \A e : e \notin db.events[k]
    BY <1>2
  <2> QED BY <2>1, <2>2
          DEF Numbers, Numbered, DistinctNumbers, Untaken, Held, InOrder,
              Replies
<1>7. Gone
  BY <1>4 DEF Gone
<1>8. Counts
  BY <1>2, MatchesNone DEF Counts
<1> QED BY <1>1, <1>5, <1>6, <1>7, <1>8 DEF EInv

LEMMA ArriveEInv ==
    ASSUME EInv, NEW r \in Request, NEW w \in Worker, NEW k \in Key,
           Arrive(r, w, k)
    PROVE  EInv' /\ BreakerStep
<1> DEFINE q == [FreeSlot EXCEPT !.stage = "preaccess", !.worker = w,
                                 !.key = k]
<1>1. RInv'
  BY ArriveRInv DEF EInv
<1>2. /\ ~ worker[w].exiting /\ req' = [req EXCEPT ![r] = q]
      /\ UNCHANGED <<clock, db, worker, queue, errs, bad>>
  BY DEF Arrive
<1>3. q.worker = w
  BY DEF FreeSlot
<1> HIDE DEF q
<1>4. req'[r].worker = w /\ \A x \in Request \ {r} : req'[x] = req[x]
  BY <1>2, <1>3 DEF EInv, RInv, Types
<1>5. Gone'
  BY <1>2, <1>4, GoneKept DEF EInv, Gone
<1>6. Counts' /\ clock' \in 0 .. MaxTime
  BY <1>2, CountsKept DEF EInv, BreakerInv
<1> QED BY <1>1, <1>2, <1>5, <1>6, OthersStep

LEMMA RespondEInv ==
    ASSUME EInv, NEW r \in Request, Respond(r)
    PROVE  EInv' /\ BreakerStep
<1>1. RInv'
  BY RespondRInv DEF EInv
<1>2. /\ req' = [req EXCEPT ![r] = FreeSlot]
      /\ UNCHANGED <<clock, db, worker, queue, errs, bad>>
  BY DEF Respond
<1>3. req'[r].stage = "free" /\ \A x \in Request \ {r} : req'[x] = req[x]
  BY <1>2 DEF EInv, RInv, Types, FreeSlot
<1>4. Gone'
  BY <1>2, <1>3, GoneKept DEF EInv, Gone
<1>5. Counts' /\ clock' \in 0 .. MaxTime
  BY <1>2, CountsKept DEF EInv, BreakerInv
<1> QED BY <1>1, <1>2, <1>4, <1>5, OthersStep

LEMMA EnvironmentEInv ==
    ASSUME EInv, Tick \/ Recovery \/ ScriptFlush
    PROVE  EInv' /\ BreakerStep
<1>1. RInv' /\ UNCHANGED <<worker, queue, bad, req>>
  BY TickRInv, ServerRInv DEF EInv, Tick, Recovery, ScriptFlush
<1>2. Gone'
  BY <1>1, GoneKept DEF EInv, Gone
<1>3. CASE Tick
  <2>1. clock' \in 0 .. MaxTime
    BY <1>3, RedisParameters DEF EInv, BreakerInv, Tick
  <2>2. Counts' /\ \A k \in Key : db'.events[k] \subseteq db.events[k]
    BY <1>3, TickCounts DEF EInv
  <2> QED BY <1>1, <1>2, <2>1, <2>2, OthersStep
<1>4. CASE Recovery \/ ScriptFlush
  <2>1. /\ db' \in {[db EXCEPT !.up = TRUE], [db EXCEPT !.script = FALSE]}
        /\ UNCHANGED <<clock, errs>>
    BY <1>4 DEF Recovery, ScriptFlush
  <2>2. db'.events = db.events
    BY <2>1 DEF EInv, RInv, Types, DbType
  <2>3. Counts' /\ clock' \in 0 .. MaxTime
    BY <2>1, <2>2, CountsKept DEF EInv, BreakerInv
  <2> QED BY <1>1, <1>2, <2>2, <2>3, OthersStep
<1> QED BY <1>3, <1>4

LEMMA OutageEInv ==
    ASSUME EInv, Outage
    PROVE  EInv' /\ BreakerStep
<1> DEFINE s(w) == [worker[w] EXCEPT !.cut = (worker[w].conn # "none")]
<1>1. /\ \/ db' = [db EXCEPT !.up = FALSE] /\ UNCHANGED errs
         \/ /\ db' = [up |-> FALSE, script |-> FALSE,
                      events |-> [k \in Key |-> {}],
                      block |-> [k \in Key |-> NotBlocked]]
            /\ errs' = [k \in Key |-> <<>>]
      /\ worker' = [w \in Worker |-> s(w)]
      /\ UNCHANGED <<clock, queue, req, bad>>
  BY DEF Outage
<1>2. RInv'
  BY OutageRInv DEF EInv
<1>3. \/ errs' = errs /\ db'.events = db.events
      \/ /\ errs' = [k \in Key |-> <<>>]
         /\ db'.events = [k \in Key |-> {}]
  <2>1. [db EXCEPT !.up = FALSE].events = db.events
    BY DEF EInv, RInv, Types, DbType
  <2> DEFINE d == [up |-> FALSE, script |-> FALSE,
                   events |-> [k \in Key |-> {}],
                   block |-> [k \in Key |-> NotBlocked]]
  <2>2. d.events = [k \in Key |-> {}]
    OBVIOUS
  <2>3. \/ db' = [db EXCEPT !.up = FALSE] /\ UNCHANGED errs
        \/ db' = d /\ errs' = [k \in Key |-> <<>>]
    BY <1>1
  <2> HIDE DEF d, s
  <2> QED BY <2>1, <2>2, <2>3
<1>4. \A w \in Worker :
          /\ s(w).sequence = worker[w].sequence
          /\ s(w).exiting = worker[w].exiting
          /\ s(w).conn = worker[w].conn /\ s(w).timer = worker[w].timer
          /\ Quiet(worker[w], s(w))
          /\ worker[w].conn # "none" => s(w).cut
  BY DEF EInv, RInv, Types, WorkerOK, Quiet
<1> HIDE DEF s
<1>5. \A w \in Worker : worker'[w] = s(w)
  BY <1>1
<1>6. Counts'
  BY <1>1, <1>3, CountsKept DEF EInv
<1>7. Gone'
  BY <1>1, <1>4, <1>5, GoneKept DEF EInv, Gone
<1>8. BreakerInv' /\ BreakerStep
  <2>1. /\ bad' = [v \in Worker |-> bad'[v]] /\ clock' \in 0 .. MaxTime
        /\ \A v \in Worker :
               FailuresKept(worker[v], bad[v], worker'[v], bad'[v])
    BY <1>1, <1>4, <1>5, QuietCounts DEF EInv, BreakerInv
  <2> QED BY <2>1, BreakerKept DEF EInv
<1>9. Numbers'
  <2>1. ASSUME NEW v \in Worker
        PROVE  /\ Follows(queue'[v], queue[v])
               /\ \/ queue'[v] = <<>>
                  \/ /\ worker'[v].sequence = worker[v].sequence
                     /\ worker[v].cut => worker'[v].cut
               /\ worker[v].exiting => worker'[v].exiting
               /\ worker'[v].sequence >= worker[v].sequence
    <3>1. queue[v] \in Seq(CommandType) /\ worker[v].sequence \in Nat
      BY DEF EInv, RInv, Types, WorkerOK
    <3>2. worker[v].conn = "none" => queue[v] = <<>>
      BY DEF EInv, RInv, Connections
    <3> QED BY <1>1, <1>4, <1>5, <3>1, <3>2, FollowsFacts
  <2>2. \A k \in Key : db'.events[k] \subseteq db.events[k]
    BY <1>3
  <2> QED BY <1>2, <2>1, <2>2, NumbersKept DEF EInv
<1> QED BY <1>2, <1>6, <1>7, <1>8, <1>9 DEF EInv

\* A worker that has a connection, a timer or a request does not exit.
LEMMA NotGone ==
    ASSUME EInv, NEW w \in Worker,
           \/ worker[w].conn # "none" \/ worker[w].timer \/ queue[w] # <<>>
           \/ \E r \in Request : req[r].stage # "free" /\ req[r].worker = w
    PROVE  ~ worker[w].exiting
<1>1. queue[w] # <<>> => worker[w].conn # "none"
  BY DEF EInv, RInv, Connections
<1> QED BY <1>1 DEF EInv, Gone

LEMMA ExecuteEInv ==
    ASSUME EInv, NEW w \in Worker, Execute(w)
    PROVE  EInv' /\ BreakerStep
<1>1. RInv' /\ Numbers' /\ Counts'
  BY ExecuteRInv, ExecuteNumbers, ExecuteCounts DEF EInv
<1>2. /\ UNCHANGED <<clock, req, bad>>
      /\ \A v \in Worker :
            /\ worker'[v].exiting = worker[v].exiting
            /\ worker'[v].conn = worker[v].conn
            /\ worker'[v].timer = worker[v].timer
            /\ Quiet(worker[v], worker'[v])
  BY ExecuteFacts DEF EInv, Numbers, Quiet
<1>3. Gone'
  BY <1>2, GoneKept DEF EInv, Gone
<1>4. BreakerInv' /\ BreakerStep
  <2>1. /\ bad' = [v \in Worker |-> bad'[v]] /\ clock' \in 0 .. MaxTime
        /\ \A v \in Worker :
               FailuresKept(worker[v], bad[v], worker'[v], bad'[v])
    BY <1>2, QuietCounts DEF EInv, BreakerInv
  <2> QED BY <2>1, BreakerKept DEF EInv
<1> QED BY <1>1, <1>3, <1>4 DEF EInv

LEMMA AddReadFailsEInv ==
    ASSUME EInv, NEW w \in Worker, AddReadFails(w)
    PROVE  EInv' /\ BreakerStep
<1>1. RInv' /\ Numbers'
  BY AddReadFailsRInv, AddReadFailsNumbers DEF EInv
<1> DEFINE s == [worker[w] EXCEPT !.ready = FALSE, !.cut = TRUE]
<1>2. /\ worker' = [worker EXCEPT ![w] = s]
      /\ UNCHANGED <<clock, db, req, errs, bad>>
  BY DEF AddReadFails
<1>3. /\ s.exiting = worker[w].exiting /\ s.conn = worker[w].conn
      /\ s.timer = worker[w].timer /\ Quiet(worker[w], s)
  BY DEF EInv, RInv, Types, WorkerOK, Quiet
<1> HIDE DEF s
<1>4. \A v \in Worker : /\ worker'[v].exiting = worker[v].exiting
                        /\ worker'[v].conn = worker[v].conn
                        /\ worker'[v].timer = worker[v].timer
                        /\ Quiet(worker[v], worker'[v])
  BY <1>2, <1>3 DEF EInv, RInv, Types, Quiet
<1>5. Gone'
  BY <1>2, <1>4, GoneKept DEF EInv, Gone
<1>6. BreakerInv' /\ BreakerStep
  <2>1. /\ bad' = [v \in Worker |-> bad'[v]] /\ clock' \in 0 .. MaxTime
        /\ \A v \in Worker :
               FailuresKept(worker[v], bad[v], worker'[v], bad'[v])
    BY <1>2, <1>4, QuietCounts DEF EInv, BreakerInv
  <2> QED BY <2>1, BreakerKept DEF EInv
<1>7. Counts'
  BY <1>2, CountsKept DEF EInv
<1> QED BY <1>1, <1>5, <1>6, <1>7 DEF EInv

LEMMA ExitProcessEInv ==
    ASSUME EInv, NEW w \in Worker, ExitProcess(w)
    PROVE  EInv' /\ BreakerStep
<1> DEFINE s == [NewWorker EXCEPT !.exiting = TRUE]
<1>1. /\ worker' = [worker EXCEPT ![w] = s]
      /\ queue' = [queue EXCEPT ![w] = <<>>]
      /\ req' = [r \in Request |-> IF req[r].worker = w THEN FreeSlot
                                                        ELSE req[r]]
      /\ bad' = [bad EXCEPT ![w] = 0]
      /\ UNCHANGED <<clock, db, errs>>
  BY DEF ExitProcess
<1>2. RInv'
  BY ExitProcessRInv DEF EInv
<1>3. /\ s.exiting = TRUE /\ s.conn = "none" /\ s.timer = FALSE
      /\ s.failures = 0 /\ s.breaker = 0
  BY DEF NewWorker
<1> HIDE DEF s
<1>4. /\ worker'[w] = s /\ queue'[w] = <<>> /\ bad'[w] = 0
      /\ \A v \in Worker \ {w} : /\ worker'[v] = worker[v]
                                 /\ queue'[v] = queue[v] /\ bad'[v] = bad[v]
      /\ bad' = [v \in Worker |-> bad'[v]]
  BY <1>1 DEF EInv, RInv, Types, BreakerInv
<1>5. BreakerInv' /\ BreakerStep
  <2>1. ASSUME NEW v \in Worker
        PROVE  /\ CountsFailures(worker'[v], bad'[v])
               /\ OpensInTime(worker[v], bad[v], worker'[v], bad'[v])
    <3>1. CountsFailures(worker[v], bad[v]) /\ clock \in 0 .. MaxTime
      BY DEF EInv, BreakerInv
    <3>2. CASE v = w
      BY <1>3, <1>4, <3>1, <3>2, BreakerNumbers DEF CountsFailures, OpensInTime
    <3>3. CASE v # w
      BY <1>4, <3>1, <3>3, BreakerNumbers DEF CountsFailures, OpensInTime
    <3> QED BY <3>2, <3>3
  <2> QED BY <1>1, <1>4, <2>1 DEF EInv, BreakerInv, BreakerStep
<1>6. Numbers'
  <2>1. ASSUME NEW v \in Worker
        PROVE  /\ Follows(queue'[v], queue[v])
               /\ \/ queue'[v] = <<>>
                  \/ /\ worker'[v].sequence = worker[v].sequence
                     /\ worker[v].cut => worker'[v].cut
               /\ worker[v].exiting => worker'[v].exiting
               /\ \/ worker'[v].exiting
                  \/ worker'[v].sequence >= worker[v].sequence
    <3>1. queue[v] \in Seq(CommandType) /\ worker[v].sequence \in Nat
      BY DEF EInv, RInv, Types, WorkerOK
    <3>2. CASE v = w
      BY <1>3, <1>4, <3>2, FollowsFacts
    <3>3. CASE v # w
      BY <1>4, <3>1, <3>3, FollowsFacts
    <3> QED BY <3>2, <3>3
  <2> QED BY <1>1, <1>2, <2>1, NumbersKept DEF EInv
<1>7. Gone'
  <2> SUFFICES ASSUME NEW v \in Worker, worker'[v].exiting
               PROVE  /\ worker'[v].conn = "none" /\ ~ worker'[v].timer
                      /\ \A r \in Request : \/ req'[r].stage = "free"
                                            \/ req'[r].worker # v
    BY DEF Gone
  <2>1. FreeSlot.stage = "free"
    BY DEF FreeSlot
  <2>2. \A r \in Request : \/ req'[r].stage = "free"
                           \/ req'[r] = req[r] /\ req[r].worker # w
    BY <1>1, <2>1
  <2>3. CASE v = w
    BY <1>3, <1>4, <2>2, <2>3
  <2>4. CASE v # w
    BY <1>4, <2>2, <2>4 DEF EInv, Gone
  <2> QED BY <2>3, <2>4
<1>8. Counts'
  BY <1>1, CountsKept DEF EInv
<1> QED BY <1>2, <1>5, <1>6, <1>7, <1>8 DEF EInv

LEMMA RedisCheckEInv ==
    ASSUME EInv, NEW r \in Request, RedisCheck(r)
    PROVE  EInv' /\ BreakerStep
<1> DEFINE w == req[r].worker
<1>1. RInv' /\ UNCHANGED <<clock, db, errs>>
  BY RedisCheckRInv DEF EInv, RedisCheck
<1>2. CASE req[r].stage = "parked" /\ UNCHANGED <<worker, queue, req, bad>>
  <2>1. Gone' /\ Counts' /\ clock' \in 0 .. MaxTime
    BY <1>1, <1>2, GoneKept, CountsKept DEF EInv, BreakerInv, Gone
  <2> QED BY <1>1, <1>2, <2>1, OthersStep
<1>3. CASE req[r].stage = "preaccess"
           /\ (Park(r) \/ RefusedGet(r) \/ NoKeys(r) \/ Skip(r))
  <2>1. w \in Worker /\ req[r].stage # "free"
    BY <1>3 DEF EInv, RInv, Types, RequestOK
  <2>2. ~ worker[w].exiting
    BY <2>1, NotGone
  <2>3. \E g : g \in {"parked", "passed"} /\ req' = [req EXCEPT ![r].stage = g]
    BY <1>3 DEF Park, RefusedGet, NoKeys, Skip, PassUnchecked
  <2>4. PICK g \in {"parked", "passed"} : req' = [req EXCEPT ![r].stage = g]
    BY <2>3
  <2>5. \A x \in Request :
            \/ req'[x].stage = "free"
            \/ req[x].stage # "free" /\ req'[x].worker = req[x].worker
    <3>1. RequestOK(req[r]) /\ req = [x \in Request |-> req[x]]
      BY DEF EInv, RInv, Types
    <3>2. [req[r] EXCEPT !.stage = g].worker = req[r].worker
      BY <3>1 DEF RequestOK
    <3>3. /\ req'[r] = [req[r] EXCEPT !.stage = g]
          /\ \A x \in Request \ {r} : req'[x] = req[x]
      BY <2>4, <3>1
    <3>4. \A x \in Request \ {r} :
              req[x].stage = "free" \/ req[x].stage # "free"
      OBVIOUS
    <3> QED BY <2>1, <3>2, <3>3, <3>4
  <2>6. /\ queue[w] \in Seq(CommandType) /\ WorkerOK(worker[w])
        /\ CountsFailures(worker[w], bad[w]) /\ clock \in 0 .. MaxTime
        /\ worker = [worker EXCEPT ![w] = worker[w]]
        /\ bad = [v \in Worker |-> bad[v]]
    BY <2>1 DEF EInv, RInv, Types, BreakerInv
  <2> HIDE DEF w
  <2>7. Follows(queue[w], queue[w])
    BY <2>6, FollowsFacts
  <2>8. FailuresKept(worker[w], bad[w], worker[w], bad[w])
    BY <2>6, QuietCounts DEF Quiet
  <2>9. CASE Park(r)
    <3> DEFINE c == Command("GET", r, req[r].key, NoNonce)
    <3>1. UNCHANGED <<worker, bad>> /\ queue' = [queue EXCEPT ![w] = Append(@, c)]
      BY <2>9 DEF Park, w
    <3>2. c.op # "EVAL" /\ c.reply = "none"
      BY DEF Command
    <3> HIDE DEF c
    <3>3. /\ queue'[w] = Append(queue[w], c)
          /\ \A v \in Worker \ {w} : queue'[v] = queue[v]
      BY <2>1, <3>1 DEF EInv, RInv, Types
    <3>4. PICK l \in Nat : l = Len(queue[w]) /\ DOMAIN queue[w] = 1 .. l
      BY <2>6
    <3>5. /\ DOMAIN queue'[w] = 1 .. (l + 1) /\ queue'[w][l + 1] = c
          /\ \A i \in 1 .. l : queue'[w][i] = queue[w][i]
      <4>1. queue'[w] \in Seq(CommandType)
        BY <1>1, <2>1 DEF RInv, Types
      <4>2. Len(queue'[w]) = l + 1
        BY <2>6, <3>3, <3>4
      <4>3. c = queue'[w][Len(queue'[w])]
        BY <2>6, <3>3
      <4>4. DOMAIN queue'[w] = 1 .. (l + 1)
        BY <4>1, <4>2
      <4> QED BY <2>6, <3>3, <3>4, <4>2, <4>3, <4>4
    <3>6. Follows(queue'[w], queue[w])
      <4>1. \A i \in DOMAIN queue'[w] :
                \/ i + 0 \in DOMAIN queue[w] /\ queue'[w][i] = queue[w][i + 0]
                \/ /\ i + 0 \notin DOMAIN queue[w]
                   /\ queue'[w][i].op # "EVAL" /\ queue'[w][i].reply = "none"
        BY <3>2, <3>4, <3>5
      <4> QED BY <4>1 DEF Follows
    <3> QED BY <1>1, <2>1, <2>2, <2>5, <2>6, <2>8, <3>1, <3>3, <3>6, WorkerStep
  <2>10. CASE RefusedGet(r)
    <3> DEFINE s == RecordFailure(worker[w], Seconds(clock))
               n == Min({bad[w] + 1, BreakerThreshold})
    <3>1. /\ worker' = [worker EXCEPT ![w] = s] /\ UNCHANGED queue
          /\ bad' = [bad EXCEPT ![w] = n]
      BY <2>10 DEF RefusedGet, w
    <3>2. FailuresKept(worker[w], bad[w], s, n)
      BY <2>6, FailureCounts
    <3>3. Keeps(worker[w], s)
      BY <2>6, RecordFailureKeeps
    <3> HIDE DEF s, n
    <3>4. /\ bad' = [v \in Worker |-> bad'[v]] /\ bad'[w] = n
          /\ \A v \in Worker \ {w} : bad'[v] = bad[v]
      BY <2>1, <2>6, <3>1
    <3>5. /\ ~ s.exiting /\ s.sequence = worker[w].sequence
          /\ worker[w].cut => s.cut
      BY <2>2, <3>3 DEF Keeps
    <3> QED BY <1>1, <2>1, <2>2, <2>5, <2>7, <3>1, <3>2, <3>4, <3>5, WorkerStep
  <2>11. CASE UNCHANGED <<worker, queue, bad>>
    BY <1>1, <2>1, <2>2, <2>5, <2>6, <2>7, <2>8, <2>11, WorkerStep
  <2> QED BY <1>3, <2>9, <2>10, <2>11 DEF NoKeys, Skip
<1> QED BY <1>2, <1>3 DEF RedisCheck

LEMMA RedisRecordEInv ==
    ASSUME EInv, NEW r \in Request, RedisRecord(r)
    PROVE  EInv' /\ BreakerStep
<1> DEFINE w == req[r].worker
           n == worker[w].sequence + 1
           c == Command("EVAL", NoRequest, req[r].key, Nonce(w, n))
           s == [worker[w] EXCEPT !.sequence = n]
<1>1. RInv' /\ UNCHANGED <<clock, db, errs, bad>>
  BY RedisRecordRInv DEF EInv, RedisRecord
<1>2. w \in Worker /\ ~ worker[w].exiting /\ WorkerOK(worker[w])
  <2>1. w \in Worker /\ req[r].stage # "free"
    BY DEF EInv, RInv, Types, RequestOK, RedisRecord
  <2> QED BY <2>1, NotGone DEF EInv, RInv, Types
<1>3. \/ UNCHANGED <<worker, queue>>
      \/ /\ worker' = [worker EXCEPT ![w] = s]
         /\ \/ queue' = [queue EXCEPT ![w] = Append(@, c)]
            \/ UNCHANGED queue
  BY DEF RedisRecord
<1>4. /\ s.exiting = worker[w].exiting /\ s.conn = worker[w].conn
      /\ s.timer = worker[w].timer /\ s.cut = worker[w].cut
      /\ s.sequence = n /\ n \in Nat /\ n >= worker[w].sequence
      /\ Quiet(worker[w], s)
  BY <1>2 DEF WorkerOK, Quiet
<1>5. \A x \in Request : req'[x].stage = "free" \/ req'[x] = req[x]
  <2>1. req' = [req EXCEPT ![r] = FreeSlot] /\ FreeSlot.stage = "free"
    BY DEF RedisRecord, FreeSlot
  <2> QED BY <2>1 DEF EInv, RInv, Types
<1>6. c.op = "EVAL" /\ c.reply = "none" /\ c.nonce = <<w, n>>
  BY DEF Command, Nonce
<1>7. queue[w] \in Seq(CommandType) /\ queue \in [Worker -> Seq(CommandType)]
  BY <1>2 DEF EInv, RInv, Types
<1> HIDE DEF c, s, w
<1>8. \A v \in Worker : /\ worker'[v].exiting = worker[v].exiting
                        /\ worker'[v].conn = worker[v].conn
                        /\ worker'[v].timer = worker[v].timer
                        /\ worker'[v].cut = worker[v].cut
                        /\ Quiet(worker[v], worker'[v])
                        /\ worker'[v].sequence >= worker[v].sequence
                        /\ v # w => worker'[v] = worker[v]
  <2>1. \A v \in Worker : worker[v].sequence \in Nat
    BY DEF EInv, RInv, Types, WorkerOK
  <2> QED BY <1>2, <1>3, <1>4, <2>1 DEF EInv, RInv, Types, Quiet
<1>9. Gone'
  BY <1>5, <1>8, GoneKept DEF EInv, Gone
<1>10. BreakerInv' /\ BreakerStep
  <2>1. /\ bad' = [v \in Worker |-> bad'[v]] /\ clock' \in 0 .. MaxTime
        /\ \A v \in Worker :
               FailuresKept(worker[v], bad[v], worker'[v], bad'[v])
    BY <1>1, <1>8, QuietCounts DEF EInv, BreakerInv
  <2> QED BY <2>1, BreakerKept DEF EInv
<1>11. Counts'
  BY <1>1, CountsKept DEF EInv
<1>12. Numbers'
  <2>1. CASE worker' = [worker EXCEPT ![w] = s]
             /\ queue' = [queue EXCEPT ![w] = Append(@, c)]
    BY <1>1, <1>2, <1>6, <2>1, NumbersTaken DEF s, EInv
  <2>2. CASE UNCHANGED queue
    BY <1>1, <1>2, <1>8, <2>2, NumbersRaised DEF EInv
  <2> QED BY <1>3, <2>1, <2>2
<1> QED BY <1>1, <1>9, <1>10, <1>11, <1>12 DEF EInv

\* The queue after its first command has been answered.
LEMMA RestFollows ==
    ASSUME NEW q \in Seq(CommandType), q # <<>>,
           NEW more \in Seq(CommandType),
           \A i \in DOMAIN more : more[i].op # "EVAL" /\ more[i].reply = "none"
    PROVE  Follows(Tail(q) \o more, q)
<1> DEFINE rest == Tail(q) \o more
<1>1. PICK l \in Nat : l = Len(q) /\ DOMAIN q = 1 .. l
  OBVIOUS
<1>2. /\ l >= 1 /\ Tail(q) \in Seq(CommandType) /\ Len(Tail(q)) = l - 1
      /\ \A i \in 1 .. (l - 1) : Tail(q)[i] = q[i + 1]
  BY <1>1, HeadTailProperties
<1>3. PICK n \in Nat : n = Len(more) /\ DOMAIN more = 1 .. n
  OBVIOUS
<1>4. /\ DOMAIN rest = 1 .. (l - 1 + n)
      /\ \A i \in 1 .. (l - 1 + n) :
            rest[i] = IF i <= l - 1 THEN Tail(q)[i] ELSE more[i - (l - 1)]
  BY <1>1, <1>2, <1>3
<1> HIDE DEF rest
<1>5. ASSUME NEW i \in DOMAIN rest
      PROVE  \/ i + 1 \in DOMAIN q /\ rest[i] = q[i + 1]
             \/ /\ i + 1 \notin DOMAIN q
                /\ rest[i].op # "EVAL" /\ rest[i].reply = "none"
  <2>1. CASE i <= l - 1
    BY <1>1, <1>2, <1>4, <2>1
  <2>2. CASE ~ (i <= l - 1)
    <3>1. i - (l - 1) \in DOMAIN more /\ i + 1 \notin 1 .. l
      BY <1>2, <1>3, <1>4, <2>2
    <3> QED BY <1>1, <1>4, <2>2, <3>1
  <2> QED BY <2>1, <2>2
<1>6. Follows(rest, q)
  BY <1>5 DEF Follows
<1> QED BY <1>6 DEF rest

LEMMA DeliverEInv ==
    ASSUME EInv, NEW w \in Worker, Deliver(w)
    PROVE  EInv' /\ BreakerStep
<1> DEFINE q == queue[w]
           c == Head(q)
           s == Callback(worker[w], c, Seconds(clock))
           more == Reload(s, c)
           rest == Tail(q) \o more
           t == Settled(s, rest)
           n == BadAfter(bad[w], c)
<1>1. /\ q # <<>> /\ c.reply # "none"
      /\ queue' = [queue EXCEPT ![w] = rest]
      /\ worker' = [worker EXCEPT ![w] = t]
      /\ bad' = [bad EXCEPT ![w] = n]
      /\ req' = [r \in Request |-> IF r = c.req THEN Resumed(req[r], c)
                                               ELSE req[r]]
      /\ UNCHANGED <<clock, db, errs>>
  BY DEF Deliver
<1>2. /\ q \in Seq(CommandType) /\ 1 \in DOMAIN q /\ c = q[1]
      /\ c \in CommandType /\ WorkerOK(worker[w])
  <2>1. q \in Seq(CommandType) /\ WorkerOK(worker[w])
    BY DEF EInv, RInv, Types
  <2>2. 1 \in DOMAIN q /\ c = q[1]
    BY <1>1, <2>1
  <2>3. c \in CommandType
    BY <2>1, <2>2
  <2> QED BY <2>1, <2>2, <2>3
<1>3. ~ worker[w].exiting
  BY <1>1, NotGone
<1>4. /\ c.op \in Op /\ c.reply \in Answer \ {"none"}
      /\ c.op \in {"GET", "EVAL"} => c.reply # "OK"
  BY <1>1, <1>2 DEF CommandType, EInv, Numbers, Replies
<1>5. CountsFailures(worker[w], bad[w]) /\ clock \in 0 .. MaxTime
  BY DEF EInv, BreakerInv
<1> HIDE DEF c, q
<1>6. WorkerOK(s) /\ Keeps(worker[w], s)
  BY <1>2, CallbackFacts, CallbackKeeps
<1>7. FailuresKept(worker[w], bad[w], s, n)
  BY <1>2, <1>4, <1>5, CallbackCounts
<1> HIDE DEF s, n
<1>8. Keeps(s, t) /\ Quiet(s, t)
  BY <1>6, SettledQuiet
<1>9. FailuresKept(worker[w], bad[w], t, n)
  BY <1>7, <1>8 DEF FailuresKept, CountsFailures, Quiet
<1>10. /\ ~ t.exiting /\ t.sequence = worker[w].sequence
       /\ worker[w].cut => t.cut
  BY <1>3, <1>6, <1>8 DEF Keeps
<1>11. Follows(rest, q)
  <2>1. /\ more \in Seq(CommandType)
        /\ \A i \in DOMAIN more : more[i].op # "EVAL" /\ more[i].reply = "none"
    <3> DEFINE load == Command("LOAD", NoRequest, NoRequest, NoNonce)
    <3>1. load \in CommandType
      BY NoNonceType, NewCommand DEF Op
    <3>2. load.op = "LOAD" /\ load.reply = "none"
      BY DEF Command
    <3>3. more \in {<<load>>, <<>>}
      BY DEF Reload
    <3> HIDE DEF more, load
    <3>4. /\ <<load>> \in Seq(CommandType) /\ <<>> \in Seq(CommandType)
          /\ \A i \in DOMAIN <<load>> : <<load>>[i] = load
          /\ \A i : i \notin DOMAIN <<>>
      BY <3>1
    <3>5. CASE more = <<load>>
      BY <3>2, <3>4, <3>5
    <3>6. CASE more = <<>>
      BY <3>4, <3>6
    <3> QED BY <3>3, <3>5, <3>6
  <2> HIDE DEF more
  <2> QED BY <1>1, <1>2, <2>1, RestFollows
<1>12. \A r \in Request :
           \/ req'[r].stage = "free"
           \/ req[r].stage # "free" /\ req'[r].worker = req[r].worker
  <2> SUFFICES ASSUME NEW r \in Request
               PROVE  \/ req'[r].stage = "free"
                      \/ /\ req[r].stage # "free"
                         /\ req'[r].worker = req[r].worker
    OBVIOUS
  <2>1. RequestOK(req[r])
    BY DEF EInv, RInv, Types
  <2>2. CASE r = c.req
    <3>1. req[r].stage = "parked"
      BY <1>2, <2>2, RedisParameters DEF EInv, RInv, Parking, CalledBack, q
    <3>2. Resumed(req[r], c).worker = req[r].worker
      <4> DEFINE u == Min({c.value, TimeAddSaturate(Seconds(clock), Block)})
                 a == [req[r] EXCEPT !.stage = "rejected", !.until = u]
                 b == [req[r] EXCEPT !.stage = "passed"]
      <4>1. Resumed(req[r], c) \in {a, b}
        BY DEF Resumed
      <4> HIDE DEF u
      <4>2. a.worker = req[r].worker /\ b.worker = req[r].worker
        BY <2>1 DEF RequestOK
      <4> HIDE DEF a, b
      <4> QED BY <4>1, <4>2
    <3> QED BY <1>1, <2>2, <3>1, <3>2
  <2>3. CASE r # c.req
    BY <1>1, <2>3
  <2> QED BY <2>2, <2>3
<1> HIDE DEF t, rest
<1>13. /\ queue'[w] = rest
       /\ \A v \in Worker \ {w} : queue'[v] = queue[v] /\ bad'[v] = bad[v]
       /\ bad'[w] = n /\ bad' = [v \in Worker |-> bad'[v]]
  BY <1>1 DEF EInv, RInv, Types, BreakerInv
<1>14. RInv'
  BY DeliverRInv DEF EInv
<1>15. UNCHANGED <<clock, db, errs>> /\ worker' = [worker EXCEPT ![w] = t]
  BY <1>1
<1> QED BY <1>3, <1>9, <1>10, <1>11, <1>12, <1>13, <1>14, <1>15, WorkerStep
        DEF q

LEMMA LostEInv ==
    ASSUME EInv, NEW w \in Worker, Lost(w)
    PROVE  EInv' /\ BreakerStep
<1> DEFINE failed == AfterAll(w)
           f == failed.worker.failures
           b == failed.worker.breaker
           s == [worker[w] EXCEPT !.failures = f, !.breaker = b]
           t == Disconnected(s)
<1>1. /\ worker' = [worker EXCEPT ![w] = t]
      /\ queue' = [queue EXCEPT ![w] = <<>>]
      /\ bad' = [bad EXCEPT ![w] = failed.bad]
      /\ req' = [r \in Request |->
                    IF req[r].stage = "parked" /\ req[r].worker = w
                    THEN [req[r] EXCEPT !.stage = "passed"] ELSE req[r]]
      /\ UNCHANGED <<clock, db, errs>>
  BY DEF Lost
<1>2. worker[w].conn # "none"
  BY DEF Lost
<1>3. ~ worker[w].exiting
  BY <1>2, NotGone
<1>4. FailuresKept(worker[w], bad[w], failed.worker, failed.bad)
  BY AfterAllCounts DEF EInv
<1> HIDE DEF failed
<1>5. /\ WorkerOK(s) /\ Keeps(worker[w], s) /\ s.failures = f /\ s.breaker = b
  <2> HIDE DEF f, b
  <2> QED BY DEF EInv, RInv, Types, WorkerOK, Keeps
<1> HIDE DEF s
<1>6. Keeps(s, t) /\ Quiet(s, t)
  BY <1>5, DisconnectedQuiet
<1> HIDE DEF t
<1>7. FailuresKept(worker[w], bad[w], t, failed.bad)
  BY <1>4, <1>5, <1>6 DEF FailuresKept, CountsFailures, Quiet
<1>8. ~ t.exiting /\ t.sequence = worker[w].sequence
  BY <1>3, <1>5, <1>6 DEF Keeps
<1>9. \A r \in Request :
          \/ req'[r].stage = "free"
          \/ req[r].stage # "free" /\ req'[r].worker = req[r].worker
  <2> TAKE r \in Request
  <2>1. RequestOK(req[r])
    BY DEF EInv, RInv, Types
  <2>2. /\ [req[r] EXCEPT !.stage = "passed"].worker = req[r].worker
    BY <2>1 DEF RequestOK
  <2> QED BY <1>1, <2>2
<1>10. /\ queue'[w] = <<>>
       /\ \A v \in Worker \ {w} : queue'[v] = queue[v] /\ bad'[v] = bad[v]
       /\ bad'[w] = failed.bad /\ bad' = [v \in Worker |-> bad'[v]]
  BY <1>1 DEF EInv, RInv, Types, BreakerInv
<1>11. RInv'
  BY LostRInv DEF EInv
<1>12. UNCHANGED <<clock, db, errs>> /\ worker' = [worker EXCEPT ![w] = t]
  BY <1>1
<1> QED BY <1>3, <1>7, <1>8, <1>9, <1>10, <1>11, <1>12, WorkerStep

\* A worker without commands goes on as s: only the connection changes.
LEMMA ConnectionStep ==
    ASSUME EInv, RInv', NEW w \in Worker, NEW s, ~ worker[w].exiting,
           queue[w] = <<>>,
           worker' = [worker EXCEPT ![w] = s],
           s.exiting = worker[w].exiting, s.sequence = worker[w].sequence,
           Quiet(worker[w], s),
           \/ UNCHANGED queue
           \/ \E q : /\ queue' = [queue EXCEPT ![w] = q]
                     /\ Follows(q, <<>>)
                     /\ s.cut = worker[w].cut,
           UNCHANGED <<clock, db, req, errs, bad>>
    PROVE  EInv' /\ BreakerStep
<1>1. \/ queue'[w] = <<>>
      \/ Follows(queue'[w], queue[w]) /\ (worker[w].cut => s.cut)
  BY DEF EInv, RInv, Types
<1>2. /\ \A v \in Worker \ {w} : queue'[v] = queue[v] /\ bad'[v] = bad[v]
      /\ bad' = [v \in Worker |-> bad'[v]]
  BY DEF EInv, RInv, Types, BreakerInv
<1>3. FailuresKept(worker[w], bad[w], s, bad'[w])
  BY QuietCounts DEF EInv, BreakerInv
<1>4. \A r \in Request :
          \/ req'[r].stage = "free"
          \/ req[r].stage # "free" /\ req'[r].worker = req[r].worker
  OBVIOUS
<1> QED BY <1>1, <1>2, <1>3, <1>4, WorkerStep

LEMMA ReconnectEInv ==
    ASSUME EInv, NEW w \in Worker, Reconnect(w)
    PROVE  EInv' /\ BreakerStep
<1> DEFINE s == [worker[w] EXCEPT !.timer = FALSE]
           t == [s EXCEPT !.conn = "connecting", !.denied = FALSE,
                          !.cut = ~ db.up]
<1>1. RInv' /\ WorkerOK(worker[w]) /\ db.up \in BOOLEAN
  BY ReconnectRInv DEF EInv, RInv, Types, DbType
<1>2. /\ worker[w].timer /\ queue[w] = <<>>
  BY DEF Reconnect, EInv, RInv, Connections
<1>3. ~ worker[w].exiting
  BY <1>2, NotGone
<1>4. /\ WorkerOK(s) /\ Keeps(worker[w], s) /\ Quiet(worker[w], s)
      /\ t.exiting = worker[w].exiting /\ t.sequence = worker[w].sequence
      /\ Quiet(worker[w], t)
  BY <1>1 DEF WorkerOK, Keeps, Quiet
<1>5. /\ \/ worker' = [worker EXCEPT ![w] = t]
         \/ worker' = [worker EXCEPT ![w] = ArmReconnect(s)]
      /\ UNCHANGED <<clock, db, queue, req, errs, bad>>
  BY DEF Reconnect
<1> HIDE DEF s, t
<1>6. /\ ArmReconnect(s).exiting = worker[w].exiting
      /\ ArmReconnect(s).sequence = worker[w].sequence
      /\ Quiet(worker[w], ArmReconnect(s))
  BY <1>4, ArmQuiet DEF Keeps, Quiet
<1> QED BY <1>1, <1>2, <1>3, <1>4, <1>5, <1>6, ConnectionStep

LEMMA ConnectFailedEInv ==
    ASSUME EInv, NEW w \in Worker, ConnectFailed(w)
    PROVE  EInv' /\ BreakerStep
<1> DEFINE s == [worker[w] EXCEPT !.conn = "stale", !.ready = FALSE]
<1>1. RInv' /\ WorkerOK(worker[w])
  BY ConnectFailedRInv DEF EInv, RInv, Types
<1>2. worker[w].conn = "connecting" /\ queue[w] = <<>>
  BY DEF ConnectFailed, EInv, RInv, Connections
<1>3. ~ worker[w].exiting
  BY <1>2, NotGone
<1>4. /\ s.exiting = worker[w].exiting /\ s.sequence = worker[w].sequence
      /\ Quiet(worker[w], s)
  BY <1>1 DEF WorkerOK, Quiet
<1>5. /\ worker' = [worker EXCEPT ![w] = s]
      /\ UNCHANGED <<clock, db, queue, req, errs, bad>>
  BY DEF ConnectFailed
<1> HIDE DEF s
<1> QED BY <1>1, <1>2, <1>3, <1>4, <1>5, ConnectionStep

LEMMA ConnectedEInv ==
    ASSUME EInv, NEW w \in Worker, Connected(w)
    PROVE  EInv' /\ BreakerStep
<1> DEFINE s == [worker[w] EXCEPT !.conn = "open", !.ready = TRUE,
                                  !.backoff = 0]
           f == Settled(HandshakeFailed(s), <<>>)
           hello == <<Command("HELLO", NoRequest, NoRequest, NoNonce),
                      Command("LOAD", NoRequest, NoRequest, NoNonce)>>
<1>1. RInv' /\ WorkerOK(worker[w])
  BY ConnectedRInv DEF EInv, RInv, Types
<1>2. worker[w].conn = "connecting" /\ queue[w] = <<>>
  BY DEF Connected, EInv, RInv, Connections
<1>3. ~ worker[w].exiting
  BY <1>2, NotGone
<1>4. WorkerOK(s) /\ Keeps(worker[w], s) /\ Quiet(worker[w], s)
  BY <1>1 DEF WorkerOK, Keeps, Quiet, Conn
<1>5. Follows(hello, <<>>)
  <2>1. \A i \in DOMAIN hello :
            /\ i + 0 \notin DOMAIN <<>>
            /\ hello[i].op # "EVAL" /\ hello[i].reply = "none"
    BY DEF Command
  <2> HIDE DEF hello
  <2> QED BY <2>1 DEF Follows
<1>6. /\ \/ /\ worker' = [worker EXCEPT ![w] = s]
            /\ queue' = [queue EXCEPT ![w] = hello]
         \/ /\ worker' = [worker EXCEPT ![w] = f]
            /\ UNCHANGED queue
      /\ UNCHANGED <<clock, db, req, errs, bad>>
  BY DEF Connected
<1> HIDE DEF s, hello
<1>7. Keeps(worker[w], f) /\ Quiet(worker[w], f)
  BY <1>4, HandshakeQuiet, SettledQuiet DEF Keeps, Quiet
<1> HIDE DEF f
<1>8. CASE worker' = [worker EXCEPT ![w] = s]
           /\ queue' = [queue EXCEPT ![w] = hello]
  <2>1. /\ s.exiting = worker[w].exiting /\ s.sequence = worker[w].sequence
        /\ s.cut = worker[w].cut
    BY <1>4 DEF Keeps
  <2> QED BY <1>1, <1>2, <1>3, <1>4, <1>5, <1>6, <1>8, <2>1, ConnectionStep
<1>9. CASE worker' = [worker EXCEPT ![w] = f] /\ UNCHANGED queue
  <2>1. f.exiting = worker[w].exiting /\ f.sequence = worker[w].sequence
    BY <1>7 DEF Keeps
  <2> QED BY <1>1, <1>2, <1>3, <1>6, <1>7, <1>9, <2>1, ConnectionStep
<1> QED BY <1>6, <1>8, <1>9

LEMMA StepEInv == EInv /\ Next => EInv' /\ BreakerStep
<1> SUFFICES ASSUME EInv, Next PROVE EInv' /\ BreakerStep
  OBVIOUS
<1>1. CASE Tick \/ Outage \/ Recovery \/ ScriptFlush
  BY <1>1, EnvironmentEInv, OutageEInv
<1>2. CASE \E r \in Request, w \in Worker, k \in Key : Arrive(r, w, k)
  BY <1>2, ArriveEInv
<1>3. CASE \E r \in Request : RedisCheck(r) \/ RedisRecord(r) \/ Respond(r)
  BY <1>3, RedisCheckEInv, RedisRecordEInv, RespondEInv
<1>4. CASE \E w \in Worker : Execute(w) \/ Deliver(w) \/ Lost(w)
  BY <1>4, ExecuteEInv, DeliverEInv, LostEInv
<1>5. CASE \E w \in Worker : \/ Reconnect(w) \/ Connected(w)
                             \/ ConnectFailed(w) \/ AddReadFails(w)
                             \/ ExitProcess(w)
  BY <1>5, ReconnectEInv, ConnectedEInv, ConnectFailedEInv,
     AddReadFailsEInv, ExitProcessEInv
<1> QED BY <1>1, <1>2, <1>3, <1>4, <1>5 DEF Next

LEMMA NextEInv == EInv /\ [Next]_vars => EInv'
<1> SUFFICES ASSUME EInv, UNCHANGED vars PROVE EInv'
  BY StepEInv
<1>1. RInv'
  BY NextRInv DEF EInv
<1>2. /\ UNCHANGED <<worker, queue, bad, clock, req>>
      /\ errs' = errs /\ db' = db
  BY DEF vars
<1>3. Gone' /\ Counts' /\ clock' \in 0 .. MaxTime
  BY <1>2, GoneKept, CountsKept DEF EInv, BreakerInv, Gone
<1> QED BY <1>1, <1>2, <1>3, OthersStep

LEMMA SpecEInv == Spec => []EInv
BY InitEInv, NextEInv, PTL DEF Spec

LEMMA WindowCounts ==
    ASSUME EInv, NEW k \in Key
    PROVE  Cardinality({e \in db.events[k] : e.at > clock - Interval * Second})
               = Cardinality(Recent(k))
<1>1. clock - Interval * Second \in Int
  BY RedisParameters DEF EInv, RInv, Types
<1>2. Matches(db.events[k], errs[k], clock)
  BY DEF EInv, Counts
<1> QED BY <1>1, <1>2 DEF Matches, Recent

\* The script starts a ban only with the error that fills the window.
LEMMA BanStep ==
    ASSUME EInv, Next, NEW k \in Key, db'.block[k].ends > db.block[k].ends
    PROVE  Cardinality(Recent(k)) + 1 >= Threshold
<1>1. db \in DbType /\ db.block[k].ends \in Nat /\ clock \in Nat
  BY DEF EInv, RInv, Types, DbType
<1>2. db'.block[k] # db.block[k] /\ db'.block[k] # NotBlocked
  BY <1>1 DEF NotBlocked
<1>3. CASE Tick
  <2> DEFINE expired(o) == \A e \in db.events[o] :
                               e.at + Inactive * Second <= clock + 1
             ev == [o \in Key |-> IF expired(o) THEN {} ELSE db.events[o]]
             bl == [o \in Key |-> IF db.block[o].ends <= clock + 1
                                  THEN NotBlocked ELSE db.block[o]]
  <2>1. db' = [db EXCEPT !.events = ev, !.block = bl]
    BY <1>3 DEF Tick
  <2>2. bl[k] \in {NotBlocked, db.block[k]}
    OBVIOUS
  <2> HIDE DEF ev, bl
  <2>3. db'.block = bl
    BY <1>1, <2>1 DEF DbType
  <2> QED BY <1>2, <2>2, <2>3
<1>4. CASE Outage
  <2> DEFINE d == [up |-> FALSE, script |-> FALSE,
                   events |-> [o \in Key |-> {}],
                   block |-> [o \in Key |-> NotBlocked]]
  <2>1. db' \in {[db EXCEPT !.up = FALSE], d}
    BY <1>4 DEF Outage
  <2>2. [db EXCEPT !.up = FALSE].block = db.block /\ d.block[k] = NotBlocked
    BY <1>1 DEF DbType
  <2> HIDE DEF d
  <2> QED BY <1>2, <2>1, <2>2
<1>5. CASE Recovery \/ ScriptFlush
  <2>1. db' \in {[db EXCEPT !.up = TRUE], [db EXCEPT !.script = FALSE]}
    BY <1>5 DEF Recovery, ScriptFlush
  <2> QED BY <1>1, <1>2, <2>1 DEF DbType
<1>6. CASE UNCHANGED db
  BY <1>2, <1>6
<1>7. CASE \E w \in Worker : Execute(w)
  <2>1. PICK w \in Worker : Execute(w)
    BY <1>7
  <2>2. PICK i \in DOMAIN queue[w] :
            /\ queue[w][i] \in CommandType
            /\ db'.block = db.block \/ CountsError(queue[w][i])
    BY <2>1, ExecuteFacts DEF EInv, Numbers
  <2> DEFINE c == queue[w][i]
             m == [at |-> clock, nonce |-> c.nonce]
             o == c.key
  <2>3. CountsError(c)
    BY <1>2, <2>2
  <2>4. o \in Key /\ db' = Counted(db, o, m)
    BY <2>2, <2>3 DEF CountsError, CommandType
  <2> HIDE DEF c, m, o
  <2>5. Joins(o, m, db')
    BY <1>1, <2>4, CountedCases
  <2>6. o = k /\ Cardinality(With(k, m)) >= Threshold
    BY <1>2, <2>5 DEF Joins
  <2> DEFINE kept == {e \in db.events[k] : e.at > clock - Interval * Second}
  <2>7. Cardinality(kept) = Cardinality(Recent(k))
    BY WindowCounts
  <2>8. IsFiniteSet(kept)
    <3>1. IsFiniteSet(db.events[k]) /\ kept \subseteq db.events[k]
      BY DEF EInv, Counts, Matches
    <3> QED BY <3>1, FS_Subset
  <2>9. With(k, m) = kept \cup {m}
    BY DEF With
  <2> HIDE DEF kept
  <2>10. /\ Cardinality(kept) \in Nat
         /\ Cardinality(kept \cup {m}) \in {Cardinality(kept),
                                            Cardinality(kept) + 1}
    BY <2>8, FS_AddElement, FS_CardinalityType
  <2>11. Threshold \in Nat
    BY RedisParameters
  <2> QED BY <2>6, <2>7, <2>9, <2>10, <2>11
<1>8. \/ Tick \/ Outage \/ Recovery \/ ScriptFlush \/ UNCHANGED db
      \/ \E w \in Worker : Execute(w)
  BY DEF Next, Arrive, RedisCheck, RedisRecord, Respond, Deliver, Lost,
         Reconnect, Connected, ConnectFailed, AddReadFails, ExitProcess
<1> QED BY <1>3, <1>4, <1>5, <1>6, <1>7, <1>8

\* redis_record, the script: whatever is retried, cut off, executed without
\* an answer or flushed, and however many workers count, Redis holds every
\* error it counted that is in the window, once.
THEOREM EveryErrorStaysCounted == Spec => []EveryErrorCounts
<1>1. EInv => EveryErrorCounts
  BY WindowCounts DEF EveryErrorCounts
<1> QED BY <1>1, SpecEInv, PTL

\* redis_record_failure, both callbacks, redis_check: the breaker of a worker
\* opens with the BreakerThreshold-th failure in a row and with no other.
THEOREM BreakerOpensInTime == Spec => BreakerCountsFailures
<1>1. ASSUME EInv, Next
      PROVE  \A w \in Worker :
                /\ worker'[w].breaker > worker[w].breaker
                      => bad'[w] >= BreakerThreshold
                /\ bad[w] < BreakerThreshold /\ bad'[w] >= BreakerThreshold
                      => worker'[w].breaker > Seconds(clock)
  BY <1>1, StepEInv DEF BreakerStep, OpensInTime
<1>2. EInv /\ [Next]_vars =>
        [\A w \in Worker :
             /\ worker'[w].breaker > worker[w].breaker
                   => bad'[w] >= BreakerThreshold
             /\ bad[w] < BreakerThreshold /\ bad'[w] >= BreakerThreshold
                   => worker'[w].breaker > Seconds(clock)]_vars
  BY <1>1
<1> QED BY <1>2, SpecEInv, PTL DEF Spec, BreakerCountsFailures

\* The record script: a ban starts or is prolonged only by an error that is at
\* least the Threshold-th in the window, whoever counted the others.
THEOREM RedisBansAreEarned == Spec => RedisBanIsEarned
<1>1. EInv /\ [Next]_vars =>
        [\A k \in Key : db'.block[k].ends > db.block[k].ends
                            => Cardinality(Recent(k)) + 1 >= Threshold]_vars
  BY BanStep
<1> QED BY <1>1, SpecEInv, PTL DEF Spec, RedisBanIsEarned

=============================================================================
