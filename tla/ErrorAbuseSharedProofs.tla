----------------------- MODULE ErrorAbuseSharedProofs -----------------------
(***************************************************************************)
(* Proofs about ErrorAbuseShared: every step of workers with a zone is a   *)
(* step of the workers that share bans through Redis, so that what was     *)
(* proved about those holds here; no answer of Redis opens a way around    *)
(* the zone of a host; and a ban in Redis stops a client on every host     *)
(* (SInv).                                                                 *)
(***************************************************************************)
EXTENDS ErrorAbuseShared, ErrorAbuseRedisProofs

\* What the zones and the histories are functions of.
Shapes ==
    /\ zone = [h \in Host |-> zone[h]]
    /\ verdict = [r \in Request |-> verdict[r]]
    /\ asked \in [Request -> Nat]

\* No ban in Redis runs longer than one that starts now, so that a ban is
\* prolonged when it starts again.
BanLasts == \A k \in Key : db.block[k].ends <= clock + Block * Second

\* The command c of worker w is a GET for the identity of its request.  If
\* Redis has found no ban, then the one that ran when the request was parked
\* is over; and if Redis has yet to take the command, then that ban still
\* stands or is over, unless the connection is cut.
Asks(w, c) ==
    LET r == c.req
    IN  /\ c.op = "GET" /\ c.key = req[r].key
        /\ c.reply \in {"none", "STRING", "NIL", "ERROR"}
        /\ c.reply = "NIL" => asked[r] <= clock
        /\ c.reply = "none" => \/ worker[w].cut
                               \/ asked[r] <= clock
                               \/ asked[r] <= db.block[c.key].ends

Asking ==
    \A w \in Worker : \A i \in DOMAIN queue[w] :
        queue[w][i].req # NoRequest => Asks(w, queue[w][i])

\* The inductive invariant.
SInv == EInv /\ Shapes /\ BanLasts /\ Asking

-----------------------------------------------------------------------------
(***************************************************************************)
(* Steps with a zone are steps without.                                    *)
(***************************************************************************)

LEMMA SharedStep == SharedNext => Next
BY DEF SharedNext, Next, Preaccess, Resume, CountResponse, PassResponse, Exit,
       Elsewhere

\* The composition implements the workers of ErrorAbuseRedis: no zone makes a
\* worker do to Redis or to its connection what it would not do without.
THEOREM SharedImplementsRedis == SharedSpec => Spec
<1>1. SharedInit => Init
  BY DEF SharedInit
<1>2. [SharedNext]_sharedVars => [Next]_vars
  BY SharedStep DEF sharedVars
<1> QED BY <1>1, <1>2, PTL DEF SharedSpec, Spec

\* The record script, whatever the zones of the hosts make of the errors they
\* count themselves: Redis holds each one once.
THEOREM SharedErrorsStayCounted == SharedSpec => []EveryErrorCounts
BY SharedImplementsRedis, EveryErrorStaysCounted, PTL

-----------------------------------------------------------------------------
(***************************************************************************)
(* Bans in Redis.                                                          *)
(***************************************************************************)

LEMMA CommandAt ==
    ASSUME RInv, NEW w \in Worker, NEW i \in DOMAIN queue[w]
    PROVE  /\ queue[w][i] \in CommandType
           /\ queue[w][i].req # NoRequest =>
                 /\ queue[w][i].req \in Request
                 /\ req[queue[w][i].req].stage = "parked"
                 /\ req[queue[w][i].req].worker = w
                 /\ req[queue[w][i].req].key \in Key
<1>1. queue[w] \in Seq(CommandType)
  BY DEF RInv, Types
<1>2. queue[w][i] \in CommandType
  BY <1>1
<1> QED BY <1>2 DEF CommandType, RInv, Types, RequestOK, Parking, CalledBack

LEMMA BanEnds ==
    ASSUME clock \in Nat
    PROVE  Block * Second \in Nat /\ clock + Block * Second \in Nat
<1>1. Block \in Nat /\ Second \in Nat
  BY RedisParameters
<1>2. Block * Second \in Nat
  BY ONLY <1>1
<1> QED BY <1>2

\* The script leaves a ban alone or starts one that ends last.
LEMMA CountedBan ==
    ASSUME RInv, NEW k \in Key, NEW m, NEW o \in Key
    PROVE  Counted(db, k, m).block[o].ends
               \in {db.block[o].ends, clock + Block * Second}
<1> DEFINE d    == Counted(db, k, m)
           now  == With(k, m)
           ends == clock + Block * Second
           ban  == [deadline |-> Seconds(ends), ends |-> ends]
<1>1. d \in {[db EXCEPT !.events[k] = {}, !.block[k] = ban],
             [db EXCEPT !.events[k] = now]}
  BY DEF Counted, With
<1>2. ban.ends = ends
  OBVIOUS
<1> HIDE DEF d, now, ban, ends
<1>3. d.block \in {[db.block EXCEPT ![k] = ban], db.block}
  BY <1>1 DEF RInv, Types, DbType
<1>4. d.block[o].ends \in {db.block[o].ends, ends}
  BY <1>2, <1>3 DEF RInv, Types, DbType
<1> QED BY <1>4 DEF d, ends

\* Only an outage ends a ban of Redis before its time.
LEMMA BansLast ==
    ASSUME EInv, BanLasts, Next
    PROVE  /\ BanLasts' /\ clock \in Nat /\ clock' \in Nat /\ clock' >= clock
           /\ \/ Outage
              \/ \A k \in Key : \/ db'.block[k].ends >= db.block[k].ends
                                \/ db.block[k].ends <= clock'
<1> DEFINE later(k) == \/ db'.block[k].ends >= db.block[k].ends
                       \/ db.block[k].ends <= clock'
<1>1. /\ db \in DbType /\ clock \in Nat /\ Block * Second \in Nat
      /\ \A k \in Key : db.block[k].ends \in Nat
  <2>1. db \in DbType /\ clock \in Nat
    BY DEF EInv, RInv, Types
  <2> QED BY <2>1, BanEnds DEF DbType
<1>2. CASE Tick
  <2> DEFINE expired(o) == \A e \in db.events[o] :
                               e.at + Inactive * Second <= clock + 1
             ev == [o \in Key |-> IF expired(o) THEN {} ELSE db.events[o]]
             bl == [o \in Key |-> IF db.block[o].ends <= clock + 1
                                  THEN NotBlocked ELSE db.block[o]]
  <2>1. db' = [db EXCEPT !.events = ev, !.block = bl] /\ clock' = clock + 1
    BY <1>2 DEF Tick
  <2>2. \A k \in Key : \/ bl[k].ends = 0 /\ db.block[k].ends <= clock + 1
                       \/ bl[k] = db.block[k]
    BY DEF NotBlocked
  <2> HIDE DEF ev, bl
  <2>3. db'.block = bl
    BY <1>1, <2>1 DEF DbType
  <2>4. clock' + Block * Second = clock + Block * Second + 1
    BY <1>1, <2>1
  <2>5. BanLasts'
    <3> SUFFICES ASSUME NEW k \in Key
                 PROVE  db'.block[k].ends <= clock' + Block * Second
      BY DEF BanLasts
    <3>1. db.block[k].ends <= clock + Block * Second
      BY DEF BanLasts
    <3> QED BY <1>1, <2>2, <2>3, <2>4, <3>1
  <2>6. \A k \in Key : later(k)
    BY <1>1, <2>1, <2>2, <2>3
  <2> QED BY <1>1, <2>1, <2>5, <2>6
<1>3. CASE UNCHANGED clock /\ db'.block = db.block
  BY <1>1, <1>3 DEF BanLasts
<1>4. CASE Outage
  <2> DEFINE d == [up |-> FALSE, script |-> FALSE,
                   events |-> [o \in Key |-> {}],
                   block |-> [o \in Key |-> NotBlocked]]
  <2>1. db' \in {[db EXCEPT !.up = FALSE], d} /\ UNCHANGED clock
    BY <1>4 DEF Outage
  <2>2. /\ [db EXCEPT !.up = FALSE].block = db.block
        /\ \A k \in Key : d.block[k].ends = 0
    BY <1>1 DEF DbType, NotBlocked
  <2> HIDE DEF d
  <2>3. \A k \in Key : db'.block[k].ends \in {0, db.block[k].ends}
    BY <2>1, <2>2
  <2>4. BanLasts'
    BY <1>1, <2>1, <2>3 DEF BanLasts
  <2> QED BY <1>1, <1>4, <2>1, <2>4
<1>5. CASE \E w \in Worker : Execute(w)
  <2>1. PICK w \in Worker : Execute(w)
    BY <1>5
  <2>2. PICK i \in DOMAIN queue[w] :
            /\ queue[w][i] \in CommandType
            /\ db'.block = db.block \/ CountsError(queue[w][i])
    BY <2>1, ExecuteFacts DEF EInv, Numbers
  <2>3. UNCHANGED clock
    BY <2>1 DEF Execute
  <2>4. CASE CountsError(queue[w][i])
    <3> DEFINE c == queue[w][i]
               m == [at |-> clock, nonce |-> c.nonce]
    <3>1. c.key \in Key /\ db' = Counted(db, c.key, m)
      BY <2>2, <2>4 DEF CountsError, CommandType
    <3>2. \A k \in Key : db'.block[k].ends
                             \in {db.block[k].ends, clock + Block * Second}
      BY <3>1, CountedBan DEF EInv
    <3> QED BY <1>1, <2>3, <3>2 DEF BanLasts
  <2> QED BY <1>3, <2>2, <2>3, <2>4
<1>6. CASE Recovery \/ ScriptFlush
  <2>1. /\ db' \in {[db EXCEPT !.up = TRUE], [db EXCEPT !.script = FALSE]}
        /\ UNCHANGED clock
    BY <1>6 DEF Recovery, ScriptFlush
  <2>2. db'.block = db.block
    BY <1>1, <2>1 DEF DbType
  <2> QED BY <1>3, <2>1, <2>2
<1>7. \/ Tick \/ Outage \/ Recovery \/ ScriptFlush \/ UNCHANGED <<db, clock>>
      \/ \E w \in Worker : Execute(w)
  BY DEF Next, Arrive, RedisCheck, RedisRecord, Respond, Deliver, Lost,
         Reconnect, Connected, ConnectFailed, AddReadFails, ExitProcess
<1> QED BY <1>2, <1>3, <1>4, <1>5, <1>6, <1>7

-----------------------------------------------------------------------------
(***************************************************************************)
(* The answers that parked requests wait for.                              *)
(***************************************************************************)

\* A step after which the requests that are still parked wait for commands
\* that waited before, on connections no better than they were.
Carries ==
    /\ \A w \in Worker : \A i \in DOMAIN queue'[w] :
          queue'[w][i].req # NoRequest =>
              /\ \E j \in DOMAIN queue[w] : queue'[w][i] = queue[w][j]
              /\ worker[w].cut \/ (db.up /\ ~ db'.up) => worker'[w].cut
    /\ \A r \in Request :
          req[r].stage = "parked" /\ req'[r].stage = "parked" =>
              req'[r] = req[r] /\ asked'[r] = asked[r]

LEMMA OutageFacts == RInv /\ Outage => db.up /\ ~ db'.up
<1> SUFFICES ASSUME RInv, Outage PROVE db.up /\ ~ db'.up
  OBVIOUS
<1> DEFINE d == [up |-> FALSE, script |-> FALSE, events |-> [k \in Key |-> {}],
                 block |-> [k \in Key |-> NotBlocked]]
<1>1. db' \in {[db EXCEPT !.up = FALSE], d} /\ db.up
  BY DEF Outage
<1>2. [db EXCEPT !.up = FALSE].up = FALSE /\ d.up = FALSE
  BY DEF RInv, Types, DbType
<1> HIDE DEF d
<1> QED BY <1>1, <1>2

LEMMA AskingKept ==
    ASSUME SInv, SharedNext, Carries
    PROVE  Asking'
<1>1. EInv /\ EInv' /\ Next
  BY SharedStep, NextEInv DEF SInv
<1> SUFFICES ASSUME NEW w \in Worker, NEW i \in DOMAIN queue'[w], NEW c,
                    c = queue'[w][i], c.req # NoRequest
             PROVE  Asks(w, c)'
  BY DEF Asking, Asks
<1> DEFINE r == c.req
<1>2. PICK j \in DOMAIN queue[w] : c = queue[w][j]
  BY DEF Carries
<1>3. worker[w].cut \/ Outage => worker'[w].cut
  BY <1>1, OutageFacts DEF Carries, EInv
<1>4. /\ r \in Request /\ req[r].stage = "parked" /\ c.key \in Key
      /\ c.key = req[r].key
  BY <1>1, <1>2, CommandAt DEF EInv, SInv, Asking, Asks
<1>5. req'[r].stage = "parked"
  BY <1>1 DEF EInv, RInv, Parking, CalledBack
<1>6. req'[r] = req[r] /\ asked'[r] = asked[r]
  BY <1>4, <1>5 DEF Carries
<1>7. Asks(w, c)
  BY <1>2 DEF SInv, Asking
<1>8. /\ clock \in Nat /\ clock' \in Nat /\ clock' >= clock
      /\ \/ Outage
         \/ db'.block[c.key].ends >= db.block[c.key].ends
         \/ db.block[c.key].ends <= clock'
  BY <1>1, <1>4, BansLast DEF SInv
<1>9. asked[r] \in Nat /\ db.block[c.key].ends \in Nat
      /\ db'.block[c.key].ends \in Nat
  BY <1>1, <1>4 DEF SInv, Shapes, EInv, RInv, Types, DbType
<1>10. /\ c.reply = "NIL" => asked'[r] <= clock'
       /\ c.reply = "none" => \/ worker'[w].cut
                              \/ asked'[r] <= clock'
                              \/ asked'[r] <= db'.block[c.key].ends
  BY <1>3, <1>6, <1>7, <1>8, <1>9 DEF Asks
<1>11. c.op = "GET" /\ c.reply \in {"none", "STRING", "NIL", "ERROR"}
  BY <1>7 DEF Asks
<1> QED BY <1>4, <1>6, <1>10, <1>11 DEF Asks

\* The queues stay as they are.
LEMMA SameQueues ==
    ASSUME EInv, UNCHANGED queue,
           \A w \in Worker : queue[w] # <<>> =>
               (worker[w].cut \/ (db.up /\ ~ db'.up) => worker'[w].cut),
           \A r \in Request :
               req[r].stage = "parked" /\ req'[r].stage = "parked" =>
                   req'[r] = req[r] /\ asked'[r] = asked[r]
    PROVE  Carries
<1>1. ASSUME NEW w \in Worker, NEW i \in DOMAIN queue'[w]
      PROVE  /\ \E j \in DOMAIN queue[w] : queue'[w][i] = queue[w][j]
             /\ worker[w].cut \/ (db.up /\ ~ db'.up) => worker'[w].cut
  <2>1. i \in DOMAIN queue[w] /\ queue'[w][i] = queue[w][i]
    BY <1>1
  <2>2. queue[w] # <<>>
    BY <2>1
  <2> QED BY <2>1, <2>2
<1> QED BY <1>1 DEF Carries

\* redis_check declines, or finds the request pending.
LEMMA UncheckedCarries ==
    ASSUME SInv, NEW r \in Request, Preaccess(r),
           ~ (req[r].stage = "preaccess" /\ Park(r))
    PROVE  Carries
<1> DEFINE v == req[r].worker
           s == RecordFailure(worker[v], Seconds(clock))
<1>1. /\ UNCHANGED <<clock, db, queue>>
      /\ \/ req[r].stage = "parked" /\ UNCHANGED <<worker, req>>
         \/ /\ req[r].stage = "preaccess" /\ PassUnchecked(r)
            /\ worker' = worker \/ worker' = [worker EXCEPT ![v] = s]
  BY DEF Preaccess, RedisCheck, RefusedGet, NoKeys, Skip
<1>2. \A x \in Request :
          req[x].stage = "parked" => req'[x] = req[x] /\ asked'[x] = asked[x]
  <2>1. asked' = [asked EXCEPT ![r] =
                     IF req[r].stage = "preaccess" /\ req'[r].stage = "parked"
                     THEN db.block[req[r].key].ends ELSE @]
    BY DEF Preaccess
  <2> QED BY <1>1, <2>1 DEF PassUnchecked, SInv, EInv, RInv, Types, Shapes
<1>3. \A w \in Worker : worker[w].cut => worker'[w].cut
  <2>1. CASE worker' = worker
    BY <2>1
  <2>2. CASE /\ req[r].stage = "preaccess"
             /\ worker' = [worker EXCEPT ![v] = s]
    <3>1. v \in Worker /\ WorkerOK(worker[v])
      BY <2>2 DEF SInv, EInv, RInv, Types, RequestOK
    <3>2. s.cut = worker[v].cut
      BY <3>1, RecordFailureKeeps DEF Keeps
    <3> HIDE DEF s, v
    <3> QED BY <2>2, <3>1, <3>2 DEF SInv, EInv, RInv, Types
  <2> QED BY <1>1, <2>1, <2>2
<1> HIDE DEF s, v
<1> QED BY <1>1, <1>2, <1>3, SameQueues DEF SInv

\* The request is parked while Redis holds the ban that asked names.
LEMMA ParkAsking ==
    ASSUME SInv, SharedNext, NEW r \in Request, Preaccess(r),
           req[r].stage = "preaccess", Park(r)
    PROVE  Asking'
<1> DEFINE v == req[r].worker
           n == Len(queue[v])
           a == Command("GET", r, req[r].key, NoNonce)
           q == [req[r] EXCEPT !.stage = "parked"]
<1>1. /\ v \in Worker /\ req[r].key \in Key /\ queue[v] \in Seq(CommandType)
      /\ queue \in [Worker -> Seq(CommandType)]
      /\ req = [x \in Request |-> req[x]] /\ RequestOK(req[r])
      /\ asked \in [Request -> Nat]
      /\ db.block[req[r].key].ends \in Nat
  BY DEF SInv, Shapes, EInv, RInv, Types, RequestOK, DbType
<1>2. /\ queue' = [queue EXCEPT ![v] = Append(queue[v], a)]
      /\ req' = [req EXCEPT ![r] = q]
      /\ UNCHANGED <<worker, clock, db>>
  BY DEF Preaccess, RedisCheck, Park
<1>3. q.stage = "parked" /\ q.key = req[r].key
  BY <1>1 DEF RequestOK
<1> HIDE DEF q
<1>4. /\ req'[r] = q /\ \A x \in Request \ {r} : req'[x] = req[x]
  BY <1>1, <1>2
<1>5. /\ asked'[r] = db.block[req[r].key].ends
      /\ \A x \in Request \ {r} : asked'[x] = asked[x]
  <2>1. asked' = [asked EXCEPT ![r] =
                     IF req[r].stage = "preaccess" /\ req'[r].stage = "parked"
                     THEN db.block[req[r].key].ends ELSE @]
    BY DEF Preaccess
  <2> QED BY <1>1, <1>3, <1>4, <2>1
<1>6. /\ a.op = "GET" /\ a.req = r /\ a.key = req[r].key /\ a.reply = "none"
  BY DEF Command
<1> HIDE DEF a
<1>7. \A w \in Worker : \A i \in DOMAIN queue'[w] :
          \/ i \in DOMAIN queue[w] /\ queue'[w][i] = queue[w][i]
          \/ queue'[w][i] = a
  <2> SUFFICES ASSUME NEW w \in Worker, NEW i \in DOMAIN queue'[w]
               PROVE  \/ i \in DOMAIN queue[w] /\ queue'[w][i] = queue[w][i]
                      \/ queue'[w][i] = a
    OBVIOUS
  <2>1. CASE w = v
    <3>1. queue'[v] = Append(queue[v], a)
      BY <1>1, <1>2
    <3>2. /\ DOMAIN queue'[v] = 1 .. (n + 1) /\ DOMAIN queue[v] = 1 .. n
          /\ n \in Nat /\ queue'[v][n + 1] = a
          /\ \A j \in 1 .. n : queue'[v][j] = queue[v][j]
      BY <1>1, <3>1
    <3>3. i = n + 1 \/ i \in 1 .. n
      BY <2>1, <3>2
    <3> QED BY <2>1, <3>2, <3>3
  <2>2. CASE w # v
    BY <1>1, <1>2, <2>2
  <2> QED BY <2>1, <2>2
<1> SUFFICES ASSUME NEW w \in Worker, NEW i \in DOMAIN queue'[w], NEW c,
                    c = queue'[w][i], c.req # NoRequest
             PROVE  Asks(w, c)'
  BY DEF Asking, Asks
<1>8. CASE c = a
  <2>1. /\ c.op = "GET" /\ c.req = r /\ c.key = req[r].key
        /\ c.reply = "none"
    BY <1>6, <1>8
  <2>2. req'[r].key = req[r].key
    BY <1>3, <1>4
  <2>3. asked'[r] <= db'.block[c.key].ends
    BY <1>1, <1>2, <1>5, <2>1
  <2> QED BY <2>1, <2>2, <2>3 DEF Asks
<1>9. CASE i \in DOMAIN queue[w] /\ c = queue[w][i]
  <2>1. Asks(w, c)
    BY <1>9 DEF SInv, Asking
  <2>2. c.req \in Request /\ c.req # r
    BY <1>9, CommandAt DEF SInv, EInv
  <2>3. req'[c.req] = req[c.req] /\ asked'[c.req] = asked[c.req]
    BY <1>4, <1>5, <2>2
  <2> QED BY <1>2, <2>1, <2>3 DEF Asks
<1> QED BY <1>7, <1>8, <1>9

\* Redis takes a command, or a request arrives, or anything but an answer
\* happens to a connection.
LEMMA ElsewhereAsking ==
    ASSUME SInv, SharedNext, Elsewhere
    PROVE  Asking'
<1>1. /\ EInv /\ RInv /\ Types /\ UNCHANGED asked
  BY DEF SInv, EInv, RInv, Elsewhere
<1>2. CASE Recovery \/ ScriptFlush \/ Tick
  <2>1. ~ (db.up /\ ~ db'.up)
    BY <1>1, <1>2 DEF Recovery, ScriptFlush, Tick, Types, DbType
  <2>2. UNCHANGED <<worker, queue, req>>
    BY <1>2 DEF Recovery, ScriptFlush, Tick
  <2> QED BY <1>1, <2>1, <2>2, SameQueues, AskingKept
<1>3. CASE Outage
  <2>1. /\ worker' = [w \in Worker |->
                         [worker[w] EXCEPT !.cut = (worker[w].conn # "none")]]
        /\ UNCHANGED <<queue, req>>
    BY <1>3 DEF Outage
  <2>2. \A w \in Worker : queue[w] # <<>> => worker'[w].cut
    <3> SUFFICES ASSUME NEW w \in Worker, queue[w] # <<>>
                 PROVE  worker'[w].cut
      OBVIOUS
    <3>1. WorkerOK(worker[w]) /\ worker[w].conn # "none"
      BY <1>1 DEF RInv, Types, Connections
    <3>2. worker'[w] = [worker[w] EXCEPT !.cut = TRUE]
      BY <2>1, <3>1
    <3> QED BY <3>1, <3>2 DEF WorkerOK
  <2> QED BY <1>1, <2>1, <2>2, SameQueues, AskingKept
<1>4. CASE \E r \in Request, w \in Worker, k \in Key : Arrive(r, w, k)
  <2>1. PICK r \in Request, w \in Worker, k \in Key : Arrive(r, w, k)
    BY <1>4
  <2> DEFINE q == [FreeSlot EXCEPT !.stage = "preaccess", !.worker = w,
                                   !.key = k]
  <2>2. /\ req[r].stage = "free" /\ req' = [req EXCEPT ![r] = q]
        /\ UNCHANGED <<db, worker, queue>>
    BY <2>1 DEF Arrive
  <2> HIDE DEF q
  <2>3. \A x \in Request : req[x].stage = "parked" => req'[x] = req[x]
    BY <1>1, <2>2 DEF Types
  <2> QED BY <1>1, <2>2, <2>3, SameQueues, AskingKept
<1>5. CASE \E w \in Worker : Reconnect(w) \/ ConnectFailed(w)
  <2>1. PICK w \in Worker : Reconnect(w) \/ ConnectFailed(w)
    BY <1>5
  <2>2. /\ worker[w].conn \in {"none", "connecting"}
        /\ UNCHANGED <<db, queue, req>>
        /\ \E s : worker' = [worker EXCEPT ![w] = s]
    BY <1>1, <2>1 DEF Reconnect, ConnectFailed, RInv, Connections
  <2>3. queue[w] = <<>> /\ \A v \in Worker \ {w} : worker'[v] = worker[v]
    BY <1>1, <2>2 DEF RInv, Connections, Types
  <2> QED BY <1>1, <2>2, <2>3, SameQueues, AskingKept
<1>6. CASE \E w \in Worker : Connected(w)
  <2>1. PICK w \in Worker : Connected(w)
    BY <1>6
  <2> DEFINE hello == <<Command("HELLO", NoRequest, NoRequest, NoNonce),
                        Command("LOAD", NoRequest, NoRequest, NoNonce)>>
  <2>2. /\ worker[w].conn = "connecting" /\ UNCHANGED <<db, req>>
        /\ \E s : worker' = [worker EXCEPT ![w] = s]
        /\ queue' = queue \/ queue' = [queue EXCEPT ![w] = hello]
    BY <2>1 DEF Connected
  <2>3. /\ queue[w] = <<>> /\ \A v \in Worker \ {w} : worker'[v] = worker[v]
    BY <1>1, <2>2 DEF RInv, Connections, Types
  <2>4. \A i \in DOMAIN hello : hello[i].req = NoRequest
    BY DEF Command
  <2> HIDE DEF hello
  <2>5. CASE queue' = queue
    BY <1>1, <2>2, <2>3, <2>5, SameQueues, AskingKept
  <2>6. CASE queue' = [queue EXCEPT ![w] = hello]
    <3>1. queue'[w] = hello /\ \A v \in Worker \ {w} : queue'[v] = queue[v]
      BY <1>1, <2>6 DEF Types
    <3>2. Carries
      BY <1>1, <2>2, <2>3, <2>4, <3>1 DEF Carries
    <3> QED BY <3>2, AskingKept
  <2> QED BY <2>2, <2>5, <2>6
<1>7. CASE \E w \in Worker : Execute(w)
  <2>1. PICK w \in Worker : Execute(w)
    BY <1>7
  <2>2. PICK i \in DOMAIN queue[w] : \E a :
            /\ queue[w][i] \in CommandType /\ queue[w][i].reply = "none"
            /\ Takes(w, i, a)
            /\ db'.block = db.block \/ CountsError(queue[w][i])
    BY <1>1, <2>1, ExecuteFacts DEF EInv, Numbers
  <2>3. PICK a :
            /\ queue[w][i] \in CommandType /\ queue[w][i].reply = "none"
            /\ Takes(w, i, a)
            /\ db'.block = db.block \/ CountsError(queue[w][i])
    BY <2>2
  <2>4. /\ UNCHANGED <<clock, req>> /\ ~ worker[w].cut
        /\ \A v \in Worker : worker'[v].cut = worker[v].cut
    BY <1>1, <2>1, ExecuteFacts DEF EInv, Numbers
  <2>5. \A k \in Key : /\ db.block[k].ends \in Nat /\ db'.block[k].ends \in Nat
                       /\ db'.block[k].ends >= db.block[k].ends
    <3> DEFINE c == queue[w][i]
               m == [at |-> clock, nonce |-> c.nonce]
    <3>1. \A k \in Key : db.block[k].ends \in Nat
      BY <1>1 DEF Types, DbType
    <3>2. CASE CountsError(c)
      <4>1. c.key \in Key /\ db' = Counted(db, c.key, m)
        BY <2>3, <3>2 DEF CountsError, CommandType
      <4>2. \A k \in Key : db'.block[k].ends
                               \in {db.block[k].ends, clock + Block * Second}
        BY <1>1, <4>1, CountedBan
      <4>3. clock + Block * Second \in Nat
        <5>1. clock \in Nat
          BY <1>1 DEF Types
        <5> QED BY <5>1, BanEnds
      <4> QED BY <3>1, <4>2, <4>3 DEF SInv, BanLasts
    <3> QED BY <2>3, <3>1, <3>2
  <2>6. /\ queue' = [queue EXCEPT ![w] = [queue[w] EXCEPT ![i] = a]]
        /\ queue[w] \in Seq(CommandType)
    BY <1>1, <2>3 DEF Takes, Types
  <2>7. \A v \in Worker : \A j \in DOMAIN queue'[v] :
            /\ j \in DOMAIN queue[v]
            /\ \/ queue'[v][j] = queue[v][j]
               \/ v = w /\ j = i /\ queue'[v][j] = a
    BY <1>1, <2>6 DEF Types
  <2> SUFFICES ASSUME NEW v \in Worker, NEW j \in DOMAIN queue'[v], NEW c,
                      c = queue'[v][j], c.req # NoRequest
               PROVE  Asks(v, c)'
    BY DEF Asking, Asks
  <2>8. CASE c = queue[v][j]
    <3>1. Asks(v, c) /\ c.key \in Key /\ c.req \in Request
      BY <1>1, <2>7, <2>8, CommandAt DEF SInv, Asking, Asks
    <3>2. asked[c.req] \in Nat
      BY <3>1 DEF SInv, Shapes
    <3>3. db'.block[c.key].ends >= db.block[c.key].ends
      BY <2>5, <3>1
    <3>4. asked[c.req] <= db.block[c.key].ends
              => asked[c.req] <= db'.block[c.key].ends
      BY <2>5, <3>1, <3>2
    <3> QED BY <1>1, <2>4, <3>1, <3>4 DEF Asks
  <2>9. CASE v = w /\ j = i /\ c = a
    <3> DEFINE p == queue[w][i]
               r == p.req
    <3>1. /\ a.op = p.op /\ a.req = r /\ a.key = p.key /\ a.reply # "none"
          /\ a.op = "GET" => a.reply \in {"STRING", "NIL", "ERROR"}
          /\ a.op = "GET" /\ a.reply = "NIL" =>
                ~ (db.block[p.key].ends > clock)
      BY <2>3 DEF Takes
    <3>2. Asks(w, p) /\ p.key \in Key /\ r \in Request
      BY <1>1, <2>9, <3>1, CommandAt DEF SInv, Asking, Asks
    <3>3. /\ asked[r] \in Nat /\ clock \in Nat /\ db.block[p.key].ends \in Nat
      BY <1>1, <2>5, <3>2 DEF SInv, Shapes, Types
    <3>4. asked[r] <= clock \/ asked[r] <= db.block[p.key].ends
      BY <2>3, <2>4, <3>2 DEF Asks
    <3>5. a.reply = "NIL" => asked[r] <= clock
      BY <3>1, <3>2, <3>3, <3>4 DEF Asks
    <3>6. p.op = "GET" /\ p.key = req[r].key
      BY <3>2 DEF Asks
    <3> HIDE DEF p
    <3> QED BY <1>1, <2>4, <2>9, <3>1, <3>5, <3>6 DEF Asks
  <2> QED BY <2>7, <2>8, <2>9
<1> QED BY <1>2, <1>3, <1>4, <1>5, <1>6, <1>7 DEF Elsewhere

\* check_callback with an answer leaves the others waiting as they were.
LEMMA DeliverAsking ==
    ASSUME SInv, SharedNext, NEW w \in Worker, Deliver(w), UNCHANGED asked
    PROVE  Asking'
<1> DEFINE q == queue[w]
           a == Head(q)
           s == Callback(worker[w], a, Seconds(clock))
           more == Reload(s, a)
           rest == Tail(q) \o more
           t == Settled(s, rest)
<1>1. /\ q # <<>> /\ UNCHANGED db
      /\ queue' = [queue EXCEPT ![w] = rest]
      /\ worker' = [worker EXCEPT ![w] = t]
      /\ req' = [r \in Request |-> IF r = a.req THEN Resumed(req[r], a)
                                               ELSE req[r]]
  BY DEF Deliver
<1>2. /\ q \in Seq(CommandType) /\ 1 \in DOMAIN q /\ a = q[1]
      /\ WorkerOK(worker[w]) /\ Types
  <2>1. q \in Seq(CommandType) /\ WorkerOK(worker[w]) /\ Types
    BY DEF SInv, EInv, RInv, Types
  <2> QED BY <1>1, <2>1
<1>3. WorkerOK(s) /\ s.cut = worker[w].cut
  BY <1>2, CallbackFacts, CallbackKeeps DEF Keeps
<1> HIDE DEF s
<1>4. /\ more \in Seq(CommandType)
      /\ \A i \in DOMAIN more : more[i].req = NoRequest
  BY NoNonceType, NewCommand DEF Reload, Op
<1> HIDE DEF more
<1>5. /\ rest \in Seq(CommandType)
      /\ \A i \in DOMAIN rest : rest[i].req # NoRequest =>
            i + 1 \in DOMAIN q /\ rest[i] = q[i + 1]
  BY <1>1, <1>2, <1>4, RestFacts
<1>6. t.cut = worker[w].cut
  BY <1>3, SettledQuiet DEF Keeps
<1> HIDE DEF rest, t
<1>7. /\ queue'[w] = rest /\ worker'[w] = t
      /\ \A v \in Worker \ {w} :
            queue'[v] = queue[v] /\ worker'[v] = worker[v]
  BY <1>1, <1>2 DEF Types
<1>8. \A v \in Worker : \A i \in DOMAIN queue'[v] :
          queue'[v][i].req # NoRequest =>
              \E j \in DOMAIN queue[v] : queue'[v][i] = queue[v][j]
  BY <1>5, <1>7
<1>9. \A v \in Worker : worker[v].cut => worker'[v].cut
  BY <1>6, <1>7
<1>10. ASSUME NEW r \in Request, req'[r].stage = "parked"
       PROVE  req'[r] = req[r]
  <2>1. CASE r = a.req
    <3>1. RequestOK(req[r]) /\ req[r].stage = "parked"
      BY <1>2, <2>1, CommandAt, RedisParameters DEF SInv, EInv, Types
    <3>2. req'[r].stage # "parked"
      BY <1>1, <2>1, <3>1, ResumedFacts
    <3> QED BY <1>10, <3>2
  <2>2. CASE r # a.req
    BY <1>1, <2>2
  <2> QED BY <2>1, <2>2
<1>11. Carries
  BY <1>1, <1>8, <1>9, <1>10 DEF Carries
<1> QED BY <1>11, AskingKept

\* A connection is gone with all its commands.
LEMMA DroppedAsking ==
    ASSUME SInv, SharedNext, NEW w \in Worker, UNCHANGED db,
           queue' = [queue EXCEPT ![w] = <<>>],
           \E s : worker' = [worker EXCEPT ![w] = s],
           \A r \in Request :
               req[r].stage = "parked" /\ req'[r].stage = "parked" =>
                   req'[r] = req[r] /\ asked'[r] = asked[r]
    PROVE  Asking'
<1>1. /\ queue'[w] = <<>>
      /\ \A v \in Worker \ {w} :
            queue'[v] = queue[v] /\ worker'[v] = worker[v]
  BY DEF SInv, EInv, RInv, Types
<1>2. \A i : i \notin DOMAIN queue'[w]
  BY <1>1
<1>3. Carries
  BY <1>1, <1>2 DEF Carries
<1> QED BY <1>3, AskingKept

LEMMA LostAsking ==
    ASSUME SInv, SharedNext, NEW w \in Worker, Lost(w), UNCHANGED asked
    PROVE  Asking'
<1>1. /\ queue' = [queue EXCEPT ![w] = <<>>] /\ UNCHANGED db
      /\ \E s : worker' = [worker EXCEPT ![w] = s]
      /\ req' = [r \in Request |->
                    IF req[r].stage = "parked" /\ req[r].worker = w
                    THEN [req[r] EXCEPT !.stage = "passed"] ELSE req[r]]
  BY DEF Lost
<1>2. ASSUME NEW r \in Request, req'[r].stage = "parked"
      PROVE  req'[r] = req[r]
  <2>1. RequestOK(req[r])
    BY DEF SInv, EInv, RInv, Types
  <2>2. [req[r] EXCEPT !.stage = "passed"].stage = "passed"
    BY <2>1 DEF RequestOK
  <2> QED BY <1>1, <1>2, <2>2
<1> QED BY <1>1, <1>2, DroppedAsking

LEMMA ExitAsking ==
    ASSUME SInv, SharedNext, NEW w \in Worker, Exit(w)
    PROVE  Asking'
<1>1. /\ queue' = [queue EXCEPT ![w] = <<>>] /\ UNCHANGED db
      /\ \E s : worker' = [worker EXCEPT ![w] = s]
      /\ req' = [r \in Request |-> IF req[r].worker = w THEN FreeSlot
                                                        ELSE req[r]]
      /\ asked' = [r \in Request |-> IF req[r].worker = w THEN 0 ELSE asked[r]]
  BY DEF Exit, ExitProcess
<1>2. \A r \in Request : req'[r].stage = "parked" =>
          req'[r] = req[r] /\ asked'[r] = asked[r]
  BY <1>1 DEF FreeSlot
<1> QED BY <1>1, <1>2, DroppedAsking

\* A response ends a request that did not wait.
LEMMA RespondAsking ==
    ASSUME SInv, SharedNext, NEW r \in Request, PassResponse(r)
    PROVE  Asking'
<1>1. /\ req[r].stage # "parked" /\ req' = [req EXCEPT ![r] = FreeSlot]
      /\ UNCHANGED <<db, worker, queue>> /\ asked' = [asked EXCEPT ![r] = 0]
  BY DEF PassResponse, Respond, Closed
<1>2. \A x \in Request :
          req[x].stage = "parked" => req'[x] = req[x] /\ asked'[x] = asked[x]
  BY <1>1 DEF SInv, Shapes, EInv, RInv, Types
<1> QED BY <1>1, <1>2, SameQueues, AskingKept DEF SInv

LEMMA RecordAsking ==
    ASSUME SInv, SharedNext, NEW r \in Request, CountResponse(r)
    PROVE  Asking'
<1> DEFINE w == req[r].worker
           n == worker[w].sequence + 1
           a == Command("EVAL", NoRequest, req[r].key, Nonce(w, n))
           s == [worker[w] EXCEPT !.sequence = n]
<1>1. /\ req[r].stage = "passed" /\ req' = [req EXCEPT ![r] = FreeSlot]
      /\ UNCHANGED db /\ asked' = [asked EXCEPT ![r] = 0]
      /\ \/ UNCHANGED <<worker, queue>>
         \/ /\ worker' = [worker EXCEPT ![w] = s]
            /\ \/ UNCHANGED queue
               \/ queue' = [queue EXCEPT ![w] = Append(@, a)]
  BY DEF CountResponse, RedisRecord, Closed
<1>2. w \in Worker /\ req[r].key \in Key /\ WorkerOK(worker[w]) /\ RInv
  BY <1>1 DEF SInv, EInv, RInv, Types, RequestOK
<1>3. s.cut = worker[w].cut /\ n \in Nat
  BY <1>2 DEF WorkerOK
<1>4. a \in CommandType /\ a.req = NoRequest
  <2>1. Nonce(w, n) \in NonceType
    BY <1>2, <1>3 DEF Nonce, NonceType
  <2> QED BY <1>2, <2>1, NewCommand DEF Op
<1> HIDE DEF a, s, n
<1>5. \A v \in Worker : \A i \in DOMAIN queue'[v] :
          \/ i \in DOMAIN queue[v] /\ queue'[v][i] = queue[v][i]
          \/ queue'[v][i].req = NoRequest
  <2>1. CASE UNCHANGED queue
    BY <2>1
  <2>2. CASE queue' = [queue EXCEPT ![w] = Append(@, a)]
    BY <1>2, <1>4, <2>2, AppendedFacts
  <2> QED BY <1>1, <2>1, <2>2
<1>6. \A v \in Worker : worker[v].cut => worker'[v].cut
  BY <1>1, <1>2, <1>3 DEF RInv, Types
<1>7. \A x \in Request :
          req[x].stage = "parked" => req'[x] = req[x] /\ asked'[x] = asked[x]
  BY <1>1, <1>2 DEF SInv, Shapes, RInv, Types
<1>8. Carries
  BY <1>1, <1>5, <1>6, <1>7 DEF Carries
<1> QED BY <1>8, AskingKept

-----------------------------------------------------------------------------
(***************************************************************************)
(* The invariant, and the theorems.                                        *)
(***************************************************************************)

LEMMA InitSInv == SharedInit => SInv
<1> SUFFICES ASSUME SharedInit PROVE SInv
  OBVIOUS
<1>1. Init
  BY DEF SharedInit
<1>2. EInv
  BY <1>1, InitEInv
<1>3. Shapes
  BY DEF SharedInit, Shapes
<1>4. BanLasts
  <2>1. clock \in Nat
    BY <1>2 DEF EInv, RInv, Types
  <2>2. \A k \in Key : db.block[k].ends = 0
    BY <1>1 DEF Init, NotBlocked
  <2> QED BY <2>1, <2>2, BanEnds DEF BanLasts
<1>5. Asking
  BY <1>1 DEF Init, Asking
<1> QED BY <1>2, <1>3, <1>4, <1>5 DEF SInv

LEMMA ShapesKept == SInv /\ SharedNext => Shapes'
<1> SUFFICES ASSUME SInv, SharedNext PROVE Shapes'
  OBVIOUS
<1>1. /\ zone = [h \in Host |-> zone[h]]
      /\ verdict = [r \in Request |-> verdict[r]]
      /\ asked \in [Request -> Nat]
  BY DEF SInv, Shapes
<1>2. CASE \E r \in Request : Preaccess(r)
  <2>1. PICK r \in Request : Preaccess(r)
    BY <1>2
  <2>2. req[r].stage = "preaccess" => db.block[req[r].key].ends \in Nat
    BY DEF SInv, EInv, RInv, Types, RequestOK, DbType
  <2> QED BY <1>1, <2>1, <2>2 DEF Preaccess, LookUp, Shapes
<1>3. CASE \E w \in Worker : Resume(w)
  BY <1>1, <1>3 DEF Resume, LookUp, Shapes
<1>4. CASE \E r \in Request : CountResponse(r) \/ PassResponse(r)
  BY <1>1, <1>4 DEF CountResponse, PassResponse, Closed, Shapes
<1>5. CASE \E w \in Worker : Exit(w)
  BY <1>1, <1>5 DEF Exit, Shapes
<1>6. CASE Elsewhere
  BY <1>1, <1>6 DEF Elsewhere, Shapes
<1> QED BY <1>2, <1>3, <1>4, <1>5, <1>6 DEF SharedNext

LEMMA NextSInv == SInv /\ [SharedNext]_sharedVars => SInv'
<1>1. ASSUME SInv, SharedNext PROVE SInv'
  <2>1. EInv' /\ BanLasts'
    BY <1>1, SharedStep, NextEInv, BansLast DEF SInv
  <2>2. Shapes'
    BY <1>1, ShapesKept
  <2>3. Asking'
    <3>1. CASE \E r \in Request : Preaccess(r)
      BY <1>1, <3>1, ParkAsking, UncheckedCarries, AskingKept
    <3>2. CASE \E w \in Worker : Resume(w)
      BY <1>1, <3>2, DeliverAsking, LostAsking DEF Resume
    <3>3. CASE \E r \in Request : CountResponse(r) \/ PassResponse(r)
      BY <1>1, <3>3, RecordAsking, RespondAsking
    <3>4. CASE \E w \in Worker : Exit(w)
      BY <1>1, <3>4, ExitAsking
    <3>5. CASE Elsewhere
      BY <1>1, <3>5, ElsewhereAsking
    <3> QED BY <1>1, <3>1, <3>2, <3>3, <3>4, <3>5 DEF SharedNext
  <2> QED BY <2>1, <2>2, <2>3 DEF SInv
<1>2. ASSUME SInv, UNCHANGED sharedVars PROVE SInv'
  <2>1. EInv'
    BY <1>2, NextEInv DEF SInv, sharedVars
  <2> QED BY <1>2, <2>1
          DEF SInv, sharedVars, vars, Shapes, BanLasts, Asking, Asks
<1> QED BY <1>1, <1>2

LEMMA SpecSInv == SharedSpec => []SInv
BY InitSInv, NextSInv, PTL DEF SharedSpec

\* A request that passes has looked into the zone of its worker's host after
\* every other that passed in the step; and it has not been parked, or Redis
\* has answered, or the connection is lost.
LEMMA LetThroughFacts ==
    ASSUME SInv, SharedNext, NEW r \in Request, LetThrough(r)
    PROVE  LET w == req[r].worker
               h == HostOf[w]
           IN  /\ w \in Worker /\ h \in Host
               /\ ~ Stopped(zone'[h], req[r].key)
               /\ Passes(r)
               /\ req[r].stage = "parked" =>
                     \/ Lost(w)
                     \/ Deliver(w) /\ Head(queue[w]).req = r
<1>1. /\ zone = [h \in Host |-> zone[h]]
      /\ verdict = [x \in Request |-> verdict[x]]
      /\ RInv /\ RequestOK(req[r])
  BY DEF SInv, Shapes, EInv, RInv, Types
<1>2. verdict'[r] \notin {verdict[r], "none"}
  BY DEF LetThrough
<1>3. ASSUME NEW w \in Worker, NEW rs, LookUp(w, rs), req[r].worker = w
      PROVE  /\ HostOf[w] \in Host /\ Passes(r)
             /\ ~ Stopped(zone'[HostOf[w]], req[r].key)
  <2> DEFINE z == LookedUp(w, rs)
  <2>1. /\ zone' = [zone EXCEPT ![HostOf[w]] = z]
        /\ verdict'[r] = IF Passes(r) THEN Judged(z, r) ELSE verdict[r]
    BY <1>3 DEF LookUp
  <2> HIDE DEF z
  <2>2. HostOf[w] \in Host
    BY SharedParameters
  <2>3. zone'[HostOf[w]] = z
    BY <1>1, <2>1, <2>2
  <2>4. Passes(r) /\ Judged(z, r) = "passed"
    BY <1>2, <2>1 DEF LetThrough
  <2>5. ~ Stopped(z, req[r].key)
    BY <2>4 DEF Judged
  <2> QED BY <2>2, <2>3, <2>4, <2>5
<1>4. ASSUME NEW w \in Worker, NEW rs, LookUp(w, rs) PROVE Passes(r)
  BY <1>2, <1>4 DEF LookUp
<1>5. CASE \E x \in Request : Preaccess(x)
  <2>1. PICK x \in Request : Preaccess(x)
    BY <1>5
  <2>2. req[x].stage \in {"preaccess", "parked"} /\ RequestOK(req[x])
    BY <1>1, <2>1 DEF Preaccess, RedisCheck, RInv, Types
  <2>3. req[x].worker \in Worker /\ LookUp(req[x].worker, <<x>>)
    BY <2>1, <2>2 DEF Preaccess, RequestOK
  <2>4. Passes(r)
    BY <1>4, <2>3
  <2>5. r = x /\ req[x].stage = "preaccess"
    BY <1>1, <2>1, <2>4
       DEF Passes, Preaccess, RedisCheck, Park, RefusedGet, NoKeys, Skip,
           PassUnchecked, RInv, Types
  <2> QED BY <1>3, <2>3, <2>5
<1>6. CASE \E w \in Worker : Resume(w)
  <2>1. PICK w \in Worker : Resume(w)
    BY <1>6
  <2>2. LookUp(w, Waiting(w)) /\ (Deliver(w) \/ Lost(w))
    BY <2>1 DEF Resume
  <2>3. Passes(r)
    BY <1>4, <2>2
  <2>4. CASE Lost(w)
    <3>1. req[r].worker = w
      BY <2>3, <2>4 DEF Lost, Passes
    <3> QED BY <1>3, <2>2, <2>4, <3>1
  <2>5. CASE Deliver(w)
    <3>1. r = Head(queue[w]).req /\ queue[w] # <<>>
      BY <2>3, <2>5 DEF Deliver, Passes
    <3>2. 1 \in DOMAIN queue[w] /\ Head(queue[w]) = queue[w][1]
      BY <1>1, <3>1 DEF RInv, Types
    <3>3. req[r].worker = w
      BY <1>1, <3>1, <3>2, CommandAt, RedisParameters
    <3> QED BY <1>3, <2>2, <2>5, <3>1, <3>3
  <2> QED BY <2>2, <2>4, <2>5
<1>7. CASE \/ Elsewhere
           \/ \E x \in Request : CountResponse(x) \/ PassResponse(x)
           \/ \E w \in Worker : Exit(w)
  <2>1. verdict'[r] \in {verdict[r], "none"}
    BY <1>1, <1>7 DEF Elsewhere, CountResponse, PassResponse, Closed, Exit
  <2> QED BY <1>2, <2>1
<1> QED BY <1>5, <1>6, <1>7 DEF SharedNext

\* preaccess: whatever Redis answered or failed to answer, and however long
\* the request was parked, a request that passes has no running ban in the
\* zone of its host.
THEOREM LocalBansStop == SharedSpec => LocalBanAlwaysStops
<1>1. ASSUME SInv, SharedNext, NEW r \in Request, LetThrough(r)
      PROVE  ~ Local!Banned(Local!NodeOf(zone'[HostOfRequest(r)], req[r].key),
                            Seconds(clock))
  BY <1>1, LetThroughFacts DEF HostOfRequest, Stopped
<1>2. SInv /\ [SharedNext]_sharedVars =>
        [\A r \in Request :
            LetThrough(r) =>
                ~ Local!Banned(
                    Local!NodeOf(zone'[HostOfRequest(r)], req[r].key),
                    Seconds(clock))]_sharedVars
  BY <1>1
<1> QED BY <1>2, SpecSInv, PTL DEF SharedSpec, LocalBanAlwaysStops

\* The GET of a parked request is answered with NIL, which says that the ban
\* is over, or it has failed; and then the failure is counted.
LEMMA BanReaches ==
    ASSUME SInv, SharedNext, NEW r \in Request, LetThrough(r),
           req[r].stage = "parked", bad'[req[r].worker] = 0
    PROVE  asked[r] <= clock
<1> DEFINE w == req[r].worker
<1>1. /\ w \in Worker /\ Passes(r) /\ RInv /\ EInv
      /\ \/ Lost(w)
         \/ Deliver(w) /\ Head(queue[w]).req = r
  <2>1. RInv /\ EInv
    BY DEF SInv, EInv
  <2> QED BY <2>1, LetThroughFacts
<1>2. r # NoRequest /\ bad[w] \in 0 .. BreakerThreshold
      /\ bad = [v \in Worker |-> bad[v]] /\ RequestOK(req[r])
      /\ queue[w] \in Seq(CommandType)
  BY <1>1, RedisParameters
     DEF EInv, BreakerInv, CountsFailures, RInv, Types
<1>3. CASE Lost(w)
  <2>1. PICK i \in DOMAIN queue[w] : queue[w][i].req = r
    BY <1>1 DEF RInv, Parking, NotForgotten
  <2>2. queue[w][i].op = "GET"
    BY <1>1, <1>2, <2>1 DEF SInv, Asking, Asks
  <2>3. bad' = [bad EXCEPT ![w] = AfterAll(w).bad]
    BY <1>3 DEF Lost
  <2>4. AfterAll(w).bad >= 1
    BY <1>1, <2>2, AfterAllCounts DEF EInv
  <2> QED BY <1>1, <1>2, <2>3, <2>4
<1>4. CASE Deliver(w) /\ Head(queue[w]).req = r
  <2> DEFINE c == Head(queue[w])
  <2>1. /\ queue[w] # <<>> /\ c.reply # "none"
        /\ bad' = [bad EXCEPT ![w] = BadAfter(bad[w], c)]
        /\ req'[r] = Resumed(req[r], c)
    BY <1>4 DEF Deliver
  <2>2. 1 \in DOMAIN queue[w] /\ c = queue[w][1]
    BY <1>2, <2>1
  <2>3. Asks(w, c) /\ c.req = r
    BY <1>1, <1>2, <1>4, <2>2 DEF SInv, Asking
  <2> HIDE DEF c
  <2>4. c.reply # "STRING"
    <3> SUFFICES ASSUME c.reply = "STRING" PROVE FALSE
      OBVIOUS
    <3> DEFINE u == Min({c.value, TimeAddSaturate(Seconds(clock), Block)})
               q == [req[r] EXCEPT !.stage = "rejected", !.until = u]
    <3>1. req'[r] = q
      BY <2>1 DEF Resumed
    <3> HIDE DEF u
    <3>2. q.stage = "rejected"
      BY <1>2 DEF RequestOK
    <3> QED BY <1>1, <3>1, <3>2 DEF Passes
  <2>5. c.reply # "ERROR"
    <3> SUFFICES ASSUME c.reply = "ERROR" PROVE FALSE
      OBVIOUS
    <3>1. BadAfter(bad[w], c) = Min({bad[w] + 1, BreakerThreshold})
      BY <2>3 DEF BadAfter, Asks
    <3>2. BadAfter(bad[w], c) >= 1
      <4>1. bad[w] + 1 \in Nat \ {0} /\ BreakerThreshold \in Nat \ {0}
        BY <1>2, BreakerNumbers
      <4>2. Min({bad[w] + 1, BreakerThreshold})
                \in {bad[w] + 1, BreakerThreshold}
        BY <4>1, MinTwo
      <4> QED BY <3>1, <4>1, <4>2
    <3> QED BY <1>1, <1>2, <2>1, <3>2
  <2> QED BY <2>1, <2>3, <2>4, <2>5 DEF Asks
<1> QED BY <1>1, <1>3, <1>4

\* check_callback, redis_check: a request that was parked while Redis held a
\* ban of its client, started by the errors of any host, passes only when
\* that ban is over, or after a failure.
THEOREM BansReachEveryHost == SharedSpec => BanReachesEveryHost
<1>1. SInv /\ [SharedNext]_sharedVars =>
        [\A r \in Request :
            /\ LetThrough(r)
            /\ req[r].stage = "parked"
            /\ bad'[req[r].worker] = 0
            => asked[r] <= clock]_sharedVars
  BY BanReaches
<1> QED BY <1>1, SpecSInv, PTL DEF SharedSpec, BanReachesEveryHost

=============================================================================
