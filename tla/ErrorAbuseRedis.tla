-------------------------- MODULE ErrorAbuseRedis --------------------------
(***************************************************************************)
(* Workers that share bans through Redis.  Each worker has one connection, *)
(* on which hiredis answers commands in the order they were queued, a      *)
(* timer that reconnects with a growing delay, and a circuit breaker.  A   *)
(* request waits, parked, for the answer to its GET; errors are counted by *)
(* a script, and nobody waits for its answer.                              *)
(*                                                                         *)
(* Redis and hiredis are not part of the repository: they are modelled     *)
(* from how the module uses them.  What the local zone decides is left to  *)
(* ErrorAbuseRequest; here a request that Redis does not stop passes.      *)
(* Redis keeps time in ticks, the workers in seconds.                      *)
(***************************************************************************)
EXTENDS ErrorAbuseTime, SequencesExt

CONSTANTS
    Key, Worker, Request,
    NoRequest,         \* a command no request waits for
    Threshold, Interval, Block, Inactive,  \* of the zone, in seconds
    Second,            \* ticks of the Redis clock in a second
    BreakerThreshold,  \* ..._REDIS_CIRCUIT_BREAKER_THRESHOLD (5)
    BreakerDuration,   \* ..._REDIS_CIRCUIT_BREAKER_DURATION (30)
    BackoffMax,        \* ..._REDIS_RECONNECT_MAX over ..._REDIS_RECONNECT (30)
    LateRefusal,       \* a connection may fail after redisAsyncConnect returned
    QueueMayFail,      \* memory for a command may be lacking
    AuthMayFail,       \* Redis may refuse AUTH or SELECT
    EventMayFail,      \* the event loop may refuse to watch a connection
    MaxOutages, MaxFlushes, MaxErrors, MaxTime  \* bounds

ASSUME RedisParameters ==
    /\ {Threshold, Interval, Block, Second, BreakerThreshold,
        BreakerDuration, BackoffMax} \subseteq Nat \ {0}
    /\ Inactive \in Nat /\ Inactive >= Interval
    /\ {LateRefusal, QueueMayFail, AuthMayFail, EventMayFail} \subseteq BOOLEAN
    /\ NoRequest \notin Request
    /\ {MaxOutages, MaxFlushes, MaxErrors, MaxTime} \subseteq Nat

\* The workers' clock, which starts with second 1, is far from the last time.
ASSUME RedisClock ==
    /\ Second <= MaxTime
    /\ \A t \in 0 .. MaxTime : t \div Second < TimeMax

VARIABLES
    clock,   \* in ticks
    db,      \* the Redis server
    worker,  \* worker[w]: ngx_http_error_abuse_redis_worker of process w
    queue,   \* queue[w]: the commands hiredis still has to answer, in order
    req,     \* req[r]: a slot for a request and its ctx
    errs,    \* history: errs[k], when errors were counted since the last ban
    bad,     \* history: bad[w], failures since the last good answer
    faults   \* history: outages and flushes so far

vars == <<clock, db, worker, queue, req, errs, bad, faults>>

Seconds(t) == t \div Second

NotBlocked == [deadline |-> 0, ends |-> 0]

\* A worker right after init_process has zeroed it.  conn is the state of its
\* context: none (NULL), connecting, open, closing (redisAsyncDisconnect was
\* called) or stale (hiredis has freed it, the pointer is still there).  The
\* last two fields are what the connection met at the other end: Redis denied
\* the login, or is gone or no longer heard.
NewWorker ==
    [conn |-> "none", ready |-> FALSE, timer |-> FALSE, backoff |-> 0,
     failures |-> 0, breaker |-> 0, sequence |-> 0, exiting |-> FALSE,
     denied |-> FALSE, cut |-> FALSE]

FreeSlot == [stage |-> "free", worker |-> NoRequest, key |-> NoRequest,
             until |-> 0]

NoNonce == <<NoRequest, 0>>

Command(op, r, k, n) ==
    [op |-> op, req |-> r, key |-> k, nonce |-> n, reply |-> "none",
     value |-> 0]

-----------------------------------------------------------------------------
(***************************************************************************)
(* The worker.                                                             *)
(***************************************************************************)

\* redis_available.  (A context that is not NULL, and ready, is connected.)
Available(s, now) == s.breaker <= now /\ s.ready /\ s.conn = "open"

\* redis_record_failure
RecordFailure(s, now) ==
    IF s.failures + 1 >= BreakerThreshold
    THEN [s EXCEPT !.breaker = TimeAddSaturate(now, BreakerDuration),
                   !.failures = 0]
    ELSE [s EXCEPT !.failures = @ + 1]

\* arm_reconnect: the timer is set once, and the next delay is twice as long.
ArmReconnect(s) ==
    LET base == IF s.backoff = 0 THEN 1 ELSE s.backoff
    IN  IF s.exiting \/ s.timer THEN s
        ELSE [s EXCEPT !.timer = TRUE,
                       !.backoff = Min({2 * base, BackoffMax})]

\* The disconnect callback that leaves the reconnection to somebody else.
MutDisconnected(s) == [s EXCEPT !.conn = "none", !.ready = FALSE]

\* disconnect_callback
Disconnected(s) ==
    ArmReconnect([s EXCEPT !.conn = "none", !.ready = FALSE])

\* The handshake failure that reconnects without waiting for the disconnect.
MutHandshakeFailed(s) ==
    ArmReconnect([s EXCEPT !.ready = FALSE, !.conn = "closing"])

\* handshake_callback on an error: redisAsyncDisconnect closes the connection
\* when the commands before it have been answered.
HandshakeFailed(s) == [s EXCEPT !.ready = FALSE, !.conn = "closing"]

\* The good answer that does not clear the failures.
MutGoodAnswer(s) == s

\* What both callbacks do on a good answer.
GoodAnswer(s) == [s EXCEPT !.failures = 0]

\* The worker after the callback of command c has seen its answer.
Callback(s, c, now) ==
    CASE c.op \in {"HELLO", "LOAD"} /\ c.reply = "ERROR" -> HandshakeFailed(s)
      [] c.op \in {"GET", "EVAL"} /\ c.reply \in {"STRING", "NIL", "ARRAY"}
            -> GoodAnswer(s)
      [] c.op \in {"GET", "EVAL"} /\ c.reply \in {"ERROR", "NULL"}
            -> RecordFailure(s, now)
      [] OTHER -> s  \* a good handshake, NOSCRIPT, a handshake cut off

\* hiredis closes a connection once nothing is left to answer on it.
Settled(s, commands) ==
    IF s.conn = "closing" /\ commands = <<>> THEN Disconnected(s) ELSE s

\* Failures in a row, as the callback of c would count them (history).
BadAfter(n, c) ==
    IF c.op \notin {"GET", "EVAL"} \/ c.reply = "NOSCRIPT" THEN n
    ELSE IF c.reply \in {"ERROR", "NULL"} THEN Min({n + 1, BreakerThreshold})
    ELSE 0

\* init_process has called redis_connect: the connection is under way, or it
\* has failed at once and the reconnect timer is armed.
Init ==
    /\ clock = Second
    /\ db = [up |-> TRUE, script |-> FALSE, events |-> [k \in Key |-> {}],
             block |-> [k \in Key |-> NotBlocked]]
    /\ worker \in [Worker -> {[NewWorker EXCEPT !.conn = "connecting"],
                             ArmReconnect(NewWorker)}]
    /\ queue = [w \in Worker |-> <<>>]
    /\ req = [r \in Request |-> FreeSlot]
    /\ errs = [k \in Key |-> <<>>]
    /\ bad = [w \in Worker |-> 0]
    /\ faults = [outage |-> 0, flush |-> 0]

-----------------------------------------------------------------------------
(***************************************************************************)
(* Requests.                                                               *)
(***************************************************************************)

Arrive(r, w, k) ==
    /\ req[r].stage = "free"
    /\ ~ worker[w].exiting
    /\ req' = [req EXCEPT ![r] = [FreeSlot EXCEPT !.stage = "preaccess",
                                                  !.worker = w, !.key = k]]
    /\ UNCHANGED <<clock, db, worker, queue, errs, bad, faults>>

\* redis_check declines: the request goes on with the local zone alone.
PassUnchecked(r) == req' = [req EXCEPT ![r].stage = "passed"]

\* The GET is queued, and the request is parked.
Park(r) ==
    LET w == req[r].worker
    IN  /\ queue' = [queue EXCEPT ![w] =
                        Append(@, Command("GET", r, req[r].key, NoNonce))]
        /\ req' = [req EXCEPT ![r].stage = "parked"]
        /\ UNCHANGED <<worker, bad>>

\* hiredis does not take the GET, which counts as a failure.
RefusedGet(r) ==
    LET w == req[r].worker
    IN  /\ QueueMayFail
        /\ worker' = [worker EXCEPT ![w] = RecordFailure(@, Seconds(clock))]
        /\ bad' = [bad EXCEPT ![w] = Min({@ + 1, BreakerThreshold})]
        /\ PassUnchecked(r)
        /\ UNCHANGED queue

\* There is no memory for the keys, which does not.
NoKeys(r) ==
    /\ QueueMayFail
    /\ PassUnchecked(r)
    /\ UNCHANGED <<worker, queue, bad>>

Skip(r) == PassUnchecked(r) /\ UNCHANGED <<worker, queue, bad>>

\* The check that does not know that the request already waits.
MutRedisCheck(r) ==
    /\ req[r].stage \in {"preaccess", "parked"}
    /\ Available(worker[req[r].worker], Seconds(clock))
    /\ Len(queue[req[r].worker]) < 3
    /\ Park(r)
    /\ UNCHANGED <<clock, db, errs, faults>>

\* redis_check, from the preaccess handler.  An event on a parked request
\* runs the handler again, which finds the request pending.
RedisCheck(r) ==
    /\ \/ /\ req[r].stage = "parked"
          /\ UNCHANGED <<worker, queue, req, bad>>
       \/ /\ req[r].stage = "preaccess"
          /\ IF Available(worker[req[r].worker], Seconds(clock))
             THEN Park(r) \/ RefusedGet(r) \/ NoKeys(r)
             ELSE Skip(r)
    /\ UNCHANGED <<clock, db, errs, faults>>

\* The member of the sorted set, but for the time: the worker's random nonce,
\* here its identity, and a number that grows with each error.
MutNonce(w, n) == <<NoRequest, n>>

Nonce(w, n) == <<w, n>>

\* redis_record: the response is an error that counts.  The sequence number
\* is used up also when the command cannot be queued.
RedisRecord(r) ==
    LET w == req[r].worker
        n == worker[w].sequence + 1
        c == Command("EVAL", NoRequest, req[r].key, Nonce(w, n))
    IN  /\ req[r].stage = "passed"
        /\ req' = [req EXCEPT ![r] = FreeSlot]
        /\ IF Available(worker[w], Seconds(clock))
           THEN /\ n <= MaxErrors
                /\ worker' = [worker EXCEPT ![w].sequence = n]
                /\ \/ queue' = [queue EXCEPT ![w] = Append(@, c)]
                   \/ QueueMayFail /\ UNCHANGED queue
           ELSE UNCHANGED <<worker, queue>>
        /\ UNCHANGED <<clock, db, errs, bad, faults>>

\* A response that does not count, and the module's own rejection.
Respond(r) ==
    /\ req[r].stage \in {"passed", "rejected"}
    /\ req' = [req EXCEPT ![r] = FreeSlot]
    /\ UNCHANGED <<clock, db, worker, queue, errs, bad, faults>>

-----------------------------------------------------------------------------
(***************************************************************************)
(* Redis.                                                                  *)
(***************************************************************************)

\* The script that forgets nothing.
MutCounted(d, k, member) ==
    LET now  == d.events[k] \cup {member}
        ends == clock + Block * Second
    IN  IF Cardinality(now) >= Threshold
        THEN [d EXCEPT !.events[k] = {},
                       !.block[k] = [deadline |-> Seconds(ends), ends |-> ends]]
        ELSE [d EXCEPT !.events[k] = now]

\* The record script: forget what left the window, add this error, and start
\* a ban with the error that fills the window.
Counted(d, k, member) ==
    LET kept == {e \in d.events[k] : e.at > clock - Interval * Second}
        now  == kept \cup {member}
        ends == clock + Block * Second
    IN  IF Cardinality(now) >= Threshold
        THEN [d EXCEPT !.events[k] = {},
                       !.block[k] = [deadline |-> Seconds(ends), ends |-> ends]]
        ELSE [d EXCEPT !.events[k] = now]

\* Redis takes the first command it has not answered yet.
Execute(w) ==
    LET i == 1 + Cardinality({j \in DOMAIN queue[w] :
                                 queue[w][j].reply # "none"})
        c == queue[w][i]
        answer(reply) ==
            queue' = [queue EXCEPT ![w][i] =
                [@ EXCEPT !.reply = reply,
                          !.value = IF reply = "STRING"
                                    THEN db.block[c.key].deadline ELSE 0]]
        member == [at |-> clock, nonce |-> c.nonce]
    IN  /\ db.up
        /\ ~ worker[w].cut
        /\ i \in DOMAIN queue[w]
        /\ \/ /\ c.op = "HELLO"
              /\ \/ answer("OK") /\ UNCHANGED worker
                 \/ /\ AuthMayFail
                    /\ answer("ERROR")
                    /\ worker' = [worker EXCEPT ![w].denied = TRUE]
              /\ UNCHANGED <<db, errs>>
           \/ /\ c.op = "LOAD"
              /\ answer(IF worker[w].denied THEN "ERROR" ELSE "OK")
              /\ db' = [db EXCEPT !.script = @ \/ ~ worker[w].denied]
              /\ UNCHANGED <<worker, errs>>
           \/ /\ c.op = "GET"
              /\ answer(IF worker[w].denied THEN "ERROR"
                        ELSE IF db.block[c.key].ends > clock THEN "STRING"
                        ELSE "NIL")
              /\ UNCHANGED <<db, worker, errs>>
           \/ /\ c.op = "EVAL"
              /\ LET ran == db.script /\ ~ worker[w].denied
                     d   == Counted(db, c.key, member)
                 IN  /\ answer(CASE ran -> "ARRAY"
                                 [] worker[w].denied -> "ERROR"
                                 [] OTHER -> "NOSCRIPT")
                     /\ db' = IF ran THEN d ELSE db
                     /\ errs' = [errs EXCEPT ![c.key] =
                           IF ~ ran THEN @
                           ELSE IF d.events[c.key] = {} THEN <<>>
                           ELSE Append(@, clock)]
              /\ UNCHANGED worker
        /\ UNCHANGED <<clock, req, bad, faults>>

\* The answer NOSCRIPT makes the worker load the script again.
Reload(s, c) ==
    IF c.reply = "NOSCRIPT" /\ s.conn = "open"
    THEN <<Command("LOAD", NoRequest, NoRequest, NoNonce)>> ELSE <<>>

\* The callback that discards a deadline it should only cut.
MutResumed(q, c) ==
    IF c.reply = "STRING" /\ c.value < TimeAddSaturate(Seconds(clock), Block)
    THEN [q EXCEPT !.stage = "rejected", !.until = c.value]
    ELSE [q EXCEPT !.stage = "passed"]

\* What check_callback makes of a parked request: blocked until the deadline
\* Redis named, but no longer than a ban that starts now, or free to pass.
Resumed(q, c) ==
    IF c.reply = "STRING"
    THEN [q EXCEPT !.stage = "rejected",
                   !.until = Min({c.value,
                                  TimeAddSaturate(Seconds(clock), Block)})]
    ELSE [q EXCEPT !.stage = "passed"]

\* The callback of the oldest command on a connection, with its answer.
Deliver(w) ==
    LET c == Head(queue[w])
        s == Callback(worker[w], c, Seconds(clock))
        rest == Tail(queue[w]) \o Reload(s, c)
    IN  /\ queue[w] # <<>>
        /\ c.reply # "none"
        /\ queue' = [queue EXCEPT ![w] = rest]
        /\ worker' = [worker EXCEPT ![w] = Settled(s, rest)]
        /\ bad' = [bad EXCEPT ![w] = BadAfter(@, c)]
        /\ req' = [r \in Request |->
                      IF r = c.req THEN Resumed(req[r], c) ELSE req[r]]
        /\ UNCHANGED <<clock, db, errs, faults>>

\* Every command of w is answered with NULL.
AllNull(w) == [i \in DOMAIN queue[w] |-> [queue[w][i] EXCEPT !.reply = "NULL"]]

\* The check_callback that returns at once when there is no answer.
MutLost(w) ==
    /\ worker[w].conn \in {"open", "closing"}
    /\ worker[w].cut \/ queue[w] # <<>>
    /\ worker' = [worker EXCEPT ![w] = Disconnected(@)]
    /\ queue' = [queue EXCEPT ![w] = <<>>]
    /\ UNCHANGED <<clock, db, req, errs, bad, faults>>

\* What their callbacks, in this order, leave of w and of its failures.
AfterAll(w) ==
    LET nulls == AllNull(w)
        after[i \in 0 .. Len(nulls)] ==
            IF i = 0 THEN [worker |-> worker[w], bad |-> bad[w]]
            ELSE [worker |-> Callback(after[i - 1].worker, nulls[i],
                                      Seconds(clock)),
                  bad |-> BadAfter(after[i - 1].bad, nulls[i])]
    IN  after[Len(nulls)]

\* The connection breaks, or a command has waited too long: hiredis calls
\* back every command without an answer and then disconnect_callback.
Lost(w) ==
    LET failed == AfterAll(w)
    IN  /\ worker[w].conn \in {"open", "closing"}
        /\ worker[w].cut \/ queue[w] # <<>>
        /\ worker' = [worker EXCEPT ![w] =
               Disconnected([@ EXCEPT !.failures = failed.worker.failures,
                                      !.breaker = failed.worker.breaker])]
        /\ bad' = [bad EXCEPT ![w] = failed.bad]
        /\ queue' = [queue EXCEPT ![w] = <<>>]
        /\ req' = [r \in Request |->
                      IF req[r].stage = "parked" /\ req[r].worker = w
                      THEN [req[r] EXCEPT !.stage = "passed"] ELSE req[r]]
        /\ UNCHANGED <<clock, db, errs, faults>>

-----------------------------------------------------------------------------
(***************************************************************************)
(* Connecting.                                                             *)
(***************************************************************************)

\* The reconnect timer fires, and redis_connect starts a connection or fails
\* at once.
Reconnect(w) ==
    LET s == [worker[w] EXCEPT !.timer = FALSE]
    IN  /\ worker[w].timer
        /\ \/ /\ db.up \/ LateRefusal
              /\ worker' = [worker EXCEPT ![w] =
                   [s EXCEPT !.conn = "connecting", !.denied = FALSE,
                             !.cut = ~ db.up]]
           \/ /\ ~ db.up \/ QueueMayFail
              /\ worker' = [worker EXCEPT ![w] = ArmReconnect(s)]
        /\ UNCHANGED <<clock, db, queue, req, errs, bad, faults>>

\* connect_callback with success: ready, and the handshake is queued ahead of
\* every command of a request, or cannot be queued.
Connected(w) ==
    LET s == [worker[w] EXCEPT !.conn = "open", !.ready = TRUE, !.backoff = 0]
        hello == <<Command("HELLO", NoRequest, NoRequest, NoNonce),
                   Command("LOAD", NoRequest, NoRequest, NoNonce)>>
    IN  /\ worker[w].conn = "connecting"
        /\ worker[w].cut => ~ LateRefusal
        /\ \/ /\ worker' = [worker EXCEPT ![w] = s]
              /\ queue' = [queue EXCEPT ![w] = hello]
           \/ /\ QueueMayFail
              /\ worker' = [worker EXCEPT ![w] =
                               Settled(HandshakeFailed(s), <<>>)]
              /\ UNCHANGED queue
        /\ UNCHANGED <<clock, db, req, errs, bad, faults>>

\* connect_callback with an error.  hiredis frees the context; it calls
\* disconnect_callback only for a connection that was established.
ConnectFailed(w) ==
    /\ worker[w].conn = "connecting"
    /\ worker[w].cut /\ LateRefusal
    /\ worker' = [worker EXCEPT ![w] = [@ EXCEPT !.conn = "stale",
                                                 !.ready = FALSE]]
    /\ UNCHANGED <<clock, db, queue, req, errs, bad, faults>>

\* redis_add_read, which hiredis calls when the handshake has been written,
\* cannot register the event: the worker is not ready, and whatever Redis
\* answers on this connection is never read.
AddReadFails(w) ==
    /\ EventMayFail
    /\ worker[w].conn = "open"
    /\ ~ worker[w].cut
    /\ queue[w] # <<>> /\ Head(queue[w]).op = "HELLO"
    /\ worker' = [worker EXCEPT ![w] = [@ EXCEPT !.ready = FALSE, !.cut = TRUE]]
    /\ queue' = [queue EXCEPT ![w] =
                    [i \in DOMAIN @ |-> [@[i] EXCEPT !.reply = "none"]]]
    /\ UNCHANGED <<clock, db, req, errs, bad, faults>>

\* exit_process: no more reconnects, and the requests of w are gone with it.
ExitProcess(w) ==
    /\ ~ worker[w].exiting
    /\ worker' = [worker EXCEPT ![w] = [NewWorker EXCEPT !.exiting = TRUE]]
    /\ queue' = [queue EXCEPT ![w] = <<>>]
    /\ req' = [r \in Request |-> IF req[r].worker = w THEN FreeSlot
                                                      ELSE req[r]]
    /\ bad' = [bad EXCEPT ![w] = 0]
    /\ UNCHANGED <<clock, db, errs, faults>>

-----------------------------------------------------------------------------
(***************************************************************************)
(* The environment.                                                        *)
(***************************************************************************)

\* Time passes, and Redis drops the keys whose time has come.
Tick ==
    LET expired(k) == \A e \in db.events[k] :
                          e.at + Inactive * Second <= clock + 1
    IN  /\ clock < MaxTime
        /\ clock' = clock + 1
        /\ db' = [db EXCEPT
             !.events = [k \in Key |-> IF expired(k) THEN {} ELSE @[k]],
             !.block = [k \in Key |-> IF @[k].ends <= clock + 1
                                      THEN NotBlocked ELSE @[k]]]
        /\ UNCHANGED <<worker, queue, req, errs, bad, faults>>

\* Redis goes down, with or without its data, and all connections with it.
Outage ==
    /\ db.up
    /\ faults.outage < MaxOutages
    /\ faults' = [faults EXCEPT !.outage = @ + 1]
    /\ \/ db' = [db EXCEPT !.up = FALSE] /\ UNCHANGED errs
       \/ /\ db' = [up |-> FALSE, script |-> FALSE,
                     events |-> [k \in Key |-> {}],
                     block |-> [k \in Key |-> NotBlocked]]
          /\ errs' = [k \in Key |-> <<>>]
    /\ worker' = [w \in Worker |->
                     [worker[w] EXCEPT !.cut = (worker[w].conn # "none")]]
    /\ UNCHANGED <<clock, queue, req, bad>>

Recovery ==
    /\ ~ db.up
    /\ db' = [db EXCEPT !.up = TRUE]
    /\ UNCHANGED <<clock, worker, queue, req, errs, bad, faults>>

\* SCRIPT FLUSH on the server.
ScriptFlush ==
    /\ db.script
    /\ faults.flush < MaxFlushes
    /\ faults' = [faults EXCEPT !.flush = @ + 1]
    /\ db' = [db EXCEPT !.script = FALSE]
    /\ UNCHANGED <<clock, worker, queue, req, errs, bad>>

Next ==
    \/ Tick \/ Outage \/ Recovery \/ ScriptFlush
    \/ \E r \in Request, w \in Worker, k \in Key : Arrive(r, w, k)
    \/ \E r \in Request : RedisCheck(r) \/ RedisRecord(r) \/ Respond(r)
    \/ \E w \in Worker :
          \/ Execute(w) \/ Deliver(w) \/ Lost(w)
          \/ Reconnect(w) \/ Connected(w) \/ ConnectFailed(w)
          \/ AddReadFails(w) \/ ExitProcess(w)

Spec == Init /\ [][Next]_vars

\* Redis comes back; timers fire, connections come up or fail, answers are
\* read, and a command without an answer runs into its timeout.
Fairness ==
    /\ WF_vars(Recovery)
    /\ \A w \in Worker :
          /\ WF_vars(Reconnect(w))
          /\ WF_vars(Connected(w) \/ ConnectFailed(w))
          /\ WF_vars(Execute(w) \/ Deliver(w) \/ Lost(w))

FairSpec == Spec /\ Fairness

-----------------------------------------------------------------------------
(***************************************************************************)
(* Properties.                                                             *)
(***************************************************************************)

\* The commands that will call request r back.
Positions(w, r) == {i \in DOMAIN queue[w] : queue[w][i].req = r}

Pending(r) == UNION {{<<w, i>> : i \in Positions(w, r)} : w \in Worker}

\* Exactly the parked requests have a GET under way, and each has one: none
\* is resumed twice or forgotten, whatever happens to the connection.
ParkedOnce ==
    \A r \in Request :
        Cardinality(Pending(r)) = IF req[r].stage = "parked" THEN 1 ELSE 0

\* The reconnect timer runs only while there is no context, so that the one
\* adapter of a worker is never attached to two connections.
OneConnection == \A w \in Worker : worker[w].timer => worker[w].conn = "none"

\* The breaker of a worker opens with the BreakerThreshold-th failure that no
\* good answer interrupts, neither earlier nor later, whichever connection the
\* failures belong to; a lost script is not a failure.
BreakerCountsFailures ==
    [][\A w \in Worker :
          /\ worker'[w].breaker > worker[w].breaker
                => bad'[w] >= BreakerThreshold
          /\ bad[w] < BreakerThreshold /\ bad'[w] >= BreakerThreshold
                => worker'[w].breaker > Seconds(clock)]_vars

\* The errors of k that are in the window (history).
Recent(k) == {i \in DOMAIN errs[k] : errs[k][i] > clock - Interval * Second}

\* The errors Redis holds for an identity are the errors counted since its
\* last ban, none lost because two had the same member of the sorted set.
EveryErrorCounts ==
    \A k \in Key :
        Cardinality({e \in db.events[k] : e.at > clock - Interval * Second})
            = Cardinality(Recent(k))

\* Redis starts or prolongs a ban only for Threshold errors in the window,
\* counted by whichever workers.
RedisBanIsEarned ==
    [][\A k \in Key : db'.block[k].ends > db.block[k].ends
                          => Cardinality(Recent(k)) + 1 >= Threshold]_vars

\* README: "a slow or dead Redis never freezes a request".
ParkedResumes ==
    \A r \in Request : req[r].stage = "parked" ~> req[r].stage # "parked"

\* test_runtime.py: "Redis comes back -> the workers reconnect (backoff) and
\* shared blocking resumes".
Reconnects ==
    \A w \in Worker :
        []<>(worker[w].ready \/ worker[w].exiting)

=============================================================================
