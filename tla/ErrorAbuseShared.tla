-------------------------- MODULE ErrorAbuseShared --------------------------
(***************************************************************************)
(* Workers of several hosts, each with the zone of its host and all with   *)
(* one Redis server: ErrorAbuseRedis composed with the operations of the   *)
(* zone.  The preaccess handler asks Redis first and the zone of the host  *)
(* afterwards, perhaps in another event; the header filter counts an error *)
(* in the zone and then in Redis, whatever the zone made of it.            *)
(*                                                                         *)
(* The locations enforce (no dry_run) and let a request pass when the zone *)
(* is full; ErrorAbuseRequest has the others.                              *)
(***************************************************************************)
EXTENDS ErrorAbuseRedis

CONSTANTS
    Host,
    HostOf,   \* HostOf[w]: where worker w runs
    Capacity, ExpireLimitFind, ExpireLimitAlloc, EvictScanLimit,
    MaxLosses \* bound on the connections that break or time out

ASSUME SharedParameters == HostOf \in [Worker -> Host] /\ MaxLosses \in Nat

Local == INSTANCE ErrorAbuseZoneOps

VARIABLES
    zone,     \* zone[h]: the shared memory of host h
    verdict,  \* verdict[r]: what the zone has said of a request Redis passed
    asked,    \* history: the end of the ban Redis held when r was parked
    losses    \* history: connections lost so far

sharedVars == <<vars, zone, verdict, asked, losses>>

\* The zone a request is judged and counted in.
HostOfRequest(r) == HostOf[req[r].worker]

SharedInit ==
    /\ Init
    /\ zone = [h \in Host |-> Local!EmptyZone]
    /\ verdict = [r \in Request |-> "none"]
    /\ asked = [r \in Request |-> 0]
    /\ losses = 0

\* A local ban that still runs at this moment of z.
Stopped(z, k) == Local!Banned(Local!NodeOf(z, k), Seconds(clock))

\* The verdict that takes Redis's word for a request it has answered.
MutJudged(z, r) ==
    IF req[r].stage # "parked" /\ Stopped(z, req[r].key) THEN "rejected"
                                                         ELSE "passed"

\* What preaccess makes of the answer of is_blocked.
Judged(z, r) == IF Stopped(z, req[r].key) THEN "rejected" ELSE "passed"

\* Redis lets r pass in this step.
Passes(r) == req[r].stage # "passed" /\ req'[r].stage = "passed"

\* The zone of the host of w when those of the requests rs that pass have
\* looked into it, in this order.
LookedUp(w, rs) ==
    LET ask(z, r) == Local!IsBlocked(z, req[r].key, Seconds(clock))
    IN  FoldLeft(ask, zone[HostOf[w]], SelectSeq(rs, Passes))

\* The rest of preaccess, for the requests Redis does not stop in a step of
\* the worker w: each one looks into the zone.
LookUp(w, rs) ==
    LET z == LookedUp(w, rs)
    IN  /\ zone' = [zone EXCEPT ![HostOf[w]] = z]
        /\ verdict' = [r \in Request |-> IF Passes(r) THEN Judged(z, r)
                                                      ELSE verdict[r]]

\* The requests that wait for an answer on the connection of w.
Waiting(w) ==
    LET waits(r) == r # NoRequest
    IN  SelectSeq([i \in DOMAIN queue[w] |-> queue[w][i].req], waits)

Preaccess(r) ==
    /\ RedisCheck(r)
    /\ LookUp(req[r].worker, <<r>>)
    /\ asked' = [asked EXCEPT ![r] =
           IF req[r].stage = "preaccess" /\ req'[r].stage = "parked"
           THEN db.block[req[r].key].ends ELSE @]
    /\ UNCHANGED losses

\* The answer of Redis, or its absence, resumes requests.
Resume(w) ==
    /\ \/ Deliver(w) /\ UNCHANGED losses
       \/ Lost(w) /\ losses < MaxLosses /\ losses' = losses + 1
    /\ LookUp(w, Waiting(w))
    /\ UNCHANGED asked

\* The request leaves its slot.
Closed(r) ==
    /\ verdict' = [verdict EXCEPT ![r] = "none"]
    /\ asked' = [asked EXCEPT ![r] = 0]
    /\ UNCHANGED losses

\* The header filter on an error that counts: record, then redis_record.
CountResponse(r) ==
    LET h == HostOfRequest(r)
    IN  /\ verdict[r] = "passed"
        /\ zone' = [zone EXCEPT ![h] =
                       Local!Record(@, req[r].key, Seconds(clock))]
        /\ RedisRecord(r)
        /\ Closed(r)

\* A response that does not count, and the rejections of both.
PassResponse(r) ==
    /\ Respond(r)
    /\ Closed(r)
    /\ UNCHANGED zone

\* A worker that exits takes its requests with it, not the zone.
Exit(w) ==
    /\ ExitProcess(w)
    /\ verdict' = [r \in Request |-> IF req[r].worker = w THEN "none"
                                                          ELSE verdict[r]]
    /\ asked' = [r \in Request |-> IF req[r].worker = w THEN 0 ELSE asked[r]]
    /\ UNCHANGED <<zone, losses>>

\* Redis, the connections and the clock leave zones and requests alone.
Elsewhere ==
    /\ \/ Tick \/ Outage \/ Recovery \/ ScriptFlush
       \/ \E r \in Request, w \in Worker, k \in Key : Arrive(r, w, k)
       \/ \E w \in Worker : \/ Execute(w) \/ Reconnect(w) \/ Connected(w)
                            \/ ConnectFailed(w)
    /\ UNCHANGED <<zone, verdict, asked, losses>>

\* A request that has arrived: its preaccess handler runs in the same event of
\* its worker, and what other workers did meanwhile they may as well do before.
Entering == \E r \in Request : req[r].stage = "preaccess"

SharedNext ==
    \/ \E r \in Request : Preaccess(r)
    \/ /\ ~ Entering
       /\ \/ Elsewhere
          \/ \E r \in Request : CountResponse(r) \/ PassResponse(r)
          \/ \E w \in Worker : Resume(w) \/ Exit(w)

SharedSpec == SharedInit /\ [][SharedNext]_sharedVars

-----------------------------------------------------------------------------
(***************************************************************************)
(* Properties.                                                             *)
(***************************************************************************)

\* A request passes in this step.
LetThrough(r) == verdict[r] = "none" /\ verdict'[r] = "passed"

\* A ban that one host's errors have started in Redis stops the client on every
\* host: a request parked during the ban passes only once the ban is over, or
\* if its worker got no answer.
BanReachesEveryHost ==
    [][\A r \in Request :
          /\ LetThrough(r)
          /\ req[r].stage = "parked"
          /\ bad'[req[r].worker] = 0
          => asked[r] <= clock]_sharedVars

\* No answer of Redis, and no lack of one, opens a way around the zone: at the
\* moment a request passes, however long it was parked, its client has no
\* running ban in the zone of the host.
LocalBanAlwaysStops ==
    [][\A r \in Request :
          LetThrough(r) =>
              ~ Local!Banned(Local!NodeOf(zone'[HostOfRequest(r)], req[r].key),
                             Seconds(clock))]_sharedVars

=============================================================================
