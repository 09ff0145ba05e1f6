--------------------------- MODULE ErrorAbuseZone ---------------------------
(***************************************************************************)
(* Worker processes sharing one zone.  A worker calls record() or          *)
(* is_blocked() with the time its event loop cached (ngx_time()), which    *)
(* was read before the slab mutex was taken and may be behind the clock:   *)
(* because the worker is busy, or because the system time has been set     *)
(* back.  The mutex makes each call one step; what interleaves are calls   *)
(* of workers whose cached times differ.                                   *)
(***************************************************************************)
EXTENDS ErrorAbuseZoneOps

CONSTANTS
    Worker,   \* worker processes
    MaxLag,   \* the largest distance of a cached time from the clock
    MaxTime   \* bound: the clock stops here

ASSUME ClockBounds ==
    /\ MaxLag \in Nat
    /\ MaxTime \in Nat \ {0}
    /\ MaxTime < TimeMax

VARIABLES
    clock,  \* the latest time of day there has been
    now,    \* now[w]: worker w's cached time
    zone,   \* the shared zone
    reply   \* what the last call returned

vars == <<clock, now, zone, reply>>

NoReply == [op |-> "none"]

\* The return value and the output parameters of a call.
Reply(op, k, rc, count, until) ==
    [op |-> op, key |-> k, rc |-> rc, count |-> count, blocked_until |-> until]

Init ==
    /\ clock = 1
    /\ now = [w \in Worker |-> 1]
    /\ zone = EmptyZone
    /\ reply = NoReply

\* A second passes.  The workers that are not busy refresh their cached time
\* with it; no worker stays behind by more than MaxLag.
Tick ==
    /\ clock < MaxTime
    /\ clock' = clock + 1
    /\ \E fresh \in SUBSET Worker :
          now' = [w \in Worker |-> IF w \in fresh THEN clock + 1 ELSE now[w]]
    /\ \A w \in Worker : clock + 1 - now'[w] <= MaxLag
    /\ UNCHANGED <<zone, reply>>

\* ngx_time_update in the event loop of w: a worker that was behind catches
\* up, or follows a system time that has been set back.
UpdateTime(w) ==
    /\ \E t \in 1 .. clock :
          /\ clock - t <= MaxLag
          /\ t # now[w]
          /\ now' = [now EXCEPT ![w] = t]
    /\ UNCHANGED <<clock, zone, reply>>

\* The reply of a record() that leaves the zone z.
RecordReply(z, k, t) ==
    LET r == Report(z, k, t)
    IN  IF k \in DOMAIN z.node
        THEN Reply("record", k, IF r.banned THEN "BUSY" ELSE "OK",
                   r.count, r.blocked_until)
        ELSE Reply("record", k, "ERROR", 0, 0)

\* The reply of an is_blocked() that leaves the zone z.
IsBlockedReply(z, k, t) ==
    LET r == Report(z, k, t)
    IN  Reply("is_blocked", k, IF r.banned THEN "OK" ELSE "DECLINED",
              r.count, r.blocked_until)

DoRecord(w, k) ==
    /\ zone' = Record(zone, k, now[w])
    /\ reply' = RecordReply(zone', k, now[w])
    /\ UNCHANGED <<clock, now>>

DoIsBlocked(w, k) ==
    /\ zone' = IsBlocked(zone, k, now[w])
    /\ reply' = IsBlockedReply(zone', k, now[w])
    /\ UNCHANGED <<clock, now>>

Next ==
    \/ Tick
    \/ \E w \in Worker : UpdateTime(w)
    \/ \E w \in Worker, k \in Key : DoRecord(w, k) \/ DoIsBlocked(w, k)

Spec == Init /\ [][Next]_vars

\* Time keeps passing up to the bound, and the workers that are not busy
\* refresh their cached time with it.
Fairness == WF_vars(Tick)

FairSpec == Spec /\ Fairness

-----------------------------------------------------------------------------
(***************************************************************************)
(* Invariants.                                                             *)
(***************************************************************************)

\* Every variable has its type; clock and cached times stay in their bounds.
TypeOK ==
    /\ clock \in 1 .. MaxTime
    /\ now \in [Worker -> 0 .. clock]
    /\ \A w \in Worker : clock - now[w] <= MaxLag
    /\ IsZone(zone)

\* The LRU list and the tree hold the same nodes, each once, and never more
\* than the slab pool has room for (touch, delete, expire, evict, create).
ListMatchesTree == WellLinked(zone)

\* record() writes its event at index (head + count) % threshold: there is
\* always a free slot, and a node that has been banned has an empty ring, so
\* that no error is counted towards two bans.
RingHasRoom ==
    \A k \in DOMAIN zone.node :
        /\ Len(zone.node[k].events) < Threshold
        /\ zone.node[k].blocked_until # 0 => zone.node[k].events = <<>>

\* The ring is in the order of the calls, which is the order of time only up
\* to the lag of the workers; prune_events() relies on it to stop at the
\* first entry in the window.
NearlySorted ==
    \A k \in DOMAIN zone.node :
        \A i, j \in DOMAIN zone.node[k].events :
            i < j => zone.node[k].events[j]
                         >= zone.node[k].events[i] - MaxLag

\* No event is later than the clock, and none is later than last_seen by more
\* than the lag: a node idle for inactive seconds has nothing in its window.
EventsBehindLastSeen ==
    \A k \in DOMAIN zone.node :
        /\ zone.node[k].last_seen <= clock
        /\ \A i \in DOMAIN zone.node[k].events :
              /\ zone.node[k].events[i] <= clock
              /\ zone.node[k].events[i] <= zone.node[k].last_seen + MaxLag

\* Dry run reports what enforcement would do: for every worker and identity,
\* peek() returns what record() would return now, unless record() would fail.
\* (Holds when the workers' cached times agree, that is with MaxLag = 0.)
PeekAgrees ==
    \A w \in Worker, k \in Key :
        LET z == Record(zone, k, now[w])
        IN  k \in DOMAIN z.node
                => Peek(zone, k, now[w]) = Report(z, k, now[w])

\* The entries of a ring are in order of time.
InOrder(events) ==
    \A i, j \in DOMAIN events : i <= j => events[i] <= events[j]

\* Dry run reports what enforcement would do, also with cached times that
\* differ: peek() returns what record() would return, for every identity whose
\* ring the workers' lag has left in order and whose node record() would not
\* expire first.
PeekAgreesInOrder ==
    \A w \in Worker, k \in Key :
        LET z == Record(zone, k, now[w])
            n == NodeOf(zone, k)
        IN  /\ k \in DOMAIN z.node
            /\ k \in DOMAIN zone.node => ~ Expirable(n, now[w])
            /\ InOrder(n.events)
            => Peek(zone, k, now[w]) = Report(z, k, now[w])

\* Distance of an identity from the tail of the LRU list.
FromTail(q, k) == Len(q) - Position(q, k)

\* A record() that fails for want of room is not wasted: it brings every
\* unbanned node closer to the tail by the whole scan limit of
\* evict_one_unblocked(), so that repeated pressure reaches one.
MissAdvances ==
    \A w \in Worker, k \in Key :
        LET z == Record(zone, k, now[w])
        IN  k \notin DOMAIN z.node =>
                \A j \in DOMAIN zone.node :
                    \/ Banned(zone.node[j], now[w])
                    \/ FromTail(z.queue, j)
                           = FromTail(zone.queue, j) - EvictScanLimit

-----------------------------------------------------------------------------
(***************************************************************************)
(* Action properties.                                                      *)
(***************************************************************************)

\* A ban that is still running is neither evicted, expired, lengthened nor
\* shortened by any call of any worker, whatever the memory pressure.
BanStands ==
    [][\A k \in Key : NodeOf(zone, k).blocked_until > clock =>
           NodeOf(zone', k).blocked_until = NodeOf(zone, k).blocked_until]_vars

\* An identity that is not idle disappears only when the pool is full, and
\* then its room is used at once.
LossNeedsFullPool ==
    [][\A k \in DOMAIN zone.node \ DOMAIN zone'.node :
           \/ \E w \in Worker : Expirable(zone.node[k], now[w])
           \/ Len(zone.queue) = Capacity /\ Len(zone'.queue) = Capacity]_vars

\* The zone implements the policy.
Policy == INSTANCE BanPolicy WITH
    Skew     <- MaxLag,
    window   <- [k \in Key |-> NodeOf(zone, k).events],
    deadline <- [k \in Key |-> NodeOf(zone, k).blocked_until]

\* Every call of every worker is a step the policy allows, and its reply is
\* the policy's reply.
ImplementsPolicy == Policy!Spec

-----------------------------------------------------------------------------
(***************************************************************************)
(* Statements of the documentation and of comments that the code does not  *)
(* meet.                                                                   *)
(***************************************************************************)

\* README.md, on_full: "only unblocked, aged-out identities can be reclaimed".
ReclaimOnlyAgedOut ==
    [][\A k \in DOMAIN zone.node \ DOMAIN zone'.node :
           \E w \in Worker : Expirable(zone.node[k], now[w])]_vars

=============================================================================
