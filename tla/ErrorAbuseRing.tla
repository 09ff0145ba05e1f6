--------------------------- MODULE ErrorAbuseRing ---------------------------
(***************************************************************************)
(* The zone with the event rings as the arrays they are.  A node's events  *)
(* field is a ring here: Threshold slots, the index of the oldest entry    *)
(* and the number of entries.  The LRU list, the tree and the slab pool    *)
(* are those of ErrorAbuseZoneOps, whose operators do not look at events.  *)
(*                                                                         *)
(* ErrorAbuseZone is what this module implements: there, the ring is the   *)
(* sequence of its entries.                                                *)
(***************************************************************************)
EXTENDS ErrorAbuseZoneOps

CONSTANTS
    Worker, MaxLag, MaxTime,  \* as in ErrorAbuseZone
    Client                    \* the identities that requests have

\* A zone that was loaded may hold other identities.
ASSUME ClientsAreKeys == Client \subseteq Key

\* As ClockBounds in ErrorAbuseZone.
ASSUME RingBounds ==
    /\ MaxLag \in Nat
    /\ MaxTime \in Nat \ {0}
    /\ MaxTime < TimeMax

VARIABLES
    clock, now, reply,  \* as in ErrorAbuseZone
    shm                 \* the shared zone, with rings

ringvars == <<clock, now, shm, reply>>

-----------------------------------------------------------------------------
(***************************************************************************)
(* Rings.                                                                  *)
(***************************************************************************)

Slot == 0 .. Threshold - 1

Ring == [head : Slot, count : 0 .. Threshold, slot : [Slot -> Time]]

ZeroRing == [head |-> 0, count |-> 0, slot |-> [i \in Slot |-> 0]]

\* The entry at distance i from the oldest one.
Entry(r, i) == r.slot[(r.head + i) % Threshold]

\* The sequence a ring stands for.
Entries(r) == [i \in 1 .. r.count |-> Entry(r, i - 1)]

\* The number of entries prune_events() drops.
StaleEntries(r, t) ==
    CHOOSE m \in 0 .. r.count :
        /\ \A i \in 0 .. m - 1 : Entry(r, i) <= t - Interval
        /\ m < r.count => Entry(r, m) > t - Interval

\* ngx_http_error_abuse_prune_events
PruneRing(r, t) ==
    LET m == StaleEntries(r, t)
    IN  [r EXCEPT !.head = (@ + m) % Threshold, !.count = @ - m]

Cleared(r) == [r EXCEPT !.head = 0, !.count = 0]

\* The ring of an unbanned node when record() or is_blocked() has settled it.
LiveRing(n, t) ==
    IF n.blocked_until # 0 THEN Cleared(n.events) ELSE PruneRing(n.events, t)

\* The insertion that counts from the start of the array.
MutInsert(r, t) ==
    [r EXCEPT !.slot[r.count % Threshold] = t, !.count = @ + 1]

\* The new entry goes behind the newest one.
Insert(r, t) ==
    [r EXCEPT !.slot[(r.head + r.count) % Threshold] = t, !.count = @ + 1]

\* record() on an unbanned node.
RingCountError(n, t) ==
    LET r == Insert(LiveRing(n, t), t)
    IN  IF r.count >= Threshold
        THEN [n EXCEPT !.events = Cleared(r),
                       !.blocked_until = TimeAddSaturate(t, Block)]
        ELSE [n EXCEPT !.events = r, !.blocked_until = 0]

\* is_blocked() on an unbanned node.
RingSettle(n, t) == [n EXCEPT !.events = LiveRing(n, t), !.blocked_until = 0]

-----------------------------------------------------------------------------
(***************************************************************************)
(* Calls.                                                                  *)
(***************************************************************************)

\* create_node clears the memory it has been given.
WithZeroRing(z, k) ==
    IF k \in DOMAIN z.node THEN [z EXCEPT !.node[k].events = ZeroRing] ELSE z

\* The zone in which record() has found or created the node of k, or failed.
RingTracking(z, k, t) ==
    LET found == FindTouch(z, k, t)
    IN  IF k \in DOMAIN found.node
        THEN found
        ELSE WithZeroRing(CreateNode(found, k, t), k)

\* ngx_http_error_abuse_record
RingRecord(z, k, t) ==
    LET y == RingTracking(z, k, t)
    IN  IF k \notin DOMAIN y.node \/ Banned(y.node[k], t)
        THEN y
        ELSE SetNode(y, k, RingCountError(y.node[k], t))

\* ngx_http_error_abuse_is_blocked
RingIsBlocked(z, k, t) ==
    LET f == FindTouch(z, k, t)
    IN  IF k \notin DOMAIN f.node \/ Banned(f.node[k], t)
        THEN f
        ELSE SetNode(f, k, RingSettle(f.node[k], t))

\* The zone of ErrorAbuseZone that a zone with rings stands for.
Plain(z) ==
    [queue |-> z.queue,
     node  |-> [k \in DOMAIN z.node |->
                   [z.node[k] EXCEPT !.events = Entries(@)]]]

Abstract == INSTANCE ErrorAbuseZone WITH zone <- Plain(shm)

RingInit ==
    /\ clock = 1
    /\ now = [w \in Worker |-> 1]
    /\ shm = EmptyZone
    /\ reply = Abstract!NoReply

\* The clocks do not touch the zone.
Passes ==
    /\ UNCHANGED shm
    /\ Abstract!Tick \/ \E w \in Worker : Abstract!UpdateTime(w)

RingDoRecord(w, k) ==
    /\ shm' = RingRecord(shm, k, now[w])
    /\ reply' = Abstract!RecordReply(Plain(shm'), k, now[w])
    /\ UNCHANGED <<clock, now>>

RingDoIsBlocked(w, k) ==
    /\ shm' = RingIsBlocked(shm, k, now[w])
    /\ reply' = Abstract!IsBlockedReply(Plain(shm'), k, now[w])
    /\ UNCHANGED <<clock, now>>

RingNext ==
    \/ Passes
    \/ \E w \in Worker, k \in Client : RingDoRecord(w, k) \/ RingDoIsBlocked(w, k)

RingSpec == RingInit /\ [][RingNext]_ringvars

\* Every call on rings is the call of ErrorAbuseZone on their entries.
ImplementsZone == Abstract!Spec

=============================================================================
