------------------------- MODULE ErrorAbuseZoneOps -------------------------
(***************************************************************************)
(* The shared-memory zone of ngx_http_error_abuse_module.c as a value, and *)
(* the operations that run on it under the slab mutex.                     *)
(*                                                                         *)
(* A zone is a record with two fields:                                     *)
(*   queue  the LRU list of identities, queue[1] is the head (most         *)
(*          recently used) and queue[Len(queue)] the tail;                 *)
(*   node   the red-black tree: a function from the identities that have a *)
(*          node to that node's fields.                                    *)
(* The event ring of a node is the sequence of its live entries, oldest    *)
(* position first (head, count and the slots modulo threshold).            *)
(*                                                                         *)
(* Every identity is a fixed-size SHA-256 digest, so all nodes have one    *)
(* size and the slab pool is full exactly when it holds Capacity nodes.    *)
(*                                                                         *)
(* Operators whose name starts with Mut are deliberately wrong variants of *)
(* the operator that follows them.  No definition uses them.               *)
(***************************************************************************)
EXTENDS ErrorAbuseTime, SequencesExt

CONSTANTS
    Key,              \* identities (digests)
    Threshold,        \* zone->threshold, errors that make a ban
    Interval,         \* zone->interval, the sliding window in seconds
    Block,            \* zone->block, the length of a ban in seconds
    Inactive,         \* zone->inactive, idle seconds before a node may expire
    Capacity,         \* nodes the slab pool has room for
    ExpireLimitFind,  \* nodes expired at most by a lookup (2 in the code)
    ExpireLimitAlloc, \* nodes expired at most by an allocation (64)
    EvictScanLimit    \* NGX_HTTP_ERROR_ABUSE_EVICT_SCAN_LIMIT (64)

\* The bounds ngx_http_error_abuse_zone enforces on its parameters; the
\* directive raises or rejects an inactive= below interval or block.
ASSUME ZoneParameters ==
    /\ Threshold \in Nat \ {0}
    /\ Interval \in Nat \ {0}
    /\ Block \in Nat \ {0}
    /\ Inactive \in Nat
    /\ Inactive >= Interval
    /\ Inactive >= Block

\* The zone has room for a node, and the scans make progress.
ASSUME ZoneLimits ==
    /\ Capacity \in Nat \ {0}
    /\ ExpireLimitFind \in Nat
    /\ ExpireLimitAlloc \in Nat
    /\ EvictScanLimit \in Nat \ {0}

Node == [blocked_until : Time, last_seen : Time, events : Seq(Time)]

ZeroNode == [blocked_until |-> 0, last_seen |-> 0, events |-> <<>>]

EmptyZone == [queue |-> <<>>, node |-> <<>>]

IsZone(z) ==
    /\ z.queue \in Seq(Key)
    /\ DOMAIN z.node \subseteq Key
    /\ \A k \in DOMAIN z.node : z.node[k] \in Node

\* The LRU list and the tree hold the same nodes, each once, and no more than
\* the slab pool has room for.
WellLinked(z) ==
    /\ \A i, j \in 1 .. Len(z.queue) : z.queue[i] = z.queue[j] => i = j
    /\ {z.queue[i] : i \in 1 .. Len(z.queue)} = DOMAIN z.node
    /\ Len(z.queue) <= Capacity

\* The node of k, or what a lookup that misses stands for.
NodeOf(z, k) == IF k \in DOMAIN z.node THEN z.node[k] ELSE ZeroNode

-----------------------------------------------------------------------------
Banned(n, now) == n.blocked_until > now

\* A node that expire() may delete: no running ban and idle long enough.
Expirable(n, now) ==
    /\ ~ Banned(n, now)
    /\ TimeAddSaturate(n.last_seen, Inactive) <= now

-----------------------------------------------------------------------------
(***************************************************************************)
(* The LRU list.                                                           *)
(***************************************************************************)

Position(q, k) == CHOOSE i \in DOMAIN q : q[i] = k

\* The touch that forgets to unlink.
MutTouch(q, k) == <<k>> \o q

\* touch: unlink k and put it back at the head.
Touch(q, k) == <<k>> \o RemoveAt(q, Position(q, k))

\* delete: the nodes of keys leave the tree.
WithoutNodes(node, keys) == Restrict(node, DOMAIN node \ keys)

\* The m least recently used identities.
TailKeys(q, m) == {q[i] : i \in Len(q) - m + 1 .. Len(q)}

\* The expiry that does not stop at the first node that must stay.
MutExpireRun(z, now, limit) ==
    Min({limit, Cardinality({i \in DOMAIN z.queue :
                                Expirable(z.node[z.queue[i]], now)})})

\* The number of tail nodes one call of expire() deletes: it walks from the
\* tail and stops at the first node that must stay, or after limit nodes.
ExpireRun(z, now, limit) ==
    CHOOSE m \in 0 .. Len(z.queue) :
        /\ m <= limit
        /\ \A i \in Len(z.queue) - m + 1 .. Len(z.queue) :
               Expirable(z.node[z.queue[i]], now)
        /\ \/ m = limit
           \/ m = Len(z.queue)
           \/ ~ Expirable(z.node[z.queue[Len(z.queue) - m]], now)

\* ngx_http_error_abuse_expire
Expire(z, now, limit) ==
    LET m == ExpireRun(z, now, limit)
    IN  [queue |-> SubSeq(z.queue, 1, Len(z.queue) - m),
         node  |-> WithoutNodes(z.node, TailKeys(z.queue, m))]

\* The list after its members behind position i have been moved to the head
\* one at a time, tail first, and those in j + 1 .. i have been deleted.
Splice(q, i, j) == SubSeq(q, i + 1, Len(q)) \o SubSeq(q, 1, j)

\* The number of banned nodes evict_one_unblocked() passes over before it
\* meets an unblocked one, the end of the list or its scan limit.
BannedRun(z, now) ==
    CHOOSE m \in 0 .. Len(z.queue) :
        /\ m <= EvictScanLimit
        /\ \A i \in Len(z.queue) - m + 1 .. Len(z.queue) :
               Banned(z.node[z.queue[i]], now)
        /\ \/ m = EvictScanLimit
           \/ m = Len(z.queue)
           \/ ~ Banned(z.node[z.queue[Len(z.queue) - m]], now)

\* The scan that forgets to rotate the bans it passes over.
MutEvictNoRotate(z, now) ==
    LET m == BannedRun(z, now)
        n == Len(z.queue)
    IN  IF m = n \/ m = EvictScanLimit
        THEN z
        ELSE [queue |-> RemoveAt(z.queue, n - m),
              node  |-> WithoutNodes(z.node, {z.queue[n - m]})]

\* The scan that evicts the tail whatever it holds.
MutEvictTail(z, now) ==
    [queue |-> SubSeq(z.queue, 1, Len(z.queue) - 1),
     node  |-> WithoutNodes(z.node, TailKeys(z.queue, 1))]

\* ngx_http_error_abuse_evict_one_unblocked: the bans at the tail rotate to
\* the head, and the first unblocked node within the scan limit is deleted.
EvictOneUnblocked(z, now) ==
    LET m == BannedRun(z, now)
        n == Len(z.queue)
    IN  IF m = n \/ m = EvictScanLimit
        THEN [queue |-> Splice(z.queue, n - m, n - m), node |-> z.node]
        ELSE [queue |-> Splice(z.queue, n - m, n - m - 1),
              node  |-> WithoutNodes(z.node, {z.queue[n - m]})]

-----------------------------------------------------------------------------
(***************************************************************************)
(* Allocation.                                                             *)
(***************************************************************************)

\* ngx_slab_alloc_locked returns NULL.
Full(z) == Len(z.queue) >= Capacity

\* The allocation ladder of create_node: a plain allocation, then a bounded
\* expiry, then the eviction of one unblocked node.  (One freed node always
\* satisfies the retry, so the eviction loop ends after one round.)
MakeRoom(z, now) ==
    LET expired == IF Full(z) THEN Expire(z, now, ExpireLimitAlloc) ELSE z
    IN  IF Full(expired) THEN EvictOneUnblocked(expired, now) ELSE expired

\* ngx_http_error_abuse_create_node: the result still lacks k when no room
\* could be made.
CreateNode(z, k, now) ==
    LET room == MakeRoom(z, now)
    IN  IF Full(room)
        THEN room
        ELSE [queue |-> <<k>> \o room.queue,
              node  |-> [j \in DOMAIN room.node \cup {k} |->
                            IF j = k THEN [ZeroNode EXCEPT !.last_seen = now]
                                     ELSE room.node[j]]]

-----------------------------------------------------------------------------
(***************************************************************************)
(* One node's window.                                                      *)
(***************************************************************************)

\* The number of entries prune_events() drops: it walks from the oldest
\* position and stops at the first entry that is still in the window.
StaleRun(events, now) ==
    CHOOSE m \in 0 .. Len(events) :
        /\ \A i \in 1 .. m : events[i] <= now - Interval
        /\ m < Len(events) => events[m + 1] > now - Interval

\* The pruning that drops one entry at most.
MutPruneEvents(events, now) ==
    IF events # <<>> /\ Head(events) <= now - Interval THEN Tail(events)
                                                       ELSE events

\* ngx_http_error_abuse_prune_events
PruneEvents(events, now) ==
    SubSeq(events, StaleRun(events, now) + 1, Len(events))

\* What record() and is_blocked() keep of an unbanned node's events: none if
\* a ban has just run out, otherwise those prune_events() leaves.
LiveEvents(n, now) ==
    IF n.blocked_until # 0 THEN <<>> ELSE PruneEvents(n.events, now)

\* The ban that comes one error too late.
MutCountErrorOffByOne(n, now) ==
    LET events == Append(LiveEvents(n, now), now)
    IN  IF Len(events) > Threshold
        THEN [n EXCEPT !.events = <<>>,
                       !.blocked_until = TimeAddSaturate(now, Block)]
        ELSE [n EXCEPT !.events = events, !.blocked_until = 0]

\* The ban that comes one error too early.
MutCountErrorEarly(n, now) ==
    LET events == Append(LiveEvents(n, now), now)
    IN  IF Len(events) >= Threshold - 1
        THEN [n EXCEPT !.events = <<>>,
                       !.blocked_until = TimeAddSaturate(now, Block)]
        ELSE [n EXCEPT !.events = events, !.blocked_until = 0]

\* The error that is written before the oldest entry of the ring.
MutCountErrorAtHead(n, now) ==
    LET events == <<now>> \o LiveEvents(n, now)
    IN  IF Len(events) >= Threshold
        THEN [n EXCEPT !.events = <<>>,
                       !.blocked_until = TimeAddSaturate(now, Block)]
        ELSE [n EXCEPT !.events = events, !.blocked_until = 0]

\* record() on an unbanned node: the error joins the window, and the error
\* that fills it starts a ban and empties it.
CountError(n, now) ==
    LET events == Append(LiveEvents(n, now), now)
    IN  IF Len(events) >= Threshold
        THEN [n EXCEPT !.events = <<>>,
                       !.blocked_until = TimeAddSaturate(now, Block)]
        ELSE [n EXCEPT !.events = events, !.blocked_until = 0]

\* is_blocked() on an unbanned node.
SettleNode(n, now) ==
    [n EXCEPT !.events = LiveEvents(n, now), !.blocked_until = 0]

-----------------------------------------------------------------------------
(***************************************************************************)
(* The entry points.  Each one holds the slab mutex from its first access  *)
(* of the zone to its last.                                                *)
(***************************************************************************)

\* The lookup that does not touch what it finds.
MutFindTouch(z, k, now) == Expire(z, now, ExpireLimitFind)

\* ngx_http_error_abuse_find_touch_locked: bounded expiry, then a hit becomes
\* the most recently used node.
FindTouch(z, k, now) ==
    LET swept == Expire(z, now, ExpireLimitFind)
    IN  IF k \in DOMAIN swept.node
        THEN [queue |-> Touch(swept.queue, k),
              node  |-> [swept.node EXCEPT ![k].last_seen = now]]
        ELSE swept

SetNode(z, k, n) == [queue |-> z.queue, node |-> [z.node EXCEPT ![k] = n]]

\* The zone in which record() has found or created the node of k, or failed.
Tracking(z, k, now) ==
    LET found == FindTouch(z, k, now)
    IN  IF k \in DOMAIN found.node THEN found ELSE CreateNode(found, k, now)

\* ngx_http_error_abuse_record
Record(z, k, now) ==
    LET t == Tracking(z, k, now)
    IN  IF k \notin DOMAIN t.node \/ Banned(t.node[k], now)
        THEN t
        ELSE SetNode(t, k, CountError(t.node[k], now))

\* ngx_http_error_abuse_is_blocked
IsBlocked(z, k, now) ==
    LET f == FindTouch(z, k, now)
    IN  IF k \notin DOMAIN f.node \/ Banned(f.node[k], now)
        THEN f
        ELSE SetNode(f, k, SettleNode(f.node[k], now))

\* What record() and is_blocked() report of the zone they leave behind: the
\* stable count Threshold for a banned identity, else the window's size.
\* A ban that is over is reported with the deadline record() left in place.
Report(z, k, now) ==
    LET n == NodeOf(z, k)
    IN  [banned        |-> Banned(n, now),
         count         |-> IF Banned(n, now) THEN Threshold ELSE Len(n.events),
         blocked_until |-> n.blocked_until]

\* The dry run that counts stale entries too.
MutPeek(z, k, now) ==
    LET n == NodeOf(z, k)
        count == 1 + Len(n.events)
        would == count >= Threshold
    IN  IF Banned(n, now)
        THEN Report(z, k, now)
        ELSE [banned        |-> would,
              count         |-> count,
              blocked_until |-> IF would THEN TimeAddSaturate(now, Block) ELSE 0]

\* ngx_http_error_abuse_peek: the report of a hypothetical record(), computed
\* without changing the zone.  It counts every entry still in the window.
Peek(z, k, now) ==
    LET n     == NodeOf(z, k)
        valid == {i \in DOMAIN n.events : n.events[i] > now - Interval}
        count == Cardinality(valid) + 1
        would == count >= Threshold
    IN  IF Banned(n, now)
        THEN Report(z, k, now)
        ELSE [banned        |-> would,
              count         |-> count,
              blocked_until |-> IF would THEN TimeAddSaturate(now, Block) ELSE 0]

=============================================================================
