------------------------- MODULE ErrorAbuseSnapshot -------------------------
(***************************************************************************)
(* What a snapshot holds of a zone, and what a load makes of it: the       *)
(* sequence of records, without their encoding (module ErrorAbuseScan has  *)
(* that).                                                                  *)
(***************************************************************************)
EXTENDS ErrorAbuseZoneOps

\* The snapshot written from the head of the list to its tail.
MutSerialize(z) ==
    [i \in 1 .. Len(z.queue) |->
        [key |-> z.queue[i], node |-> z.node[z.queue[i]]]]

\* serialize: one record for each node, from the tail of the LRU list to its
\* head, so that a load in this order rebuilds the list.
Serialize(z) ==
    [i \in 1 .. Len(z.queue) |->
        LET k == z.queue[Len(z.queue) + 1 - i]
        IN  [key |-> k, node |-> z.node[k]]]

\* The restored ban that starts again.
MutRestored(n, now) ==
    [blocked_until |-> IF n.blocked_until > now
                       THEN TimeAddSaturate(now, Block) ELSE 0,
     last_seen |-> n.last_seen,
     events |-> n.events]

\* Of the events of a record, those that load puts into the ring, one after
\* the other.
InWindow(events, now) ==
    LET kept[i \in 0 .. Len(events)] ==
          IF i = 0 THEN <<>>
          ELSE IF events[i] > now - Interval /\ events[i] <= now
          THEN Append(kept[i - 1], events[i])
          ELSE kept[i - 1]
    IN  kept[Len(events)]

\* What load makes of a record: a ban never longer than one that starts now,
\* a last_seen that is not in the future, the events still in the window.
Restored(n, now) ==
    LET limit == TimeAddSaturate(now, Block)
    IN  [blocked_until |-> IF n.blocked_until <= now THEN 0
                           ELSE IF n.blocked_until < limit
                           THEN n.blocked_until ELSE limit,
         last_seen |-> IF n.last_seen > 0 /\ n.last_seen <= now
                       THEN n.last_seen ELSE now,
         events |-> InWindow(n.events, now)]

\* The load that takes a record without events for a spent one.
MutSpent(n, now) == n.events = <<>>

\* A record load skips: nothing is left of it.
Spent(n, now) == n.blocked_until <= now /\ n.events = <<>>

\* One round of load's loop; it ends when a node cannot be created.
LoadRecord(acc, rec, now) ==
    LET z == IF rec.key \in DOMAIN acc.zone.node
             THEN acc.zone ELSE CreateNode(acc.zone, rec.key, now)
    IN  IF acc.full \/ Spent(rec.node, now)
        THEN acc
        ELSE IF rec.key \notin DOMAIN z.node
        THEN [zone |-> z, full |-> TRUE]
        ELSE [zone |-> SetNode(z, rec.key, Restored(rec.node, now)),
              full |-> FALSE]

\* The zone that the records of a snapshot are loaded into, from an empty one.
LoadAll(recs, now) ==
    LET acc[i \in 0 .. Len(recs)] ==
          IF i = 0 THEN [zone |-> EmptyZone, full |-> FALSE]
          ELSE LoadRecord(acc[i - 1], recs[i], now)
    IN  acc[Len(recs)].zone

=============================================================================
