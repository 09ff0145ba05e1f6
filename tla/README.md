# Formal model of the nginx error-abuse module

The module counts error responses per client identity in shared memory and
bans an identity that makes too many of them in a sliding window. This
directory holds TLA+ modules translated from
`src/ngx_http_error_abuse_module.c` (called `module.c` below), TLC instances
that check them, and TLAPS proofs about the shared zone and its rings, requests,
snapshots, persistence, the configuration and Redis. `PROJECT.json` is the
index: which definition stands for which lines, which run checks which
property, which hazards there are and what covers them.

## 1. The system

### Components

| component | state | operations | correct when |
|---|---|---|---|
| time arithmetic (`ngx_http_error_abuse_time.h`) | none | saturating addition | never wraps |
| zone (`module.c` 553-1069) | red-black tree of nodes, LRU queue, one event ring per node, slab pool | `record`, `is_blocked`, `peek`, under the slab mutex; inside them `lookup`, `touch`, `expire`, `evict_one_unblocked`, `create_node`, `prune_events` | tree and list agree; a ban starts with the threshold-th error in the window and by nothing else; a running ban is never lost to memory pressure |
| request processing (1087-1587) | the per-request context `req_ctx_t`, the anchor in the request's cleanup list | `preaccess`, `header_filter`, `prepare_ctx`, `find_anchor_ctx`, `add_reject_headers` | counted at most once, never for its own rejection, and as the origin location says; status and headers tell the truth |
| persistence (3708-4470) | `persist_busy`, `persist_buf`, the timer, the thread task, the file, the owner mutex of Windows | `persist_handler`, `persist_thread`, `persist_complete`, `write_file`, the final save of `exit_process` | the file is always a whole snapshot; one write at a time, in order; somebody always saves; a restart restores bans and never lengthens one |
| snapshot (`serialize`, `load`, `ngx_http_error_abuse_scan.c`) | the walk over a file | `serialize`, `validate_snapshot`, `load`, the codecs | what is saved is what is loaded; no file, however damaged, is read past its end |
| configuration (1634-2836) | zones of a cycle, configurations of locations, the memory and the snapshot a cycle gets | `error_abuse_zone`, `error_abuse`, `error_abuse_redis`, `parse_statuses`, `merge_loc_conf`, `init_zone` | what is accepted is sound; no level loses its zone; memory survives a reload only with the threshold and key it was made for |
| Redis (2838-3195, 3425-3643) | per worker: context, `ready`, reconnect timer and backoff, breaker, event sequence; in Redis: a sorted set and a ban key per identity | `redis_check` (parks the request), `redis_record` (script), callbacks, `redis_reconnect`, `redis_connect_callback` | each parked request resumes exactly once; one connection per worker; a ban only for enough errors in the window, and on every host; the breaker opens for a reason |
| hiredis adapter (3203-3423) | events and timers of one connection | add/del read/write, timer, cleanup | what it fails to register does not leave requests parked |
| Windows backend (`ngx_http_error_abuse_win32.c`) | owner mutex | acquire, release, replace, wait | one process saves, and another takes over |
| Redis keys, variables, decision log, probe endpoint | none | conversions, read only | |

### Interactions

Several worker processes share the zone and reach it only through the slab
mutex, so one call is one step; what they do not share is the time, which each
event loop caches (`ngx_time()`) before it takes the mutex. Within a worker
everything is callbacks: phases of requests, timers, completion events and
hiredis callbacks run one after the other, and any number of others may run
between two steps of one request. Worker 0 of each nginx generation saves the
zone, partly in a thread of the pool that shares the buffer with the event
loop. During a reload two generations work on one zone and one file. Redis is a
server outside all of this that answers late, never, or after its data is gone;
the zones of several hosts meet there. A reload maps a zone to the memory of the
last cycle by name and size, while workers of that cycle still use it.

### What is hard

- skewed cached times: one ring holds times of several workers, and
  `prune_events()` stops at the first entry that is still in the window;
- rings that wrap, and rings refilled from a file whose lengths may be anything;
- a full slab pool: expiry, eviction and creation relink one list in one call;
- redirects zero the module's slot in `r->ctx` and run the phases again in a
  location that may be off, in dry run, or in another zone; `on_full=reject`
  runs the header filter again on the rejection it has caused;
- power loss, a killed worker, an exit with a task in flight, an abandoned mutex;
- inheritance over three levels, reloads refused half-way, old generations that
  drain on memory a new one has taken over;
- lost connections with parked requests, failures that arrive late, a
  handshake that is refused, a lost script, an allocation that fails; a verdict
  of Redis that is old when the zone of the host is asked.

The list with lines and the properties that cover each item is "hazards" in
`PROJECT.json`.

## 2. The modules

    ErrorAbuseTime             saturating time
      ErrorAbuseZoneOps        the zone as a value, its operations as operators
        ErrorAbuseZoneOpsProofs  (lemmas, used by the proofs below)
        ErrorAbuseZone         workers with skewed clocks calling the zone
          BanPolicy            (the abstract specification it implements)
          ErrorAbuseZoneProofs
        ErrorAbuseRing         the zone with rings as arrays
                               (it implements ErrorAbuseZone)
        ErrorAbuseSnapshot     the records of a snapshot, and loading them
          ErrorAbuseScan       the file, cell by cell: validation and load
                               (with ErrorAbuseRing; implements Snapshot)
            ErrorAbuseScanProofs
          ErrorAbusePersist    who saves when, crashes, restarts, reloads
            ErrorAbusePersistProofs
        ErrorAbuseRequest      requests through nginx's phases, several zones
          ErrorAbuseRequestProofs
      ErrorAbuseRedis          workers sharing bans through Redis
        ErrorAbuseRedisProofs
        ErrorAbuseShared       the same, composed with the zone of each host
          ErrorAbuseSharedProofs
    ErrorAbuseConf             directives, inheritance, memory of a cycle
      ErrorAbuseConfProofs
    MC...                      instances for TLC

`ErrorAbuseZoneOps` is used by all modules with a zone, so requests, snapshots and
shared bans run the real zone code, not a stub of it. Names follow the code:
`Record` is `ngx_http_error_abuse_record`, `EvictOneUnblocked` is
`evict_one_unblocked`, and so on. Operators that begin with `Mut` are wrong
variants of the operator below them; no definition uses them. Each property is
known to fail when one of them replaces the right operator.

**ErrorAbuseZoneOps.** A zone is a record of `queue` (the LRU list, head first)
and `node` (the tree, a function from identities to nodes). A ring is the
sequence of its live entries from `head`; writing at `(head + count) %
threshold` is `Append`, dropping at `head` is `SubSeq`, and the array below is
left out: `ErrorAbuseRing` has it. All digests have one size, so the pool is full when it holds
`Capacity` nodes. Loops over the list become the length of the run they walk
(`ExpireRun`, `BannedRun`, `StaleRun`) and what they leave behind.

**ErrorAbuseZone.** `clock` is the time of day and `now[w]` what worker `w` has
cached, at most `MaxLag` behind; `UpdateTime` sets it to any time that recent, so
a cached time may also go back, as `ngx_time_update` does after a small step of
the wall clock. `DoRecord` and `DoIsBlocked` are whole calls
with their replies; `Tick` and `UpdateTime` are time and `ngx_time_update`.

**ErrorAbuseRing.** The same workers on nodes whose events are `Threshold` slots,
`head` and `count`. `PruneRing`, `Insert` (the write at `(head + count) %
threshold`) and `Cleared` are the code's index arithmetic. `Plain` maps a ring to the
sequence of its entries, and under it every step is a step of `ErrorAbuseZone`
(`RingsImplementZone`, in the run `snapshot`, where rings also come from
files). `Client` are the identities that requests have: a file may hold others. What a ring's slots hold outside of its entries is kept, so that an index
that is off by one reads it.

**ErrorAbuseSnapshot, ErrorAbuseScan.** `Serialize` is the sequence of records
from the tail of the list, `LoadAll` what `load` makes of one: expired records
dropped, bans cut to one that starts now, events outside the window left out
(`InWindow`), `CreateNode` for the rest, so that it
expires and evicts as the code does. Both loops are functions on an interval of
indices, one value per round. `ErrorAbuseScan` has the encoding: a record
is four cells of fixed fields, a digest and its events, and `ValidateRecord`,
`LoadStep` walk over them by the lengths they read. `Damage` changes a cell, cuts
the file short, or changes the header: its checksum, its threshold, its number of
records. A changed cell keeps a matching checksum, the worst case for the walks.
Bytes and endianness are left out.

**BanPolicy** says what the zone promises without list, memory or lock: hits in
a window, a deadline, and which of them a call may change, with errors of at
most `Skew` seconds. Its header lists the promises.

**ErrorAbuseRequest.** A request has a phase (`rewrite`, `content`, `special`,
`header`), a location and the module's context. `Preaccess` and `HeaderFilter`
are the two handlers with everything they call; `PrepareCtx` returns every
result it can have, allocation failures included. nginx is the environment:
`Respond`, `SendSpecial` and `Redirect` do what its phase engine may do, such
as answering in the rewrite phase, so that preaccess never runs. `Redirect` clears `set` (`r->ctx`)
and keeps `anchored` (the cleanup list). `calls`, `hit`, `hit_zone`, `origin`
are history variables.

**ErrorAbusePersist.** Each step of `write_file` is an action (`CreateTemp`,
`WriteAll`, `Flush`, `Replace`, `SyncParent`, or `WriteFails`), for a thread
task and for the event loop. `disk` is the set of contents a power loss may
leave under the path: a rename adds one, a synced directory removes the others,
and a rename of an unflushed file would add a torn one. `WriteAll` reads the
shared buffer, and yields a torn file if the buffer was reused since the write
began. On Windows every worker has the timer, `owner` is the named mutex (which a
dying owner abandons), and replacing the file takes two steps. The records are
those of `ErrorAbuseSnapshot`.

**ErrorAbuseConf.** A configuration is read directive by directive into `draft`;
each handler is an operator that says whether it accepts its arguments and what
it leaves. `TakeOver` ends it: locations inherit (`Effective`), `InitZone` gives
each zone the memory of the last cycle or a new one, and the cycle is taken over
or refused as a whole. `cycles` are the generations that run, each with its configuration and
the memory it uses; `Drain` ends the oldest, `Stop` all, `Save` writes the header of a snapshot. A
zone of the last cycle with the same name and size keeps its memory, as nginx
does.

**ErrorAbuseRedis.** `queue[w]` holds the commands in the order hiredis
answers them. `Execute` is the server taking a command, `Deliver` the callback
with its answer, `Lost` a broken connection or a command timeout: all pending
callbacks with NULL (`AfterAll`), then `disconnect_callback`. Redis counts time in ticks,
`Second` ticks to a second of the workers. `LateRefusal`, `QueueMayFail`,
`AuthMayFail` and `EventMayFail` say which failures an instance has; the last is
the adapter's read event that cannot be registered.

**ErrorAbuseShared.** The actions of `ErrorAbuseRedis` with what they do to the
zone of the host: `Preaccess` is the handler, `Resume` the callbacks of an answer
or of a lost connection and the preaccess runs they cause, in the order of the
commands, `CountResponse` the header filter that counts in the zone and then in
Redis. `asked` remembers the ban Redis held when a request was parked.
Locations enforce, and a full zone lets requests pass. `Entering` makes the
preaccess handler run right after its request arrives: both are one event of a
worker, and nothing it reads is written by other processes in between that they
could not have written before.

## 3. The runs

Every passing run explores its whole state space. The times are those of two
TLC workers beside other work.

| run | instance | shows |
|---|---|---|
| `zone` (2.4 min) | 4 identities, room for 3, threshold 3, scan limits 1 and 2, 2 workers up to a second apart | the four invariants of section 4; `PeekAgreesInOrder`: dry run predicts `record()` wherever lag has not disturbed the ring; `MissAdvances`: a miss that finds only bans moves the scan on by its whole limit, so that pressure reaches an unbanned node; `LossNeedsFullPool`: nobody in use is lost while there is room; `BanStands`; `ImplementsPolicy` |
| `request_flow` (2.1 min) | 2 requests, 2 redirects each, 4 kinds of location, 2 zones with room for 1, failing allocations | `CountedOnce`, `OriginWins`, `RejectionsArePrivate`, `RetryAfterIsTrue`, `StatusIsTrue`, `BanIsEarned`, `BannedAreStopped` |
| `persist_single` (2.8 min) | one process, POSIX or Windows, 2 identities, 2 saves, a power loss, a failing mutex | `NoBanFromDisk`, `RestartKeepsBans`, `RestartKeepsOrder` |
| `persist_reload` (1.7 min) | two processes, POSIX or Windows, 3 saves, a kill, a reload, fairness | `FileIsComplete`, `SnapshotsInOrder`, `SavesGoOn`, `OwnershipPassesOn`: the mutex of an owner that exits or dies is taken over |
| `snapshot` (2.8 min) | rings of 3 slots, a pool of 2 nodes, requests of 2 identities, files with 5, saves, one change to a file, restarts | `LoadLandsOnLast`: the two walks agree on every file, damaged or not; `SnapshotRoundTrip`: an undamaged file is never refused and brings everything back; `RingsImplementZone` |
| `conf` (90 s) | 22 forms of `error_abuse_zone`, 6 of `error_abuse` at 3 levels, 3 of `error_abuse_redis`, 2 generations | `ZonesAreSound`, `EnabledHasZone`, `MemoryFits` |
| `shared` (3.5 min) | 2 hosts with one worker each, 2 requests of one client, threshold 2, one lost connection | `EveryErrorCounts`: no error overwrites another in the sorted set; `BanReachesEveryHost`; `LocalBanAlwaysStops` |
| `redis_faults` (80 s) | 1 worker, 2 requests, outage, flush, refused login, failing queues and events, late refusals | `ParkedOnce`, `OneConnection`, `BreakerCountsFailures`, `RedisBanIsEarned` |
| `redis_live` (90 s) | 1 worker, 1 request, 2 outages, fairness | `ParkedResumes`, `Reconnects` |

Three runs are expected to fail; section 5 explains what they find:
`zone_reclaim` (`ReclaimOnlyAgedOut`), `zone_peek_skew` (`PeekAgrees`) and
`redis_refused` (`Reconnects`).

### Why the bounds are enough

- *Zone.* The interesting cases need a pool smaller than the number of
  identities, a threshold above one (2 for a ban by a second error, 3 for a
  ring with an order), a window, a ban and an idle time that can all run out
  within `MaxTime`, and scan limits below the pool size so that a scan can stop
  early. All hold. `TimeMax` is just above `MaxTime`, so that late bans
  saturate. Two workers are enough for skew: a call depends on the caller's
  time only. The proofs remove all of these bounds for what they cover.
- *Requests.* Two requests are needed for one to change what the other has
  read; two redirects for a return to the origin; zones with room for one
  node for `on_full`. Threshold one makes each counted request a ban, so that a request
  counted twice, or not at all, is a ban too many or too few.
- *Persistence.* Two saves let a second snapshot race the first, a third one
  follows a restart. `persist_reload` has one tick and one identity, because
  its properties are about writes and not about contents; `persist_single` has
  the times and the identities. `MaxDenied`, failing calls on the mutex, is zero
  in `persist_reload`: a worker whose call has failed never tries again.
- *Snapshots.* Two records are needed for one to begin where a damaged one ends;
  three slots for a ring that wraps with entries on both sides of the end. One
  change to a file is enough to make any record wrong in any field, or missing. A
  cell takes any value that a length, a time or an identity may have, and one
  length above the threshold (`Key` is 0 to 4), so that a changed digest is another
  identity.
- *Configurations.* `MaxDirectives` is 3, enough for two zones and a location, or
  one zone and two levels. Two configurations taken over give each pair of zones
  that a reload can meet; a start after a stop finds the snapshot of either.
- *Shared bans.* Two hosts are needed for one to count what stops the other, and
  two requests for one to be parked while the other is counted. Redis fails here
  as a connection that is lost; its other failures are in `redis_faults`, and the
  proofs have all of them but the read event that cannot be registered, which is no
  step of `ErrorAbuseShared`.
- *Redis.* Two failures open the breaker, which runs out within `MaxTime`; the
  delay doubles up to its cap. `redis_faults` has two ticks to a second, so
  that the clocks of Redis and of the workers disagree.
- `CHECK_DEADLOCK FALSE` where the bounds stop an instance: requests are
  finite, processes may all have exited, saves and errors are capped. The zone
  runs check deadlock: the zone never stops answering.

### Fairness

- *Persistence*: a write comes to its end, well or not (the thread pool runs
  what is posted; system calls return), and the event loop handles the
  completion event and the timer, which re-arms itself. Restarts and faults are not
  fair. Nothing says that a save succeeds.
- *Redis*: an outage ends (`Recovery`); a reconnect timer that is set fires; a
  connection attempt comes up or fails; and for each connection with commands,
  one of: the server answers, an answer is read, or the command timeout
  ends the connection. The last one makes `ParkedResumes` independent of a
  server that stays silent. Nothing assumes that requests arrive or that an
  attempt succeeds.
- *Zone*: the fairness of time in `FairSpec` serves `zone_reclaim` only; all
  zone properties are safety.

## 4. The proofs

Seven modules hold theorems about components. An eighth, `ErrorAbuseZoneOpsProofs`,
holds what four of them share: lemmas about sequences and about the operations of
a zone. Every safety property of a passing run is proved.
The properties are those of the runs: a run shows one on a small instance, its
theorem shows it for every value of the constants that meets the assumptions.
`PROJECT.json` lists the theorems.

### The zone's operations (`ErrorAbuseZoneOpsProofs`)

The zone is an argument here, so that requests, snapshots and the zone's own
workers share the lemmas. `ZoneInv(z, clock, lag)` says that list and tree agree,
rings have room and are in order up to `lag`, and no event is later than the node
was last seen by more than `lag`. `RecordFacts` and `IsBlockedFacts` say that
the two calls keep it, at any time at most `lag` behind `clock`, and what they do
to each node; the loops over the list are tail runs, whose length exists because
a nonempty set of naturals has a least element (`LeastNatural`).

### The zone (`ErrorAbuseZoneProofs`)

For every set of workers and identities, every threshold, window, ban, idle time,
pool size, scan limit and lag:

- `TypeCorrect`, `ListAlwaysMatchesTree`, `RingAlwaysHasRoom`,
  `EventsStayBehindLastSeen`: the invariants `TypeOK`, `ListMatchesTree`,
  `RingHasRoom`, `EventsBehindLastSeen` of the run `zone`; `RingsStayNearlySorted`,
  an invariant the argument needs;
- `Refinement`: `Spec => ImplementsPolicy`, the zone implements `BanPolicy`;
- `BansStand`, `LossesNeedFullPool`: the action properties `BanStands` and
  `LossNeedsFullPool`;
- `MissesAdvance`, `PeekAgreesWithRecord`: `MissAdvances` and `PeekAgreesInOrder`.

*Assumptions.* `TimeRange`, `ZoneParameters` (what `error_abuse_zone` enforces:
positive values, `inactive` not below `interval` or `block`), `ZoneLimits` (room
for one node, an eviction scan of one node or more) and `ClockBounds` (a lag, and
a clock that stops before the largest `time_t`). TLC evaluates all of them.

*The inductive invariant.* `IInv` is the conjunction of `TypeOK`,
`ListMatchesTree`, `RingHasRoom`, `NearlySorted` and `EventsBehindLastSeen`;
`Invariance` proves it. The first three are what we want. The
refinement needs the other two: the policy lets a hit leave the window only
when it is old, and `prune_events()` looks at the ring's first entries only, so
what it keeps is recent only because the ring is in order up to the lag
(`NearlySorted`); and `expire()` looks at `last_seen` only, so what it deletes
is dead only because no event is much later than that
(`EventsBehindLastSeen`) and `inactive` is not below `interval`.

*The argument.* The first lemmas are about sequences without a duplicate
(tail runs, cutting out a member, moving a suffix to the front). The next layer
says what each operator does to list and tree (`ExpireFacts`, `EvictFacts`,
`MakeRoomFacts`, `FindTouchFacts`, `TrackingFacts`), the one after that what it
does to a node (`PruneFacts`, `CountErrorInv`, `SettleNodeInv`). `RecordFacts`
and `IsBlockedFacts` combine them per call, and `NextIInv` per action. For the refinement,
`RecordStep` and `IsBlockedStep` show that a call is the policy's call:
the witness for how far the window slides is the length of the stale run, an
expired node is `Dead`, and at most one node that is not dead is lost, the one
`evict_one_unblocked` deletes. `Tick` maps to the policy's `Tick`, and
`UpdateTime` to a stutter. `BanStands` then follows by cases on the action.
For `MissAdvances`, a call that finds no room has expired nothing and has met bans
only, as many as the scan limit: the list is rotated by that many, and every
other node is that much closer to the tail. `PeekAgreesInOrder` compares a count of
events in the window with the length of what `prune_events()` keeps; both are the
same suffix of the ring if the ring is in order.

### Requests (`ErrorAbuseRequestProofs`)

All eight properties of the run `request_flow`, for any requests, clients,
locations, configurations of locations, zones and redirects, from
`RequestParameters` and the zone's assumptions. The inductive invariant has three
parts. `ReqInv` is about one request: which contexts can be in its slot or
anchored in which phase, that it counts at most once and never after its own
rejection, that what it was counted for is the origin's zone, and how a request
that is over came to its status. `TellsTrue` is about a request and a zone: a
deadline it holds is that of a ban that still runs or has run out since.
`EarnedBy` is about a zone and all requests: the errors in a ring, or a ban, are
backed by that many requests that were counted for this client. The steps of a
request are those of one record (`PreaccessStep`, `HeaderFilterStep`); what the
other requests lose or keep follows from what a call leaves of a zone
(`ZoneInv` with a lag of 0, because the model has one clock here).

### Persistence (`ErrorAbusePersistProofs`)

`TypeOK`, `FileIsComplete`, `NoBanFromDisk`, `SnapshotsInOrder`, `RestartKeepsBans`
and `RestartKeepsOrder`, for any
identities, processes, saves, failures, kills, crashes and reloads, on POSIX and
Windows, from `PersistBounds` and the zone's assumptions. The inductive invariant
says that every snapshot, in a buffer, in the file or among what a power loss may
leave, is complete, was numbered by a save that has happened, and holds only bans
that `record()` granted (`GoodSnap`); that a writer at work has a buffer nobody
reuses, which holds because `persist_busy` stays set until the completion event
and the final save waits for nobody (`GoodProc`); that on Windows the owner of the
mutex is the only writer; and that a writer's number is not below the file's
(`InOrder`). That a load keeps `ZoneInv` and lengthens no ban is an induction over
the records, and inside a record over its events: `LoadAll` and `InWindow` are
recursive functions on `0 .. n`, whose existence and whose values both follow by
`UpTo`, induction up to a bound as membership in a set.

`RestartsKeepBans` and `RestartsKeepOrder` are about a restart from a snapshot that
was taken since the zone last changed (`fresh`). Two more invariants are needed.
`FreshInv`: every snapshot with that number, in a buffer, in the file or in what a
power loss may leave, has the records of one zone `z`, and the zone in memory is `z`
or a load of `z` at some time since, for there may be several restarts from one file.
`ReachInv`: no ban is longer than one that starts now, which is what `load` cuts bans
to. `LoadSerialized` then follows the load record by record (`LoadRounds`):
after `i` of them the zone has at most `i` nodes, so that there is room and
`create_node` expires and evicts nothing; those nodes are the ones of the last `i`
members of the list for which something is left, in the order of the list
(`LoadedUpTo`); and each is the node it was, with what had run out gone
(`RestoredIsSame`). That an event outside the window is dropped alone, where
`prune_events()` drops a prefix, makes no difference in a ring that is in order.

### Rings and the file (`ErrorAbuseScanProofs`)

`LoadLandsOnLast`, `SnapshotRoundTrip` and `RingsImplementZone`, for any threshold,
pool, clients, workers and files, from the zone's assumptions, `RingBounds`,
`ClientsAreKeys` and `CellsAreDigests` (a cell is a number, and any cell may be read
as an identity, as any 32 bytes may).

*Rings.* `PlaceOf` is the arithmetic: the slot at a distance of at most the threshold
from `head` is the sum, or the sum less the threshold. From it, `PruneRingFacts`
and `InsertFacts` say that moving `head` drops a prefix of the entries, and that a
write at `(head + count) % threshold` meets no slot of another entry while there is
room. No operator on list and tree looks at events, so each commutes with `Plain`
(`ExpireAlike` to `FindTouchAlike`), and a call does (`RingRecordAlike`,
`RingIsBlockedAlike`). The invariant is `RingZone`: list and tree agree, every node
has a ring. It needs neither order nor plausible times, and so survives the load
of a file that anything has changed (`LoadedAlike`).

*The walks.* `WalkInv` says what a walk has behind it: in `validate_snapshot` a path
of valid records that ends at `p`; in `load` such a path from the first cell to the
last, with `p` on it. What `validate_snapshot` asks of a record is what `load` asks
again (`AskedAlike`), and both move by what they have read, so `load` cannot leave
the path, and the path ends where the cells do.

*The round trip.* `IsSource` names the zone a snapshot was made of, and for each of
its records the cell it ends with (`Lays`, from the rounds of `serialize()` in
`PayloadFacts`). These cells are such a path (`LaidIsValid`), and each record is
decoded as it was saved (`LaidIsDecoded`), wherever its ring began. After `i`
records the zone with rings stands for the one of `i` rounds of `LoadAll`, and has at
most `i` nodes (`HasLoaded`), so that the next one finds room (`LoadedInRoom`).

### Configurations (`ErrorAbuseConfProofs`)

`MemoryAlwaysFits`, `EnabledAlwaysHasZone` and `ZonesStaySound` prove the invariants
`MemoryFits`, `EnabledHasZone` and `ZonesAreSound` for every set of arguments the directives may have and any number of
directives, generations, saves, restarts and drains, from the assumption `Limits`.
The inductive invariant `CInv` adds what holds of the configuration that is being
read: a level that is switched on names a declared zone, one that is not names none
(`LocSound`). A merge keeps that, because `merge_loc_conf` takes the parent's zone
only for a location that the merge leaves switched on. `MemoryFits` is inductive by itself: memory
is kept only from the last cycle, whose zones met the test of `init_zone`.
It says that memory is of the threshold and the key of every generation that uses
it, and that the snapshot loaded into it was saved under that threshold. It says
nothing of a snapshot's key: the header does not name one, so that after a reload
that changes size and key together, or a swap of two paths, `load` takes
identities of another key, which match nobody and age out.
`ZonesAreSound` is what ties the modules together: it is `ZoneParameters`, which
the zone's proofs assume, with the list of statuses. `ZInv` adds it for the zones
that are being read. It follows from what `ReadZone` refuses, and from
the default of `inactive`, the largest of the three times.

### Redis (`ErrorAbuseRedisProofs`)

For any number of workers, requests, commands, outages and processes that exit,
with every kind of failure allowed, from the assumptions `TimeRange`,
`RedisParameters` and `RedisClock` (the workers' clock begins with second 1 and stays
below the largest `time_t`, so that the end of an open breaker is in the future even
when it saturates): `ParkedExactlyOnce`, `OneConnectionAlways`,
`EveryErrorStaysCounted`, and the action properties `BreakerOpensInTime` and
`RedisBansAreEarned`.

*Connections.* The invariant `RInv` says that

- commands wait only on an open or closing connection, and the timer runs only
  without one (`Connections`): so neither a reconnect nor a refused attempt can
  drop a command;
- each command with a request is that of a request parked on this worker, no two
  have the same request, and each parked request has one (`Parking`).

`Park` puts a command behind the others, `Deliver` takes the first and moves the
rest (`RestFacts`), `Lost` and `ExitProcess` empty the queue and resume everybody
(`DroppedParking`), all other steps leave who waits for what alone (`ParkingKept`).
That `ParkedOnce` follows is a count of a set with one element.

*Errors and failures.* `EInv` adds to `RInv`

- `BreakerInv`: the worker's counter is the number of failures since the last good
  answer, until there are `BreakerThreshold` of them. A lost connection runs any
  number of callbacks in one step; `AfterAllCounts` is an induction over them;
- `Numbers`: each error that waits has a number its worker has used up, no two have
  the same, and an error Redis has not taken is not in any sorted set, unless the
  connection is cut. Redis takes commands in order (`InOrder`), so it takes none twice
  (`TakenOnce`);
- `Gone`: a worker that exits queues nothing any more, so that its numbers, which
  the model starts again at zero, are never given out again;
- `Counts`: what Redis holds of an identity and what was counted since its last ban
  are equally many *for every beginning of the window from now on*. This is
  stronger than `EveryErrorCounts`, which is about the window at this moment: as time
  passes the window moves, and one count that agrees says nothing about the next.
  That Redis may drop a key after `inactive` without an error is where
  `inactive >= interval` is needed (`MatchesLater`).

The state a step leaves is derived once for the steps of a single worker
(`WorkerStep`) and once for those of the environment (`OthersStep`).

### Redis and the zones (`ErrorAbuseSharedProofs`)

The three properties of the run `shared`, for any hosts and workers, from
`SharedParameters` and what the Redis proofs assume, and with outages, data loss and
refused logins, which the run leaves out.

- `SharedImplementsRedis`: `SharedSpec => Spec`. Every step with a zone is a step of
  `ErrorAbuseRedis`, so `EInv` holds here and `SharedErrorsStayCounted` follows.
- `LocalBansStop`: a request passes only in a step that looks into a zone, and
  that zone is the one of its own host. In the steps that resume a request this
  needs `CalledBack`: an answer on the connection of a worker is for a
  request of that worker.
- `BansReachEveryHost`: the invariant `SInv` adds to `EInv` what the GET of a parked
  request says about the ban that ran when it was parked (`Asking`). Redis answers
  NIL only when that ban is over. Until it has answered, the ban stands in Redis,
  or is over, or the connection is cut. That a ban is never replaced by a shorter
  one is `BanLasts`: none ends later than one that starts now. An outage may lose
  a ban early, and cuts every connection on which a command waits; such a command
  is answered with NULL, which counts as a failure (`AfterAllCounts`).

### What is only model-checked

- The liveness properties `SavesGoOn`, `OwnershipPassesOn`, `ParkedResumes`,
  `Reconnects`: the prover does neither liveness under fairness nor `ENABLED`.

The three runs that are expected to fail refute their properties, and prove nothing.
Induction over data through an operator parameter is out of the prover's reach.
The loops it needs are recursive functions on an interval of indices instead,
for which `UpTo` is enough.

## 5. Where code and documentation disagree

1. `README.md:173` says that in a full zone "only unblocked, aged-out
   identities can be reclaimed". `evict_one_unblocked()` (`module.c:647`)
   deletes the first unbanned node from the tail, aged out or not
   (`zone_reclaim`). The promise that holds is `LossNeedsFullPool` together
   with `BanStands`.
2. A comment says that `peek()` "Computes what a tracked response WOULD do"
   (`module.c:1014`). It counts the entries in the window one by one, while
   `record()` keeps every entry behind the first that is in the window
   (`module.c:888`). Under clock skew they differ, and `record()` may ban where
   dry run sees one error less (`zone_peek_skew`). While a ring is in order they
   agree (`PeekAgreesInOrder`).
3. A connection attempt that fails after `redisAsyncConnect` returned reaches
   `redis_connect_callback` with an error. It only clears `ready`
   (`module.c:3506`): no timer is armed, hiredis does not call the disconnect
   callback for a connection that never was, and the worker stays without Redis
   (`redis_refused`). `ci/tools/test_runtime.py:1791` expects "the workers
   reconnect (backoff) and shared blocking resumes". When attempts fail
   at once, or not at all, they do (`redis_live`).

## 6. What is not modelled

- *A wall clock stepped far back.* A cached time goes back by up to `MaxLag`; a
  larger step leaves nodes and files with times in the future. `load()` discards
  what lies there; the zone keeps it.
- *A worker killed inside the mutex.* nginx forces the lock open and the list
  may be half-linked; calls are atomic here.
- *A reload with another interval, block or inactive time on kept memory.* They
  are constants of the zone; `ErrorAbuseConf` lets a reload change them and keep
  the memory, but does not run the zone under both.
- *HMAC of a snapshot (`persist_secret`)*: a file that fails it is refused like
  one whose checksum is wrong. *A record that does not fit the buffer of
  `serialize()`* cannot occur: the buffer is sized for the zone under the same
  lock. *A failed allocation* there skips one save.
- *`shm.exists`*: a Windows worker attaches to memory its master has initialised,
  without a test.
- *Subrequests* leave both handlers at the first test and change nothing.
- *The Redis verdict in dry run and with `on_full=reject`*: `ErrorAbuseShared` has
  locations that enforce, and `ErrorAbuseRequest` has no Redis.
- *A client that aborts while parked*, a parked request that a command timeout
  resumes and that records its error on the connection being closed, hosts whose
  clocks differ, and a Redis key set to something that is not a number.
- *Reconnect jitter, TLS set-up, write events of the adapter.* Their effects are:
  the timer fires some time, an attempt fails, commands are answered or lost.
- *Two generations on one file.* On POSIX nothing orders their saves, and an
  old generation may replace a newer snapshot of the new one. The model has
  the behaviour; `SnapshotsInOrder` is stated per process there.
- *Draining of the thread pool at exit* is nginx's own (`exit_process` finds
  no task in flight).
- *Redis key encoding, variables, logging, probe endpoint, the socket wait and
  mutex naming of Windows, tests*: conversions of text, read-only output, code of
  test builds, or wrappers of system calls.

## 7. Plan

Done: the zone, its policy, its rings; requests, persistence, snapshots,
configurations; Redis and its composition with the zones of several hosts; a proof of
every safety property of a passing run. What could come next:

1. A reload with another interval, block or inactive time on kept memory, as the
   zone's constants becoming variables of `ErrorAbuseConf`.
2. The refused write event of the adapter, beside the read event in
   `ErrorAbuseRedis`.
3. The Redis verdict in dry run and with `on_full=reject`, in `ErrorAbuseShared`.
