--------------------------- MODULE ErrorAbuseScan ---------------------------
(***************************************************************************)
(* The snapshot as serialize() lays it out and as validate_snapshot() and  *)
(* load() walk it (ngx_http_error_abuse_scan.c and the module file).       *)
(*                                                                         *)
(* The payload is a sequence of cells: the four fixed fields of a record,  *)
(* its digest and each of its events are one cell each.  The walks move by *)
(* the lengths they read from the file, as the code's pointers do, and a   *)
(* file that is not as a save wrote it may hold any length.  Of the header *)
(* the threshold, the number of records and whether the CRC32 matches are  *)
(* kept.  With persist_secret a changed file is ignored, so the model has  *)
(* no secret.                                                              *)
(***************************************************************************)
EXTENDS ErrorAbuseRing, ErrorAbuseSnapshot

\* A cell holds a number, and any cell may be read as a digest.
ASSUME CellsAreDigests ==
    /\ Key \subseteq Nat
    /\ 0 .. Threshold + 1 \subseteq Key
    /\ Time \subseteq Key

VARIABLES
    walk,    \* the snapshot and how far its load is; the snapshot is dropped
             \* while workers run, for the next save replaces it
    saved,   \* history: the records of that snapshot
    genuine  \* history: it is as the save wrote it

scanvars == <<clock, now, shm, reply, walk, saved, genuine>>

RecLen == 4     \* NGX_HTTP_ERROR_ABUSE_FILE_REC_LEN
DigestLen == 1  \* NGX_HTTP_ERROR_ABUSE_DIGEST_LEN

\* The header and payload of a snapshot, and the walk: p cells and i records
\* are behind it.  lost: what it has not restored, and why.
Idle == [stage |-> "run", threshold |-> Threshold, records |-> 0, crc |-> TRUE,
         cells |-> <<>>, p |-> 0, i |-> 0, lost |-> "none"]

ScanInit ==
    /\ RingInit
    /\ walk = Idle
    /\ saved = <<>>
    /\ genuine = TRUE

-----------------------------------------------------------------------------
(***************************************************************************)
(* Saving.                                                                 *)
(***************************************************************************)

\* The record whose events are copied from the start of the ring's array.
MutPut(k, n) ==
    <<DigestLen, n.events.count, n.blocked_until, n.last_seen, k>>
        \o [i \in 1 .. n.events.count |-> n.events.slot[i - 1]]

\* The cells of one record.
Put(k, n) ==
    <<DigestLen, n.events.count, n.blocked_until, n.last_seen, k>>
        \o Entries(n.events)

\* serialize: the records from the tail of the list to its head.
Payload(z) ==
    LET n == Len(z.queue)
        cells[i \in 0 .. n] ==
          IF i = 0 THEN <<>>
          ELSE LET k == z.queue[n + 1 - i]
               IN  cells[i - 1] \o Put(k, z.node[k])
    IN  cells[n]

Running == walk.stage = "run"

\* A save that succeeds, and the end of the instance: whatever the workers did
\* before they stopped is lost (ErrorAbusePersist has every save and crash).
Save ==
    /\ Running
    /\ walk' = [Idle EXCEPT !.stage = "down", !.records = Len(shm.queue),
                            !.cells = Payload(shm)]
    /\ saved' = Serialize(Plain(shm))
    /\ shm' = EmptyZone
    /\ reply' = Abstract!NoReply
    /\ genuine' = TRUE
    /\ UNCHANGED <<clock, now>>

Down == walk.stage = "down"

\* Time passes while nothing runs.
Wait ==
    /\ Down
    /\ Passes
    /\ UNCHANGED <<walk, saved, genuine>>

\* Something else has changed the snapshot: a cell, its length or its header.
Damage ==
    /\ Down
    /\ genuine
    /\ \/ \E j \in DOMAIN walk.cells, v \in Key :
             walk' = [walk EXCEPT !.cells[j] = v]
       \/ \E m \in 0 .. Len(walk.cells) - 1 :
             walk' = [walk EXCEPT !.cells = SubSeq(@, 1, m)]
       \/ \E r \in {walk.records - 1, walk.records + 1} \cap Nat :
             walk' = [walk EXCEPT !.records = r]
       \/ walk' = [walk EXCEPT !.threshold = @ + 1]
       \/ walk' = [walk EXCEPT !.crc = FALSE]
    /\ genuine' = FALSE
    /\ UNCHANGED <<clock, now, shm, reply, saved>>

-----------------------------------------------------------------------------
(***************************************************************************)
(* Loading.                                                                *)
(***************************************************************************)

\* Nothing of the snapshot is loaded.
Ignored == [walk EXCEPT !.stage = "done", !.lost = "all"]

\* The start of load, into a new zone, up to the call of validate_snapshot:
\* a file for another threshold is ignored, and one whose checksum is wrong
\* is deleted as well.
Restart(w) ==
    /\ Down
    /\ now' = [v \in Worker |-> now[w]]
    /\ walk' = IF walk.threshold # Threshold \/ ~ walk.crc
               THEN Ignored
               ELSE [walk EXCEPT !.stage = "validate"]
    /\ UNCHANGED <<clock, shm, reply, saved, genuine>>

Left == Len(walk.cells) - walk.p

\* The four fields of the record at p: key_len, event_count, blocked_until
\* and last_seen.
Field(j) == walk.cells[walk.p + j]

\* What validate_snapshot asks of the record at p.
RecordValid ==
    /\ Left >= RecLen
    /\ Field(1) = DigestLen
    /\ Field(2) <= Threshold
    /\ Left - RecLen >= Field(1) + Field(2)

\* What load asks of it again before it reads the digest and the events.
RecordReadable ==
    /\ Left >= RecLen
    /\ ~ (\/ Field(1) # DigestLen
          \/ Field(2) > Threshold
          \/ Left - RecLen < Field(1) + Field(2))

Stride == RecLen + Field(1) + Field(2)

Advanced == [walk EXCEPT !.p = @ + Stride, !.i = @ + 1]

\* One round of ngx_http_error_abuse_validate_snapshot.
ValidateRecord ==
    /\ walk.stage = "validate"
    /\ walk.i < walk.records
    /\ walk' = IF RecordValid THEN Advanced ELSE Ignored
    /\ UNCHANGED <<clock, now, shm, reply, saved, genuine>>

\* The validation that lets cells remain behind the last record.
MutFilled == walk.p <= Len(walk.cells)

Filled == walk.p = Len(walk.cells)

\* Its end: the records must fill the payload.
ValidateEnd ==
    /\ walk.stage = "validate"
    /\ walk.i = walk.records
    /\ walk' = IF Filled
               THEN [walk EXCEPT !.stage = "load", !.p = 0, !.i = 0]
               ELSE Ignored
    /\ UNCHANGED <<clock, now, shm, reply, saved, genuine>>

\* The record at p, as load decodes it.
Decoded ==
    [key  |-> Field(5),
     node |-> [blocked_until |-> Field(3), last_seen |-> Field(4),
               events |-> SubSeq(walk.cells, walk.p + RecLen + DigestLen + 1,
                                 walk.p + Stride)]]

\* The ring a load fills from its first slot.
Refilled(events) ==
    [head |-> 0, count |-> Len(events),
     slot |-> [i \in Slot |-> IF i < Len(events) THEN events[i + 1] ELSE 0]]

\* The node of a record, found or created, with the record's fields.
Loaded(z, rec, t) ==
    LET y == IF rec.key \in DOMAIN z.node
             THEN z ELSE WithZeroRing(CreateNode(z, rec.key, t), rec.key)
        n == Restored(rec.node, t)
    IN  IF rec.key \in DOMAIN y.node
        THEN SetNode(y, rec.key, [n EXCEPT !.events = Refilled(@)])
        ELSE y

\* One round of load's loop, which checks again what it reads.
LoadStep ==
    LET t == now[CHOOSE w \in Worker : TRUE]
        y == Loaded(shm, Decoded, t)
        passed == ~ RecordReadable \/ Spent(Decoded.node, t)
    IN  /\ walk.stage = "load"
        /\ walk.i < walk.records
        /\ shm' = IF passed THEN shm ELSE y
        /\ walk' = CASE ~ RecordReadable ->
                           [walk EXCEPT !.stage = "done", !.lost = "short"]
                     [] RecordReadable /\ ~ passed
                            /\ Decoded.key \notin DOMAIN y.node ->
                           [walk EXCEPT !.stage = "done", !.lost = "full"]
                     [] OTHER -> Advanced
        /\ UNCHANGED <<clock, now, reply, saved, genuine>>

\* All records are in.
LoadEnd ==
    /\ walk.stage = "load"
    /\ walk.i = walk.records
    /\ walk' = [walk EXCEPT !.stage = "done"]
    /\ UNCHANGED <<clock, now, shm, reply, saved, genuine>>

\* The workers start.
Start ==
    /\ walk.stage = "done"
    /\ walk' = Idle
    /\ saved' = <<>>
    /\ UNCHANGED <<clock, now, shm, reply, genuine>>

ScanNext ==
    \/ /\ Running
       /\ RingNext
       /\ UNCHANGED <<walk, saved, genuine>>
    \/ Save \/ Wait \/ Damage
    \/ \E w \in Worker : Restart(w)
    \/ ValidateRecord \/ ValidateEnd \/ LoadStep \/ LoadEnd \/ Start

ScanSpec == ScanInit /\ [][ScanNext]_scanvars

-----------------------------------------------------------------------------
(***************************************************************************)
(* Properties.                                                             *)
(***************************************************************************)

\* ngx_http_error_abuse_scan.h: once validate_snapshot() has accepted a file,
\* whatever wrote it, load() reads nothing outside of it, never meets a record
\* it must refuse, and its stride lands exactly on the end.
LoadLandsOnLast ==
    walk.stage = "done" =>
        /\ walk.lost # "short"
        /\ walk.lost = "none" => walk.p = Len(walk.cells)

\* A snapshot that nothing has damaged is never refused, and loading it gives
\* the zone that was saved, with what had run out in between gone: records,
\* their order, and the rings, wherever in its array a ring began.
SnapshotRoundTrip ==
    walk.stage = "done" /\ genuine =>
        /\ walk.lost = "none"
        /\ Plain(shm) = LoadAll(saved, now[CHOOSE w \in Worker : TRUE])

\* Every call on rings is the call of ErrorAbuseZone on their entries, also
\* when the rings were loaded: slots, heads and the wrap around the end of the
\* array never show.
RingsImplementZone ==
    [][Running /\ walk'.stage = "run" => [Abstract!Next]_(Abstract!vars)]_scanvars

=============================================================================
