---------------------- MODULE ErrorAbusePersistProofs ----------------------
(***************************************************************************)
(* Proofs about ErrorAbusePersist, for any identities, processes, builds,  *)
(* bounds and parameters of the zone.                                      *)
(*                                                                         *)
(* The zone is the one of ErrorAbuseZoneOpsProofs, with one clock: the     *)
(* cached time of every process is the clock, and the lag is 0.            *)
(***************************************************************************)
EXTENDS ErrorAbusePersist, ErrorAbuseZoneOpsProofs

-----------------------------------------------------------------------------
(***************************************************************************)
(* The inductive invariant.                                                *)
(***************************************************************************)

Snapshot == [ok : BOOLEAN, seq : Nat, by : Proc \cup {NoProc},
             recs : Seq([key : Key, node : Node])]

Write == [stage : Stage, src : Nat, tmp : Snapshot]

Process == [run : BOOLEAN, exiting : BOOLEAN, busy : BOOLEAN, buf : Snapshot,
            timer : BOOLEAN, owner : {"none", "owned", "failed"},
            write : [Writer -> Write]]

\* A complete snapshot, one of the sv taken, of a zone that held no ban but
\* those granted and no time after c.
GoodSnap(s, c, g, sv) ==
    /\ s \in Snapshot
    /\ s.ok
    /\ s.seq <= sv
    /\ \A i \in 1 .. Len(s.recs) : RecordInv(s.recs[i], c, g)

\* A writer that is about to put a snapshot in place.
Active(w) == w.stage \notin {"idle", "renamed", "finished"}

\* A call of write_file by the process p: until it has written the buffer, the
\* buffer holds the snapshot it was given; then its temporary file does.
GoodWrite(w, buf, p) ==
    CASE w.stage \in {"queued", "created"} ->
            /\ w.src # 0 /\ w.tmp = NoFile
            /\ buf.seq = w.src /\ buf.by = p
      [] w.stage \in {"written", "flushed", "moved"} ->
            w.src = 0 /\ w.tmp.seq # 0 /\ w.tmp.by = p
      [] OTHER -> w.src = 0 /\ w.tmp = NoFile

\* A process, whose event loop is a writer only while its task is none.
GoodProc(q, p, c, g, sv) ==
    /\ q \in Process
    /\ GoodSnap(q.buf, c, g, sv)
    /\ \A t \in Writer : /\ GoodSnap(q.write[t].tmp, c, g, sv)
                         /\ GoodWrite(q.write[t], q.buf, p)
    /\ q.busy <=> q.write["task"].stage # "idle"
    /\ q.write["loop"].stage # "idle" =>
           q.write["task"].stage \in {"idle", "finished"}
    /\ q.write["loop"].stage # "finished"
    /\ platform = "win32" => q.write["task"].stage = "idle"
    /\ platform = "win32" /\ (\E t \in Writer : Active(q.write[t])) =>
           q.owner = "owned"
    /\ ~ q.run => q = Off
    /\ q.exiting => q.write["loop"].stage # "idle"

\* What q, in the slot p, is about to put in place is newer than the file f.
InOrder(q, p, f) ==
    \A t \in Writer :
        Active(q.write[t]) /\ (platform = "win32" \/ f.by = p) =>
            Pending(q.write[t]) > f.seq

IInv ==
    /\ platform \in {"posix", "win32"}
    /\ clock \in 1 .. MaxTime
    /\ saves \in Nat
    /\ granted \in [Key -> Time]
    /\ ZoneInv(zone, clock, 0)
    /\ BansGranted(zone, granted)
    /\ GoodSnap(file, clock, granted, saves)
    /\ \A s \in disk : GoodSnap(s, clock, granted, saves)
    /\ proc \in [Proc -> Process]
    /\ \A p \in Proc : GoodProc(proc[p], p, clock, granted, saves)
    /\ \A p \in Proc : proc[p].owner = "owned" <=> mutex = p
    /\ \A p \in Proc : InOrder(proc[p], p, file)

-----------------------------------------------------------------------------
(***************************************************************************)
(* Snapshots and processes.                                                *)
(***************************************************************************)

\* A snapshot stays good while the clock goes on, bans are granted and
\* snapshots are taken.
LEMMA GoodSnapLater ==
    ASSUME NEW c \in Int, NEW d \in Int, d = c \/ d = c + 1,
           NEW g \in [Key -> Time], NEW h \in [Key -> Time],
           \A k \in Key : g[k] <= h[k],
           NEW sv \in Nat, NEW sw \in Nat, sv <= sw,
           NEW s, GoodSnap(s, c, g, sv)
    PROVE  GoodSnap(s, d, h, sw)
<1>1. s.seq \in Nat
  BY DEF GoodSnap, Snapshot
<1>2. s.seq <= sw
  BY <1>1 DEF GoodSnap
<1>3. ASSUME NEW rec, RecordInv(rec, c, g) PROVE RecordInv(rec, d, h)
  <2>1. rec.key \in Key /\ NodeInv(rec.node, c, 0)
        /\ rec.node.blocked_until <= g[rec.key]
    BY <1>3 DEF RecordInv
  <2>2. NodeInv(rec.node, d, 0)
    BY <2>1, NodeInvLater
  <2>3. /\ rec.node.blocked_until \in Time
        /\ g[rec.key] \in Time /\ h[rec.key] \in Time /\ g[rec.key] <= h[rec.key]
    BY <2>1 DEF NodeInv, Node
  <2> QED
    BY <2>1, <2>2, <2>3, TimeFacts DEF RecordInv
<1> QED
  BY <1>2, <1>3 DEF GoodSnap

\* So does a process.
LEMMA GoodProcLater ==
    ASSUME NEW c \in Int, NEW d \in Int, d = c \/ d = c + 1,
           NEW g \in [Key -> Time], NEW h \in [Key -> Time],
           \A k \in Key : g[k] <= h[k],
           NEW sv \in Nat, NEW sw \in Nat, sv <= sw,
           NEW q, NEW p, GoodProc(q, p, c, g, sv)
    PROVE  GoodProc(q, p, d, h, sw)
<1>1. GoodSnap(q.buf, d, h, sw)
  BY GoodSnapLater DEF GoodProc
<1>2. \A t \in Writer : GoodSnap(q.write[t].tmp, d, h, sw)
  BY GoodSnapLater DEF GoodProc
<1> QED
  BY <1>1, <1>2 DEF GoodProc

\* The empty snapshot.
LEMMA NoFileFacts ==
    ASSUME NEW c, NEW g, NEW sv \in Nat
    PROVE  /\ GoodSnap(NoFile, c, g, sv)
           /\ NoFile \in Snapshot /\ NoFile.seq = 0 /\ NoFile.by = NoProc
<1>1. PICK y : y = NoFile
  OBVIOUS
<1>2. y.ok /\ y.seq = 0 /\ y.recs = <<>> /\ y.by = NoProc /\ y \in Snapshot
  BY <1>1 DEF NoFile, Snapshot
<1>3. GoodSnap(y, c, g, sv)
  BY <1>2 DEF GoodSnap
<1> QED
  BY <1>1, <1>2, <1>3

\* A process that does nothing.
LEMMA OffFacts ==
    ASSUME NEW c, NEW g, NEW sv \in Nat, NEW p
    PROVE  /\ GoodProc(Off, p, c, g, sv)
           /\ Off.owner = "none" /\ ~ Off.run
           /\ Off \in Process /\ \A f : InOrder(Off, p, f)
<1>1. PICK w : w = Idle
  OBVIOUS
<1>2. w.stage = "idle" /\ w.src = 0 /\ w.tmp = NoFile
  BY <1>1 DEF Idle
<1>3. w \in Write
  BY <1>1, NoFileFacts DEF Idle, Write, Stage
<1>4. PICK q : q = Off
  OBVIOUS
<1>5. /\ q.run = FALSE /\ q.exiting = FALSE /\ q.busy = FALSE
      /\ q.buf = NoFile /\ q.timer = FALSE /\ q.owner = "none"
      /\ q.write = [t \in Writer |-> w]
      /\ q = [run |-> FALSE, exiting |-> FALSE, busy |-> FALSE, buf |-> NoFile,
              timer |-> FALSE, owner |-> "none", write |-> [t \in Writer |-> w]]
  BY <1>1, <1>4 DEF Off
<1>6. \A t \in Writer : q.write[t] = w
  BY <1>5
<1>7. q \in Process
  BY <1>3, <1>5, NoFileFacts DEF Process
<1>8. "task" \in Writer /\ "loop" \in Writer
  BY DEF Writer
<1>9. GoodWrite(w, q.buf, p) /\ ~ Active(w)
  BY <1>2 DEF GoodWrite, Active
<1>10. GoodProc(q, p, c, g, sv)
  BY <1>2, <1>4, <1>5, <1>6, <1>7, <1>8, <1>9, NoFileFacts DEF GoodProc
<1> QED
  BY <1>4, <1>5, <1>6, <1>7, <1>9, <1>10 DEF InOrder

\* The snapshot of a zone.
LEMMA SerializeFacts ==
    ASSUME IInv, NEW p \in Proc,
           NEW s, s = [ok |-> TRUE, seq |-> saves + 1, by |-> p,
                       recs |-> Serialize(zone)]
    PROVE  /\ GoodSnap(s, clock, granted, saves + 1)
           /\ s.seq = saves + 1 /\ s.by = p /\ s.ok
<1>1. PICK r : r = Serialize(zone)
  OBVIOUS
<1>2. PICK n : n = Len(zone.queue)
  OBVIOUS
<1>3. /\ zone.queue \in Seq(Key) /\ n \in Nat
      /\ {zone.queue[i] : i \in 1 .. n} = DOMAIN zone.node
  BY <1>2, LenProperties DEF IInv, ZoneInv, GoodZone, IsZone, WellLinked
<1>4. /\ r = [i \in 1 .. n |-> r[i]]
      /\ \A i \in 1 .. n : /\ r[i].key = zone.queue[n + 1 - i]
                           /\ r[i].node = zone.node[r[i].key]
                           /\ r[i] = [key |-> r[i].key, node |-> r[i].node]
  BY <1>1, <1>2 DEF Serialize
<1>5. \A i \in 1 .. n : r[i].key \in DOMAIN zone.node
  <2>1. \A i \in 1 .. n : n + 1 - i \in 1 .. n
    BY <1>3
  <2>2. \A i \in 1 .. n : zone.queue[i] \in DOMAIN zone.node
    BY <1>3, Zenon
  <2> QED
    BY <1>4, <2>1, <2>2, Zenon
<1>6. ASSUME NEW i \in 1 .. n
      PROVE  RecordInv(r[i], clock, granted) /\ r[i] \in [key : Key, node : Node]
  <2>1. NodeInv(r[i].node, clock, 0)
    BY <1>4, <1>5 DEF IInv, ZoneInv
  <2>2. r[i].key \in Key
    BY <1>5 DEF IInv, ZoneInv, GoodZone, IsZone
  <2>3. r[i].node.blocked_until <= granted[r[i].key]
    BY <1>4, <1>5, <2>2 DEF IInv, BansGranted, Until, NodeOf
  <2>4. r[i].node \in Node
    BY <2>1 DEF NodeInv
  <2> QED
    BY <1>4, <2>1, <2>2, <2>3, <2>4 DEF RecordInv
<1>7. r \in Seq([key : Key, node : Node]) /\ Len(r) = n
  <2>1. r \in [1 .. n -> [key : Key, node : Node]]
    BY <1>4, <1>6
  <2>2. r \in Seq([key : Key, node : Node])
    <3>1. PICK T : T = [key : Key, node : Node]
      OBVIOUS
    <3>2. [1 .. n -> T] \in {[1 .. m -> T] : m \in Nat}
      BY <1>3
    <3>3. r \in UNION {[1 .. m -> T] : m \in Nat}
      BY <2>1, <3>1, <3>2, Zenon
    <3> QED
      BY <3>1, <3>3, SeqDef, Zenon
  <2>3. PICK m \in Nat : m = Len(r) /\ DOMAIN r = 1 .. m
    BY <2>2, LenProperties
  <2>4. DOMAIN r = 1 .. n
    BY <1>4
  <2>5. \A i : i \in 1 .. m <=> i \in 1 .. n
    BY <2>3, <2>4, Zenon
  <2>6. m \in 1 .. m <=> m \in 1 .. n
    BY <2>5, Zenon
  <2>7. n \in 1 .. m <=> n \in 1 .. n
    BY <2>5, Zenon
  <2>8. m = n
    BY <1>3, <2>6, <2>7
  <2> QED
    BY <2>2, <2>3, <2>8
<1>8. /\ s.ok = TRUE /\ s.seq = saves + 1 /\ s.by = p /\ s.recs = r
      /\ saves \in Nat
  BY <1>1 DEF IInv
<1>9. s \in Snapshot
  BY <1>1, <1>7, <1>8 DEF Snapshot
<1> QED
  BY <1>6, <1>7, <1>8, <1>9 DEF GoodSnap

\* What a process is about to put in place is newer than no file at all.
LEMMA PendingFacts ==
    ASSUME NEW w, NEW b, NEW p, w \in Write, GoodWrite(w, b, p), Active(w)
    PROVE  Pending(w) \in Nat /\ Pending(w) > 0
<1>1. w.src \in Nat /\ w.tmp.seq \in Nat /\ w.stage \in Stage
  BY DEF Write, Snapshot
<1> QED
  BY <1>1 DEF GoodWrite, Active, Pending, Stage

LEMMA NoFileInOrder ==
    ASSUME NEW q, NEW p, NEW c, NEW g, NEW sv, GoodProc(q, p, c, g, sv)
    PROVE  InOrder(q, p, NoFile)
<1>1. NoFile.seq = 0
  BY NoFileFacts
<1>2. \A t \in Writer : q.write[t] \in Write /\ GoodWrite(q.write[t], q.buf, p)
  BY DEF GoodProc, Process
<1> QED
  BY <1>1, <1>2, PendingFacts DEF InOrder

-----------------------------------------------------------------------------
(***************************************************************************)
(* Steps.                                                                  *)
(***************************************************************************)

\* A step of the process p, which becomes x, on a zone that may change.
LEMMA ZoneProcStep ==
    ASSUME IInv, NEW p \in Proc, NEW x,
           proc' = [proc EXCEPT ![p] = x],
           platform' = platform, clock' = clock, granted' = granted,
           ZoneInv(zone', clock, 0), BansGranted(zone', granted),
           saves' = saves \/ saves' = saves + 1,
           GoodProc(x, p, clock, granted, saves'),
           GoodSnap(file', clock, granted, saves'),
           \A s \in disk' : GoodSnap(s, clock, granted, saves'),
           x.owner = "owned" <=> mutex' = p,
           \A u \in Proc \ {p} : mutex' = u <=> mutex = u,
           InOrder(x, p, file'),
           \A u \in Proc \ {p} : InOrder(proc[u], u, file')
    PROVE  IInv'
<1>2. saves \in Nat /\ saves' \in Nat /\ saves <= saves' /\ clock \in Int
      /\ granted \in [Key -> Time]
  BY DEF IInv
<1>3. \A k \in Key : granted[k] <= granted[k]
  BY <1>2, TimeFacts
<1>4. PICK ps : ps = proc'
  OBVIOUS
<1>5. /\ ps[p] = x /\ \A u \in Proc \ {p} : ps[u] = proc[u]
      /\ ps \in [Proc -> Process]
  BY <1>4 DEF IInv, GoodProc
<1>6. \A u \in Proc : GoodProc(ps[u], u, clock, granted, saves')
  <2>1. \A u \in Proc \ {p} : GoodProc(proc[u], u, clock, granted, saves')
    BY <1>2, <1>3, GoodProcLater DEF IInv
  <2> QED
    BY <1>5, <2>1
<1>8. \A u \in Proc : ps[u].owner = "owned" <=> mutex' = u
  BY <1>5 DEF IInv
<1>9. \A u \in Proc : InOrder(ps[u], u, file')
  BY <1>5
<1> QED
  BY <1>2, <1>4, <1>5, <1>6, <1>8, <1>9 DEF IInv, GoodProc, InOrder

\* A step of the process p, which becomes x, that leaves the zone alone.
LEMMA ProcStep ==
    ASSUME IInv, NEW p \in Proc, NEW x,
           proc' = [proc EXCEPT ![p] = x],
           UNCHANGED others,
           saves' = saves \/ saves' = saves + 1,
           GoodProc(x, p, clock, granted, saves'),
           GoodSnap(file', clock, granted, saves'),
           \A s \in disk' : GoodSnap(s, clock, granted, saves'),
           x.owner = "owned" <=> mutex' = p,
           \A u \in Proc \ {p} : mutex' = u <=> mutex = u,
           InOrder(x, p, file'),
           \A u \in Proc \ {p} : InOrder(proc[u], u, file')
    PROVE  IInv'
<1>1. /\ platform' = platform /\ clock' = clock /\ granted' = granted
      /\ zone' = zone
  BY DEF others
<1>2. ZoneInv(zone', clock, 0) /\ BansGranted(zone', granted)
  BY <1>1 DEF IInv
<1> QED
  BY <1>1, <1>2, ZoneProcStep

\* A step of the write t of p that does not end the process: the write becomes
\* w, and the buffer b.
WriteBecomes(p, t, b, w) ==
    proc' = [proc EXCEPT ![p] = [proc[p] EXCEPT !.buf = b, !.write[t] = w]]

LEMMA WriteStep ==
    ASSUME IInv, NEW p \in Proc, NEW t \in Writer, NEW b, NEW w,
           proc[p].run,
           proc[p].write[t].stage \notin {"idle", "finished"},
           WriteBecomes(p, t, b, w),
           UNCHANGED others, saves' = saves, mutex' = mutex,
           w \in Write, GoodWrite(w, b, p),
           IF t = "task" THEN w.stage # "idle"
           ELSE w.stage # "finished" /\ (w.stage = "idle" => ~ proc[p].exiting),
           Active(w) => Active(proc[p].write[t]),
           GoodSnap(b, clock, granted, saves),
           GoodSnap(w.tmp, clock, granted, saves),
           GoodSnap(file', clock, granted, saves),
           \A s \in disk' : GoodSnap(s, clock, granted, saves),
           Active(w) /\ (platform = "win32" \/ file'.by = p) =>
               Pending(w) > file'.seq,
           \A u \in Proc \ {p} : InOrder(proc[u], u, file')
    PROVE  IInv'
<1>1. PICK q : q = proc[p]
  OBVIOUS
<1>2. GoodProc(q, p, clock, granted, saves) /\ q \in Process
  BY <1>1 DEF IInv, GoodProc
<1>3. PICK x : x = [q EXCEPT !.buf = b, !.write[t] = w]
  OBVIOUS
<1>4. b \in Snapshot
  BY DEF GoodSnap
<1>5. /\ x \in Process /\ x.run = q.run /\ x.exiting = q.exiting
      /\ x.busy = q.busy /\ x.buf = b /\ x.owner = q.owner
      /\ x.write[t] = w
      /\ \A u \in Writer \ {t} : x.write[u] = q.write[u]
  BY <1>2, <1>3, <1>4 DEF Process
<1>6. Writer = {"task", "loop"} /\ t \in {"task", "loop"}
  BY DEF Writer
<1>7. \A u \in Writer \ {t} : q.write[u].stage \in {"idle", "finished"}
  BY <1>1, <1>2, <1>6 DEF GoodProc
<1>8. \A u \in Writer \ {t} : ~ Active(x.write[u]) /\ GoodWrite(x.write[u], b, p)
  BY <1>2, <1>5, <1>7 DEF GoodProc, GoodWrite, Active
<1>9. x.busy <=> x.write["task"].stage # "idle"
  BY <1>1, <1>2, <1>5, <1>6 DEF GoodProc
<1>10. /\ x.write["loop"].stage # "idle" =>
              x.write["task"].stage \in {"idle", "finished"}
       /\ x.write["loop"].stage # "finished"
       /\ platform = "win32" => x.write["task"].stage = "idle"
       /\ ~ x.run => x = Off
       /\ x.exiting => x.write["loop"].stage # "idle"
  <2>1. CASE t = "task"
    BY <1>1, <1>2, <1>5, <1>6, <1>7, <2>1 DEF GoodProc
  <2>2. CASE t = "loop"
    BY <1>1, <1>2, <1>5, <1>6, <1>7, <2>2 DEF GoodProc
  <2> QED
    BY <1>6, <2>1, <2>2
<1>11. ASSUME platform = "win32", NEW u \in Writer, Active(x.write[u])
       PROVE  x.owner = "owned"
  <2>1. u = t
    BY <1>8, <1>11
  <2>2. Active(q.write[t])
    BY <1>1, <1>5, <1>11, <2>1
  <2> QED
    BY <1>2, <1>5, <1>11, <2>2 DEF GoodProc
<1>12. \A u \in Writer : GoodSnap(x.write[u].tmp, clock, granted, saves)
  BY <1>2, <1>5 DEF GoodProc
<1>13. \A u \in Writer : GoodWrite(x.write[u], x.buf, p)
  BY <1>5, <1>8
<1>14. GoodProc(x, p, clock, granted, saves)
  BY <1>5, <1>9, <1>10, <1>11, <1>12, <1>13 DEF GoodProc
<1>15. InOrder(x, p, file')
  BY <1>5, <1>8 DEF InOrder
<1>16. proc' = [proc EXCEPT ![p] = x]
  BY <1>1, <1>3 DEF WriteBecomes
<1>17. x.owner = "owned" <=> mutex' = p
  BY <1>1, <1>5 DEF IInv
<1>18. \A u \in Proc \ {p} : mutex' = u <=> mutex = u
  OBVIOUS
<1> QED
  BY <1>14, <1>15, <1>16, <1>17, <1>18, ProcStep

\* The process p and its write t.
LEMMA ProcessFacts ==
    ASSUME IInv, NEW p \in Proc, NEW t \in Writer
    PROVE  LET q == proc[p]
               w == q.write[t]
           IN  /\ GoodProc(q, p, clock, granted, saves) /\ q \in Process
               /\ w \in Write /\ GoodWrite(w, q.buf, p)
               /\ GoodSnap(q.buf, clock, granted, saves)
               /\ GoodSnap(w.tmp, clock, granted, saves)
               /\ \A u \in Proc : InOrder(proc[u], u, file)
               /\ GoodSnap(file, clock, granted, saves)
               /\ \A s \in disk : GoodSnap(s, clock, granted, saves)
               /\ q = [q EXCEPT !.buf = q.buf]
BY DEF IInv, GoodProc, Process

\* The write t of p goes on to the stage st.
GoesOn(p, t, st) == proc' = [proc EXCEPT ![p].write[t].stage = st]

LEMMA StageBecomes ==
    ASSUME IInv, NEW p \in Proc, NEW t \in Writer, NEW st \in Stage,
           GoesOn(p, t, st),
           NEW v, v = proc[p].write[t], NEW w, w = [v EXCEPT !.stage = st]
    PROVE  /\ WriteBecomes(p, t, proc[p].buf, w)
           /\ w \in Write
           /\ w.stage = st /\ w.src = v.src /\ w.tmp = v.tmp
<1>1. PICK q \in Process : q = proc[p]
  BY ProcessFacts
<1>2. v \in Write /\ v = q.write[t]
  BY <1>1, ProcessFacts
<1>4. w \in Write /\ w.stage = st /\ w.src = v.src /\ w.tmp = v.tmp
  BY <1>2 DEF Write
<1>5. [q EXCEPT !.write[t].stage = st] = [q EXCEPT !.buf = q.buf, !.write[t] = w]
  BY <1>1, <1>2 DEF Process
<1>6. proc' = [proc EXCEPT ![p] = [q EXCEPT !.write[t].stage = st]]
  BY <1>1 DEF GoesOn
<1>7. WriteBecomes(p, t, q.buf, w)
  BY <1>1, <1>5, <1>6 DEF WriteBecomes
<1> QED
  BY <1>1, <1>4, <1>7

LEMMA CreateTempStep ==
    ASSUME IInv, NEW p \in Proc, NEW t \in Writer, CreateTemp(p, t)
    PROVE  IInv'
<1>1. PICK v : v = proc[p].write[t]
  OBVIOUS
<1>2. PICK w : w = [v EXCEPT !.stage = "created"]
  OBVIOUS
<1>3. /\ proc[p].run /\ v.stage = "queued"
      /\ GoesOn(p, t, "created")
      /\ UNCHANGED <<others, mutex, file, disk, saves>>
  BY <1>1 DEF CreateTemp, Writing, GoesOn
<1>4. /\ WriteBecomes(p, t, proc[p].buf, w)
      /\ w \in Write /\ w.stage = "created" /\ w.src = v.src /\ w.tmp = v.tmp
  <2>1. "created" \in Stage
    BY DEF Stage
  <2> QED
    BY <1>1, <1>2, <1>3, <2>1, StageBecomes
<1>5. /\ GoodWrite(v, proc[p].buf, p) /\ GoodSnap(v.tmp, clock, granted, saves)
      /\ GoodSnap(proc[p].buf, clock, granted, saves)
      /\ \A u \in Proc : InOrder(proc[u], u, file)
      /\ GoodSnap(file, clock, granted, saves)
      /\ \A s \in disk : GoodSnap(s, clock, granted, saves)
  BY <1>1, ProcessFacts
<1>6. /\ GoodWrite(w, proc[p].buf, p) /\ Active(v)
      /\ Pending(w) = Pending(v)
  BY <1>3, <1>4, <1>5 DEF GoodWrite, Active, Pending
<1>7. (platform = "win32" \/ file.by = p) => Pending(w) > file.seq
  BY <1>1, <1>5, <1>6 DEF InOrder
<1> QED
  BY <1>1, <1>3, <1>4, <1>5, <1>6, <1>7, WriteStep

LEMMA FlushStep ==
    ASSUME IInv, NEW p \in Proc, NEW t \in Writer, Flush(p, t)
    PROVE  IInv'
<1>1. PICK v : v = proc[p].write[t]
  OBVIOUS
<1>2. PICK w : w = [v EXCEPT !.stage = "flushed"]
  OBVIOUS
<1>3. /\ proc[p].run /\ v.stage = "written"
      /\ GoesOn(p, t, "flushed")
      /\ UNCHANGED <<others, mutex, file, disk, saves>>
  BY <1>1 DEF Flush, Writing, GoesOn
<1>4. /\ WriteBecomes(p, t, proc[p].buf, w)
      /\ w \in Write /\ w.stage = "flushed" /\ w.src = v.src /\ w.tmp = v.tmp
  <2>1. "flushed" \in Stage
    BY DEF Stage
  <2> QED
    BY <1>1, <1>2, <1>3, <2>1, StageBecomes
<1>5. /\ GoodWrite(v, proc[p].buf, p) /\ GoodSnap(v.tmp, clock, granted, saves)
      /\ GoodSnap(proc[p].buf, clock, granted, saves)
      /\ \A u \in Proc : InOrder(proc[u], u, file)
      /\ GoodSnap(file, clock, granted, saves)
      /\ \A s \in disk : GoodSnap(s, clock, granted, saves)
  BY <1>1, ProcessFacts
<1>6. /\ GoodWrite(w, proc[p].buf, p) /\ Active(v)
      /\ Pending(w) = Pending(v)
  BY <1>3, <1>4, <1>5 DEF GoodWrite, Active, Pending
<1>7. (platform = "win32" \/ file.by = p) => Pending(w) > file.seq
  BY <1>1, <1>5, <1>6 DEF InOrder
<1> QED
  BY <1>1, <1>3, <1>4, <1>5, <1>6, <1>7, WriteStep

\* write_all finds the snapshot it was given still in the buffer.
LEMMA WriteAllStep ==
    ASSUME IInv, NEW p \in Proc, NEW t \in Writer, WriteAll(p, t)
    PROVE  IInv'
<1>1. PICK v : v = proc[p].write[t]
  OBVIOUS
<1>2. PICK b : b = proc[p].buf
  OBVIOUS
<1>3. /\ proc[p].run /\ v.stage = "created"
      /\ UNCHANGED <<others, mutex, file, disk, saves>>
  BY <1>1 DEF WriteAll, Writing
<1>4. /\ v \in Write /\ GoodWrite(v, b, p)
      /\ GoodSnap(b, clock, granted, saves)
      /\ \A u \in Proc : InOrder(proc[u], u, file)
      /\ GoodSnap(file, clock, granted, saves)
      /\ \A s \in disk : GoodSnap(s, clock, granted, saves)
  BY <1>1, <1>2, ProcessFacts
<1>5. b.seq = v.src /\ v.src # 0 /\ b.by = p
  BY <1>3, <1>4 DEF GoodWrite
<1>6. PICK w : w = [stage |-> "written", src |-> 0, tmp |-> b]
  OBVIOUS
<1>7. /\ w \in Write /\ w.stage = "written" /\ w.src = 0 /\ w.tmp = b
  BY <1>4, <1>6 DEF Write, Stage, GoodSnap
<1>8. WriteBecomes(p, t, NoFile, w)
  BY <1>1, <1>2, <1>5, <1>6 DEF WriteAll, WriteBecomes
<1>9. /\ GoodWrite(w, NoFile, p) /\ Active(v)
      /\ Pending(w) = Pending(v)
  BY <1>3, <1>5, <1>7 DEF GoodWrite, Active, Pending
<1>10. (platform = "win32" \/ file.by = p) => Pending(w) > file.seq
  BY <1>1, <1>4, <1>9 DEF InOrder
<1>11. GoodSnap(NoFile, clock, granted, saves)
  BY NoFileFacts DEF IInv
<1> QED
  BY <1>1, <1>3, <1>4, <1>7, <1>8, <1>9, <1>10, <1>11, WriteStep

\* A write that has put its snapshot in place, or has moved the old one away,
\* and the writes of the other processes.
LEMMA OthersInOrder ==
    ASSUME IInv, NEW p \in Proc, NEW t \in Writer,
           Active(proc[p].write[t]), NEW f, f.by = p,
           NEW u \in Proc \ {p}
    PROVE  InOrder(proc[u], u, f)
<1>1. PICK q : q = proc[p]
  OBVIOUS
<1>2. GoodProc(q, p, clock, granted, saves)
      /\ GoodProc(proc[u], u, clock, granted, saves)
  BY <1>1 DEF IInv
<1>3. CASE platform = "win32"
  <2>1. q.owner = "owned"
    BY <1>1, <1>2, <1>3 DEF GoodProc
  <2>2. mutex = p
    BY <1>1, <2>1 DEF IInv
  <2>3. proc[u].owner # "owned"
    BY <2>2 DEF IInv
  <2>4. \A v \in Writer : ~ Active(proc[u].write[v])
    BY <1>2, <1>3, <2>3 DEF GoodProc
  <2> QED
    BY <2>4 DEF InOrder
<1>4. CASE platform # "win32"
  BY <1>4 DEF InOrder
<1> QED
  BY <1>3, <1>4

LEMMA ReplaceStep ==
    ASSUME IInv, NEW p \in Proc, NEW t \in Writer, Replace(p, t)
    PROVE  IInv'
<1>1. PICK v : v = proc[p].write[t]
  OBVIOUS
<1>2. PICK w : w = [Idle EXCEPT !.stage = "renamed"]
  OBVIOUS
<1>3. /\ proc[p].run /\ v.stage \in {"flushed", "moved"}
      /\ file' = v.tmp /\ disk' = disk \cup {v.tmp}
      /\ proc' = [proc EXCEPT ![p].write[t] = w]
      /\ UNCHANGED <<others, mutex, saves>>
  BY <1>1, <1>2 DEF Replace, Writing
<1>4. /\ w \in Write /\ w.stage = "renamed" /\ w.src = 0 /\ w.tmp = NoFile
  BY <1>2, NoFileFacts DEF Write, Stage, Idle
<1>5. /\ GoodWrite(v, proc[p].buf, p) /\ GoodSnap(v.tmp, clock, granted, saves)
      /\ GoodSnap(proc[p].buf, clock, granted, saves)
      /\ \A s \in disk : GoodSnap(s, clock, granted, saves)
      /\ proc[p] \in Process
  BY <1>1, ProcessFacts
<1>6. WriteBecomes(p, t, proc[p].buf, w)
  <2>1. PICK q \in Process : q = proc[p]
    BY <1>5
  <2>2. [q EXCEPT !.write[t] = w] = [q EXCEPT !.buf = q.buf, !.write[t] = w]
    BY <2>1 DEF Process
  <2>3. proc' = [proc EXCEPT ![p] = [q EXCEPT !.write[t] = w]]
    BY <1>3, <2>1
  <2> QED
    BY <2>1, <2>2, <2>3 DEF WriteBecomes
<1>7. GoodWrite(w, proc[p].buf, p) /\ Active(v) /\ ~ Active(w) /\ v.tmp.by = p
  BY <1>3, <1>4, <1>5 DEF GoodWrite, Active
<1>8. \A u \in Proc \ {p} : InOrder(proc[u], u, file')
  BY <1>1, <1>3, <1>7, OthersInOrder
<1>9. GoodSnap(NoFile, clock, granted, saves)
  BY NoFileFacts DEF IInv
<1> QED
  BY <1>1, <1>3, <1>4, <1>5, <1>6, <1>7, <1>8, <1>9, WriteStep

LEMMA MoveAwayStep ==
    ASSUME IInv, NEW p \in Proc, NEW t \in Writer, MoveAway(p, t)
    PROVE  IInv'
<1>1. PICK v : v = proc[p].write[t]
  OBVIOUS
<1>2. PICK w : w = [v EXCEPT !.stage = "moved"]
  OBVIOUS
<1>3. /\ proc[p].run /\ v.stage = "flushed"
      /\ GoesOn(p, t, "moved")
      /\ file' = NoFile /\ disk' = disk \cup {NoFile}
      /\ UNCHANGED <<others, mutex, saves>>
  BY <1>1 DEF MoveAway, Writing, GoesOn
<1>4. /\ WriteBecomes(p, t, proc[p].buf, w)
      /\ w \in Write /\ w.stage = "moved" /\ w.src = v.src /\ w.tmp = v.tmp
  <2>1. "moved" \in Stage
    BY DEF Stage
  <2> QED
    BY <1>1, <1>2, <1>3, <2>1, StageBecomes
<1>5. /\ GoodWrite(v, proc[p].buf, p) /\ GoodSnap(v.tmp, clock, granted, saves)
      /\ GoodSnap(proc[p].buf, clock, granted, saves)
      /\ \A s \in disk : GoodSnap(s, clock, granted, saves)
  BY <1>1, ProcessFacts
<1>6. GoodWrite(w, proc[p].buf, p) /\ Active(v) /\ Active(w)
  BY <1>3, <1>4, <1>5 DEF GoodWrite, Active
<1>7. Pending(w) > 0 /\ NoFile.seq = 0
  BY <1>4, <1>6, PendingFacts, NoFileFacts
<1>8. \A u \in Proc : InOrder(proc[u], u, NoFile)
  BY NoFileInOrder DEF IInv
<1>9. GoodSnap(NoFile, clock, granted, saves)
  BY NoFileFacts DEF IInv
<1> QED
  BY <1>1, <1>3, <1>4, <1>5, <1>6, <1>7, <1>8, <1>9, WriteStep

\* The process p is gone, and the mutex with it.
Leaves(p) ==
    /\ proc' = [proc EXCEPT ![p] = Off]
    /\ mutex' = IF mutex = p THEN NoProc ELSE mutex

LEMMA LeaveStep ==
    ASSUME IInv, NEW p \in Proc, Leaves(p), UNCHANGED others, saves' = saves,
           file' = file, \A s \in disk' : GoodSnap(s, clock, granted, saves)
    PROVE  IInv'
<1>1. PICK x : x = Off
  OBVIOUS
<1>2. /\ GoodProc(x, p, clock, granted, saves) /\ x.owner = "none"
      /\ InOrder(x, p, file)
  BY <1>1, OffFacts DEF IInv
<1>3. /\ proc' = [proc EXCEPT ![p] = x]
      /\ mutex' = IF mutex = p THEN NoProc ELSE mutex
  BY <1>1 DEF Leaves
<1>4. mutex' # p /\ \A u \in Proc \ {p} : mutex' = u <=> mutex = u
  BY <1>3, PersistBounds
<1>5. /\ GoodSnap(file, clock, granted, saves)
      /\ \A u \in Proc : InOrder(proc[u], u, file)
  BY DEF IInv
<1> QED
  BY <1>2, <1>3, <1>4, <1>5, ProcStep

\* A write comes to its end.
LEMMA FinishedStep ==
    ASSUME IInv, NEW p \in Proc, NEW t \in Writer, proc[p].run,
           proc[p].write[t].stage \notin {"idle", "finished"},
           proc' = Finished(p, t), mutex' = Released(p, t),
           UNCHANGED others, saves' = saves, file' = file,
           \A s \in disk' : GoodSnap(s, clock, granted, saves)
    PROVE  IInv'
<1>1. CASE proc[p].exiting /\ t = "loop"
  <2>1. Leaves(p)
    BY <1>1 DEF Leaves, Finished, Released
  <2> QED
    BY <2>1, LeaveStep
<1>2. CASE ~ (proc[p].exiting /\ t = "loop")
  <2>1. PICK q : q = proc[p]
    OBVIOUS
  <2>2. PICK b : b = IF q.buf.seq = q.write[t].src THEN NoFile ELSE q.buf
    OBVIOUS
  <2>3. PICK w : w = IF t = "task" THEN [Idle EXCEPT !.stage = "finished"] ELSE Idle
    OBVIOUS
  <2>4. mutex' = mutex
    BY <1>2 DEF Released
  <2>5. proc' = [proc EXCEPT ![p] = [q EXCEPT !.buf = b, !.write[t] = w]]
    <3>1. ~ (q.exiting /\ t = "loop")
      BY <1>2, <2>1
    <3> QED
      BY <2>1, <2>2, <2>3, <3>1, Zenon DEF Finished
  <2>6. WriteBecomes(p, t, b, w)
    BY <2>1, <2>5 DEF WriteBecomes
  <2>7. /\ w \in Write /\ w.src = 0 /\ w.tmp = NoFile
        /\ w.stage = IF t = "task" THEN "finished" ELSE "idle"
    BY <2>3, NoFileFacts DEF Write, Stage, Idle
  <2>8. GoodWrite(w, b, p) /\ ~ Active(w)
    BY <2>7 DEF GoodWrite, Active
  <2>9. GoodSnap(NoFile, clock, granted, saves)
    BY NoFileFacts DEF IInv
  <2>10. /\ GoodSnap(b, clock, granted, saves)
         /\ GoodSnap(file, clock, granted, saves)
         /\ \A u \in Proc : InOrder(proc[u], u, file)
    BY <2>1, <2>2, <2>9, ProcessFacts
  <2>11. /\ IF t = "task" THEN w.stage # "idle"
            ELSE /\ w.stage # "finished"
                 /\ w.stage = "idle" => ~ proc[p].exiting
         /\ GoodSnap(w.tmp, clock, granted, saves)
         /\ GoodSnap(file', clock, granted, saves)
         /\ \A u \in Proc \ {p} : InOrder(proc[u], u, file')
    BY <1>2, <2>7, <2>9, <2>10 DEF Writer
  <2> QED
    BY <2>4, <2>6, <2>7, <2>8, <2>10, <2>11, WriteStep
<1> QED
  BY <1>1, <1>2

LEMMA SyncParentStep ==
    ASSUME IInv, NEW p \in Proc, NEW t \in Writer, SyncParent(p, t)
    PROVE  IInv'
<1>1. /\ proc[p].run /\ proc[p].write[t].stage \notin {"idle", "finished"}
      /\ proc' = Finished(p, t) /\ mutex' = Released(p, t)
      /\ UNCHANGED <<others, file, saves>>
      /\ disk' = disk \/ disk' = {file}
  BY DEF SyncParent, Writing
<1>2. \A s \in disk' : GoodSnap(s, clock, granted, saves)
  BY <1>1 DEF IInv
<1> QED
  BY <1>1, <1>2, FinishedStep

LEMMA WriteFailsStep ==
    ASSUME IInv, NEW p \in Proc, NEW t \in Writer, WriteFails(p, t)
    PROVE  IInv'
<1>1. /\ proc[p].run /\ proc[p].write[t].stage \notin {"idle", "finished"}
      /\ proc' = Finished(p, t) /\ mutex' = Released(p, t)
      /\ UNCHANGED <<others, file, disk, saves>>
  BY DEF WriteFails, Writing
<1>2. \A s \in disk' : GoodSnap(s, clock, granted, saves)
  BY <1>1 DEF IInv
<1> QED
  BY <1>1, <1>2, FinishedStep

LEMMA PersistCompleteStep ==
    ASSUME IInv, NEW p \in Proc, PersistComplete(p)
    PROVE  IInv'
<1>1. PICK q : q = proc[p]
  OBVIOUS
<1>2. "task" \in Writer /\ "loop" \in Writer /\ Writer = {"task", "loop"}
  BY DEF Writer
<1>3. GoodProc(q, p, clock, granted, saves) /\ q \in Process
  BY <1>1, <1>2, ProcessFacts
<1>4. PICK w : w = Idle
  OBVIOUS
<1>5. /\ w \in Write /\ w.src = 0 /\ w.tmp = NoFile /\ w.stage = "idle"
  BY <1>4, NoFileFacts DEF Write, Stage, Idle
<1>6. PICK x : x = [q EXCEPT !.busy = FALSE, !.write["task"] = w]
  OBVIOUS
<1>7. /\ q.run /\ q.write["task"].stage = "finished"
      /\ q.write["loop"] = w /\ ~ q.exiting
      /\ proc' = [proc EXCEPT ![p] = x]
      /\ UNCHANGED <<others, mutex, file, disk, saves>>
  BY <1>1, <1>4, <1>6 DEF PersistComplete, LoopFree, Writing
<1>8. /\ x \in Process /\ x.run = q.run /\ x.exiting = q.exiting
      /\ x.busy = FALSE /\ x.buf = q.buf /\ x.owner = q.owner
      /\ x.write["task"] = w /\ x.write["loop"] = w
  BY <1>2, <1>3, <1>5, <1>6, <1>7 DEF Process
<1>9. \A u \in Writer : x.write[u] = w
  BY <1>2, <1>8
<1>10. GoodSnap(NoFile, clock, granted, saves)
  BY NoFileFacts DEF IInv
<1>11. ~ Active(w) /\ GoodWrite(w, q.buf, p)
  BY <1>5 DEF Active, GoodWrite
<1>12. GoodProc(x, p, clock, granted, saves)
  BY <1>2, <1>3, <1>5, <1>7, <1>8, <1>9, <1>10, <1>11 DEF GoodProc
<1>13. InOrder(x, p, file)
  BY <1>9, <1>11 DEF InOrder
<1>14. /\ x.owner = "owned" <=> mutex' = p
       /\ GoodSnap(file, clock, granted, saves)
       /\ \A s \in disk : GoodSnap(s, clock, granted, saves)
       /\ \A u \in Proc : InOrder(proc[u], u, file)
  BY <1>1, <1>7, <1>8 DEF IInv
<1> QED
  BY <1>7, <1>12, <1>13, <1>14, ProcStep

\* A snapshot is taken by a process that may.
LEMMA TakeSnapshotStep ==
    ASSUME IInv, NEW p \in Proc, NEW t \in Writer, NEW exiting \in BOOLEAN,
           NEW owner \in {"none", "owned", "failed"},
           proc[p].run, ~ proc[p].exiting, proc[p].write["loop"] = Idle,
           TakeSnapshot(p, t, exiting, owner),
           t = "task" => ~ proc[p].busy /\ platform # "win32" /\ ~ exiting,
           proc[p].write["task"].stage \in {"idle", "finished"},
           platform = "win32" => owner = "owned",
           owner = "owned" <=> mutex' = p,
           \A u \in Proc \ {p} : mutex' = u <=> mutex = u
    PROVE  IInv'
<1>1. PICK q : q = proc[p]
  OBVIOUS
<1>2. "task" \in Writer /\ "loop" \in Writer /\ Writer = {"task", "loop"}
  BY DEF Writer
<1>3. GoodProc(q, p, clock, granted, saves) /\ q \in Process /\ saves \in Nat
  BY <1>1, <1>2, ProcessFacts DEF IInv
<1>4. PICK b : b = [ok |-> TRUE, seq |-> saves + 1, by |-> p,
                    recs |-> Serialize(zone)]
  OBVIOUS
<1>5. /\ GoodSnap(b, clock, granted, saves + 1)
      /\ b.seq = saves + 1 /\ b.by = p /\ b \in Snapshot
  BY <1>4, SerializeFacts DEF GoodSnap
<1>6. PICK w : w = [Idle EXCEPT !.stage = "queued", !.src = saves + 1]
  OBVIOUS
<1>7. /\ w \in Write /\ w.src = saves + 1 /\ w.tmp = NoFile
      /\ w.stage = "queued"
  <2>1. NoFile \in Snapshot
    BY NoFileFacts
  <2>2. saves + 1 \in Nat
    BY <1>3
  <2>3. w = [stage |-> "queued", src |-> saves + 1, tmp |-> NoFile]
    BY <1>6 DEF Idle
  <2> QED
    BY <2>1, <2>2, <2>3 DEF Write, Stage
<1>8. PICK y \in BOOLEAN : y = (q.busy \/ t = "task")
  OBVIOUS
<1>9. PICK x : x = [q EXCEPT !.buf = b, !.exiting = exiting, !.owner = owner,
                             !.busy = y, !.write[t] = w]
  OBVIOUS
<1>10. /\ proc' = [proc EXCEPT ![p] = x]
       /\ UNCHANGED <<others, file, disk>> /\ saves' = saves + 1
  BY <1>1, <1>4, <1>6, <1>8, <1>9 DEF TakeSnapshot
<1>11. /\ x \in Process /\ x.run = q.run /\ x.exiting = exiting
       /\ x.busy = y /\ x.buf = b /\ x.owner = owner
       /\ x.write[t] = w /\ \A u \in Writer \ {t} : x.write[u] = q.write[u]
  BY <1>3, <1>5, <1>7, <1>8, <1>9 DEF Process
<1>12. \A u \in Writer \ {t} : q.write[u].stage \in {"idle", "finished"}
  BY <1>1, <1>2 DEF Idle
<1>13. GoodWrite(w, b, p) /\ Active(w) /\ Pending(w) = saves + 1
  BY <1>3, <1>5, <1>7 DEF GoodWrite, Active, Pending
<1>14. \A u \in Writer \ {t} :
           ~ Active(x.write[u]) /\ GoodWrite(x.write[u], b, p)
  BY <1>3, <1>11, <1>12 DEF GoodProc, GoodWrite, Active
<1>15. GoodProc(q, p, clock, granted, saves + 1)
  <2>1. \A k \in Key : granted[k] <= granted[k]
    BY TimeFacts DEF IInv
  <2> QED
    BY <1>3, <2>1, GoodProcLater DEF IInv
<1>16. GoodSnap(NoFile, clock, granted, saves + 1)
  BY <1>3, NoFileFacts
<1>17. \A u \in Writer : GoodSnap(x.write[u].tmp, clock, granted, saves + 1)
  BY <1>7, <1>11, <1>15, <1>16 DEF GoodProc
<1>18. \A u \in Writer : GoodWrite(x.write[u], x.buf, p)
  BY <1>11, <1>13, <1>14
<1>19. x.busy <=> x.write["task"].stage # "idle"
  <2>1. CASE t = "task"
    BY <1>7, <1>8, <1>11, <2>1
  <2>2. CASE t = "loop"
    BY <1>2, <1>3, <1>8, <1>11, <2>2 DEF GoodProc
  <2> QED
    BY <1>2, <2>1, <2>2
<1>20. /\ x.write["loop"].stage # "idle" =>
              x.write["task"].stage \in {"idle", "finished"}
       /\ x.write["loop"].stage # "finished"
       /\ platform = "win32" => x.write["task"].stage = "idle"
       /\ ~ x.run => x = Off
       /\ x.exiting => x.write["loop"].stage # "idle"
  <2>1. CASE t = "task"
    <3>1. x.write["loop"].stage = "idle"
      BY <1>1, <1>2, <1>11, <2>1 DEF Idle
    <3> QED
      BY <1>1, <1>11, <2>1, <3>1
  <2>2. CASE t = "loop"
    BY <1>1, <1>2, <1>3, <1>7, <1>11, <2>2 DEF GoodProc
  <2> QED
    BY <1>2, <2>1, <2>2
<1>21. GoodProc(x, p, clock, granted, saves + 1)
  BY <1>5, <1>11, <1>17, <1>18, <1>19, <1>20 DEF GoodProc
<1>22. file.seq \in Nat /\ file.seq <= saves
  BY DEF IInv, GoodSnap, Snapshot
<1>23. InOrder(x, p, file)
  <2>1. \A u \in Writer \ {t} : ~ Active(x.write[u])
    BY <1>14
  <2>2. Pending(x.write[t]) > file.seq
    BY <1>3, <1>11, <1>13, <1>22
  <2> QED
    BY <2>1, <2>2 DEF InOrder
<1>24. /\ GoodSnap(file, clock, granted, saves + 1)
       /\ \A s \in disk : GoodSnap(s, clock, granted, saves + 1)
       /\ \A u \in Proc : InOrder(proc[u], u, file)
  <2>1. \A k \in Key : granted[k] <= granted[k]
    BY TimeFacts DEF IInv
  <2> QED
    BY <1>3, <2>1, GoodSnapLater DEF IInv
<1> QED
  BY <1>10, <1>11, <1>21, <1>23, <1>24, ProcStep

\* owner_try keeps the flag and the mutex together, takes no mutex from a
\* running process, and on Windows nothing else succeeds than owning it.
LEMMA OwnerTryFacts ==
    ASSUME NEW p \in Proc, NEW owner \in {"none", "owned", "failed"}, NEW held,
           platform \in {"posix", "win32"}, owner = "owned" <=> held = p,
           NEW a \in OwnerTry(p, owner, held)
    PROVE  /\ a.owner \in {"none", "owned", "failed"}
           /\ a.owner = "owned" <=> a.mutex = p
           /\ owner = "owned" => a.owner = "owned"
           /\ \A u \in Proc \ {p} : a.mutex = u <=> held = u
           /\ platform = "win32" /\ a.rc = "OK" => a.owner = "owned"
<1>1. CASE platform = "posix"
  <2>1. a = [owner |-> owner, mutex |-> held, rc |-> "OK"]
    BY <1>1 DEF OwnerTry, Attempt
  <2> QED
    BY <1>1, <2>1
<1>2. CASE platform = "win32" /\ owner = "owned"
  <2>1. a = [owner |-> owner, mutex |-> held, rc |-> "OK"]
    BY <1>2 DEF OwnerTry, Attempt
  <2> QED
    BY <1>2, <2>1
<1>3. CASE platform = "win32" /\ owner = "failed"
  <2>1. a = [owner |-> owner, mutex |-> held, rc |-> "ERROR"]
    BY <1>3 DEF OwnerTry, Attempt
  <2> QED
    BY <1>3, <2>1
<1>4. CASE platform = "win32" /\ owner = "none"
  <2>1. a \in {IF held \in Proc THEN Attempt(owner, held, "DECLINED")
                                ELSE Attempt("owned", p, "OK"),
               Attempt("failed", held, "ERROR")}
    BY <1>4 DEF OwnerTry
  <2>2. CASE held \in Proc /\ a = Attempt(owner, held, "DECLINED")
    BY <1>4, <2>2 DEF Attempt
  <2>3. CASE held \notin Proc /\ a = Attempt("owned", p, "OK")
    BY <1>4, <2>3 DEF Attempt
  <2>4. CASE a = Attempt("failed", held, "ERROR")
    BY <1>4, <2>4 DEF Attempt
  <2> QED
    BY <2>1, <2>2, <2>3, <2>4
<1> QED
  BY <1>1, <1>2, <1>3, <1>4

LEMMA PersistHandlerStep ==
    ASSUME IInv, NEW p \in Proc, PersistHandler(p)
    PROVE  IInv'
<1>1. PICK q : q = proc[p]
  OBVIOUS
<1>2. "task" \in Writer /\ "loop" \in Writer /\ Writer = {"task", "loop"}
  BY DEF Writer
<1>3. GoodProc(q, p, clock, granted, saves) /\ q \in Process
  BY <1>1, <1>2, ProcessFacts
<1>4. q.run /\ ~ q.exiting /\ q.write["loop"] = Idle
  BY <1>1 DEF PersistHandler, LoopFree
<1>5. PICK a \in OwnerTry(p, q.owner, mutex) :
          /\ mutex' = a.mutex
          /\ \/ /\ a.rc = "OK" /\ ~ q.busy
                /\ \E t \in Threads : TakeSnapshot(p, t, FALSE, a.owner)
             \/ /\ proc' = [proc EXCEPT ![p].owner = a.owner,
                                        ![p].timer = (a.rc # "ERROR")]
                /\ UNCHANGED <<others, file, disk, saves, fresh>>
  BY <1>1 DEF PersistHandler
<1>6. q.owner \in {"none", "owned", "failed"}
  BY <1>3 DEF Process
<1>7. platform \in {"posix", "win32"} /\ (q.owner = "owned" <=> mutex = p)
  BY <1>1 DEF IInv
<1>8. /\ a.owner \in {"none", "owned", "failed"}
      /\ a.owner = "owned" <=> mutex' = p
      /\ q.owner = "owned" => a.owner = "owned"
      /\ \A u \in Proc \ {p} : mutex' = u <=> mutex = u
      /\ platform = "win32" /\ a.rc = "OK" => a.owner = "owned"
  BY <1>5, <1>6, <1>7, OwnerTryFacts
<1>9. ASSUME a.rc = "OK", ~ q.busy,
             NEW t \in Threads, TakeSnapshot(p, t, FALSE, a.owner)
      PROVE  IInv'
  <2>1. t \in Writer /\ (t = "task" => platform # "win32")
    BY <1>7, <1>9 DEF Threads, Writer
  <2>2. q.write["task"].stage = "idle"
    BY <1>3, <1>9 DEF GoodProc
  <2>3. platform = "win32" => a.owner = "owned"
    BY <1>8, <1>9
  <2> QED
    BY <1>1, <1>4, <1>8, <1>9, <2>1, <2>2, <2>3, TakeSnapshotStep
<1>10. ASSUME proc' = [proc EXCEPT ![p].owner = a.owner,
                                   ![p].timer = (a.rc # "ERROR")],
              UNCHANGED <<others, file, disk, saves, fresh>>
       PROVE  IInv'
  <2>1. PICK b \in BOOLEAN : b = (a.rc # "ERROR")
    OBVIOUS
  <2>2. PICK x : x = [q EXCEPT !.owner = a.owner, !.timer = b]
    OBVIOUS
  <2>3. /\ x \in Process /\ x.run = q.run /\ x.exiting = q.exiting
        /\ x.busy = q.busy /\ x.buf = q.buf /\ x.owner = a.owner
        /\ x.write = q.write
    BY <1>3, <1>8, <2>1, <2>2 DEF Process
  <2>4. proc' = [proc EXCEPT ![p] = x]
    BY <1>1, <1>10, <2>1, <2>2 DEF IInv
  <2>5. GoodProc(x, p, clock, granted, saves)
    BY <1>3, <1>4, <1>8, <2>3 DEF GoodProc
  <2>6. InOrder(x, p, file)
    BY <1>1, <2>3 DEF IInv, InOrder
  <2>7. /\ GoodSnap(file, clock, granted, saves)
        /\ \A s \in disk : GoodSnap(s, clock, granted, saves)
        /\ \A u \in Proc : InOrder(proc[u], u, file)
    BY DEF IInv
  <2> QED
    BY <1>8, <1>10, <2>3, <2>4, <2>5, <2>6, <2>7, ProcStep
<1> QED
  BY <1>5, <1>9, <1>10

LEMMA ExitProcessStep ==
    ASSUME IInv, NEW p \in Proc, ExitProcess(p)
    PROVE  IInv'
<1>1. PICK q : q = proc[p]
  OBVIOUS
<1>2. "task" \in Writer /\ "loop" \in Writer
  BY DEF Writer
<1>3. GoodProc(q, p, clock, granted, saves) /\ q \in Process
  BY <1>1, <1>2, ProcessFacts
<1>4. /\ q.run /\ ~ q.exiting /\ q.write["loop"] = Idle
      /\ q.write["task"].stage \in {"idle", "finished"}
  BY <1>1 DEF ExitProcess, LoopFree
<1>5. CASE /\ platform = "posix" \/ q.owner = "owned"
           /\ TakeSnapshot(p, "loop", TRUE, q.owner)
           /\ UNCHANGED mutex
  <2>1. q.owner \in {"none", "owned", "failed"}
    BY <1>3 DEF Process
  <2>2. q.owner = "owned" <=> mutex' = p
    BY <1>1, <1>5 DEF IInv
  <2>3. platform = "win32" => q.owner = "owned"
    BY <1>5
  <2>4. \A u \in Proc \ {p} : mutex' = u <=> mutex = u
    BY <1>5
  <2> QED
    BY <1>1, <1>2, <1>4, <1>5, <2>1, <2>2, <2>3, <2>4, TakeSnapshotStep
<1>6. CASE /\ proc' = [proc EXCEPT ![p] = Off]
           /\ mutex' = IF mutex = p THEN NoProc ELSE mutex
           /\ UNCHANGED <<others, file, disk, saves, fresh>>
  <2>1. Leaves(p)
    BY <1>6 DEF Leaves
  <2>2. \A s \in disk' : GoodSnap(s, clock, granted, saves)
    BY <1>6 DEF IInv
  <2> QED
    BY <1>6, <2>1, <2>2, LeaveStep
<1> QED
  BY <1>1, <1>5, <1>6 DEF ExitProcess

\* A process comes up in the slot p, which does not hold the mutex any more.
LEMMA InitProcessStep ==
    ASSUME IInv, NEW p \in Proc, NEW held, NEW f, InitProcess(p, held, f),
           held # p, \A u \in Proc \ {p} : held = u <=> mutex = u,
           platform' = platform, clock' = clock, granted' = granted,
           saves' = saves,
           ZoneInv(zone', clock, 0), BansGranted(zone', granted),
           GoodSnap(file', clock, granted, saves),
           \A s \in disk' : GoodSnap(s, clock, granted, saves),
           \A u \in Proc \ {p} : InOrder(proc[u], u, file')
    PROVE  IInv'
<1>1. PICK a \in OwnerTry(p, "none", held) :
          /\ proc' = [proc EXCEPT ![p] =
                        [Off EXCEPT !.run = TRUE, !.timer = (a.rc # "ERROR"),
                                    !.owner = a.owner]]
          /\ mutex' = a.mutex
  BY DEF InitProcess
<1>2. platform \in {"posix", "win32"} /\ saves \in Nat
  BY DEF IInv
<1>3. /\ a.owner \in {"none", "owned", "failed"}
      /\ a.owner = "owned" <=> mutex' = p
      /\ \A u \in Proc \ {p} : mutex' = u <=> mutex = u
  BY <1>1, <1>2, OwnerTryFacts
<1>4. PICK b \in BOOLEAN : b = (a.rc # "ERROR")
  OBVIOUS
<1>5. PICK q : q = Off
  OBVIOUS
<1>6. /\ GoodProc(q, p, clock, granted, saves) /\ q \in Process
      /\ InOrder(q, p, file')
  BY <1>2, <1>5, OffFacts
<1>7. q.exiting = FALSE /\ q.write = [t \in Writer |-> Idle]
  BY <1>5 DEF Off
<1>8. PICK x : x = [q EXCEPT !.run = TRUE, !.timer = b, !.owner = a.owner]
  OBVIOUS
<1>9. /\ x \in Process /\ x.run = TRUE /\ x.exiting = FALSE
      /\ x.busy = q.busy /\ x.buf = q.buf /\ x.owner = a.owner
      /\ x.write = q.write
  BY <1>3, <1>4, <1>6, <1>7, <1>8 DEF Process
<1>10. \A t \in Writer : ~ Active(x.write[t])
  BY <1>7, <1>9 DEF Active, Idle
<1>11. GoodProc(x, p, clock, granted, saves)
  BY <1>6, <1>9, <1>10 DEF GoodProc
<1>12. InOrder(x, p, file')
  BY <1>10 DEF InOrder
<1>13. proc' = [proc EXCEPT ![p] = x]
  BY <1>1, <1>4, <1>5, <1>8
<1> QED
  BY <1>3, <1>9, <1>11, <1>12, <1>13, ZoneProcStep

\* While no process runs, none writes, and none holds the mutex.
LEMMA NotUp ==
    ASSUME IInv, ~ Up, NEW u \in Proc
    PROVE  proc[u] = Off /\ mutex # u /\ \A f : InOrder(proc[u], u, f)
<1>1. proc[u] = Off
  BY DEF Up, IInv, GoodProc
<1>2. PICK q : q = Off
  OBVIOUS
<1>3. q.owner = "none" /\ \A f : InOrder(q, u, f)
  BY <1>2, OffFacts DEF IInv
<1> QED
  BY <1>1, <1>2, <1>3 DEF IInv

LEMMA StartStep ==
    ASSUME IInv, NEW p \in Proc, Start(p)
    PROVE  IInv'
<1>1. /\ ~ Up /\ zone' = Load(file, clock)
      /\ file' = IF file.ok THEN file ELSE NoFile
      /\ InitProcess(p, mutex, faults)
      /\ UNCHANGED <<platform, clock, disk, saves, granted>>
  BY DEF Start
<1>2. GoodSnap(file, clock, granted, saves) /\ file.ok
      /\ \A s \in disk : GoodSnap(s, clock, granted, saves)
  BY DEF IInv, GoodSnap
<1>3. zone' = LoadAll(file.recs, clock) /\ file' = file
  BY <1>1, <1>2 DEF Load
<1>4. /\ clock \in Int /\ granted \in [Key -> Time]
      /\ CachedAt(clock, clock, 0) /\ clock <= clock
  BY PersistBounds, TimeRange DEF IInv, CachedAt, Time
<1>5. PICK recs : recs = file.recs
  OBVIOUS
<1>6. /\ Len(recs) \in Nat
      /\ \A i \in 1 .. Len(recs) : RecordInv(recs[i], clock, granted)
  <2>1. recs \in Seq([key : Key, node : Node])
    BY <1>2, <1>5 DEF GoodSnap, Snapshot
  <2>2. Len(recs) \in Nat
    BY <2>1, LenProperties
  <2> QED
    BY <1>2, <1>5, <2>2 DEF GoodSnap
<1>7. ZoneInv(zone', clock, 0) /\ BansGranted(zone', granted)
  BY <1>3, <1>4, <1>5, <1>6, LoadAllFacts
<1>8. /\ mutex # p /\ \A u \in Proc \ {p} : InOrder(proc[u], u, file')
  BY <1>1, NotUp
<1> QED
  BY <1>1, <1>2, <1>3, <1>7, <1>8, InitProcessStep

LEMMA ReloadStep ==
    ASSUME IInv, NEW p \in Proc, Reload(p)
    PROVE  IInv'
<1>1. PICK f : f = [faults EXCEPT !.reload = @ + 1]
  OBVIOUS
<1>2. /\ ~ proc[p].run /\ InitProcess(p, mutex, f)
      /\ UNCHANGED <<others, file, disk, saves>>
  BY <1>1 DEF Reload
<1>3. proc[p] = Off
  BY <1>2 DEF IInv, GoodProc
<1>4. mutex # p
  <2>1. PICK q : q = Off
    OBVIOUS
  <2>2. q.owner = "none"
    BY <2>1, OffFacts DEF IInv
  <2> QED
    BY <1>3, <2>1, <2>2 DEF IInv
<1>5. /\ ZoneInv(zone', clock, 0) /\ BansGranted(zone', granted)
      /\ GoodSnap(file', clock, granted, saves)
      /\ \A s \in disk' : GoodSnap(s, clock, granted, saves)
      /\ \A u \in Proc \ {p} : InOrder(proc[u], u, file')
      /\ platform' = platform /\ clock' = clock /\ granted' = granted
  BY <1>2 DEF IInv, others
<1> QED
  BY <1>2, <1>4, <1>5, InitProcessStep

LEMMA KillStep ==
    ASSUME IInv, NEW p \in Proc, Kill(p)
    PROVE  IInv'
<1>1. PICK f : f = [faults EXCEPT !.kill = @ + 1]
  OBVIOUS
<1>2. PICK held : held = IF mutex = p THEN "abandoned" ELSE mutex
  OBVIOUS
<1>3. /\ InitProcess(p, held, f)
      /\ UNCHANGED <<others, file, disk, saves>>
  BY <1>1, <1>2 DEF Kill
<1>4. held # p /\ \A u \in Proc \ {p} : held = u <=> mutex = u
  BY <1>2, PersistBounds
<1>5. /\ ZoneInv(zone', clock, 0) /\ BansGranted(zone', granted)
      /\ GoodSnap(file', clock, granted, saves)
      /\ \A s \in disk' : GoodSnap(s, clock, granted, saves)
      /\ \A u \in Proc \ {p} : InOrder(proc[u], u, file')
      /\ platform' = platform /\ clock' = clock /\ granted' = granted
  BY <1>3 DEF IInv, others
<1> QED
  BY <1>3, <1>4, <1>5, InitProcessStep

LEMMA CrashStep ==
    ASSUME IInv, Crash
    PROVE  IInv'
<1>1. PICK q : q = Off
  OBVIOUS
<1>2. /\ proc' = [p \in Proc |-> q] /\ mutex' = NoProc
      /\ file' \in disk /\ disk' = {file'}
      /\ platform' = platform /\ clock' = clock /\ zone' = zone
      /\ granted' = granted /\ saves' = saves
  BY <1>1 DEF Crash, others
<1>3. \A p \in Proc : /\ GoodProc(q, p, clock, granted, saves)
                      /\ q.owner = "none" /\ q \in Process
                      /\ \A f : InOrder(q, p, f)
  BY <1>1, OffFacts DEF IInv
<1>4. PICK ps : ps = proc'
  OBVIOUS
<1>5. ps \in [Proc -> Process] /\ \A p \in Proc : ps[p] = q /\ mutex' # p
  BY <1>2, <1>3, <1>4, PersistBounds
<1>6. GoodSnap(file', clock, granted, saves)
  BY <1>2 DEF IInv
<1>7. \A p \in Proc : /\ GoodProc(ps[p], p, clock, granted, saves)
                      /\ ps[p].owner = "owned" <=> mutex' = p
                      /\ InOrder(ps[p], p, file')
  BY <1>3, <1>5
<1> QED
  BY <1>2, <1>4, <1>5, <1>6, <1>7 DEF IInv, GoodProc, InOrder

LEMMA TickStep ==
    ASSUME IInv, Tick
    PROVE  IInv'
<1>1. /\ clock < MaxTime /\ clock' = clock + 1
      /\ UNCHANGED <<platform, zone, proc, mutex, file, disk, saves, granted>>
  BY DEF Tick
<1>2. /\ clock \in Int /\ granted \in [Key -> Time] /\ saves \in Nat
      /\ clock' \in 1 .. MaxTime
      /\ \A k \in Key : granted[k] <= granted[k]
  BY <1>1, PersistBounds, TimeFacts DEF IInv
<1>3. \A s : GoodSnap(s, clock, granted, saves) =>
                 GoodSnap(s, clock + 1, granted, saves)
  BY <1>2, GoodSnapLater
<1>4. \A q, p : GoodProc(q, p, clock, granted, saves) =>
                    GoodProc(q, p, clock + 1, granted, saves)
  BY <1>2, GoodProcLater
<1>5. ZoneInv(zone, clock + 1, 0)
  BY <1>2, NodeInvLater DEF IInv, ZoneInv
<1> QED
  BY <1>1, <1>2, <1>3, <1>4, <1>5 DEF IInv, GoodProc, InOrder

LEMMA DoRecordStep ==
    ASSUME IInv, NEW k \in Key, DoRecord(k)
    PROVE  IInv'
<1>1. PICK y : y = Record(zone, k, clock)
  OBVIOUS
<1>2. PICK b : b = Until(y, k)
  OBVIOUS
<1>3. PICK g : g = [granted EXCEPT ![k] = Max({@, b})]
  OBVIOUS
<1>4. /\ zone' = y /\ granted' = g
      /\ UNCHANGED <<platform, clock, proc, mutex, file, disk, saves>>
  BY <1>1, <1>2, <1>3 DEF DoRecord, Until
<1>5. /\ clock \in Int /\ granted \in [Key -> Time] /\ saves \in Nat
      /\ CachedAt(clock, clock, 0) /\ ZoneInv(zone, clock, 0)
  BY PersistBounds, TimeRange DEF IInv, CachedAt, Time
<1>6. ZoneInv(y, clock, 0)
  BY <1>1, <1>5, RecordFacts DEF Updates
<1>7. b \in Time /\ granted[k] \in Time
  BY <1>2, <1>5, <1>6, NodeOfFacts
<1>8. PICK m : m = Max({granted[k], b})
  OBVIOUS
<1>9. m \in Time /\ m >= granted[k] /\ m >= b
  <2>1. \E x \in {granted[k], b} : \A z \in {granted[k], b} : z <= x
    BY <1>7, TimeFacts
  <2>2. m \in {granted[k], b} /\ \A z \in {granted[k], b} : z <= m
    BY <1>8, <2>1 DEF Max
  <2> QED
    BY <1>7, <2>2, TimeFacts
<1>10. /\ g \in [Key -> Time] /\ g[k] = m
       /\ \A j \in Key \ {k} : g[j] = granted[j]
  BY <1>3, <1>5, <1>8, <1>9
<1>11. \A j \in Key : granted[j] <= g[j]
  BY <1>5, <1>9, <1>10, TimeFacts
<1>12. BansGranted(y, g)
  <2> SUFFICES ASSUME NEW j \in Key PROVE Until(y, j) <= g[j]
    BY DEF BansGranted
  <2>1. CASE j = k
    BY <1>2, <1>9, <1>10, <2>1
  <2>2. CASE j # k
    <3>1. NoMore(zone, y, j)
      BY <1>1, <1>5, <2>2, RecordKeeps
    <3>2. Until(zone, j) <= granted[j] /\ granted[j] \in Time
      BY <1>5 DEF IInv, BansGranted
    <3>3. Until(y, j) = 0 \/ Until(y, j) = Until(zone, j)
      BY <3>1 DEF NoMore
    <3> QED
      BY <1>10, <2>2, <3>2, <3>3, TimeFacts
  <2> QED
    BY <2>1, <2>2
<1>13. \A s : GoodSnap(s, clock, granted, saves) =>
                  GoodSnap(s, clock, g, saves)
  BY <1>5, <1>10, <1>11, GoodSnapLater
<1>14. \A q, p : GoodProc(q, p, clock, granted, saves) =>
                     GoodProc(q, p, clock, g, saves)
  BY <1>5, <1>10, <1>11, GoodProcLater
<1> QED
  BY <1>4, <1>6, <1>10, <1>12, <1>13, <1>14 DEF IInv, GoodProc, InOrder

-----------------------------------------------------------------------------
(***************************************************************************)
(* The theorems.                                                           *)
(***************************************************************************)

LEMMA InitInv == Init => IInv
<1> SUFFICES ASSUME Init PROVE IInv
  OBVIOUS
<1>1. PICK q : q = Off
  OBVIOUS
<1>2. /\ clock = 1 /\ saves = 0 /\ file = NoFile /\ disk = {NoFile}
      /\ zone = EmptyZone /\ mutex = NoProc
      /\ granted = [k \in Key |-> 0] /\ proc = [p \in Proc |-> q]
      /\ platform \in {"posix", "win32"}
  BY <1>1, PersistBounds DEF Init
<1>3. /\ clock \in 1 .. MaxTime /\ saves \in Nat
      /\ granted \in [Key -> Time]
  BY <1>2, PersistBounds, TimeFacts
<1>4. ZoneInv(zone, clock, 0) /\ BansGranted(zone, granted)
  BY <1>2, <1>3, EmptyZoneFacts
<1>5. GoodSnap(NoFile, clock, granted, saves)
  BY <1>3, NoFileFacts
<1>6. \A p \in Proc : /\ GoodProc(q, p, clock, granted, saves)
                      /\ q.owner = "none" /\ q \in Process
                      /\ InOrder(q, p, file)
  BY <1>1, <1>3, OffFacts
<1>7. proc \in [Proc -> Process] /\ \A p \in Proc : proc[p] = q /\ mutex # p
  BY <1>2, <1>6, PersistBounds
<1> QED
  BY <1>2, <1>3, <1>4, <1>5, <1>6, <1>7 DEF IInv

LEMMA NextInv == IInv /\ [Next]_vars => IInv'
<1> SUFFICES ASSUME IInv, [Next]_vars PROVE IInv'
  OBVIOUS
<1>1. CASE UNCHANGED vars
  BY <1>1 DEF vars, IInv, GoodProc, InOrder
<1>2. CASE Next
  <2>1. CASE Tick
    BY <2>1, TickStep
  <2>2. CASE Crash
    BY <2>2, CrashStep
  <2>3. CASE \E k \in Key : DoRecord(k)
    BY <2>3, DoRecordStep
  <2>4. ASSUME NEW p \in Proc,
               \/ PersistHandler(p) \/ PersistComplete(p) \/ ExitProcess(p)
               \/ Start(p) \/ Reload(p) \/ Kill(p)
        PROVE  IInv'
    BY <2>4, PersistHandlerStep, PersistCompleteStep, ExitProcessStep,
       StartStep, ReloadStep, KillStep
  <2>5. ASSUME NEW p \in Proc, NEW t \in Writer,
               \/ CreateTemp(p, t) \/ WriteAll(p, t) \/ Flush(p, t)
               \/ Replace(p, t) \/ MoveAway(p, t) \/ SyncParent(p, t)
               \/ WriteFails(p, t)
        PROVE  IInv'
    BY <2>5, CreateTempStep, WriteAllStep, FlushStep, ReplaceStep,
       MoveAwayStep, SyncParentStep, WriteFailsStep
  <2> QED
    BY <1>2, <2>1, <2>2, <2>3, <2>4, <2>5 DEF Next
<1> QED
  BY <1>1, <1>2

\* The invariant of the saves: a write never finds its buffer reused, a process
\* has one writer at a time, on Windows only the owner of the mutex writes, and
\* every snapshot is one of a zone whose bans were granted.
THEOREM Invariance == Spec => []IInv
<1> QED
  BY InitInv, NextInv, PTL DEF Spec

\* Types, the well-formed zone, also right after a load, and the two flags that
\* stand for other state: persist_busy for the task, owned for the mutex.
THEOREM TypeCorrect == Spec => []TypeOK
<1>1. ASSUME IInv PROVE TypeOK
  <2>1. IsZone(zone) /\ WellLinked(zone)
    BY <1>1 DEF IInv, ZoneInv, GoodZone
  <2>2. ASSUME NEW p \in Proc
        PROVE  /\ \A t \in Writer : proc[p].write[t].stage \in Stage
               /\ proc[p].busy <=> proc[p].write["task"] # Idle
    <3>1. PICK q \in Process : q = proc[p]
      BY <1>1 DEF IInv
    <3>2. PICK w : w = q.write["task"]
      OBVIOUS
    <3>3. "task" \in Writer
      BY DEF Writer
    <3>4. w \in Write /\ (q.busy <=> w.stage # "idle")
          /\ GoodWrite(w, q.buf, p)
      BY <1>1, <3>1, <3>2, <3>3 DEF IInv, GoodProc, Process
    <3>5. w.stage = "idle" => w = Idle
      BY <3>4 DEF GoodWrite, Write, Idle
    <3>6. w = Idle => w.stage = "idle"
      BY DEF Idle
    <3>7. \A t \in Writer : q.write[t].stage \in Stage
      BY <3>1 DEF Process, Write
    <3>8. q.busy <=> w # Idle
      BY <3>4, <3>5, <3>6
    <3> QED
      BY <3>1, <3>2, <3>7, <3>8
  <2> QED
    BY <1>1, <2>1, <2>2 DEF IInv, TypeOK
<1> QED
  BY <1>1, Invariance, PTL

\* The README's promise: neither the file nor what a crash may leave in its
\* place is ever truncated, or the halves of two snapshots.
THEOREM FileStaysComplete == Spec => []FileIsComplete
<1>1. IInv => FileIsComplete
  BY DEF IInv, GoodSnap, FileIsComplete
<1> QED
  BY <1>1, Invariance, PTL

\* No restart, reload or crash makes a ban later than record() made it.
THEOREM NoBanGetsLonger == Spec => []NoBanFromDisk
<1>1. IInv => NoBanFromDisk
  BY DEF IInv, BansGranted, Until, NoBanFromDisk
<1> QED
  BY <1>1, Invariance, PTL

\* The writers of a process, and on Windows all writers, never put an older
\* snapshot in the place of a newer one.
THEOREM SavesStayInOrder == Spec => []SnapshotsInOrder
<1>1. IInv => SnapshotsInOrder
  BY DEF IInv, InOrder, Active, SnapshotsInOrder
<1> QED
  BY <1>1, Invariance, PTL

-----------------------------------------------------------------------------
(***************************************************************************)
(* What a restart from a fresh snapshot brings back.                       *)
(***************************************************************************)

\* A later start makes no earlier end.
LEMMA SaturateGrows ==
    ASSUME NEW a \in Time, NEW b \in Time, a <= b
    PROVE  /\ TimeAddSaturate(a, Block) <= TimeAddSaturate(b, Block)
           /\ TimeAddSaturate(a, Block) \in Time
BY TimeRange, ZoneParameters, SaturateType DEF Time, TimeAddSaturate

\* record() starts no ban but one at the time it is called.
LEMMA RecordBans ==
    ASSUME NEW z, NEW c, NEW lag, NEW t, NEW k \in Key, ZoneInv(z, c, lag),
           CachedAt(t, c, lag)
    PROVE  Until(Record(z, k, t), k)
              \in {0, Until(z, k), TimeAddSaturate(t, Block)}
<1>1. PICK y : y = Tracking(z, k, t)
  OBVIOUS
<1>2. PICK r : r = Record(z, k, t)
  OBVIOUS
<1>3. Updates(r, y, k, t, CountError(y.node[k], t), c, lag)
  BY <1>1, <1>2, RecordFacts
<1>4. ZoneInv(r, c, lag) /\ ZoneInv(y, c, lag)
  BY <1>1, <1>3, TrackingInv DEF Updates
<1>5. CASE k \notin DOMAIN r.node
  BY <1>2, <1>4, <1>5, NodeOfFacts
<1>6. CASE k \in DOMAIN r.node
  <2>1. k \in DOMAIN y.node
    BY <1>3, <1>6 DEF Updates
  <2>2. PICK n : n = y.node[k]
    OBVIOUS
  <2>3. NodeInv(n, c, lag) /\ Until(r, k) = r.node[k].blocked_until
    BY <1>4, <1>6, <2>1, <2>2, NodeOfFacts DEF ZoneInv, Until
  <2>4. n.blocked_until \in {0, Until(z, k)}
    <3>1. t \in Time /\ GoodZone(z)
      BY DEF CachedAt, ZoneInv
    <3>2. \/ /\ k \in DOMAIN z.node
             /\ n = [z.node[k] EXCEPT !.last_seen = t]
          \/ n = NewNode(t)
      BY <1>1, <2>1, <2>2, <3>1, TrackingFacts, Zenon
    <3>3. CASE /\ k \in DOMAIN z.node
               /\ n = [z.node[k] EXCEPT !.last_seen = t]
      <4>1. z.node[k] \in Node /\ Until(z, k) = z.node[k].blocked_until
        BY <3>3, NodeOfFacts DEF ZoneInv, NodeInv, Until
      <4> QED
        BY <3>3, <4>1 DEF Node
    <3>4. CASE n = NewNode(t)
      BY <3>4 DEF NewNode, ZeroNode
    <3> QED
      BY <3>2, <3>3, <3>4
  <2>5. CASE Banned(n, t)
    BY <1>2, <1>3, <2>1, <2>2, <2>3, <2>4, <2>5 DEF Updates
  <2>6. CASE ~ Banned(n, t)
    <3>1. r.node[k] = CountError(n, t)
      BY <1>3, <2>1, <2>2, <2>6 DEF Updates
    <3>2. PICK e : e = LiveEvents(n, t)
      OBVIOUS
    <3>3. r.node[k].blocked_until \in {0, TimeAddSaturate(t, Block)}
      BY <2>3, <3>1, <3>2, CountErrorShape
    <3> QED
      BY <1>2, <2>3, <3>3
  <2> QED
    BY <2>5, <2>6
<1> QED
  BY <1>5, <1>6

\* No ban is longer than one that starts now.
ReachInv == \A k \in Key : granted[k] <= TimeAddSaturate(clock, Block)

LEMMA ClockFacts ==
    ASSUME IInv
    PROVE  clock \in Time /\ CachedAt(clock, clock, 0)
BY PersistBounds, TimeRange DEF IInv, CachedAt, Time

LEMMA InitReach == Init => ReachInv
<1> SUFFICES ASSUME Init PROVE ReachInv
  OBVIOUS
<1>1. IInv
  BY InitInv
<1>2. TimeAddSaturate(clock, Block) \in Time
  BY <1>1, ClockFacts, SaturateGrows, TimeFacts
<1> QED
  BY <1>2, TimeFacts DEF Init, ReachInv

LEMMA NextReach == IInv /\ IInv' /\ ReachInv /\ [Next]_vars => ReachInv'
<1> SUFFICES ASSUME IInv, IInv', ReachInv, [Next]_vars PROVE ReachInv'
  OBVIOUS
<1>1. /\ clock \in Time /\ clock' \in Time /\ clock \in Int
      /\ CachedAt(clock, clock, 0)
      /\ granted \in [Key -> Time] /\ granted' \in [Key -> Time]
  <2>1. clock' \in Time
    BY PersistBounds, TimeRange DEF IInv, Time
  <2> QED
    BY <2>1, ClockFacts, TimeFacts DEF IInv
<1>2. CASE granted' = granted /\ (clock' = clock \/ clock' = clock + 1)
  <2>1. /\ TimeAddSaturate(clock, Block) <= TimeAddSaturate(clock', Block)
        /\ TimeAddSaturate(clock, Block) \in Time
        /\ TimeAddSaturate(clock', Block) \in Time
    BY <1>1, <1>2, SaturateGrows
  <2>2. \A k \in Key : granted[k] \in Time
    BY <1>1
  <2> QED
    BY <1>2, <2>1, <2>2, TimeFacts DEF ReachInv
<1>3. ASSUME NEW k \in Key, DoRecord(k)
      PROVE  ReachInv'
  <2>1. PICK b : b = Until(Record(zone, k, clock), k)
    OBVIOUS
  <2>2. PICK limit : limit = TimeAddSaturate(clock, Block)
    OBVIOUS
  <2>3. b \in {0, Until(zone, k), limit} /\ limit \in Time
    BY <1>1, <2>1, <2>2, RecordBans, SaturateGrows DEF IInv
  <2>4. Until(zone, k) <= granted[k] /\ Until(zone, k) \in Time
    BY NodeOfFacts DEF IInv, BansGranted
  <2>5. granted[k] \in Time /\ granted[k] <= limit
    BY <1>1, <2>2 DEF ReachInv
  <2>6. b \in Time /\ b <= limit
    BY <2>3, <2>4, <2>5, TimeFacts
  <2>7. PICK m : m = Max({granted[k], b})
    OBVIOUS
  <2>8. m \in {granted[k], b}
    <3>1. \E x \in {granted[k], b} : \A z \in {granted[k], b} : z <= x
      BY <2>5, <2>6, TimeFacts
    <3> QED
      BY <2>7, <3>1 DEF Max
  <2>9. /\ clock' = clock
        /\ granted' = [granted EXCEPT ![k] = m]
    BY <1>3, <2>1, <2>7 DEF DoRecord, Until
  <2>10. granted'[k] = m /\ \A j \in Key \ {k} : granted'[j] = granted[j]
    BY <1>1, <2>9
  <2>11. TimeAddSaturate(clock', Block) = limit
    BY <2>2, <2>9
  <2> QED
    BY <2>2, <2>5, <2>6, <2>8, <2>10, <2>11 DEF ReachInv
<1>4. CASE UNCHANGED vars
  BY <1>2, <1>4 DEF vars
<1>5. CASE Tick \/ Crash
  BY <1>2, <1>5 DEF Tick, Crash, others
<1>6. ASSUME NEW p \in Proc,
             \/ PersistHandler(p) \/ PersistComplete(p) \/ ExitProcess(p)
             \/ Start(p) \/ Reload(p) \/ Kill(p)
      PROVE  ReachInv'
  BY <1>2, <1>6 DEF PersistHandler, TakeSnapshot, PersistComplete,
     ExitProcess, Start, Reload, Kill, others
<1>7. ASSUME NEW p \in Proc, NEW t \in Writer,
             \/ CreateTemp(p, t) \/ WriteAll(p, t) \/ Flush(p, t)
             \/ Replace(p, t) \/ MoveAway(p, t) \/ SyncParent(p, t)
             \/ WriteFails(p, t)
      PROVE  ReachInv'
  BY <1>2, <1>7 DEF CreateTemp, WriteAll, Flush, Replace, MoveAway,
     SyncParent, WriteFails, others
<1> QED
  BY <1>3, <1>4, <1>5, <1>6, <1>7 DEF Next

\* The snapshots there are: the file, what a crash may leave, the buffers and
\* the temporary files.
OfProcess(q, s) == s = q.buf \/ \E t \in Writer : s = q.write[t].tmp

IsHeld(s) ==
    s = file \/ s \in disk \/ \E p \in Proc : OfProcess(proc[p], s)

\* What a step may hold: what there was, an empty one, or a new one of the zone.
Known(s) ==
    \/ IsHeld(s)
    \/ s.seq = 0
    \/ saves' = saves + 1 /\ s.seq = saves + 1 /\ s.recs = Serialize(zone)

LEMMA HeldFacts ==
    ASSUME IInv, NEW s, IsHeld(s)
    PROVE  s.seq \in Nat /\ s.seq <= saves
BY DEF IInv, GoodProc, GoodSnap, Snapshot, IsHeld, OfProcess

LEMMA HeldStep ==
    ASSUME IInv, NEW p \in Proc, NEW x, proc' = [proc EXCEPT ![p] = x],
           \A s : OfProcess(x, s) => Known(s),
           Known(file'), \A s \in disk' : Known(s)
    PROVE  \A s : IsHeld(s)' => Known(s)
<1> SUFFICES ASSUME NEW s, IsHeld(s)' PROVE Known(s)
  OBVIOUS
<1>1. CASE s = file' \/ s \in disk'
  BY <1>1
<1>2. ASSUME NEW u \in Proc, OfProcess(proc'[u], s) PROVE Known(s)
  <2>1. CASE u = p
    <3>1. proc'[u] = x
      BY <2>1 DEF IInv
    <3> QED
      BY <1>2, <3>1
  <2>2. CASE u # p
    <3>1. proc'[u] = proc[u]
      BY <2>2 DEF IInv
    <3> QED
      BY <1>2, <3>1 DEF Known, IsHeld
  <2> QED
    BY <2>1, <2>2
<1>3. s = file' \/ s \in disk' \/ \E u \in Proc : OfProcess(proc'[u], s)
  BY DEF IsHeld, OfProcess
<1> QED
  BY <1>1, <1>2, <1>3

\* The step of a write.
LEMMA HeldWrite ==
    ASSUME IInv, NEW p \in Proc, NEW t \in Writer, NEW b, NEW w,
           WriteBecomes(p, t, b, w), Known(b), Known(w.tmp),
           Known(file'), \A s \in disk' : Known(s)
    PROVE  \A s : IsHeld(s)' => Known(s)
<1>1. PICK q \in Process : q = proc[p]
  BY ProcessFacts
<1>2. PICK x : x = [q EXCEPT !.buf = b, !.write[t] = w]
  OBVIOUS
<1>3. /\ x.buf = b /\ x.write[t] = w
      /\ \A u \in Writer \ {t} : x.write[u] = q.write[u]
  BY <1>1, <1>2 DEF Process
<1>4. \A s : OfProcess(x, s) => Known(s)
  <2> SUFFICES ASSUME NEW s, OfProcess(x, s) PROVE Known(s)
    OBVIOUS
  <2>1. CASE s = b \/ s = w.tmp
    BY <2>1
  <2>2. CASE \E u \in Writer : s = q.write[u].tmp
    BY <1>1, <2>2 DEF Known, IsHeld, OfProcess
  <2> QED
    BY <1>3, <2>1, <2>2 DEF OfProcess
<1>5. proc' = [proc EXCEPT ![p] = x]
  BY <1>1, <1>2 DEF WriteBecomes
<1> QED
  BY <1>4, <1>5, HeldStep

LEMMA KnownFacts ==
    ASSUME IInv
    PROVE  /\ Known(NoFile) /\ Known(Torn)
           /\ Known(file) /\ \A s \in disk : Known(s)
           /\ \A p \in Proc, t \in Writer :
                 Known(proc[p].buf) /\ Known(proc[p].write[t].tmp)
<1>1. NoFile.seq = 0 /\ Torn.seq = 0
  BY DEF NoFile, Torn
<1> QED
  BY <1>1 DEF Known, IsHeld, OfProcess

\* A step of a writer.
LEMMA HeldByWriter ==
    ASSUME IInv, NEW p \in Proc, NEW t \in Writer,
           \/ CreateTemp(p, t) \/ WriteAll(p, t) \/ Flush(p, t)
           \/ Replace(p, t) \/ MoveAway(p, t) \/ SyncParent(p, t)
           \/ WriteFails(p, t)
    PROVE  \A s : IsHeld(s)' => Known(s)
<1>1. PICK v : v = proc[p].write[t]
  OBVIOUS
<1>2. PICK b : b = proc[p].buf
  OBVIOUS
<1>3. /\ Known(b) /\ Known(v.tmp) /\ Known(NoFile) /\ Known(Torn)
      /\ Known(file) /\ \A s \in disk : Known(s)
  BY <1>1, <1>2, KnownFacts
<1>4. ASSUME NEW st \in Stage, GoesOn(p, t, st),
             Known(file'), \A s \in disk' : Known(s)
      PROVE  \A s : IsHeld(s)' => Known(s)
  <2>1. PICK w : w = [v EXCEPT !.stage = st]
    OBVIOUS
  <2>2. WriteBecomes(p, t, b, w) /\ w.tmp = v.tmp
    BY <1>1, <1>2, <1>4, <2>1, StageBecomes
  <2> QED
    BY <1>3, <1>4, <2>2, HeldWrite
<1>5. CASE CreateTemp(p, t) \/ Flush(p, t) \/ MoveAway(p, t)
  <2>1. PICK st \in Stage : GoesOn(p, t, st)
    BY <1>5 DEF CreateTemp, Flush, MoveAway, GoesOn, Stage
  <2>2. Known(file') /\ \A s \in disk' : Known(s)
    BY <1>3, <1>5 DEF CreateTemp, Flush, MoveAway
  <2> QED
    BY <1>4, <2>1, <2>2
<1>6. CASE WriteAll(p, t)
  <2>1. PICK c : c = IF b.seq = v.src THEN b ELSE Torn
    OBVIOUS
  <2>2. PICK w : w = [stage |-> "written", src |-> 0, tmp |-> c]
    OBVIOUS
  <2>3. WriteBecomes(p, t, NoFile, w) /\ w.tmp = c
    BY <1>1, <1>2, <1>6, <2>1, <2>2 DEF WriteAll, WriteBecomes
  <2>4. Known(c) /\ file' = file /\ disk' = disk
    BY <1>3, <1>6, <2>1 DEF WriteAll
  <2> QED
    BY <1>3, <2>3, <2>4, HeldWrite
<1>7. CASE Replace(p, t)
  <2>1. PICK w : w = [Idle EXCEPT !.stage = "renamed"]
    OBVIOUS
  <2>2. w.tmp = NoFile
    BY <2>1 DEF Idle
  <2>3. /\ file' = v.tmp /\ disk' = disk \cup {v.tmp}
        /\ proc' = [proc EXCEPT ![p].write[t] = w]
    BY <1>1, <1>7, <2>1 DEF Replace
  <2>4. WriteBecomes(p, t, b, w)
    <3>1. PICK q \in Process : q = proc[p]
      BY ProcessFacts
    <3>2. [q EXCEPT !.write[t] = w] = [q EXCEPT !.buf = b, !.write[t] = w]
      BY <1>2, <3>1 DEF Process
    <3>3. proc' = [proc EXCEPT ![p] = [q EXCEPT !.write[t] = w]]
      BY <2>3, <3>1
    <3> QED
      BY <3>1, <3>2, <3>3 DEF WriteBecomes
  <2>5. Known(file') /\ \A s \in disk' : Known(s)
    BY <1>3, <2>3
  <2> QED
    BY <1>3, <2>2, <2>4, <2>5, HeldWrite
<1>8. CASE SyncParent(p, t) \/ WriteFails(p, t)
  <2>1. /\ proc' = Finished(p, t) /\ file' = file
        /\ disk' = disk \/ disk' = {file}
    BY <1>8 DEF SyncParent, WriteFails
  <2>2. Known(file') /\ \A s \in disk' : Known(s)
    BY <1>3, <2>1
  <2>3. CASE proc[p].exiting /\ t = "loop"
    <3>1. proc' = [proc EXCEPT ![p] = Off]
      BY <2>1, <2>3 DEF Finished
    <3>2. \A s : OfProcess(Off, s) => s = NoFile
      BY DEF OfProcess, Off, Idle
    <3> QED
      BY <1>3, <2>2, <3>1, <3>2, HeldStep
  <2>4. CASE ~ (proc[p].exiting /\ t = "loop")
    <3>1. PICK q : q = proc[p]
      OBVIOUS
    <3>2. PICK c : c = IF q.buf.seq = q.write[t].src THEN NoFile ELSE q.buf
      OBVIOUS
    <3>3. PICK w : w = IF t = "task" THEN [Idle EXCEPT !.stage = "finished"]
                       ELSE Idle
      OBVIOUS
    <3>4. w.tmp = NoFile
      BY <3>3 DEF Idle
    <3>5. Known(c)
      BY <1>2, <1>3, <3>1, <3>2
    <3>6. ~ (q.exiting /\ t = "loop")
      BY <2>4, <3>1
    <3>7. proc' = [proc EXCEPT ![p] = [q EXCEPT !.buf = c, !.write[t] = w]]
      BY <2>1, <3>1, <3>2, <3>3, <3>6, Zenon DEF Finished
    <3>8. WriteBecomes(p, t, c, w)
      BY <3>1, <3>7 DEF WriteBecomes
    <3> QED
      BY <1>3, <2>2, <3>4, <3>5, <3>8, HeldWrite
  <2> QED
    BY <2>3, <2>4
<1> QED
  BY <1>5, <1>6, <1>7, <1>8

\* A process comes up, or is gone.
LEMMA HeldByOff ==
    ASSUME IInv, NEW p \in Proc, NEW run, NEW timer, NEW owner,
           \/ proc' = [proc EXCEPT ![p] = Off]
           \/ proc' = [proc EXCEPT ![p] = [Off EXCEPT !.run = run,
                                              !.timer = timer, !.owner = owner]],
           Known(file'), \A s \in disk' : Known(s)
    PROVE  \A s : IsHeld(s)' => Known(s)
<1>1. PICK x : /\ proc' = [proc EXCEPT ![p] = x]
               /\ \/ x = Off
                  \/ x = [Off EXCEPT !.run = run, !.timer = timer,
                                     !.owner = owner]
  OBVIOUS
<1>2. x.buf = NoFile /\ x.write = [t \in Writer |-> Idle]
  <2>1. PICK q : q = Off
    OBVIOUS
  <2>2. /\ q.buf = NoFile /\ q.write = [t \in Writer |-> Idle]
        /\ q \in Process
    BY <2>1, OffFacts DEF Off, IInv
  <2>3. \/ x = q
        \/ x = [q EXCEPT !.run = run, !.timer = timer, !.owner = owner]
    BY <1>1, <2>1
  <2> QED
    BY <2>2, <2>3 DEF Process
<1>3. Idle.tmp = NoFile
  BY DEF Idle
<1>4. \A s : OfProcess(x, s) => s = NoFile
  BY <1>2, <1>3 DEF OfProcess
<1> QED
  BY <1>1, <1>4, KnownFacts, HeldStep

\* A snapshot is taken.
LEMMA HeldByTake ==
    ASSUME IInv, NEW p \in Proc, NEW t \in Writer, NEW exiting, NEW owner,
           TakeSnapshot(p, t, exiting, owner)
    PROVE  \A s : IsHeld(s)' => Known(s)
<1>1. PICK q \in Process : q = proc[p]
  BY ProcessFacts
<1>2. PICK b : b = [ok |-> TRUE, seq |-> saves + 1, by |-> p,
                    recs |-> Serialize(zone)]
  OBVIOUS
<1>3. PICK w : w = [Idle EXCEPT !.stage = "queued", !.src = saves + 1]
  OBVIOUS
<1>4. PICK y : y = (q.busy \/ t = "task")
  OBVIOUS
<1>5. PICK x : x = [q EXCEPT !.buf = b, !.exiting = exiting, !.owner = owner,
                             !.busy = y, !.write[t] = w]
  OBVIOUS
<1>6. /\ proc' = [proc EXCEPT ![p] = x]
      /\ file' = file /\ disk' = disk /\ saves' = saves + 1
  BY <1>1, <1>2, <1>3, <1>4, <1>5 DEF TakeSnapshot
<1>7. /\ x.buf = b /\ x.write[t] = w
      /\ \A u \in Writer \ {t} : x.write[u] = q.write[u]
  BY <1>1, <1>5 DEF Process
<1>8. w.tmp = NoFile
  BY <1>3 DEF Idle
<1>9. Known(b)
  BY <1>2, <1>6 DEF Known
<1>10. \A s : OfProcess(x, s) => Known(s)
  <2> SUFFICES ASSUME NEW s, OfProcess(x, s) PROVE Known(s)
    OBVIOUS
  <2>1. CASE s = b \/ s = w.tmp
    BY <1>8, <1>9, <2>1, KnownFacts
  <2>2. CASE \E u \in Writer : s = q.write[u].tmp
    BY <1>1, <2>2, KnownFacts
  <2> QED
    BY <1>7, <2>1, <2>2 DEF OfProcess
<1> QED
  BY <1>6, <1>10, KnownFacts, HeldStep

\* y is the zone z, or a load of it at a time between c and d.
StandsFor(y, z, c, d) ==
    \/ y = z
    \/ \E t \in Time : c <= t /\ t <= d /\ y = LoadAll(Serialize(z), t)

\* The last snapshot is the one of z, taken at c, and the zone has not changed
\* since, but for restarts from that snapshot.
FreshFrom(z, c) ==
    /\ c \in Time /\ c <= clock
    /\ ZoneInv(z, c, 0)
    /\ \A k \in DOMAIN z.node :
          z.node[k].blocked_until <= TimeAddSaturate(c, Block)
    /\ StandsFor(zone, z, c, clock)
    /\ \A s : IsHeld(s) /\ s.seq = fresh => s.recs = Serialize(z)

FreshInv == fresh # 0 => \E z, c : FreshFrom(z, c)

\* A step that is of no interest to the zone and its snapshots.
Quiet ==
    /\ zone' = zone /\ fresh' = fresh /\ saves' = saves
    /\ clock' = clock \/ clock' = clock + 1

LEMMA FreshLater ==
    ASSUME IInv, FreshInv, Quiet, \A s : IsHeld(s)' => Known(s)
    PROVE  FreshInv'
<1> SUFFICES ASSUME fresh' # 0 PROVE \E z, c : FreshFrom(z, c)'
  BY DEF FreshInv
<1>1. fresh # 0 /\ fresh' = fresh /\ zone' = zone
      /\ saves \in Nat /\ saves' = saves
  BY DEF Quiet, IInv
<1>2. PICK z, c : FreshFrom(z, c)
  BY <1>1 DEF FreshInv
<1>3. clock \in Int /\ clock' \in Int /\ clock <= clock' /\ c \in Int
  BY <1>2, TimeFacts DEF Quiet, IInv, FreshFrom
<1>4. StandsFor(zone', z, c, clock')
  <2>1. CASE zone = z
    BY <1>1, <2>1 DEF StandsFor
  <2>2. ASSUME NEW t \in Time, c <= t, t <= clock, zone = LoadAll(Serialize(z), t)
        PROVE  StandsFor(zone', z, c, clock')
    <3>1. t <= clock'
      BY <1>3, <2>2, TimeFacts
    <3> QED
      BY <1>1, <2>2, <3>1 DEF StandsFor
  <2> QED
    BY <1>2, <2>1, <2>2 DEF FreshFrom, StandsFor
<1>5. \A s : IsHeld(s)' /\ s.seq = fresh' => s.recs = Serialize(z)
  BY <1>1, <1>2 DEF Known, FreshFrom
<1>6. FreshFrom(z, c)'
  BY <1>2, <1>3, <1>4, <1>5 DEF FreshFrom
<1> QED
  BY <1>6

\* The zone as a snapshot finds it.
LEMMA FreshTaken ==
    ASSUME IInv, ReachInv, NEW p \in Proc, NEW t \in Writer,
           NEW exiting, NEW owner, TakeSnapshot(p, t, exiting, owner)
    PROVE  FreshInv'
<1>1. /\ fresh' = saves + 1 /\ zone' = zone /\ clock' = clock /\ saves \in Nat
  BY DEF TakeSnapshot, others, IInv
<1>2. clock \in Time /\ clock \in Int /\ ZoneInv(zone, clock, 0)
  BY ClockFacts, TimeFacts DEF IInv
<1>3. ASSUME NEW k \in DOMAIN zone.node
      PROVE  zone.node[k].blocked_until <= TimeAddSaturate(clock, Block)
  <2>1. k \in Key /\ granted[k] \in Time
    BY <1>2 DEF IInv, ZoneInv, GoodZone, IsZone
  <2>2. zone.node[k].blocked_until = Until(zone, k)
    BY <1>2, <1>3, NodeOfFacts DEF Until
  <2>3. Until(zone, k) \in Time /\ Until(zone, k) <= granted[k]
    BY <1>2, <2>1, NodeOfFacts DEF IInv, BansGranted
  <2>4. /\ granted[k] <= TimeAddSaturate(clock, Block)
        /\ TimeAddSaturate(clock, Block) \in Time
    BY <1>2, <2>1, SaturateGrows DEF ReachInv
  <2> QED
    BY <2>1, <2>2, <2>3, <2>4, TimeFacts
<1>4. ASSUME NEW s, IsHeld(s)', s.seq = fresh' PROVE s.recs = Serialize(zone)
  <2>1. Known(s)
    BY <1>4, HeldByTake
  <2>2. ~ IsHeld(s)
    BY <1>1, <1>4, HeldFacts
  <2> QED
    BY <1>1, <1>4, <2>1, <2>2 DEF Known
<1>5. FreshFrom(zone, clock)'
  BY <1>1, <1>2, <1>3, <1>4 DEF FreshFrom, StandsFor
<1> QED
  BY <1>5 DEF FreshInv

\* A restart from the snapshot.
LEMMA FreshStart ==
    ASSUME IInv, NEW p \in Proc, Start(p), fresh # 0,
           file.seq = fresh, NEW z, NEW c, FreshFrom(z, c)
    PROVE  zone' = LoadAll(Serialize(z), clock)
<1>1. file.ok /\ zone' = Load(file, clock)
  BY DEF Start, IInv, GoodSnap
<1>2. file.recs = Serialize(z)
  BY DEF FreshFrom, IsHeld
<1> QED
  BY <1>1, <1>2 DEF Load

LEMMA HeldByStart ==
    ASSUME IInv, NEW p \in Proc, Start(p)
    PROVE  \A s : IsHeld(s)' => Known(s)
<1>1. PICK a : proc' = [proc EXCEPT ![p] =
                          [Off EXCEPT !.run = TRUE, !.timer = (a.rc # "ERROR"),
                                      !.owner = a.owner]]
  BY DEF Start, InitProcess
<1>2. Known(file') /\ \A s \in disk' : Known(s)
  BY KnownFacts DEF Start
<1>3. PICK b : b = (a.rc # "ERROR")
  OBVIOUS
<1>4. proc' = [proc EXCEPT ![p] = [Off EXCEPT !.run = TRUE, !.timer = b,
                                              !.owner = a.owner]]
  BY <1>1, <1>3
<1> QED
  BY <1>2, <1>4, HeldByOff

LEMMA FreshAfterStart ==
    ASSUME IInv, FreshInv, NEW p \in Proc, Start(p)
    PROVE  FreshInv'
<1> SUFFICES ASSUME fresh' # 0 PROVE \E z, c : FreshFrom(z, c)'
  BY DEF FreshInv
<1>1. /\ fresh # 0 /\ fresh' = fresh /\ file.seq = fresh
      /\ clock' = clock /\ saves' = saves /\ saves \in Nat
  BY DEF Start, IInv
<1>2. PICK z, c : FreshFrom(z, c)
  BY <1>1 DEF FreshInv
<1>3. zone' = LoadAll(Serialize(z), clock)
  BY <1>1, <1>2, FreshStart
<1>4. StandsFor(zone', z, c, clock')
  <2>1. clock \in Time /\ clock <= clock
    BY ClockFacts, TimeFacts
  <2> QED
    BY <1>1, <1>2, <1>3, <2>1 DEF FreshFrom, StandsFor
<1>5. \A s : IsHeld(s)' /\ s.seq = fresh' => s.recs = Serialize(z)
  BY <1>1, <1>2, HeldByStart DEF Known, FreshFrom
<1>6. FreshFrom(z, c)'
  BY <1>1, <1>2, <1>4, <1>5 DEF FreshFrom
<1> QED
  BY <1>6

\* The steps of a process that take no snapshot.
LEMMA HeldByProcess ==
    ASSUME IInv, NEW p \in Proc,
           \/ PersistHandler(p) \/ PersistComplete(p) \/ ExitProcess(p)
           \/ Reload(p) \/ Kill(p)
    PROVE  \/ /\ Quiet
              /\ \A s : IsHeld(s)' => Known(s)
           \/ \E t \in Writer : \E exiting, owner :
                 TakeSnapshot(p, t, exiting, owner)
<1> DEFINE Took == \E t \in Writer : \E exiting, owner :
                       TakeSnapshot(p, t, exiting, owner)
           Kept == Quiet /\ \A s : IsHeld(s)' => Known(s)
<1>1. PICK q \in Process : q = proc[p]
  BY DEF IInv
<1>2. /\ \A s : OfProcess(q, s) => Known(s)
      /\ Known(file) /\ \A s \in disk : Known(s)
  BY <1>1, KnownFacts DEF Known, IsHeld
<1>3. CASE PersistHandler(p)
  <2>1. PICK a : \/ \E t \in Threads : TakeSnapshot(p, t, FALSE, a.owner)
                 \/ /\ proc' = [proc EXCEPT ![p].owner = a.owner,
                                            ![p].timer = (a.rc # "ERROR")]
                    /\ UNCHANGED <<others, file, disk, saves, fresh>>
    BY <1>3 DEF PersistHandler
  <2>2. CASE \E t \in Threads : TakeSnapshot(p, t, FALSE, a.owner)
    <3>1. \A t \in Threads : t \in Writer
      BY DEF Threads, Writer
    <3> QED
      BY <2>2, <3>1
  <2>3. CASE /\ proc' = [proc EXCEPT ![p].owner = a.owner,
                                     ![p].timer = (a.rc # "ERROR")]
             /\ UNCHANGED <<others, file, disk, saves, fresh>>
    <3>1. PICK b : b = (a.rc # "ERROR")
      OBVIOUS
    <3>2. PICK x : x = [q EXCEPT !.owner = a.owner, !.timer = b]
      OBVIOUS
    <3>3. x.buf = q.buf /\ x.write = q.write
      BY <1>1, <3>2 DEF Process
    <3>4. proc' = [proc EXCEPT ![p] = x]
      BY <1>1, <2>3, <3>1, <3>2 DEF IInv
    <3>5. \A s : OfProcess(x, s) => Known(s)
      BY <1>2, <3>3 DEF OfProcess
    <3>6. file' = file /\ disk' = disk /\ Quiet
      BY <2>3 DEF Quiet, others
    <3> QED
      BY <1>2, <3>4, <3>5, <3>6, HeldStep
  <2> QED
    BY <2>1, <2>2, <2>3
<1>4. CASE PersistComplete(p)
  <2>1. PICK w : w = Idle
    OBVIOUS
  <2>2. PICK x : x = [q EXCEPT !.busy = FALSE, !.write["task"] = w]
    OBVIOUS
  <2>3. /\ x.buf = q.buf
        /\ \A u \in Writer : x.write[u] = w \/ x.write[u] = q.write[u]
    BY <1>1, <2>2 DEF Process, Writer
  <2>4. w.tmp = NoFile
    BY <2>1 DEF Idle
  <2>5. \A s : OfProcess(x, s) => Known(s)
    BY <1>2, <2>3, <2>4, KnownFacts DEF OfProcess
  <2>6. /\ proc' = [proc EXCEPT ![p] = x]
        /\ file' = file /\ disk' = disk /\ Quiet
    BY <1>1, <1>4, <2>1, <2>2 DEF PersistComplete, Quiet, others
  <2> QED
    BY <1>2, <2>5, <2>6, HeldStep
<1>5. CASE ExitProcess(p)
  <2>1. CASE TakeSnapshot(p, "loop", TRUE, proc[p].owner)
    BY <2>1 DEF Writer
  <2>2. CASE /\ proc' = [proc EXCEPT ![p] = Off]
             /\ UNCHANGED <<others, file, disk, saves, fresh>>
    <3>1. Known(file') /\ (\A s \in disk' : Known(s)) /\ Quiet
      BY <1>2, <2>2 DEF Quiet, others
    <3> QED
      BY <2>2, <3>1, HeldByOff
  <2> QED
    BY <1>5, <2>1, <2>2 DEF ExitProcess
<1>6. CASE Reload(p) \/ Kill(p)
  <2>1. PICK held, f : InitProcess(p, held, f)
    BY <1>6 DEF Reload, Kill
  <2>2. PICK a : proc' = [proc EXCEPT ![p] =
                      [Off EXCEPT !.run = TRUE, !.timer = (a.rc # "ERROR"),
                                  !.owner = a.owner]]
    BY <2>1 DEF InitProcess
  <2>3. PICK b : b = (a.rc # "ERROR")
    OBVIOUS
  <2>4. proc' = [proc EXCEPT ![p] = [Off EXCEPT !.run = TRUE, !.timer = b,
                                                !.owner = a.owner]]
    BY <2>2, <2>3
  <2>5. Known(file') /\ (\A s \in disk' : Known(s)) /\ Quiet
    BY <1>2, <1>6 DEF Quiet, others, Reload, Kill
  <2> QED
    BY <2>4, <2>5, HeldByOff
<1> QED
  BY <1>3, <1>4, <1>5, <1>6

LEMMA NextFresh ==
    IInv /\ ReachInv /\ FreshInv /\ [Next]_vars => FreshInv'
<1> SUFFICES ASSUME IInv, ReachInv, FreshInv, [Next]_vars PROVE FreshInv'
  OBVIOUS
<1>1. ASSUME UNCHANGED <<proc, file, disk, saves>>
      PROVE  \A s : IsHeld(s)' => Known(s)
  BY <1>1 DEF Known, IsHeld, OfProcess
<1>2. CASE UNCHANGED vars \/ Tick
  <2>1. Quiet /\ UNCHANGED <<proc, file, disk, saves>>
    BY <1>2 DEF vars, Tick, Quiet
  <2> QED
    BY <1>1, <2>1, FreshLater
<1>3. CASE Crash
  <2>1. Quiet /\ proc' = [p \in Proc |-> Off] /\ file' \in disk /\ disk' = {file'}
    BY <1>3 DEF Crash, Quiet, others
  <2>2. \A s : IsHeld(s)' => Known(s)
    <3>1. Known(file') /\ Known(NoFile)
      BY <2>1, KnownFacts
    <3>2. \A s : OfProcess(Off, s) => s = NoFile
      BY DEF OfProcess, Off, Idle
    <3>3. \A p \in Proc : proc'[p] = Off
      BY <2>1
    <3>4. \A s : IsHeld(s)' => s = file' \/ \E p \in Proc : OfProcess(proc'[p], s)
      BY <2>1 DEF IsHeld, OfProcess
    <3> QED
      BY <3>1, <3>2, <3>3, <3>4
  <2> QED
    BY <2>1, <2>2, FreshLater
<1>4. ASSUME NEW k \in Key, DoRecord(k)
      PROVE  FreshInv'
  <2>1. UNCHANGED <<clock, proc, file, disk, saves>>
        /\ fresh' = IF zone' = zone THEN fresh ELSE 0
    BY <1>4 DEF DoRecord
  <2>2. CASE zone' = zone
    BY <1>1, <2>1, <2>2, FreshLater DEF Quiet
  <2>3. CASE zone' # zone
    BY <2>1, <2>3 DEF FreshInv
  <2> QED
    BY <2>2, <2>3
<1>5. ASSUME NEW p \in Proc,
             \/ PersistHandler(p) \/ PersistComplete(p) \/ ExitProcess(p)
             \/ Reload(p) \/ Kill(p)
      PROVE  FreshInv'
  BY <1>5, HeldByProcess, FreshLater, FreshTaken
<1>6. ASSUME NEW p \in Proc, Start(p)
      PROVE  FreshInv'
  BY <1>6, FreshAfterStart
<1>7. ASSUME NEW p \in Proc, NEW t \in Writer,
             \/ CreateTemp(p, t) \/ WriteAll(p, t) \/ Flush(p, t)
             \/ Replace(p, t) \/ MoveAway(p, t) \/ SyncParent(p, t)
             \/ WriteFails(p, t)
      PROVE  FreshInv'
  <2>1. Quiet
    BY <1>7 DEF CreateTemp, WriteAll, Flush, Replace, MoveAway, SyncParent,
       WriteFails, others, Quiet
  <2> QED
    BY <1>7, <2>1, HeldByWriter, FreshLater
<1> QED
  BY <1>2, <1>3, <1>4, <1>5, <1>6, <1>7 DEF Next

\* Only a start brings the processes up.
LEMMA RestartIsStart ==
    ASSUME IInv, Next, ~ Up, Up'
    PROVE  \E p \in Proc : Start(p)
<1>1. \A p \in Proc : ~ proc[p].run
  BY DEF Up
<1>2. ~ Tick /\ ~ Crash /\ \A k \in Key : ~ DoRecord(k)
  BY DEF Tick, Crash, DoRecord, Up
<1>3. ASSUME NEW p \in Proc
      PROVE  /\ ~ PersistHandler(p) /\ ~ PersistComplete(p)
             /\ ~ ExitProcess(p) /\ ~ Reload(p) /\ ~ Kill(p)
  BY <1>1 DEF PersistHandler, PersistComplete, ExitProcess, Reload, Kill,
     LoopFree, Up
<1>4. ASSUME NEW p \in Proc, NEW t \in Writer
      PROVE  /\ ~ CreateTemp(p, t) /\ ~ WriteAll(p, t) /\ ~ Flush(p, t)
             /\ ~ Replace(p, t) /\ ~ MoveAway(p, t) /\ ~ SyncParent(p, t)
             /\ ~ WriteFails(p, t)
  BY <1>1 DEF CreateTemp, WriteAll, Flush, Replace, MoveAway, SyncParent,
     WriteFails, Writing
<1> QED
  BY <1>2, <1>3, <1>4 DEF Next

\* What a load at time s has made of the zone z, as seen at time t.
LEMMA LoadedIsSame ==
    ASSUME NEW z, NEW c \in Time, ZoneInv(z, c, 0),
           \A k \in DOMAIN z.node :
              z.node[k].blocked_until <= TimeAddSaturate(c, Block),
           NEW s, CachedAt(s, s, 0), c <= s, NEW t \in Time, s <= t,
           NEW k
    PROVE  SameLeft(NodeOf(LoadAll(Serialize(z), s), k), NodeOf(z, k), t)
<1>1. PICK y : y = LoadAll(Serialize(z), s)
  OBVIOUS
<1>2. ZoneInv(y, s, 0) /\ LoadedUpTo(y, z, Len(z.queue), s)
  BY <1>1, LoadSerialized
<1>3. s \in Time /\ c \in Int
  BY TimeFacts DEF CachedAt
<1>4. /\ Len(z.queue) \in Nat
      /\ {z.queue[i] : i \in 1 .. Len(z.queue)} = DOMAIN z.node
  BY LenProperties DEF ZoneInv, GoodZone, IsZone, WellLinked
<1>5. /\ DOMAIN y.node = {j \in DOMAIN z.node : ~ Spent(z.node[j], s)}
      /\ \A j \in DOMAIN y.node : y.node[j] = Restored(z.node[j], s)
  <2>1. Len(z.queue) - Len(z.queue) + 1 = 1
    BY <1>4
  <2> QED
    BY <1>2, <1>4, <2>1 DEF LoadedUpTo
<1>6. CASE k \in DOMAIN y.node
  <2>1. PICK n : n = z.node[k]
    OBVIOUS
  <2>2. k \in DOMAIN z.node /\ NodeInv(n, c, 0) /\ NodeOf(z, k) = n
        /\ NodeOf(y, k) = Restored(n, s)
    BY <1>5, <1>6, <2>1 DEF ZoneInv, NodeOf
  <2>3. n.blocked_until <= TimeAddSaturate(s, Block)
    <3>1. /\ TimeAddSaturate(c, Block) <= TimeAddSaturate(s, Block)
          /\ TimeAddSaturate(c, Block) \in Time
          /\ TimeAddSaturate(s, Block) \in Time
      BY <1>3, SaturateGrows
    <3>2. n.blocked_until \in Time
      BY <2>2 DEF NodeInv, Node
    <3>3. n.blocked_until <= TimeAddSaturate(c, Block)
      BY <2>1, <2>2
    <3> QED
      BY <3>1, <3>2, <3>3, TimeFacts
  <2>4. SameLeft(Restored(n, s), n, t)
    BY <1>3, <2>2, <2>3, RestoredIsSame
  <2> QED
    BY <1>1, <2>2, <2>4
<1>7. CASE k \in DOMAIN z.node /\ k \notin DOMAIN y.node
  <2>1. PICK n : n = z.node[k]
    OBVIOUS
  <2>2. NodeInv(n, c, 0) /\ NodeOf(z, k) = n /\ Spent(n, s)
        /\ NodeOf(y, k) = ZeroNode
    BY <1>5, <1>7, <2>1 DEF ZoneInv, NodeOf
  <2>3. SameLeft(ZeroNode, n, t)
    BY <1>3, <2>2, SpentIsNothing
  <2> QED
    BY <1>1, <2>2, <2>3
<1>8. CASE k \notin DOMAIN z.node
  <2>1. NodeOf(z, k) = NodeOf(y, k)
    BY <1>5, <1>8 DEF NodeOf
  <2> QED
    BY <1>1, <2>1 DEF SameLeft
<1> QED
  BY <1>6, <1>7, <1>8

\* Of two loads of one zone, the later one brings back some of the identities
\* of the earlier one, in their order.
LEMMA LaterLoad ==
    ASSUME NEW z, NEW c \in Time, ZoneInv(z, c, 0),
           NEW s, CachedAt(s, s, 0), c <= s,
           NEW t, CachedAt(t, t, 0), s <= t
    PROVE  Subsequence(LoadAll(Serialize(z), t).queue,
                       LoadAll(Serialize(z), s).queue)
<1>1. PICK x : x = LoadAll(Serialize(z), s)
  OBVIOUS
<1>2. PICK y : y = LoadAll(Serialize(z), t)
  OBVIOUS
<1>3. s \in Time /\ t \in Time /\ c <= t /\ c \in Int
  BY TimeFacts DEF CachedAt
<1>4. PICK n \in Nat : n = Len(z.queue) /\ n - n + 1 = 1
  <2>1. Len(z.queue) \in Nat
    BY LenProperties DEF ZoneInv, GoodZone, IsZone
  <2> QED
    BY <2>1
<1>5. /\ ZoneInv(x, s, 0) /\ LoadedUpTo(x, z, n, s)
      /\ ZoneInv(y, t, 0) /\ LoadedUpTo(y, z, n, t)
  BY <1>1, <1>2, <1>3, <1>4, LoadSerialized
<1>6. PICK l \in Nat, m \in Nat : l = Len(x.queue) /\ m = Len(y.queue)
  BY <1>5, LenProperties DEF ZoneInv, GoodZone, IsZone
<1>7. /\ DOMAIN x.queue = 1 .. l /\ DOMAIN y.queue = 1 .. m
      /\ {x.queue[i] : i \in 1 .. l} = DOMAIN x.node
      /\ {y.queue[i] : i \in 1 .. m} = DOMAIN y.node
      /\ {z.queue[i] : i \in 1 .. n} = DOMAIN z.node
      /\ \A i, j \in 1 .. n : z.queue[i] = z.queue[j] => i = j
  BY <1>4, <1>5, <1>6, LenProperties DEF ZoneInv, GoodZone, IsZone, WellLinked
<1>8. /\ DOMAIN x.node = {j \in DOMAIN z.node : ~ Spent(z.node[j], s)}
      /\ DOMAIN y.node = {j \in DOMAIN z.node : ~ Spent(z.node[j], t)}
  BY <1>4, <1>5, <1>7 DEF LoadedUpTo
<1>9. PICK g \in [1 .. l -> 1 .. n] :
          /\ \A a, b \in 1 .. l : a < b => g[a] < g[b]
          /\ \A a \in 1 .. l : x.queue[a] = z.queue[g[a]]
  BY <1>4, <1>5, <1>6 DEF LoadedUpTo
<1>10. PICK f \in [1 .. m -> 1 .. n] :
          /\ \A a, b \in 1 .. m : a < b => f[a] < f[b]
          /\ \A a \in 1 .. m : y.queue[a] = z.queue[f[a]]
  BY <1>4, <1>5, <1>6 DEF LoadedUpTo
<1>11. ASSUME NEW a \in 1 .. m
       PROVE  \E b \in 1 .. l : g[b] = f[a]
  <2>1. y.queue[a] \in DOMAIN y.node
    BY <1>7, <1>11
  <2>2. PICK k : k = y.queue[a] /\ k \in DOMAIN z.node /\ ~ Spent(z.node[k], t)
    BY <1>8, <2>1
  <2>3. ~ Spent(z.node[k], s)
    <3>1. NodeInv(z.node[k], c, 0)
      BY <2>2 DEF ZoneInv
    <3> QED
      BY <1>3, <2>2, <3>1, SpentIsNothing
  <2>4. k \in DOMAIN x.node
    BY <1>8, <2>2, <2>3
  <2>5. PICK b \in 1 .. l : x.queue[b] = k
    <3>1. k \in {x.queue[i] : i \in 1 .. l}
      BY <1>7, <2>4, Zenon
    <3> QED
      BY <3>1
  <2>6. z.queue[g[b]] = z.queue[f[a]] /\ g[b] \in 1 .. n /\ f[a] \in 1 .. n
    BY <1>9, <1>10, <2>2, <2>5
  <2> QED
    BY <1>7, <2>6
<1>12. PICK h : h = [a \in 1 .. m |-> CHOOSE b \in 1 .. l : g[b] = f[a]]
  OBVIOUS
<1>13. \A a \in 1 .. m : h[a] \in 1 .. l /\ g[h[a]] = f[a]
  BY <1>11, <1>12
<1>14. h \in [1 .. m -> 1 .. l]
  BY <1>12, <1>13
<1>15. \A a, b \in 1 .. m : a < b => h[a] < h[b]
  <2> SUFFICES ASSUME NEW a \in 1 .. m, NEW b \in 1 .. m, a < b,
                      ~ (h[a] < h[b])
               PROVE  FALSE
    OBVIOUS
  <2>1. f[a] < f[b] /\ f[a] \in Int /\ f[b] \in Int
    BY <1>10
  <2>2. h[a] \in 1 .. l /\ h[b] \in 1 .. l
    BY <1>13
  <2>3. h[b] < h[a] \/ h[b] = h[a]
    BY <2>2
  <2>4. g[h[b]] < g[h[a]] \/ g[h[b]] = g[h[a]]
    BY <1>9, <2>2, <2>3
  <2> QED
    BY <1>13, <2>1, <2>4
<1>16. \A a \in 1 .. m : y.queue[a] = x.queue[h[a]]
  BY <1>9, <1>10, <1>13
<1> QED
  BY <1>1, <1>2, <1>7, <1>14, <1>15, <1>16 DEF Subsequence

\* The load itself keeps the order, too.
LEMMA LoadInOrder ==
    ASSUME NEW z, NEW c \in Time, ZoneInv(z, c, 0),
           NEW t, CachedAt(t, t, 0), c <= t
    PROVE  Subsequence(LoadAll(Serialize(z), t).queue, z.queue)
<1>1. PICK y : y = LoadAll(Serialize(z), t)
  OBVIOUS
<1>2. PICK n \in Nat : n = Len(z.queue) /\ n - n + 1 = 1 /\ DOMAIN z.queue = 1 .. n
  <2>1. Len(z.queue) \in Nat /\ DOMAIN z.queue = 1 .. Len(z.queue)
    BY LenProperties DEF ZoneInv, GoodZone, IsZone
  <2> QED
    BY <2>1
<1>3. ZoneInv(y, t, 0) /\ LoadedUpTo(y, z, n, t)
  BY <1>1, <1>2, LoadSerialized
<1>4. PICK m \in Nat : m = Len(y.queue) /\ DOMAIN y.queue = 1 .. m
  BY <1>3, LenProperties DEF ZoneInv, GoodZone, IsZone
<1>5. PICK f \in [1 .. m -> 1 .. n] :
          /\ \A a, b \in 1 .. m : a < b => f[a] < f[b]
          /\ \A a \in 1 .. m : y.queue[a] = z.queue[f[a]]
  BY <1>2, <1>3, <1>4 DEF LoadedUpTo
<1> QED
  BY <1>1, <1>2, <1>4, <1>5 DEF Subsequence

\* A restart from a fresh snapshot.
LEMMA FreshRestartFacts ==
    ASSUME IInv, FreshInv, Next, FreshRestart
    PROVE  \E z, c : /\ FreshFrom(z, c)
                     /\ zone' = LoadAll(Serialize(z), clock)
<1>1. PICK p \in Proc : Start(p)
  BY RestartIsStart DEF FreshRestart
<1>2. fresh # 0 /\ file.seq = fresh
  BY DEF FreshRestart
<1>3. PICK z, c : FreshFrom(z, c)
  BY <1>2 DEF FreshInv
<1> QED
  BY <1>1, <1>2, <1>3, FreshStart

LEMMA RestartBans ==
    ASSUME IInv, FreshInv, Next, FreshRestart, NEW k \in Key
    PROVE  LET lost == NodeOf(zone, k)
               back == NodeOf(zone', k)
           IN  IF Banned(lost, clock)
               THEN back.blocked_until = lost.blocked_until
               ELSE LiveEvents(lost, clock) = LiveEvents(back, clock)
<1>1. PICK z, c : FreshFrom(z, c) /\ zone' = LoadAll(Serialize(z), clock)
  BY FreshRestartFacts
<1>2. clock \in Time /\ CachedAt(clock, clock, 0) /\ clock <= clock
  BY ClockFacts, TimeFacts
<1>3. PICK lost, back, n : /\ lost = NodeOf(zone, k) /\ n = NodeOf(z, k)
                           /\ back = NodeOf(zone', k)
  OBVIOUS
<1>4. SameLeft(back, n, clock)
  BY <1>1, <1>2, <1>3, LoadedIsSame DEF FreshFrom
<1>5. SameLeft(lost, n, clock)
  <2>1. CASE zone = z
    BY <1>3, <2>1 DEF SameLeft
  <2>2. ASSUME NEW t \in Time, c <= t, t <= clock,
               zone = LoadAll(Serialize(z), t)
        PROVE  SameLeft(lost, n, clock)
    <3>1. CachedAt(t, t, 0)
      BY <1>2, <2>2, TimeFacts DEF CachedAt
    <3> QED
      BY <1>1, <1>2, <1>3, <2>2, <3>1, LoadedIsSame DEF FreshFrom
  <2> QED
    BY <1>1, <2>1, <2>2 DEF FreshFrom, StandsFor
<1>6. IF Banned(lost, clock) THEN back.blocked_until = lost.blocked_until
      ELSE LiveEvents(lost, clock) = LiveEvents(back, clock)
  BY <1>4, <1>5 DEF SameLeft, Banned
<1> QED
  BY <1>3, <1>6

LEMMA RestartOrder ==
    ASSUME IInv, FreshInv, Next, FreshRestart
    PROVE  Subsequence(zone'.queue, zone.queue)
<1>1. PICK z, c : FreshFrom(z, c) /\ zone' = LoadAll(Serialize(z), clock)
  BY FreshRestartFacts
<1>2. clock \in Time /\ CachedAt(clock, clock, 0) /\ clock <= clock
  BY ClockFacts, TimeFacts
<1>3. CASE zone = z
  BY <1>1, <1>2, <1>3, LoadInOrder DEF FreshFrom
<1>4. ASSUME NEW t \in Time, c <= t, t <= clock,
             zone = LoadAll(Serialize(z), t)
      PROVE  Subsequence(zone'.queue, zone.queue)
  <2>1. CachedAt(t, t, 0)
    BY <1>2, <1>4, TimeFacts DEF CachedAt
  <2> QED
    BY <1>1, <1>2, <1>4, <2>1, LaterLoad DEF FreshFrom
<1> QED
  BY <1>1, <1>3, <1>4 DEF FreshFrom, StandsFor

\* The two invariants, and the last snapshot.
LEMMA FreshInvariance == Spec => [](IInv /\ ReachInv /\ FreshInv)
<1>1. Init => IInv /\ ReachInv /\ FreshInv
  BY InitInv, InitReach DEF Init, FreshInv
<1>2. IInv /\ ReachInv /\ FreshInv /\ [Next]_vars
         => (IInv /\ ReachInv /\ FreshInv)'
  BY NextInv, NextReach, NextFresh
<1> QED
  BY <1>1, <1>2, PTL DEF Spec

\* A restart from a snapshot that is no older than the last change of the zone
\* loses no running ban and no error of the window, whatever the zone, the
\* number of processes that save it, the crashes and the restarts before.
THEOREM RestartsKeepBans == Spec => RestartKeepsBans
<1>1. IInv /\ FreshInv /\ [Next]_vars
         => [FreshRestart => \A k \in Key :
                LET lost == NodeOf(zone, k)
                    back == NodeOf(zone', k)
                IN  IF Banned(lost, clock)
                    THEN back.blocked_until = lost.blocked_until
                    ELSE LiveEvents(lost, clock)
                            = LiveEvents(back, clock)]_vars
  BY RestartBans
<1> QED
  BY <1>1, FreshInvariance, PTL DEF Spec, RestartKeepsBans

\* Nor does it change the order in which identities are evicted.
THEOREM RestartsKeepOrder == Spec => RestartKeepsOrder
<1>1. IInv /\ FreshInv /\ [Next]_vars
         => [FreshRestart => Subsequence(zone'.queue, zone.queue)]_vars
  BY RestartOrder
<1> QED
  BY <1>1, FreshInvariance, PTL DEF Spec, RestartKeepsOrder

=============================================================================
