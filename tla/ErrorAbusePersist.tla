------------------------- MODULE ErrorAbusePersist -------------------------
(***************************************************************************)
(* The snapshot of a zone on disk: who writes it, when, in which steps,    *)
(* and what a restart makes of it.                                         *)
(*                                                                         *)
(* One worker process (worker 0) of each nginx generation saves the zone:  *)
(* on a timer, through a thread-pool task or, when none can be had, in its *)
(* event loop, and once more when it exits.  A reload starts a second      *)
(* generation on the same shared memory while the first still drains.      *)
(* Workers of any number answer requests meanwhile.  A worker may be       *)
(* killed and respawned; the machine may crash, which loses what was not   *)
(* flushed.  All processes read one clock here.                            *)
(*                                                                         *)
(* On Windows there is no thread pool, every worker has the timer, and a   *)
(* named mutex decides which of them saves: the owner keeps it until it    *)
(* exits, and its death leaves it abandoned.  The rename that replaces the *)
(* snapshot takes two steps there.                                         *)
(***************************************************************************)
EXTENDS ErrorAbuseSnapshot

CONSTANTS
    NoProc,     \* the writer of no snapshot, the owner of no mutex
    Proc,       \* slots for the processes that may save: worker 0 of each
                \* generation, on Windows any worker
    Platforms,  \* the builds: "posix", "win32"
    MaxSaves,   \* bound: snapshots taken
    MaxKills,   \* bound: killed workers
    MaxCrashes, \* bound: machine crashes
    MaxReloads, \* bound: reloads (on Windows also: further workers)
    MaxDenied,  \* bound: failing system calls on the owner mutex
    MaxTime     \* bound: the clock stops here

ASSUME PersistBounds ==
    /\ {MaxSaves, MaxKills, MaxCrashes, MaxReloads, MaxDenied} \subseteq Nat
    /\ Platforms \subseteq {"posix", "win32"}
    /\ MaxTime \in Nat \ {0}
    /\ MaxTime < TimeMax
    /\ NoProc \notin Proc
    /\ "abandoned" \notin Proc

VARIABLES
    platform, \* the build that runs
    clock,
    zone,     \* the shared zone; once no process runs, what was lost with it
    proc,     \* proc[p]: the saving process in slot p
    mutex,    \* Windows: the owner, NoProc or "abandoned"
    file,     \* the snapshot under the persist= path
    disk,     \* what a machine crash may leave under that path
    saves,    \* history: the number of snapshots taken
    fresh,    \* history: the last snapshot, if the zone has not changed since
    granted,  \* history: granted[k], the end of the last ban of k
    faults    \* history: kills, crashes, reloads and denials so far

vars == <<platform, clock, zone, proc, mutex, file, disk, saves, fresh,
          granted, faults>>

\* What the steps of a process on its snapshot leave alone.
others == <<platform, clock, zone, granted>>

\* A snapshot: complete or not, its number, the process that took it and its
\* records.  An absent file loads like an empty one.
NoFile == [ok |-> TRUE, seq |-> 0, by |-> NoProc, recs |-> <<>>]
Torn   == [ok |-> FALSE, seq |-> 0, by |-> NoProc, recs |-> <<>>]

\* The two places that write: a thread-pool task, and the event loop itself,
\* which does nothing else meanwhile.
Writer == {"task", "loop"}

\* A call of write_file: how far it is, the snapshot it was given (0: none) and
\* its temporary file.
Idle == [stage |-> "idle", src |-> 0, tmp |-> NoFile]

\* A process.  busy is zone->persist_busy, and buf what is still to be written
\* of zone->persist_buf, the one buffer of both writers.  timer: persist_event
\* is in the timer tree; owner: the flags owned and failed of persist_owner.
Off == [run |-> FALSE, exiting |-> FALSE, busy |-> FALSE, buf |-> NoFile,
        timer |-> FALSE, owner |-> "none",
        write |-> [t \in Writer |-> Idle]]

Up == \E p \in Proc : proc[p].run

Init ==
    /\ platform \in Platforms
    /\ mutex = NoProc
    /\ clock = 1
    /\ zone = EmptyZone
    /\ proc = [p \in Proc |-> Off]
    /\ file = NoFile
    /\ disk = {NoFile}
    /\ saves = 0
    /\ fresh = 0
    /\ granted = [k \in Key |-> 0]
    /\ faults = [kill |-> 0, crash |-> 0, reload |-> 0,
                 denied |-> 0]

\* load: a snapshot whose checksum is wrong counts for nothing.
Load(snap, t) == IF snap.ok THEN LoadAll(snap.recs, t) ELSE EmptyZone

-----------------------------------------------------------------------------
(***************************************************************************)
(* Saving.                                                                 *)
(***************************************************************************)

\* A process that owns the snapshot's mutex, or needs none.
Attempt(owner, held, rc) == [owner |-> owner, mutex |-> held, rc |-> rc]

\* The owner_try that takes the mutex of a dead owner for an error.
MutOwnerTry(p, owner, held) ==
    CASE platform = "posix" -> {Attempt(owner, held, "OK")}
      [] platform = "win32" /\ owner = "owned" -> {Attempt(owner, held, "OK")}
      [] platform = "win32" /\ (owner = "failed" \/ held = "abandoned") ->
            {Attempt("failed", held, "ERROR")}
      [] OTHER -> IF held \in Proc THEN {Attempt(owner, held, "DECLINED")}
                                   ELSE {Attempt("owned", p, "OK")}

\* platform_owner_try, with the process' own flags and the mutex: a mutex that
\* is free or abandoned is taken, a system call that fails is final.
OwnerTry(p, owner, held) ==
    CASE platform = "posix" -> {Attempt(owner, held, "OK")}
      [] platform = "win32" /\ owner = "owned" -> {Attempt(owner, held, "OK")}
      [] platform = "win32" /\ owner = "failed" ->
            {Attempt(owner, held, "ERROR")}
      [] OTHER ->
            {IF held \in Proc THEN Attempt(owner, held, "DECLINED")
                              ELSE Attempt("owned", p, "OK")} \cup
            (IF faults.denied < MaxDenied
             THEN {Attempt("failed", held, "ERROR")} ELSE {})

\* A denial is the first failure of a process' owner_try.
Denied(p, a) == proc[p].owner # "failed" /\ a.owner = "failed"

\* The event loop of p is free to handle an event.
LoopFree(p) ==
    /\ proc[p].run
    /\ ~ proc[p].exiting
    /\ proc[p].write["loop"] = Idle

\* The writers of a build: thread pools are for POSIX only.
Threads == IF platform = "posix" THEN Writer ELSE {"loop"}

\* serialize into the buffer, for the writer t.
TakeSnapshot(p, t, exiting, owner) ==
    /\ saves < MaxSaves
    /\ saves' = saves + 1
    /\ fresh' = saves + 1
    /\ proc' = [proc EXCEPT ![p] =
                  [@ EXCEPT !.buf = [ok |-> TRUE, seq |-> saves + 1, by |-> p,
                                     recs |-> Serialize(zone)],
                            !.exiting = exiting,
                            !.owner = owner,
                            !.busy = (proc[p].busy \/ t = "task"),
                            !.write[t] = [Idle EXCEPT !.stage = "queued",
                                                      !.src = saves + 1]]]
    /\ UNCHANGED <<others, file, disk>>

\* The timer that writes in the event loop when a task is in flight.
MutPersistHandler(p) ==
    /\ LoopFree(p)
    /\ proc[p].timer
    /\ TakeSnapshot(p, IF proc[p].busy THEN "loop" ELSE "task", FALSE, "none")
    /\ UNCHANGED <<mutex, faults>>

\* persist_handler: the timer fires, and is set again unless owner_try has
\* failed for good.  The tick is skipped while another process owns the mutex
\* or a task is in flight, and when there is no memory for the buffer.
\* Otherwise the snapshot goes to a task, or is written at once if there is no
\* thread pool or the task cannot be posted.
PersistHandler(p) ==
    /\ LoopFree(p)
    /\ proc[p].timer
    /\ \E a \in OwnerTry(p, proc[p].owner, mutex) :
          /\ mutex' = a.mutex
          /\ faults' = [faults EXCEPT !.denied =
                                        IF Denied(p, a) THEN @ + 1 ELSE @]
          /\ \/ /\ a.rc = "OK" /\ ~ proc[p].busy
                /\ \E t \in Threads : TakeSnapshot(p, t, FALSE, a.owner)
             \/ /\ proc' = [proc EXCEPT ![p].owner = a.owner,
                                        ![p].timer = (a.rc # "ERROR")]
                /\ UNCHANGED <<others, file, disk, saves, fresh>>

\* The write t of p is at the given stage of write_file.
Writing(p, t, stage) == proc[p].run /\ proc[p].write[t].stage = stage

\* write_file creates a temporary file of its own.
CreateTemp(p, t) ==
    /\ Writing(p, t, "queued")
    /\ proc' = [proc EXCEPT ![p].write[t].stage = "created"]
    /\ UNCHANGED <<others, mutex, file, disk, saves, fresh, faults>>

\* write_all: a buffer that changes under it gives a file of two halves.
WriteAll(p, t) ==
    /\ Writing(p, t, "created")
    /\ proc' = [proc EXCEPT ![p] =
                  [@ EXCEPT !.buf = NoFile,
                            !.write[t] =
                               [stage |-> "written", src |-> 0,
                                tmp |-> IF proc[p].buf.seq
                                           = proc[p].write[t].src
                                        THEN proc[p].buf ELSE Torn]]]
    /\ UNCHANGED <<others, mutex, file, disk, saves, fresh, faults>>

\* flush_file and close.
Flush(p, t) ==
    /\ Writing(p, t, "written")
    /\ proc' = [proc EXCEPT ![p].write[t].stage = "flushed"]
    /\ UNCHANGED <<others, mutex, file, disk, saves, fresh, faults>>

\* platform_replace: the temporary file takes the place of the snapshot.  A
\* crash may still undo it.  On Windows a file in that place has been moved away
\* before (MoveAway).
Replace(p, t) ==
    /\ \/ Writing(p, t, "flushed") /\ (platform = "posix" \/ file = NoFile)
       \/ Writing(p, t, "moved")
    /\ file' = proc[p].write[t].tmp
    /\ disk' = disk \cup {proc[p].write[t].tmp}
    /\ proc' = [proc EXCEPT ![p].write[t] = [Idle EXCEPT !.stage = "renamed"]]
    /\ UNCHANGED <<others, mutex, saves, fresh, faults>>

\* win32_replace when the path is taken: the old snapshot is moved away, to be
\* deleted whether or not the new one can be moved in.
MoveAway(p, t) ==
    /\ platform = "win32"
    /\ Writing(p, t, "flushed")
    /\ file # NoFile
    /\ file' = NoFile
    /\ disk' = disk \cup {NoFile}
    /\ proc' = [proc EXCEPT ![p].write[t].stage = "moved"]
    /\ UNCHANGED <<others, mutex, saves, fresh, faults>>

\* A write that has come to its end: a task waits for its completion event,
\* the event loop goes on, an exiting process is gone.
Finished(p, t) ==
    LET q == proc[p]
    IN  [proc EXCEPT ![p] =
            IF q.exiting /\ t = "loop" THEN Off
            ELSE [q EXCEPT !.buf = IF q.buf.seq = q.write[t].src
                                   THEN NoFile ELSE q.buf,
                           !.write[t] = IF t = "task"
                                        THEN [Idle EXCEPT !.stage = "finished"]
                                        ELSE Idle]]

\* platform_owner_release, at the end of exit_process.
Released(p, t) ==
    IF proc[p].exiting /\ t = "loop" /\ mutex = p THEN NoProc ELSE mutex

\* platform_sync_parent, which may fail without failing the save, and does
\* nothing on Windows.
SyncParent(p, t) ==
    /\ Writing(p, t, "renamed")
    /\ \/ disk' = disk
       \/ platform = "posix" /\ disk' = {file}
    /\ proc' = Finished(p, t)
    /\ mutex' = Released(p, t)
    /\ UNCHANGED <<others, file, saves, fresh, faults>>

\* A step of write_file fails; the temporary file is deleted.
WriteFails(p, t) ==
    /\ \E s \in {"queued", "created", "written", "flushed", "moved"} :
          Writing(p, t, s)
    /\ proc' = Finished(p, t)
    /\ mutex' = Released(p, t)
    /\ UNCHANGED <<others, file, disk, saves, fresh, faults>>

\* The completion that leaves persist_busy set.
MutPersistComplete(p) ==
    /\ LoopFree(p)
    /\ Writing(p, "task", "finished")
    /\ proc' = [proc EXCEPT ![p].write["task"] = Idle]
    /\ UNCHANGED <<others, mutex, file, disk, saves, fresh, faults>>

\* persist_complete, in the event loop.
PersistComplete(p) ==
    /\ LoopFree(p)
    /\ Writing(p, "task", "finished")
    /\ proc' = [proc EXCEPT ![p] = [@ EXCEPT !.busy = FALSE,
                                             !.write["task"] = Idle]]
    /\ UNCHANGED <<others, mutex, file, disk, saves, fresh, faults>>

\* The exit that releases the mutex before the last snapshot is written.
MutExitProcess(p) ==
    /\ LoopFree(p)
    /\ proc[p].write["task"].stage \in {"idle", "finished"}
    /\ mutex' = IF mutex = p THEN NoProc ELSE mutex
    /\ UNCHANGED faults
    /\ \/ /\ platform = "posix" \/ proc[p].owner = "owned"
          /\ TakeSnapshot(p, "loop", TRUE, "none")
       \/ /\ proc' = [proc EXCEPT ![p] = Off]
          /\ UNCHANGED <<others, file, disk, saves, fresh>>

\* exit_process: the thread pool has been drained by its own exit handler,
\* and the zone is saved a last time in the process itself, on Windows only by
\* the owner, which then releases the mutex.  There may be no memory for it.
ExitProcess(p) ==
    /\ LoopFree(p)
    /\ proc[p].write["task"].stage \in {"idle", "finished"}
    /\ UNCHANGED faults
    /\ \/ /\ platform = "posix" \/ proc[p].owner = "owned"
          /\ TakeSnapshot(p, "loop", TRUE, proc[p].owner)
          /\ UNCHANGED mutex
       \/ /\ proc' = [proc EXCEPT ![p] = Off]
          /\ mutex' = IF mutex = p THEN NoProc ELSE mutex
          /\ UNCHANGED <<others, file, disk, saves, fresh>>

-----------------------------------------------------------------------------
(***************************************************************************)
(* The rest of nginx, and the machine.                                     *)
(***************************************************************************)

Tick ==
    /\ clock < MaxTime
    /\ clock' = clock + 1
    /\ UNCHANGED <<platform, zone, proc, mutex, file, disk, saves, fresh,
                   granted, faults>>

\* A worker counts an error of k.
DoRecord(k) ==
    /\ Up
    /\ zone' = Record(zone, k, clock)
    /\ granted' = [granted EXCEPT ![k] =
                     Max({@, NodeOf(zone', k).blocked_until})]
    /\ fresh' = IF zone' = zone THEN fresh ELSE 0
    /\ UNCHANGED <<platform, clock, proc, mutex, file, disk, saves, faults>>

\* init_process of the process in slot p, while held is the mutex and f the
\* faults so far: the timer is armed, on Windows unless owner_try fails.
InitProcess(p, held, f) ==
    \E a \in OwnerTry(p, "none", held) :
        /\ proc' = [proc EXCEPT ![p] =
                      [Off EXCEPT !.run = TRUE, !.timer = (a.rc # "ERROR"),
                                  !.owner = a.owner]]
        /\ mutex' = a.mutex
        /\ faults' = [f EXCEPT !.denied = IF a.rc = "ERROR" THEN @ + 1 ELSE @]

\* init_zone with new shared memory, and the first worker.  A file that fails
\* its checksum is deleted.
Start(p) ==
    /\ ~ Up
    /\ zone' = Load(file, clock)
    /\ file' = IF file.ok THEN file ELSE NoFile
    /\ fresh' = IF file.seq = fresh THEN fresh ELSE 0
    /\ InitProcess(p, mutex, faults)
    /\ UNCHANGED <<platform, clock, disk, saves, granted>>

\* A reload: init_zone takes over the old zone's memory, and a worker of the
\* new generation arms a timer of its own while the old one drains.
Reload(p) ==
    /\ Up
    /\ ~ proc[p].run
    /\ faults.reload < MaxReloads
    /\ InitProcess(p, mutex, [faults EXCEPT !.reload = @ + 1])
    /\ UNCHANGED <<others, file, disk, saves, fresh>>

\* A worker is killed and the master starts another on the same memory.  A
\* temporary file stays behind and is never read, a mutex is abandoned.
Kill(p) ==
    /\ proc[p].run
    /\ faults.kill < MaxKills
    /\ InitProcess(p, IF mutex = p THEN "abandoned" ELSE mutex,
                   [faults EXCEPT !.kill = @ + 1])
    /\ UNCHANGED <<others, file, disk, saves, fresh>>

\* Power loss: the shared memory is gone and the file is what reached disk.
Crash ==
    /\ Up
    /\ faults.crash < MaxCrashes
    /\ faults' = [faults EXCEPT !.crash = @ + 1]
    /\ proc' = [p \in Proc |-> Off]
    /\ mutex' = NoProc
    /\ file' \in disk
    /\ disk' = {file'}
    /\ UNCHANGED <<others, saves, fresh>>

Next ==
    \/ Tick
    \/ Crash
    \/ \E k \in Key : DoRecord(k)
    \/ \E p \in Proc :
          \/ PersistHandler(p) \/ PersistComplete(p) \/ ExitProcess(p)
          \/ Start(p) \/ Reload(p) \/ Kill(p)
    \/ \E p \in Proc, t \in Writer :
          \/ CreateTemp(p, t) \/ WriteAll(p, t) \/ Flush(p, t)
          \/ Replace(p, t) \/ MoveAway(p, t) \/ SyncParent(p, t)
          \/ WriteFails(p, t)

Spec == Init /\ [][Next]_vars

\* A write comes to its end, well or not, and the event loop, when it is free,
\* handles the timer and the completion events the thread pool has posted.
Fairness ==
    /\ \A p \in Proc : WF_vars(PersistComplete(p)) /\ WF_vars(PersistHandler(p))
    /\ \A p \in Proc, t \in Writer :
          WF_vars(\/ CreateTemp(p, t) \/ WriteAll(p, t) \/ Flush(p, t)
                  \/ Replace(p, t) \/ MoveAway(p, t) \/ SyncParent(p, t)
                  \/ WriteFails(p, t))

FairSpec == Spec /\ Fairness

-----------------------------------------------------------------------------
(***************************************************************************)
(* Properties.                                                             *)
(***************************************************************************)

Stage == {"idle", "queued", "created", "written", "flushed", "moved",
          "renamed", "finished"}

\* Every variable has its type, the zone is well formed also right after a
\* load, persist_busy is set as long as a task is in flight, and the mutex
\* belongs to the process that believes it does.
TypeOK ==
    /\ clock \in 1 .. MaxTime
    /\ IsZone(zone) /\ WellLinked(zone)
    /\ \A p \in Proc :
          /\ \A t \in Writer : proc[p].write[t].stage \in Stage
          /\ proc[p].busy <=> proc[p].write["task"] # Idle
          /\ proc[p].owner = "owned" <=> mutex = p
    /\ granted \in [Key -> Time]

\* README: "a crash cannot leave a truncated state file".  Neither the file
\* nor anything a crash may leave in its place is ever an incomplete snapshot,
\* or one of a buffer that was reused while it was written.
FileIsComplete == file.ok /\ \A s \in disk : s.ok

\* No restart, reload or crash lengthens a ban: the zone never holds a ban
\* later than the last one record() granted to that identity.
NoBanFromDisk ==
    \A k \in Key : NodeOf(zone, k).blocked_until <= granted[k]

\* This step is a restart from a snapshot that is no older than the last
\* change of the lost zone.
FreshRestart == ~ Up /\ Up' /\ file.seq # 0 /\ file.seq = fresh

\* A restart from a fresh snapshot brings back every running ban with its
\* deadline, and of every other identity the errors still in the window.
RestartKeepsBans ==
    [][FreshRestart => \A k \in Key :
          LET lost == NodeOf(zone, k)
              back == NodeOf(zone', k)
          IN  IF Banned(lost, clock)
              THEN back.blocked_until = lost.blocked_until
              ELSE LiveEvents(lost, clock) = LiveEvents(back, clock)]_vars

\* The members of s, in their order, are some of those of q.
Subsequence(s, q) ==
    \E f \in [DOMAIN s -> DOMAIN q] :
        /\ \A i, j \in DOMAIN s : i < j => f[i] < f[j]
        /\ \A i \in DOMAIN s : s[i] = q[f[i]]

\* A restart from a fresh snapshot rebuilds the LRU list in its old order, so
\* that the eviction order survives the restart.  (By TypeOK, the list holds
\* the nodes that are back, each once.)
RestartKeepsOrder ==
    [][FreshRestart => Subsequence(zone'.queue, zone.queue)]_vars

\* The number of the snapshot a call of write_file is about to put in place.
Pending(w) ==
    IF w.stage \in {"idle", "renamed", "finished"} THEN 0
    ELSE IF w.src # 0 THEN w.src ELSE w.tmp.seq

\* No write under way would replace a snapshot by an older one, or by one of a
\* buffer that was reused meanwhile: the timer, its fallback and the final save
\* of one process never overtake each other, and on Windows the owner mutex
\* orders the saves of all processes.  (On POSIX, the old generation may
\* replace a newer snapshot of the new one during a reload.)
SnapshotsInOrder ==
    \A p \in Proc, t \in Writer :
        LET w == proc[p].write[t]
        IN  /\ w.stage \notin {"idle", "renamed", "finished"}
            /\ platform = "win32" \/ file.by = p
            => Pending(w) > file.seq

\* A task in flight does not stop the timer's saves for good: persist_busy is
\* cleared, or the process exits.
SavesGoOn ==
    \A p \in Proc : proc[p].busy ~> (~ proc[p].busy \/ proc[p].exiting)

\* On Windows, when the owner exits or dies, a worker that goes on running
\* takes over at one of its next timers, so that the zone is still saved.
\* (Holds with MaxDenied = 0: a worker whose call on the mutex has failed never
\* tries again.)
OwnershipPassesOn ==
    \A p \in Proc :
        platform = "win32" /\ proc[p].run
            ~> \/ \E q \in Proc : mutex = q
               \/ ~ proc[p].run \/ proc[p].exiting

=============================================================================
