--------------------------- MODULE ErrorAbuseConf ---------------------------
(***************************************************************************)
(* Configurations: how the directives are read, what a location inherits,  *)
(* and which memory and which snapshot each new cycle gets for its zones.  *)
(*                                                                         *)
(* A directive is the sequence of its arguments, <<parameter, value>>.     *)
(* Numbers and names that matter are their own value; any other text is    *)
(* just "invalid" when its parser refuses it.  A zone that is in the       *)
(* last cycle with the same size keeps its memory (nginx), so several      *)
(* generations may run on one memory with configurations of their own.     *)
(***************************************************************************)
EXTENDS Integers, Sequences, FiniteSets

CONSTANTS
    ZoneArgs, EnableArgs, RedisArgs,  \* arguments the directives may have
    MaxSeconds, MaxThreshold,         \* the largest values accepted
    MinStatus, MaxStatus,             \* response codes: 100 and 599
    DefaultInterval, DefaultThreshold, DefaultBlock, DefaultInactive,
    DefaultStatuses,                  \* a sequence of ranges
    MaxDirectives,                    \* bound: directives in a file
    MaxCycles                         \* bound: configurations taken over

ASSUME Limits ==
    /\ {MaxSeconds, MaxThreshold, MaxDirectives, MaxCycles} \subseteq Nat
    /\ {MinStatus, MaxStatus} \subseteq Nat
    /\ DefaultInterval \in 1 .. MaxSeconds
    /\ DefaultBlock \in 1 .. MaxSeconds
    /\ DefaultInactive \in 1 .. MaxSeconds
    /\ DefaultThreshold \in 1 .. MaxThreshold

VARIABLES
    draft,   \* the configuration being read
    cycles,  \* the generations that run, oldest first
    disk,    \* disk[p]: the header of the snapshot under path p
    taken    \* history: configurations taken over

vars == <<draft, cycles, disk, taken>>

-----------------------------------------------------------------------------
(***************************************************************************)
(* Arguments.                                                              *)
(***************************************************************************)

Params(args) == {args[i][1] : i \in DOMAIN args}

\* The value of a parameter, or what it is when it is absent.
Value(args, param, default) ==
    IF param \in Params(args)
    THEN args[CHOOSE i \in DOMAIN args : args[i][1] = param][2]
    ELSE default

\* Every argument is known and given once (the flags "seen").
Recognised(args, known) ==
    /\ Params(args) \subseteq known
    /\ Cardinality(Params(args)) = Len(args)

\* ngx_http_error_abuse_parse_seconds
IsSeconds(n) == n \in 1 .. MaxSeconds

\* An element <<first, final>> of a list of statuses; <<>> is an empty one,
\* which is also what a trailing comma leaves.
IsRange(e) ==
    /\ e \in Nat \X Nat
    /\ e[1] >= MinStatus
    /\ e[1] <= e[2]
    /\ e[2] <= MaxStatus

\* ngx_http_error_abuse_parse_statuses: the bits it sets, if it accepts.
AcceptsStatuses(list) == \A i \in DOMAIN list : IsRange(list[i])

StatusSet(list) == UNION {list[i][1] .. list[i][2] : i \in DOMAIN list}

-----------------------------------------------------------------------------
(***************************************************************************)
(* error_abuse_zone.                                                       *)
(***************************************************************************)

ZoneParams == {"name", "size", "key", "statuses", "interval", "threshold",
               "block", "inactive", "persist", "persist_interval",
               "persist_secret", "redis", "on_full"}

\* What the loop over the arguments refuses.
ZoneArgsValid(args) ==
    /\ Recognised(args, ZoneParams)
    /\ Value(args, "size", 1) > 0
    /\ \A p \in {"interval", "block", "inactive"} :
          IsSeconds(Value(args, p, 1))
    /\ Value(args, "threshold", 1) \in 1 .. MaxThreshold
    /\ \A p \in {"persist", "persist_interval", "persist_secret", "redis",
                 "on_full"} : Value(args, p, "on") # "invalid"

Largest(S) == CHOOSE n \in S : \A o \in S : o <= n

\* The default that ignores the length of a ban.
MutInactive(args, interval, block) ==
    Value(args, "inactive", Largest({DefaultInactive, interval}))

\* An absent inactive is raised to interval and block.
Inactive(args, interval, block) ==
    Value(args, "inactive", Largest({DefaultInactive, interval, block}))

\* The zone the arguments describe.
Described(args) ==
    LET interval == Value(args, "interval", DefaultInterval)
        block    == Value(args, "block", DefaultBlock)
        persist  == Value(args, "persist", "none")
    IN  [size      |-> Value(args, "size", 0),
         key       |-> Value(args, "key", "$binary_remote_addr"),
         statuses  |-> StatusSet(Value(args, "statuses", DefaultStatuses)),
         interval  |-> interval,
         threshold |-> Value(args, "threshold", DefaultThreshold),
         block     |-> block,
         inactive  |-> Inactive(args, interval, block),
         persist   |-> persist,
         redis     |-> Value(args, "redis", "off") = "on"]

\* Whether error_abuse_zone accepts them after the zones read before.
ZoneAccepted(args, zones) ==
    LET z == Described(args)
        given == IF "inactive" \in Params(args)
                 THEN {z.interval, z.block} ELSE {}
    IN  /\ ZoneArgsValid(args)
        /\ {"name", "size"} \subseteq Params(args)
        /\ Value(args, "name", "") \notin DOMAIN zones \cup {"{braces}"}
        /\ \A n \in given : z.inactive >= n
        /\ AcceptsStatuses(Value(args, "statuses", DefaultStatuses))
        /\ z.key # "invalid"
        /\ z.persist # "none" =>
              \A o \in DOMAIN zones : zones[o].persist # z.persist
        /\ z.persist = "none" =>
              Params(args) \cap {"persist_interval", "persist_secret"} = {}

-----------------------------------------------------------------------------
(***************************************************************************)
(* error_abuse, error_abuse_redis and the inheritance of locations.        *)
(***************************************************************************)

Level == {"http", "server", "location"}

\* A location configuration as create_loc_conf leaves it.
\* (reject_status and log_level are inherited as dry_run is.)
UnsetLoc == [enabled |-> "unset", zone |-> "none", dry_run |-> "unset"]

EnableParams == {"zone", "status", "dry_run", "log_level"}

\* What error_abuse leaves in a location configuration that has none yet.
Enabled(args) ==
    IF args = <<<<"off">>>>
    THEN [UnsetLoc EXCEPT !.enabled = "no"]
    ELSE [enabled |-> "yes",
          zone    |-> Value(args, "zone", "none"),
          dry_run |-> Value(args, "dry_run", "unset")]

\* Whether error_abuse accepts them: once at each level, and only a zone that
\* has been declared before.
EnableAccepted(args, loc, zones) ==
    /\ loc.enabled = "unset"
    /\ \/ args = <<<<"off">>>>
       \/ /\ Recognised(args, EnableParams)
          /\ \A p \in {"status", "dry_run", "log_level"} :
                Value(args, p, "on") # "invalid"
          /\ Value(args, "zone", "none") \in DOMAIN zones

NoRedis == [configured |-> FALSE, user |-> FALSE, password |-> FALSE]

RedisParams == {"host", "port", "prefix", "timeout", "user", "password", "db"}

Redis(args) == [configured |-> TRUE, user |-> "user" \in Params(args),
                password |-> "password" \in Params(args)]

\* Whether error_abuse_redis accepts them; a host that does not resolve only
\* makes it warn.
RedisAccepted(args, redis) ==
    /\ ~ redis.configured
    /\ Recognised(args, RedisParams)
    /\ \A p \in RedisParams : Value(args, p, "on") # "invalid"
    /\ "host" \in Params(args)
    /\ "user" \in Params(args) => "password" \in Params(args)

\* ngx_conf_merge_value
Merged(value, prev, default) ==
    IF value # "unset" THEN value ELSE IF prev # "unset" THEN prev ELSE default

\* The merge that leaves an inherited location without its zone.
MutMergeLoc(prev, conf) ==
    [enabled |-> Merged(conf.enabled, prev.enabled, "no"),
     zone    |-> conf.zone,
     dry_run |-> Merged(conf.dry_run, prev.dry_run, "off")]

\* ngx_http_error_abuse_merge_loc_conf
MergeLoc(prev, conf) ==
    LET enabled == Merged(conf.enabled, prev.enabled, "no")
    IN  [enabled |-> enabled,
         zone    |-> IF conf.zone = "none" /\ enabled = "yes"
                     THEN prev.zone ELSE conf.zone,
         dry_run |-> Merged(conf.dry_run, prev.dry_run, "off")]

\* nginx merges the http level into the server and that into the location.
Effective(loc) ==
    LET server == MergeLoc(loc["http"], loc["server"])
    IN  [server |-> server, location |-> MergeLoc(server, loc["location"])]

-----------------------------------------------------------------------------
(***************************************************************************)
(* Reading a configuration.                                                *)
(***************************************************************************)

EmptyDraft == [zones |-> <<>>, loc |-> [l \in Level |-> UnsetLoc],
               redis |-> NoRedis, read |-> 0]

\* A directive has been read; one that is refused ends the attempt.
Read(accepted, next) ==
    /\ draft.read < MaxDirectives
    /\ draft' = IF accepted THEN [next EXCEPT !.read = @ + 1] ELSE EmptyDraft
    /\ UNCHANGED <<cycles, disk, taken>>

\* ngx_http_error_abuse_zone
ReadZone(args) ==
    LET name == Value(args, "name", "")
    IN  Read(ZoneAccepted(args, draft.zones),
             [draft EXCEPT !.zones =
                 [n \in DOMAIN @ \cup {name} |->
                     IF n = name THEN Described(args) ELSE @[n]]])

\* ngx_http_error_abuse_enable
ReadEnable(level, args) ==
    Read(EnableAccepted(args, draft.loc[level], draft.zones),
         [draft EXCEPT !.loc[level] = Enabled(args)])

\* ngx_http_error_abuse_redis
ReadRedis(args) ==
    Read(RedisAccepted(args, draft.redis),
         [draft EXCEPT !.redis = Redis(args)])

\* ngx_http_error_abuse_init
InitAccepted(d) ==
    \A n \in DOMAIN d.zones : d.zones[n].redis => d.redis.configured

-----------------------------------------------------------------------------
(***************************************************************************)
(* Cycles.  mem[n] is the memory of zone n: the key and the threshold it   *)
(* was made for, and the threshold of the snapshot that was loaded into it *)
(* (0: none).                                                              *)
(***************************************************************************)

NoSnapshot == 0

Init ==
    /\ draft = EmptyDraft
    /\ cycles = <<>>
    /\ disk = [p \in {Value(a, "persist", "none") : a \in ZoneArgs}
                 |-> NoSnapshot]
    /\ taken = 0

\* The cycle that a new one takes its zones over from.
Last == cycles[Len(cycles)]

\* nginx hands the new cycle the memory of the last one.
Kept(n, z) ==
    /\ cycles # <<>>
    /\ n \in DOMAIN Last.zones
    /\ Last.zones[n].size = z.size

\* init_zone without its test of the threshold.
MutInitAccepted(n, z) == Kept(n, z) => Last.zones[n].key = z.key

\* What init_zone asks of a zone that keeps its memory.
ZoneInitAccepted(n, z) ==
    Kept(n, z) =>
        /\ Last.zones[n].key = z.key
        /\ Last.zones[n].threshold = z.threshold

\* ngx_http_error_abuse_init_zone: kept memory, or new memory with what a
\* compatible snapshot holds.
InitZone(n, z) ==
    IF Kept(n, z)
    THEN Last.mem[n]
    ELSE [key |-> z.key, threshold |-> z.threshold,
          restored |-> IF disk[z.persist] = z.threshold
                       THEN disk[z.persist] ELSE NoSnapshot]

NewCycle(d) ==
    [zones |-> d.zones,
     locs  |-> Effective(d.loc),
     redis |-> d.redis,
     mem   |-> [n \in DOMAIN d.zones |-> InitZone(n, d.zones[n])]]

\* The file is complete: a start or a reload takes it over, or all of it is
\* refused and the last cycle goes on.
TakeOver ==
    /\ draft.read > 0
    /\ taken < MaxCycles
    /\ draft' = EmptyDraft
    /\ IF /\ InitAccepted(draft)
          /\ \A n \in DOMAIN draft.zones :
                ZoneInitAccepted(n, draft.zones[n])
       THEN /\ cycles' = Append(cycles, NewCycle(draft))
            /\ taken' = taken + 1
       ELSE UNCHANGED <<cycles, taken>>
    /\ UNCHANGED disk

\* Reading touches nothing that runs, so that what runs moves between two
\* attempts to read.
Quiet == draft = EmptyDraft

\* A worker of a generation that runs, the last or one that drains, saves.
Save(i, n) ==
    /\ Quiet
    /\ cycles[i].zones[n].persist # "none"
    /\ disk' = [disk EXCEPT ![cycles[i].zones[n].persist] =
                               cycles[i].zones[n].threshold]
    /\ UNCHANGED <<draft, cycles, taken>>

\* The workers of an earlier generation have exited.
Drain ==
    /\ Quiet
    /\ Len(cycles) > 1
    /\ cycles' = Tail(cycles)
    /\ UNCHANGED <<draft, disk, taken>>

\* nginx is stopped, or the machine crashes: the memory is gone.
Stop ==
    /\ Quiet
    /\ cycles # <<>>
    /\ cycles' = <<>>
    /\ UNCHANGED <<draft, disk, taken>>

Next ==
    \/ \E args \in ZoneArgs : ReadZone(args)
    \/ \E args \in EnableArgs, l \in Level : ReadEnable(l, args)
    \/ \E args \in RedisArgs : ReadRedis(args)
    \/ TakeOver \/ Drain \/ Stop
    \/ \E i \in DOMAIN cycles : \E n \in DOMAIN cycles[i].zones : Save(i, n)

Spec == Init /\ [][Next]_vars

-----------------------------------------------------------------------------
(***************************************************************************)
(* Properties.                                                             *)
(***************************************************************************)

\* What the other modules assume of a zone holds of every zone that a cycle
\* runs, whatever was given and whatever was left to its default: an identity
\* is never forgotten before its window and its ban have passed; and no two
\* zones of a cycle share a snapshot, none waits for a Redis that is not there.
ZonesAreSound ==
    \A i \in DOMAIN cycles : \A n \in DOMAIN cycles[i].zones :
        LET z == cycles[i].zones[n]
        IN  /\ z.threshold \in 1 .. MaxThreshold
            /\ {z.interval, z.block} \subseteq 1 .. z.inactive
            /\ z.statuses \subseteq MinStatus .. MaxStatus
            /\ z.redis => cycles[i].redis.configured
            /\ \A o \in DOMAIN cycles[i].zones \ {n} :
                  z.persist # "none" => cycles[i].zones[o].persist # z.persist

\* A location that is switched on without a zone would enforce nothing and say
\* nothing (prepare_ctx skips it): every one has a zone of its own cycle, over
\* whatever levels it inherits it.
EnabledHasZone ==
    \A i \in DOMAIN cycles : \A l \in {"server", "location"} :
        LET loc == cycles[i].locs[l]
        IN  loc.enabled = "yes" => loc.zone \in DOMAIN cycles[i].zones

\* Every generation indexes rings by its own threshold and digests its own
\* key, in memory it may share with others: both are those the memory was made
\* for, across reloads, resized zones, restarts and generations that still
\* drain.  A snapshot that was loaded into that memory had rings of the same
\* threshold.  Nothing is said of its key: the header does not name one, and
\* load() takes a snapshot of another key, whose identities match nobody.
MemoryFits ==
    \A i \in DOMAIN cycles : \A n \in DOMAIN cycles[i].zones :
        LET z == cycles[i].zones[n]
            m == cycles[i].mem[n]
        IN  /\ m.key = z.key
            /\ m.threshold = z.threshold
            /\ m.restored \in {NoSnapshot, z.threshold}

=============================================================================
