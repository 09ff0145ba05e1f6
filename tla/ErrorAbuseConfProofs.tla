------------------------ MODULE ErrorAbuseConfProofs ------------------------
(***************************************************************************)
(* Proofs about ErrorAbuseConf: that a zone's memory is of its threshold   *)
(* and key and the snapshots in it of its threshold, that inheritance      *)
(* loses no zone, and that every zone has the parameters the other modules *)
(* assume.                                                                 *)
(***************************************************************************)
EXTENDS ErrorAbuseConf, TLAPS

\* What every location configuration meets, before and after a merge: it names
\* a declared zone if it is switched on, and none otherwise.
LocSound(loc, zones) ==
    /\ loc.enabled = "yes" => loc.zone \in DOMAIN zones
    /\ loc.enabled # "yes" => loc.zone = "none"

\* The shape of the configuration being read.
DraftInv ==
    /\ draft = [zones |-> draft.zones, loc |-> draft.loc,
                redis |-> draft.redis, read |-> draft.read]
    /\ draft.loc = [l \in Level |-> draft.loc[l]]
    /\ \A l \in Level : LocSound(draft.loc[l], draft.zones)

\* The generations are a sequence.
CyclesInv == cycles \in Seq({cycles[i] : i \in DOMAIN cycles})

\* The inductive invariant behind MemoryFits and EnabledHasZone.
CInv == DraftInv /\ CyclesInv /\ MemoryFits /\ EnabledHasZone

-----------------------------------------------------------------------------
(***************************************************************************)
(* Helpers.                                                                *)
(***************************************************************************)

\* A configuration switched on but not named takes its zone from a level that
\* is switched on itself (merge_loc_conf).
LEMMA MergeSound ==
    ASSUME NEW prev, NEW conf, NEW zones,
           LocSound(prev, zones), LocSound(conf, zones)
    PROVE  LocSound(MergeLoc(prev, conf), zones)
<1> DEFINE m == MergeLoc(prev, conf)
<1>1. /\ m.enabled = Merged(conf.enabled, prev.enabled, "no")
      /\ m.zone = IF conf.zone = "none" /\ m.enabled = "yes"
                  THEN prev.zone ELSE conf.zone
  BY DEF MergeLoc
<1>2. CASE conf.enabled = "yes"
  BY <1>1, <1>2 DEF LocSound, Merged
<1>3. CASE conf.enabled # "yes"
  <2>1. conf.zone = "none"
    BY <1>3 DEF LocSound
  <2>2. m.enabled = "yes" => prev.enabled = "yes"
    BY <1>1, <1>3 DEF Merged
  <2> QED BY <1>1, <2>1, <2>2 DEF LocSound
<1> QED BY <1>2, <1>3

\* A sequence over any set is one over its own elements.
LEMMA OwnElements ==
    ASSUME NEW S, NEW s \in Seq(S)
    PROVE  s \in Seq({s[i] : i \in DOMAIN s})
<1>1. Len(s) \in Nat /\ DOMAIN s = 1 .. Len(s)
      /\ s = [i \in 1 .. Len(s) |-> s[i]]
  OBVIOUS
<1>2. s \in [1 .. Len(s) -> {s[i] : i \in DOMAIN s}]
  BY <1>1
<1> QED BY <1>1, <1>2

\* What a new generation, and the exit of an old one, do to the sequence.
LEMMA GenerationFacts ==
    ASSUME CyclesInv, NEW c
    PROVE  /\ Len(cycles) \in Nat /\ DOMAIN cycles = 1 .. Len(cycles)
           /\ Append(cycles, c)
                  \in Seq({Append(cycles, c)[i] : i \in DOMAIN Append(cycles, c)})
           /\ \A i \in DOMAIN Append(cycles, c) :
                  \/ i \in DOMAIN cycles /\ Append(cycles, c)[i] = cycles[i]
                  \/ Append(cycles, c)[i] = c
           /\ Len(cycles) > 1 =>
                  /\ Tail(cycles)
                        \in Seq({Tail(cycles)[i] : i \in DOMAIN Tail(cycles)})
                  /\ \A i \in DOMAIN Tail(cycles) :
                        /\ i + 1 \in DOMAIN cycles
                        /\ Tail(cycles)[i] = cycles[i + 1]
<1> DEFINE S == {cycles[i] : i \in DOMAIN cycles}
           a == Append(cycles, c)
<1>1. cycles \in Seq(S)
  BY DEF CyclesInv
<1>2. /\ Len(cycles) \in Nat /\ DOMAIN cycles = 1 .. Len(cycles)
      /\ Len(a) = Len(cycles) + 1
      /\ \A i \in 1 .. Len(a) :
            a[i] = IF i <= Len(cycles) THEN cycles[i] ELSE c
  BY <1>1
<1>3. cycles \in Seq(S \cup {c}) /\ a \in Seq(S \cup {c})
  BY <1>1
<1>4. a \in Seq({a[i] : i \in DOMAIN a})
  BY <1>3, OwnElements
<1>5. \A i \in DOMAIN a : \/ i \in DOMAIN cycles /\ a[i] = cycles[i]
                          \/ a[i] = c
  BY <1>2, <1>3
<1>6. ASSUME Len(cycles) > 1
      PROVE  /\ Tail(cycles) \in Seq(S)
             /\ \A i \in DOMAIN Tail(cycles) :
                   /\ i + 1 \in DOMAIN cycles
                   /\ Tail(cycles)[i] = cycles[i + 1]
  BY <1>1, <1>6
<1>7. Len(cycles) > 1 =>
          Tail(cycles) \in Seq({Tail(cycles)[i] : i \in DOMAIN Tail(cycles)})
  BY <1>6, OwnElements
<1> HIDE DEF S, a
<1> QED BY <1>2, <1>4, <1>5, <1>6, <1>7 DEF a

\* A configuration that is started afresh.
LEMMA EmptyDraftInv ==
    ASSUME draft' = EmptyDraft
    PROVE  DraftInv'
BY DEF EmptyDraft, DraftInv, UnsetLoc, LocSound

\* Reading a directive changes the draft alone, and the draft it leaves is
\* sound if the directive made it so.
LEMMA ReadKeeps ==
    ASSUME CInv, NEW accepted \in BOOLEAN, NEW next, Read(accepted, next),
           accepted =>
               /\ next = [zones |-> next.zones, loc |-> next.loc,
                          redis |-> next.redis, read |-> next.read]
               /\ next.loc = [l \in Level |-> next.loc[l]]
               /\ \A l \in Level : LocSound(next.loc[l], next.zones)
    PROVE  CInv'
<1>1. DraftInv'
  <2>1. CASE accepted
    <3>1. draft' = [next EXCEPT !.read = @ + 1]
      BY <2>1 DEF Read
    <3>2. /\ draft'.zones = next.zones /\ draft'.loc = next.loc
          /\ draft' = [zones |-> draft'.zones, loc |-> draft'.loc,
                       redis |-> draft'.redis, read |-> draft'.read]
      BY <2>1, <3>1
    <3> QED BY <2>1, <3>2 DEF DraftInv
  <2>2. CASE ~ accepted
    BY <2>2, EmptyDraftInv DEF Read
  <2> QED BY <2>1, <2>2
<1>2. UNCHANGED cycles
  BY DEF Read
<1> QED BY <1>1, <1>2 DEF CInv, CyclesInv, MemoryFits, EnabledHasZone

-----------------------------------------------------------------------------
(***************************************************************************)
(* The steps.                                                              *)
(***************************************************************************)

LEMMA InitCInv == Init => CInv
<1> SUFFICES ASSUME Init PROVE CInv
  OBVIOUS
<1>1. DraftInv
  BY DEF Init, EmptyDraft, DraftInv, UnsetLoc, LocSound
<1>2. CyclesInv
  BY DEF Init, CyclesInv
<1> QED BY <1>1, <1>2 DEF CInv, Init, MemoryFits, EnabledHasZone

\* A declaration adds a zone and takes none away.
LEMMA ReadZoneKeeps ==
    ASSUME CInv, NEW args, ReadZone(args)
    PROVE  CInv'
<1> DEFINE name == Value(args, "name", "")
           zones == [n \in DOMAIN draft.zones \cup {name} |->
                        IF n = name THEN Described(args) ELSE draft.zones[n]]
           next == [draft EXCEPT !.zones = zones]
<1>1. Read(ZoneAccepted(args, draft.zones), next)
  BY DEF ReadZone
<1>2. ZoneAccepted(args, draft.zones) \in BOOLEAN
  BY DEF ZoneAccepted
<1>3. /\ next = [zones |-> next.zones, loc |-> next.loc,
                 redis |-> next.redis, read |-> next.read]
      /\ next.zones = zones /\ next.loc = draft.loc
  <2> HIDE DEF zones
  <2> QED BY DEF CInv, DraftInv
<1>4. \A l \in Level : LocSound(next.loc[l], next.zones)
  <2>1. DOMAIN draft.zones \subseteq DOMAIN zones
    OBVIOUS
  <2> HIDE DEF zones, next
  <2> QED BY <1>3, <2>1 DEF CInv, DraftInv, LocSound
<1>5. next.loc = [l \in Level |-> next.loc[l]]
  BY <1>3 DEF CInv, DraftInv
<1> HIDE DEF next
<1> QED BY <1>1, <1>2, <1>3, <1>4, <1>5, ReadKeeps

\* A location that is switched on names a zone declared before.
LEMMA ReadEnableKeeps ==
    ASSUME CInv, NEW args, NEW level \in Level, ReadEnable(level, args)
    PROVE  CInv'
<1> DEFINE accepted == EnableAccepted(args, draft.loc[level], draft.zones)
           next == [draft EXCEPT !.loc[level] = Enabled(args)]
<1>1. Read(accepted, next) /\ accepted \in BOOLEAN
  BY DEF ReadEnable, EnableAccepted
<1>2. /\ next = [zones |-> next.zones, loc |-> next.loc,
                 redis |-> next.redis, read |-> next.read]
      /\ next.zones = draft.zones
      /\ next.loc = [l \in Level |-> IF l = level THEN Enabled(args)
                                                  ELSE draft.loc[l]]
  BY DEF CInv, DraftInv
<1>3. ASSUME accepted PROVE LocSound(Enabled(args), draft.zones)
  <2>1. CASE args = <<<<"off">>>>
    <3>1. /\ Enabled(args).enabled = "no"
          /\ Enabled(args).zone = "none"
      BY <2>1 DEF Enabled, UnsetLoc
    <3> QED BY <3>1 DEF LocSound
  <2>2. CASE args # <<<<"off">>>>
    <3>1. /\ Enabled(args).enabled = "yes"
          /\ Enabled(args).zone = Value(args, "zone", "none")
      BY <2>2 DEF Enabled
    <3>2. Value(args, "zone", "none") \in DOMAIN draft.zones
      BY <1>3, <2>2 DEF EnableAccepted
    <3> QED BY <3>1, <3>2 DEF LocSound
  <2> QED BY <2>1, <2>2
<1>4. accepted => \A l \in Level : LocSound(next.loc[l], next.zones)
  <2> HIDE DEF next, accepted
  <2> QED BY <1>2, <1>3 DEF CInv, DraftInv
<1>5. next.loc = [l \in Level |-> next.loc[l]]
  BY <1>2
<1> HIDE DEF next, accepted
<1> QED BY <1>1, <1>2, <1>4, <1>5, ReadKeeps

LEMMA ReadRedisKeeps ==
    ASSUME CInv, NEW args, ReadRedis(args)
    PROVE  CInv'
<1> DEFINE next == [draft EXCEPT !.redis = Redis(args)]
<1>1. /\ Read(RedisAccepted(args, draft.redis), next)
      /\ RedisAccepted(args, draft.redis) \in BOOLEAN
  BY DEF ReadRedis, RedisAccepted
<1>2. /\ next = [zones |-> next.zones, loc |-> next.loc,
                 redis |-> next.redis, read |-> next.read]
      /\ next.zones = draft.zones /\ next.loc = draft.loc
  BY DEF CInv, DraftInv
<1> HIDE DEF next
<1> QED BY <1>1, <1>2, ReadKeeps DEF CInv, DraftInv

\* The levels of a sound draft stay sound when they are merged.
LEMMA EffectiveSound ==
    ASSUME DraftInv, NEW l \in {"server", "location"}
    PROVE  LocSound(Effective(draft.loc)[l], draft.zones)
<1> DEFINE server == MergeLoc(draft.loc["http"], draft.loc["server"])
<1>1. \A k \in {"http", "server", "location"} :
          LocSound(draft.loc[k], draft.zones)
  BY DEF DraftInv, Level
<1>2. LocSound(server, draft.zones)
  BY <1>1, MergeSound
<1>3. LocSound(MergeLoc(server, draft.loc["location"]), draft.zones)
  <2> HIDE DEF server
  <2> QED BY <1>1, <1>2, MergeSound
<1>4. /\ Effective(draft.loc)["server"] = server
      /\ Effective(draft.loc)["location"]
             = MergeLoc(server, draft.loc["location"])
  BY DEF Effective
<1> HIDE DEF server
<1> QED BY <1>2, <1>3, <1>4

\* Memory a zone keeps was laid out for the same key and threshold (init_zone
\* refuses a change); new memory is laid out for this one.
LEMMA InitZoneFits ==
    ASSUME CInv, NEW n \in DOMAIN draft.zones,
           ZoneInitAccepted(n, draft.zones[n])
    PROVE  LET z == draft.zones[n]
               m == InitZone(n, z)
           IN  /\ m.key = z.key
               /\ m.threshold = z.threshold
               /\ m.restored \in {NoSnapshot, z.threshold}
<1> DEFINE z == draft.zones[n]
<1>1. CASE Kept(n, z)
  <2>1. Len(cycles) \in DOMAIN cycles
    <3>1. Len(cycles) \in Nat /\ DOMAIN cycles = 1 .. Len(cycles)
      BY GenerationFacts DEF CInv
    <3>2. cycles # <<>> /\ cycles \in Seq({cycles[i] : i \in DOMAIN cycles})
      BY <1>1 DEF Kept, CInv, CyclesInv
    <3>3. Len(cycles) # 0
      BY <3>2
    <3> QED BY <3>1, <3>3
  <2>2. /\ Last.mem[n].key = Last.zones[n].key
        /\ Last.mem[n].threshold = Last.zones[n].threshold
        /\ Last.mem[n].restored \in {NoSnapshot, Last.zones[n].threshold}
    BY <1>1, <2>1 DEF Kept, Last, CInv, MemoryFits
  <2>3. Last.zones[n].key = z.key /\ Last.zones[n].threshold = z.threshold
    BY <1>1 DEF ZoneInitAccepted
  <2> QED BY <1>1, <2>2, <2>3 DEF InitZone
<1>2. CASE ~ Kept(n, z)
  BY <1>2 DEF InitZone
<1> QED BY <1>1, <1>2

LEMMA TakeOverKeeps ==
    ASSUME CInv, TakeOver
    PROVE  CInv'
<1>1. DraftInv'
  BY EmptyDraftInv DEF TakeOver
<1>2. CASE UNCHANGED cycles
  BY <1>1, <1>2 DEF CInv, CyclesInv, MemoryFits, EnabledHasZone
<1>3. CASE /\ cycles' = Append(cycles, NewCycle(draft))
           /\ \A n \in DOMAIN draft.zones :
                 ZoneInitAccepted(n, draft.zones[n])
  <2> DEFINE c == NewCycle(draft)
  <2>1. /\ cycles' \in Seq({cycles'[i] : i \in DOMAIN cycles'})
        /\ \A i \in DOMAIN cycles' :
              \/ i \in DOMAIN cycles /\ cycles'[i] = cycles[i]
              \/ cycles'[i] = c
    <3> HIDE DEF c
    <3>1. CyclesInv /\ cycles' = Append(cycles, c)
      BY <1>3 DEF CInv, c
    <3>2. /\ Append(cycles, c)
                 \in Seq({Append(cycles, c)[i] : i \in DOMAIN Append(cycles, c)})
          /\ \A i \in DOMAIN Append(cycles, c) :
                \/ i \in DOMAIN cycles /\ Append(cycles, c)[i] = cycles[i]
                \/ Append(cycles, c)[i] = c
      BY <3>1, GenerationFacts, Zenon
    <3> QED BY <3>1, <3>2, Zenon
  <2>2. /\ c.zones = draft.zones
        /\ c.locs = Effective(draft.loc)
        /\ c.mem = [n \in DOMAIN draft.zones |->
                       InitZone(n, draft.zones[n])]
    BY DEF NewCycle
  <2> HIDE DEF c
  <2>3. \A n \in DOMAIN c.zones :
            /\ c.mem[n].key = c.zones[n].key
            /\ c.mem[n].threshold = c.zones[n].threshold
            /\ c.mem[n].restored \in {NoSnapshot, c.zones[n].threshold}
    BY <1>3, <2>2, InitZoneFits
  <2>4. \A l \in {"server", "location"} :
            c.locs[l].enabled = "yes" => c.locs[l].zone \in DOMAIN c.zones
    <3> SUFFICES ASSUME NEW l \in {"server", "location"},
                        c.locs[l].enabled = "yes"
                 PROVE  c.locs[l].zone \in DOMAIN c.zones
      OBVIOUS
    <3> QED BY <2>2, EffectiveSound DEF CInv, LocSound
  <2>5. MemoryFits'
    BY <2>1, <2>3 DEF CInv, MemoryFits
  <2>6. EnabledHasZone'
    BY <2>1, <2>4 DEF CInv, EnabledHasZone
  <2> QED BY <1>1, <2>1, <2>5, <2>6 DEF CInv, CyclesInv
<1> QED BY <1>2, <1>3 DEF TakeOver

LEMMA DrainKeeps ==
    ASSUME CInv, Drain
    PROVE  CInv'
<1>1. /\ cycles' \in Seq({cycles'[i] : i \in DOMAIN cycles'})
      /\ \A i \in DOMAIN cycles' :
            i + 1 \in DOMAIN cycles /\ cycles'[i] = cycles[i + 1]
  BY GenerationFacts DEF CInv, Drain
<1>2. MemoryFits' /\ EnabledHasZone'
  BY <1>1 DEF CInv, MemoryFits, EnabledHasZone
<1> QED BY <1>1, <1>2 DEF CInv, CyclesInv, Drain, DraftInv

LEMMA NextCInv == CInv /\ [Next]_vars => CInv'
<1> SUFFICES ASSUME CInv, [Next]_vars
             PROVE  CInv'
  OBVIOUS
<1>1. CASE \E args \in ZoneArgs : ReadZone(args)
  BY <1>1, ReadZoneKeeps
<1>2. CASE \E args \in EnableArgs, l \in Level : ReadEnable(l, args)
  BY <1>2, ReadEnableKeeps
<1>3. CASE \E args \in RedisArgs : ReadRedis(args)
  BY <1>3, ReadRedisKeeps
<1>4. CASE TakeOver
  BY <1>4, TakeOverKeeps
<1>5. CASE Drain
  BY <1>5, DrainKeeps
<1>6. CASE Stop
  BY <1>6 DEF Stop, CInv, DraftInv, CyclesInv, MemoryFits, EnabledHasZone
<1>7. CASE \E i \in DOMAIN cycles : \E n \in DOMAIN cycles[i].zones :
               Save(i, n)
  BY <1>7 DEF Save, CInv, DraftInv, CyclesInv, MemoryFits, EnabledHasZone
<1>8. CASE UNCHANGED vars
  BY <1>8 DEF vars, CInv, DraftInv, CyclesInv, MemoryFits, EnabledHasZone
<1> QED BY <1>1, <1>2, <1>3, <1>4, <1>5, <1>6, <1>7, <1>8 DEF Next

-----------------------------------------------------------------------------
(***************************************************************************)
(* The parameters of zones.  They are checked when a directive is read,    *)
(* and the zones of a cycle are those of the draft it took over, so that   *)
(* what holds of every accepted zone holds of every zone that runs.        *)
(***************************************************************************)

\* What ngx_http_error_abuse_zone leaves of one zone.
ZoneSound(z) ==
    /\ z.threshold \in 1 .. MaxThreshold
    /\ {z.interval, z.block} \subseteq 1 .. z.inactive
    /\ z.statuses \subseteq MinStatus .. MaxStatus
    /\ z.redis \in BOOLEAN

\* No two zones write one snapshot.
PathsDiffer(zones) ==
    \A n \in DOMAIN zones : \A o \in DOMAIN zones \ {n} :
        zones[n].persist # "none" => zones[o].persist # zones[n].persist

AllSound(zones) ==
    /\ \A n \in DOMAIN zones : ZoneSound(zones[n])
    /\ PathsDiffer(zones)

\* ZonesAreSound over the draft and the cycles, and what it rests on.
ZInv ==
    /\ CInv
    /\ AllSound(draft.zones)
    /\ ZonesAreSound

\* A parameter is its given value or its default.
LEMMA ValueCases ==
    ASSUME NEW args, NEW p
    PROVE  \/ p \in Params(args) /\ \A d, e : Value(args, p, d) = Value(args, p, e)
           \/ p \notin Params(args) /\ \A d : Value(args, p, d) = d
BY DEF Value

\* An absent inactive covers the interval and the block (error_abuse_zone).
LEMMA LargestCovers ==
    ASSUME NEW a \in Int, NEW b \in Int, NEW c \in Int
    PROVE  /\ Largest({a, b, c}) \in Int
           /\ Largest({a, b, c}) >= b
           /\ Largest({a, b, c}) >= c
<1> DEFINE IsLargest(n) == \A o \in {a, b, c} : o <= n
<1>1. \E n \in {a, b, c} : IsLargest(n)
  <2>1. CASE b <= a /\ c <= a
    BY <2>1
  <2>2. CASE a <= b /\ c <= b
    BY <2>2
  <2>3. CASE a <= c /\ b <= c
    BY <2>3
  <2> QED BY <2>1, <2>2, <2>3
<1>2. Largest({a, b, c}) \in {a, b, c} /\ IsLargest(Largest({a, b, c}))
  <2>1. Largest({a, b, c}) = CHOOSE n \in {a, b, c} : IsLargest(n)
    BY DEF Largest
  <2> HIDE DEF IsLargest
  <2> QED BY <1>1, <2>1
<1> QED BY <1>2

\* The loops of error_abuse_zone leave a time that is given, or its default.
LEMMA TimesRead ==
    ASSUME NEW args, ZoneArgsValid(args)
    PROVE  /\ Value(args, "interval", DefaultInterval) \in 1 .. MaxSeconds
           /\ Value(args, "block", DefaultBlock) \in 1 .. MaxSeconds
           /\ Value(args, "threshold", DefaultThreshold) \in 1 .. MaxThreshold
           /\ "inactive" \in Params(args) =>
                 \A d : Value(args, "inactive", d) \in 1 .. MaxSeconds
<1>1. /\ Value(args, "interval", 1) \in 1 .. MaxSeconds
      /\ Value(args, "block", 1) \in 1 .. MaxSeconds
      /\ Value(args, "inactive", 1) \in 1 .. MaxSeconds
      /\ Value(args, "threshold", 1) \in 1 .. MaxThreshold
  BY DEF ZoneArgsValid, IsSeconds
<1>2. Value(args, "interval", DefaultInterval) \in 1 .. MaxSeconds
  BY <1>1, ValueCases, Limits
<1>3. Value(args, "block", DefaultBlock) \in 1 .. MaxSeconds
  BY <1>1, ValueCases, Limits
<1>4. Value(args, "threshold", DefaultThreshold) \in 1 .. MaxThreshold
  BY <1>1, ValueCases, Limits
<1>5. ASSUME "inactive" \in Params(args), NEW d
      PROVE  Value(args, "inactive", d) \in 1 .. MaxSeconds
  BY <1>1, <1>5, ValueCases
<1> QED BY <1>2, <1>3, <1>4, <1>5

\* The bits parse_statuses sets are those of valid response codes.
LEMMA StatusesRead ==
    ASSUME NEW list, AcceptsStatuses(list)
    PROVE  StatusSet(list) \subseteq MinStatus .. MaxStatus
<1> SUFFICES ASSUME NEW i \in DOMAIN list,
                    NEW s \in list[i][1] .. list[i][2]
             PROVE  s \in MinStatus .. MaxStatus
  BY DEF StatusSet
<1>1. /\ list[i][1] \in Nat /\ list[i][2] \in Nat
      /\ list[i][1] >= MinStatus /\ list[i][2] <= MaxStatus
  BY DEF AcceptsStatuses, IsRange
<1> QED BY <1>1, Limits

\* A zone that is accepted is sound.
LEMMA AcceptedSound ==
    ASSUME NEW args, NEW zones, ZoneAccepted(args, zones)
    PROVE  ZoneSound(Described(args))
<1> DEFINE z == Described(args)
           interval == Value(args, "interval", DefaultInterval)
           block == Value(args, "block", DefaultBlock)
<1>1. /\ interval \in 1 .. MaxSeconds
      /\ block \in 1 .. MaxSeconds
      /\ Value(args, "threshold", DefaultThreshold) \in 1 .. MaxThreshold
      /\ "inactive" \in Params(args) =>
            \A d : Value(args, "inactive", d) \in 1 .. MaxSeconds
  BY TimesRead DEF ZoneAccepted
<1>2. /\ z.interval = interval /\ z.block = block
      /\ z.threshold = Value(args, "threshold", DefaultThreshold)
      /\ z.inactive = Inactive(args, interval, block)
      /\ z.statuses = StatusSet(Value(args, "statuses", DefaultStatuses))
      /\ z.redis \in BOOLEAN
  BY DEF Described
<1>3. /\ "inactive" \in Params(args) =>
            z.inactive >= z.interval /\ z.inactive >= z.block
      /\ AcceptsStatuses(Value(args, "statuses", DefaultStatuses))
  BY DEF ZoneAccepted
<1> HIDE DEF z, interval, block
<1>4. /\ z.inactive \in Int
      /\ z.inactive >= z.interval /\ z.inactive >= z.block
  <2>1. CASE "inactive" \in Params(args)
    <3>1. z.inactive \in 1 .. MaxSeconds
      BY <1>1, <1>2, <2>1 DEF Inactive
    <3> QED BY <1>3, <2>1, <3>1, Limits
  <2>2. CASE "inactive" \notin Params(args)
    <3>1. z.inactive = Largest({DefaultInactive, interval, block})
      BY <1>2, <2>2, ValueCases DEF Inactive
    <3>2. /\ DefaultInactive \in Int /\ interval \in Int /\ block \in Int
      BY <1>1, Limits
    <3> DEFINE n == Largest({DefaultInactive, interval, block})
    <3>3. n \in Int /\ n >= block /\ n >= interval
      BY ONLY <3>2, LargestCovers
    <3> HIDE DEF n
    <3>4. z.inactive = n
      BY ONLY <3>1 DEF n
    <3>5. z.interval = interval /\ z.block = block
      BY ONLY <1>2
    <3> QED BY ONLY <3>3, <3>4, <3>5
  <2> QED BY <2>1, <2>2
<1>5. {z.interval, z.block} \subseteq 1 .. z.inactive
  BY <1>1, <1>2, <1>4, Limits
<1>6. z.statuses \subseteq MinStatus .. MaxStatus
  BY <1>2, <1>3, StatusesRead
<1>7. ZoneSound(z)
  BY <1>1, <1>2, <1>5, <1>6 DEF ZoneSound
<1> QED BY <1>7 DEF z

\* A directive keeps the zones of the draft sound: it adds one that is, or
\* changes none, or the attempt is over and there are none.
LEMMA ReadSound ==
    ASSUME AllSound(draft.zones), NEW accepted, NEW next, Read(accepted, next),
           accepted => /\ next = [zones |-> next.zones, loc |-> next.loc,
                                  redis |-> next.redis, read |-> next.read]
                       /\ AllSound(next.zones)
    PROVE  AllSound(draft'.zones)
<1>1. CASE accepted
  <2>1. draft' = [next EXCEPT !.read = @ + 1]
    BY <1>1 DEF Read
  <2>2. draft'.zones = next.zones
    BY <1>1, <2>1
  <2> QED BY <1>1, <2>2
<1>2. CASE ~ accepted
  <2>1. draft'.zones = <<>>
    BY <1>2 DEF Read, EmptyDraft
  <2> QED BY <2>1 DEF AllSound, PathsDiffer
<1> QED BY <1>1, <1>2

LEMMA ReadZoneSound ==
    ASSUME ZInv, NEW args, ReadZone(args)
    PROVE  AllSound(draft'.zones)
<1> DEFINE name == Value(args, "name", "")
           zones == [n \in DOMAIN draft.zones \cup {name} |->
                        IF n = name THEN Described(args) ELSE draft.zones[n]]
           next == [draft EXCEPT !.zones = zones]
<1>1. Read(ZoneAccepted(args, draft.zones), next)
  BY DEF ReadZone
<1>2. /\ next = [zones |-> next.zones, loc |-> next.loc,
                 redis |-> next.redis, read |-> next.read]
      /\ next.zones = zones
  <2> HIDE DEF zones
  <2> QED BY DEF ZInv, CInv, DraftInv
<1>3. ASSUME ZoneAccepted(args, draft.zones)
      PROVE  AllSound(zones)
  <2> DEFINE z == Described(args)
  <2>1. /\ name \notin DOMAIN draft.zones
        /\ z.persist # "none" =>
              \A o \in DOMAIN draft.zones : draft.zones[o].persist # z.persist
    BY <1>3 DEF ZoneAccepted
  <2>2. ZoneSound(z)
    BY <1>3, AcceptedSound
  <2>3. /\ DOMAIN zones = DOMAIN draft.zones \cup {name}
        /\ \A n \in DOMAIN draft.zones : zones[n] = draft.zones[n]
        /\ zones[name] = z
    BY <2>1
  <2> HIDE DEF zones, z, name
  <2>4. \A n \in DOMAIN zones : ZoneSound(zones[n])
    BY <2>2, <2>3 DEF ZInv, AllSound
  <2>5. PathsDiffer(zones)
    BY <2>1, <2>3 DEF ZInv, AllSound, PathsDiffer
  <2> QED BY <2>4, <2>5 DEF AllSound
<1> HIDE DEF next, zones
<1> QED BY <1>1, <1>2, <1>3, ReadSound DEF ZInv

LEMMA ReadEnableSound ==
    ASSUME ZInv, NEW args, NEW level \in Level, ReadEnable(level, args)
    PROVE  AllSound(draft'.zones)
<1> DEFINE next == [draft EXCEPT !.loc[level] = Enabled(args)]
<1>1. Read(EnableAccepted(args, draft.loc[level], draft.zones), next)
  BY DEF ReadEnable
<1>2. /\ next = [zones |-> next.zones, loc |-> next.loc,
                 redis |-> next.redis, read |-> next.read]
      /\ next.zones = draft.zones
  BY DEF ZInv, CInv, DraftInv
<1> HIDE DEF next
<1> QED BY <1>1, <1>2, ReadSound DEF ZInv

LEMMA ReadRedisSound ==
    ASSUME ZInv, NEW args, ReadRedis(args)
    PROVE  AllSound(draft'.zones)
<1> DEFINE next == [draft EXCEPT !.redis = Redis(args)]
<1>1. Read(RedisAccepted(args, draft.redis), next)
  BY DEF ReadRedis
<1>2. /\ next = [zones |-> next.zones, loc |-> next.loc,
                 redis |-> next.redis, read |-> next.read]
      /\ next.zones = draft.zones
  BY DEF ZInv, CInv, DraftInv
<1> HIDE DEF next
<1> QED BY <1>1, <1>2, ReadSound DEF ZInv

\* What ZonesAreSound says of a generation.
CycleSound(c) ==
    /\ AllSound(c.zones)
    /\ \A n \in DOMAIN c.zones : c.zones[n].redis => c.redis.configured

\* A new generation has the zones of the draft (init refuses one that waits for
\* a Redis that is not configured); the others go on as they are.
LEMMA TakeOverSound ==
    ASSUME ZInv, TakeOver
    PROVE  ZonesAreSound'
<1>1. CASE UNCHANGED cycles
  BY <1>1 DEF ZInv, ZonesAreSound
<1>2. CASE cycles' = Append(cycles, NewCycle(draft)) /\ InitAccepted(draft)
  <2> DEFINE c == NewCycle(draft)
  <2>1. c.zones = draft.zones /\ c.redis = draft.redis
    BY DEF NewCycle
  <2>2. \A i \in DOMAIN cycles' :
            \/ i \in DOMAIN cycles /\ cycles'[i] = cycles[i]
            \/ cycles'[i] = c
    <3> HIDE DEF c
    <3>1. cycles' = Append(cycles, c) /\ CyclesInv
      BY <1>2 DEF c, ZInv, CInv
    <3>2. \A i \in DOMAIN Append(cycles, c) :
              \/ i \in DOMAIN cycles /\ Append(cycles, c)[i] = cycles[i]
              \/ Append(cycles, c)[i] = c
      BY <3>1, GenerationFacts, Zenon
    <3> QED BY <3>1, <3>2, Zenon
  <2> HIDE DEF c
  <2>3. CycleSound(c)
    BY <1>2, <2>1 DEF ZInv, CycleSound, InitAccepted
  <2> QED BY <2>2, <2>3 DEF ZInv, ZonesAreSound, CycleSound, AllSound, ZoneSound, PathsDiffer
<1> QED BY <1>1, <1>2 DEF TakeOver

LEMMA DrainSound ==
    ASSUME ZInv, Drain
    PROVE  ZonesAreSound'
<1>1. \A i \in DOMAIN cycles' :
          i + 1 \in DOMAIN cycles /\ cycles'[i] = cycles[i + 1]
  BY GenerationFacts DEF ZInv, CInv, Drain
<1> QED BY <1>1 DEF ZInv, ZonesAreSound

LEMMA InitZInv == Init => ZInv
BY InitCInv DEF Init, EmptyDraft, ZInv, AllSound, PathsDiffer, ZonesAreSound

LEMMA NextZInv == ZInv /\ [Next]_vars => ZInv'
<1> SUFFICES ASSUME ZInv, [Next]_vars
             PROVE  ZInv'
  OBVIOUS
<1>1. CInv'
  BY NextCInv DEF ZInv
<1>2. ASSUME AllSound(draft'.zones), UNCHANGED cycles
      PROVE  ZInv'
  BY <1>1, <1>2 DEF ZInv, ZonesAreSound
<1>3. CASE \E args \in ZoneArgs : ReadZone(args)
  BY <1>2, <1>3, ReadZoneSound DEF ReadZone, Read
<1>4. CASE \E args \in EnableArgs, l \in Level : ReadEnable(l, args)
  BY <1>2, <1>4, ReadEnableSound DEF ReadEnable, Read
<1>5. CASE \E args \in RedisArgs : ReadRedis(args)
  BY <1>2, <1>5, ReadRedisSound DEF ReadRedis, Read
<1>6. CASE TakeOver
  <2>1. AllSound(draft'.zones)
    BY <1>6 DEF TakeOver, EmptyDraft, AllSound, PathsDiffer
  <2> QED BY <1>1, <1>6, <2>1, TakeOverSound DEF ZInv
<1>7. CASE Drain
  BY <1>1, <1>7, DrainSound DEF Drain, ZInv
<1>8. CASE Stop
  BY <1>1, <1>8 DEF Stop, ZInv, ZonesAreSound
<1>9. CASE \E i \in DOMAIN cycles : \E n \in DOMAIN cycles[i].zones :
               Save(i, n)
  BY <1>2, <1>9 DEF Save, ZInv
<1>10. CASE UNCHANGED vars
  BY <1>2, <1>10 DEF vars, ZInv
<1> QED BY <1>3, <1>4, <1>5, <1>6, <1>7, <1>8, <1>9, <1>10 DEF Next

-----------------------------------------------------------------------------
(***************************************************************************)
(* The theorems.                                                           *)
(***************************************************************************)

\* Across any directives, reloads, restarts, drains and saves, every generation
\* runs on memory that was made for its own threshold and key (init_zone refuses
\* to keep any other), and a snapshot loaded into that memory was saved under
\* the same threshold (load() compares it).  The key of a snapshot is neither
\* recorded nor compared, and nothing is claimed of it.
THEOREM MemoryAlwaysFits == Spec => []MemoryFits
<1>1. CInv => MemoryFits
  BY DEF CInv
<1> QED BY <1>1, InitCInv, NextCInv, PTL DEF Spec

\* Whatever the levels say and leave out, a location that ends up switched on
\* has a zone of its configuration.
THEOREM EnabledAlwaysHasZone == Spec => []EnabledHasZone
<1>1. CInv => EnabledHasZone
  BY DEF CInv
<1> QED BY <1>1, InitCInv, NextCInv, PTL DEF Spec

\* Every zone of every generation has the parameters the other modules assume,
\* a snapshot of its own, and Redis if it asks for it, whatever the directives
\* give and leave out.
THEOREM ZonesStaySound == Spec => []ZonesAreSound
<1>1. ZInv => ZonesAreSound
  BY DEF ZInv
<1> QED BY <1>1, InitZInv, NextZInv, PTL DEF Spec

=============================================================================
