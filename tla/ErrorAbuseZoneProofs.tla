------------------------ MODULE ErrorAbuseZoneProofs ------------------------
(***************************************************************************)
(* Proofs about ErrorAbuseZone, for every value of its constants.          *)
(***************************************************************************)
EXTENDS ErrorAbuseZone, ErrorAbuseZoneOpsProofs, FiniteSetTheorems

-----------------------------------------------------------------------------
(***************************************************************************)
(* The invariants.                                                         *)
(***************************************************************************)

\* The inductive invariant: the conjunction of the invariants TLC checks.
IInv ==
    /\ TypeOK
    /\ ListMatchesTree
    /\ RingHasRoom
    /\ NearlySorted
    /\ EventsBehindLastSeen

\* The invariant in the form the lemmas about the operations use.
IInvByNode ==
    /\ clock \in 1 .. MaxTime
    /\ now \in [Worker -> 0 .. clock]
    /\ \A w \in Worker : clock - now[w] <= MaxLag
    /\ ZoneInv(zone, clock, MaxLag)

LEMMA IInvDef == IInv <=> IInvByNode
<1>1. ASSUME IsZone(zone)
      PROVE  (RingHasRoom /\ NearlySorted /\ EventsBehindLastSeen)
                 <=> \A k \in DOMAIN zone.node : NodeInv(zone.node[k], clock, MaxLag)
  <2>1. ASSUME NEW k \in DOMAIN zone.node
        PROVE  /\ zone.node[k] \in Node
               /\ DOMAIN zone.node[k].events = 1 .. Len(zone.node[k].events)
    <3>1. zone.node[k] \in Node
      BY <1>1, Zenon DEF IsZone
    <3>2. zone.node[k].events \in Seq(Time)
      BY <3>1 DEF Node
    <3> QED
      BY <3>1, <3>2, LenProperties
  <2> QED
    BY <2>1, Zenon DEF RingHasRoom, NearlySorted, EventsBehindLastSeen,
                       NodeInv, EventsInv
<1> QED
  BY <1>1, Zenon DEF IInv, IInvByNode, TypeOK, ListMatchesTree,
                     ZoneInv, GoodZone

\* The cached times and the clock are times.
LEMMA CachedTimes ==
    ASSUME IInv, NEW w \in Worker
    PROVE  CachedAt(now[w], clock, MaxLag)
<1>1. /\ clock \in 1 .. MaxTime /\ now[w] \in 0 .. clock
      /\ clock - now[w] <= MaxLag
  BY IInvDef DEF IInvByNode
<1> QED
  BY <1>1, ClockBounds, TimeRange DEF CachedAt, Time

LEMMA InitIInv == Init => IInv
<1> SUFFICES ASSUME Init PROVE IInv
  OBVIOUS
<1>1. /\ zone.queue = <<>> /\ zone.node = <<>> /\ DOMAIN zone.node = {}
      /\ Len(zone.queue) = 0 /\ zone.queue \in Seq(Key)
  BY DEF Init, EmptyZone
<1>2. IsZone(zone)
  BY <1>1 DEF IsZone
<1>3. WellLinked(zone)
  BY <1>1, ZoneLimits DEF WellLinked
<1>4. ZoneInv(zone, clock, MaxLag)
  BY <1>1, <1>2, <1>3 DEF ZoneInv, GoodZone
<1>5. /\ clock \in 1 .. MaxTime
      /\ now \in [Worker -> 0 .. clock]
      /\ \A w \in Worker : clock - now[w] <= MaxLag
  BY ClockBounds DEF Init
<1> QED
  BY <1>4, <1>5, IInvDef DEF IInvByNode

\* Every step keeps the invariant.
LEMMA NextIInv == IInv /\ [Next]_vars => IInv'
<1> SUFFICES ASSUME IInv, [Next]_vars PROVE IInv'
  OBVIOUS
<1>1. /\ clock \in 1 .. MaxTime /\ clock \in Int
      /\ now \in [Worker -> 0 .. clock]
      /\ \A w \in Worker : clock - now[w] <= MaxLag
      /\ ZoneInv(zone, clock, MaxLag)
  BY IInvDef DEF IInvByNode
<1>2a. IInvByNode' => IInv'
  BY IInvDef, PTL
<1>2. SUFFICES /\ clock' \in 1 .. MaxTime
               /\ now' \in [Worker -> 0 .. clock']
               /\ \A w \in Worker : clock' - now'[w] <= MaxLag
               /\ ZoneInv(zone', clock', MaxLag)
  BY <1>2a DEF IInvByNode
<1>3. CASE Tick
  <2>1. clock' = clock + 1 /\ clock < MaxTime /\ zone' = zone
    BY <1>3 DEF Tick
  <2>2. clock' \in 1 .. MaxTime
    BY <1>1, <2>1, ClockBounds
  <2>3. now' \in [Worker -> 0 .. clock']
    BY <1>1, <1>3 DEF Tick
  <2>4. \A w \in Worker : clock' - now'[w] <= MaxLag
    <3>1. \A w \in Worker : clock + 1 - now'[w] <= MaxLag
      BY <1>3, Zenon DEF Tick
    <3>2. \A w \in Worker : now'[w] \in Int
      BY <2>2, <2>3
    <3> QED
      BY <1>1, <2>1, <3>1, <3>2
  <2>5. \A k \in DOMAIN zone.node : NodeInv(zone.node[k], clock + 1, MaxLag)
    BY <1>1, NodeInvLater, ClockBounds DEF ZoneInv
  <2>6. ZoneInv(zone', clock', MaxLag)
    BY <1>1, <2>1, <2>5, Zenon DEF ZoneInv
  <2> QED
    BY <2>2, <2>3, <2>4, <2>6
<1>4. CASE \E w \in Worker : UpdateTime(w)
  <2>1. PICK w \in Worker : UpdateTime(w)
    BY <1>4
  <2>2. PICK t \in 1 .. clock : /\ clock - t <= MaxLag
                                /\ now' = [now EXCEPT ![w] = t]
    BY <2>1 DEF UpdateTime
  <2>3. clock' = clock /\ zone' = zone
    BY <2>1 DEF UpdateTime
  <2>4. now' \in [Worker -> 0 .. clock']
    BY <1>1, <2>2, <2>3
  <2>5. \A v \in Worker : clock' - now'[v] <= MaxLag
    BY <1>1, <2>2, <2>3, ClockBounds
  <2> QED
    BY <1>1, <2>3, <2>4, <2>5
<1>5. ASSUME NEW w \in Worker, NEW k \in Key, DoRecord(w, k)
      PROVE  /\ ZoneInv(zone', clock, MaxLag) /\ clock' = clock /\ now' = now
  <2>1. zone' = Record(zone, k, now[w]) /\ clock' = clock /\ now' = now
    BY <1>5 DEF DoRecord
  <2>2. CachedAt(now[w], clock, MaxLag)
    BY CachedTimes
  <2>3. ZoneInv(Record(zone, k, now[w]), clock, MaxLag)
    BY <1>1, <2>2, RecordFacts, Zenon DEF Updates
  <2> QED
    BY <2>1, <2>3, Zenon
<1>6. ASSUME NEW w \in Worker, NEW k \in Key, DoIsBlocked(w, k)
      PROVE  /\ ZoneInv(zone', clock, MaxLag) /\ clock' = clock /\ now' = now
  <2>1. zone' = IsBlocked(zone, k, now[w]) /\ clock' = clock /\ now' = now
    BY <1>6 DEF DoIsBlocked
  <2>2. CachedAt(now[w], clock, MaxLag)
    BY CachedTimes
  <2>3. ZoneInv(IsBlocked(zone, k, now[w]), clock, MaxLag)
    BY <1>1, <2>2, IsBlockedFacts, Zenon DEF Updates
  <2> QED
    BY <2>1, <2>3, Zenon
<1>7. CASE UNCHANGED vars
  BY <1>1, <1>7 DEF vars
<1> QED
  BY <1>1, <1>3, <1>4, <1>5, <1>6, <1>7 DEF Next

\* The zone is always well formed, whatever the workers do and however far
\* apart their cached times are (up to MaxLag).
THEOREM Invariance == Spec => []IInv
BY InitIInv, NextIInv, PTL DEF Spec

\* Every variable keeps its type.
THEOREM TypeCorrect == Spec => []TypeOK
<1>1. IInv => TypeOK
  BY DEF IInv
<1> QED
  BY <1>1, Invariance, PTL

\* The LRU list and the tree never disagree.
THEOREM ListAlwaysMatchesTree == Spec => []ListMatchesTree
<1>1. IInv => ListMatchesTree
  BY DEF IInv
<1> QED
  BY <1>1, Invariance, PTL

\* record() always has a free slot in the ring.
THEOREM RingAlwaysHasRoom == Spec => []RingHasRoom
<1>1. IInv => RingHasRoom
  BY DEF IInv
<1> QED
  BY <1>1, Invariance, PTL

\* The ring stays in order of time up to the lag.
THEOREM RingsStayNearlySorted == Spec => []NearlySorted
<1>1. IInv => NearlySorted
  BY DEF IInv
<1> QED
  BY <1>1, Invariance, PTL

\* No event is later than the clock, or later than its node was last seen by
\* more than the lag.
THEOREM EventsStayBehindLastSeen == Spec => []EventsBehindLastSeen
<1>1. IInv => EventsBehindLastSeen
  BY DEF IInv
<1> QED
  BY <1>1, Invariance, PTL

-----------------------------------------------------------------------------
(***************************************************************************)
(* The zone implements the policy.                                         *)
(***************************************************************************)

\* The first d of the events e leave the window at time t, the others stay.
WindowSlides(e, t, d) ==
    /\ \A i \in 1 .. d : e[i] <= t - Interval + MaxLag
    /\ \A i \in d + 1 .. Len(e) : e[i] > t - Interval - MaxLag

\* e is what is left of old when the window slides to time t.
SlidTo(e, old, t) ==
    \E d \in 0 .. Len(old) :
        WindowSlides(old, t, d) /\ e = SubSeq(old, d + 1, Len(old))

\* An expirable node has nothing left in its window (up to the lag).
LEMMA ExpirableIsDead ==
    ASSUME NEW n, NEW c, NEW t, CachedAt(t, c, MaxLag), NodeInv(n, c, MaxLag),
           Expirable(n, t)
    PROVE  /\ n.blocked_until <= t
           /\ \A i \in 1 .. Len(n.events) :
                  n.events[i] <= t - Interval + MaxLag
<1>1. PICK e \in Seq(Time) : e = n.events
  BY DEF NodeInv, Node
<1>2. \A i \in 1 .. Len(e) : e[i] \in Int /\ e[i] <= n.last_seen + MaxLag
  BY <1>1, ElementOfSeq, TimeFacts DEF NodeInv, EventsInv
<1>3. /\ n.last_seen \in Int /\ n.blocked_until \in Int /\ t \in Int
      /\ t < TimeMax /\ TimeMax \in Int
  BY TimeFacts DEF NodeInv, Node, CachedAt
<1>4. n.last_seen + Inactive <= t /\ n.blocked_until <= t
  BY <1>3, ZoneParameters DEF Expirable, Banned, TimeAddSaturate
<1> QED
  BY <1>1, <1>2, <1>3, <1>4, ZoneParameters, ClockBounds

\* Pruning the events of an unbanned node slides its window.
LEMMA LiveEventsSlide ==
    ASSUME NEW n, NEW c, NodeInv(n, c, MaxLag), NEW t \in Int
    PROVE  SlidTo(LiveEvents(n, t), n.events, t)
<1>1. PICK e \in Seq(Time) :
          e = n.events /\ EventsInv(e, n.last_seen, c, MaxLag)
  BY DEF NodeInv, Node
<1>2. /\ Len(e) \in Nat /\ \A i \in 1 .. Len(e) : e[i] \in Int
      /\ Interval \in Int /\ MaxLag \in Nat
  BY LenProperties, ElementOfSeq, TimeFacts, ZoneParameters, ClockBounds
<1>3. CASE n.blocked_until # 0
  <2>1. e = <<>> /\ LiveEvents(n, t) = <<>>
    BY <1>1, <1>3 DEF NodeInv, LiveEvents
  <2>2. 0 \in 0 .. Len(e) /\ Len(e) = 0 /\ SubSeq(e, 0 + 1, Len(e)) = <<>>
    BY <2>1, SubSeqEmpty
  <2>3. WindowSlides(e, t, 0)
    BY <2>2 DEF WindowSlides
  <2> QED
    BY <1>1, <2>1, <2>2, <2>3, Zenon DEF SlidTo
<1>4. CASE n.blocked_until = 0
  <2>1. LiveEvents(n, t) = PruneEvents(e, t)
    BY <1>1, <1>4, Zenon DEF LiveEvents
  <2>2. PICK d \in 0 .. Len(e) :
            /\ d = StaleRun(e, t)
            /\ PruneEvents(e, t) = SubSeq(e, d + 1, Len(e))
    BY PruneFacts, Zenon
  <2>3. e \in Seq(Int)
    BY SeqMonotonic, TimeFacts
  <2>4. /\ \A i \in 1 .. d : e[i] <= t - Interval
        /\ d < Len(e) => e[d + 1] > t - Interval
    BY <2>2, <2>3, StaleRunFacts, Zenon
  <2>5. \A i \in 1 .. d : e[i] <= t - Interval + MaxLag
    BY <1>2, <2>4
  <2>6. ASSUME NEW i \in d + 1 .. Len(e) PROVE e[i] > t - Interval - MaxLag
    <3>1. d + 1 \in 1 .. Len(e) /\ i \in 1 .. Len(e) /\ d < Len(e)
      BY <1>2, <2>6
    <3>2. e[d + 1] > t - Interval /\ e[d + 1] \in Int /\ e[i] \in Int
      BY <1>2, <2>4, <3>1
    <3>3. CASE i = d + 1
      BY <1>2, <3>2, <3>3
    <3>4. CASE d + 1 < i
      <4>1. e[i] >= e[d + 1] - MaxLag
        BY <1>1, <3>1, <3>4 DEF EventsInv
      <4> QED
        BY <1>2, <3>2, <4>1
    <3> QED
      BY <2>6, <3>3, <3>4
  <2>7. WindowSlides(e, t, d)
    BY <2>5, <2>6 DEF WindowSlides
  <2> QED
    BY <1>1, <2>1, <2>2, <2>7, Zenon DEF SlidTo
<1> QED
  BY <1>3, <1>4

\* A dead window slides to nothing.
LEMMA DeadSlides ==
    ASSUME NEW e \in Seq(Time), NEW t \in Int,
           \A i \in 1 .. Len(e) : e[i] <= t - Interval + MaxLag
    PROVE  SlidTo(<<>>, e, t)
<1>1. Len(e) \in Nat /\ Len(e) \in 0 .. Len(e)
  BY LenProperties
<1>2. SubSeq(e, Len(e) + 1, Len(e)) = <<>>
  BY <1>1, SubSeqEmpty
<1>3. WindowSlides(e, t, Len(e))
  BY <1>1 DEF WindowSlides
<1> QED
  BY <1>1, <1>2, <1>3, Zenon DEF SlidTo

Unaltered(z, r, j) == Events(r, j) = Events(z, j) /\ Until(r, j) = Until(z, j)
Erased(r, j) == Events(r, j) = <<>> /\ Until(r, j) = 0
DeadAt(z, j, t) ==
    /\ Until(z, j) <= t
    /\ \A i \in 1 .. Len(Events(z, j)) :
           Events(z, j)[i] <= t - Interval + MaxLag

\* The identities a call is not about are untouched, or erased while they
\* are not banned.
LEMMA BystanderFacts ==
    ASSUME NEW z, NEW r, NEW c, NEW t, NEW k,
           ZoneInv(z, c, MaxLag), ZoneInv(r, c, MaxLag), CachedAt(t, c, MaxLag),
           \A j \in DOMAIN r.node \ {k} :
               j \in DOMAIN z.node /\ r.node[j] = z.node[j],
           \A j \in DOMAIN z.node \ DOMAIN r.node : ~ Banned(z.node[j], t),
           NEW j, j # k
    PROVE  /\ Unaltered(z, r, j) \/ (Erased(r, j) /\ Until(z, j) <= t)
           /\ ~ Unaltered(z, r, j) => j \in DOMAIN z.node \ DOMAIN r.node
           /\ j \in DOMAIN z.node /\ Expirable(z.node[j], t) => DeadAt(z, j, t)
<1>1. t \in Int
  BY TimeFacts DEF CachedAt
<1>4. j \in DOMAIN z.node /\ Expirable(z.node[j], t) => DeadAt(z, j, t)
  BY NodeOfFacts, ExpirableIsDead DEF DeadAt, Events, Until, ZoneInv
<1>2. CASE j \in DOMAIN r.node
  <2>1. j \in DOMAIN z.node /\ r.node[j] = z.node[j]
    BY <1>2, Zenon
  <2> QED
    BY <1>2, <1>4, <2>1, NodeOfFacts, Zenon DEF Unaltered, Events, Until
<1>3. CASE j \notin DOMAIN r.node
  <2>1. Erased(r, j)
    BY <1>3, NodeOfFacts, Zenon DEF Erased
  <2>2. CASE j \in DOMAIN z.node
    <3>1. ~ Banned(z.node[j], t) /\ z.node[j].blocked_until \in Time
      BY <1>3, <2>2, Zenon DEF ZoneInv, NodeInv, Node
    <3>2. Until(z, j) <= t
      BY <1>1, <2>2, <3>1, NodeOfFacts, TimeFacts DEF Banned, Until
    <3> QED
      BY <1>3, <1>4, <2>1, <2>2, <3>2, Zenon
  <2>3. CASE j \notin DOMAIN z.node
    BY <1>4, <2>1, <2>3, NodeOfFacts, Zenon DEF Erased, Unaltered
  <2> QED
    BY <2>2, <2>3, Zenon
<1> QED
  BY <1>2, <1>3, Zenon

\* The three outcomes of record() for the identity it is about.
HeldBy(z, r, k, t, op, rc, a) ==
    /\ Until(z, k) > t
    /\ Unaltered(z, r, k)
    /\ a = Reply(op, k, rc, Threshold, Until(z, k))

CountedBy(z, r, k, t, a) ==
    /\ Until(z, k) <= t
    /\ \E d \in 0 .. Len(Events(z, k)) :
          LET e == SubSeq(Events(z, k), d + 1, Len(Events(z, k)))
          IN  /\ WindowSlides(Events(z, k), t, d)
              /\ IF Len(e) + 1 >= Threshold
                 THEN /\ Events(r, k) = <<>>
                      /\ Until(r, k) = TimeAddSaturate(t, Block)
                      /\ a = Reply("record", k, "BUSY", Threshold,
                                   TimeAddSaturate(t, Block))
                 ELSE /\ Events(r, k) = Append(e, t)
                      /\ Until(r, k) = 0
                      /\ a = Reply("record", k, "OK", Len(e) + 1, 0)

RefusedBy(z, r, k, t, a) ==
    /\ DeadAt(z, k, t)
    /\ Erased(r, k)
    /\ \E j \in Key \ {k} : Until(z, j) > t /\ Unaltered(z, r, j)
    /\ a = Reply("record", k, "ERROR", 0, 0)

LookedAtBy(z, r, k, t, a) ==
    /\ Until(z, k) <= t
    /\ \E d \in 0 .. Len(Events(z, k)) :
          LET e == SubSeq(Events(z, k), d + 1, Len(Events(z, k)))
          IN  /\ WindowSlides(Events(z, k), t, d)
              /\ Events(r, k) = e
              /\ Until(r, k) = 0
              /\ a = Reply("is_blocked", k, "DECLINED", Len(e), 0)

\* The events that count are what the window of the identity slides to.
LEMMA TrackedSlides ==
    ASSUME NEW z, NEW c, NEW t, NEW k \in Key, ZoneInv(z, c, MaxLag),
           CachedAt(t, c, MaxLag),
           NEW x, NodeInv(x, c, MaxLag), ~ Banned(x, t),
           \/ k \in DOMAIN z.node /\ x = [z.node[k] EXCEPT !.last_seen = t]
           \/ /\ k \in DOMAIN z.node => Expirable(z.node[k], t)
              /\ x = NewNode(t)
    PROVE  SlidTo(LiveEvents(x, t), Events(z, k), t) /\ Until(z, k) <= t
<1>1. t \in Int /\ t >= 0 /\ Events(z, k) \in Seq(Time)
  BY NodeOfFacts, TimeFacts DEF CachedAt
<1>2. CASE k \in DOMAIN z.node /\ x = [z.node[k] EXCEPT !.last_seen = t]
  <2>1. NodeOf(z, k) = z.node[k] /\ NodeInv(z.node[k], c, MaxLag)
    BY <1>2, NodeOfFacts, Zenon DEF ZoneInv
  <2>2. /\ x.events = z.node[k].events
        /\ x.blocked_until = z.node[k].blocked_until
        /\ x.blocked_until \in Int
    BY <1>2, <2>1, TimeFacts DEF NodeInv, Node
  <2>3. SlidTo(LiveEvents(x, t), x.events, t)
    BY <1>1, LiveEventsSlide
  <2>4. Until(z, k) <= t
    BY <1>1, <2>1, <2>2 DEF Until, Banned
  <2> QED
    BY <2>1, <2>2, <2>3, <2>4, Zenon DEF Events
<1>3. CASE /\ k \in DOMAIN z.node => Expirable(z.node[k], t)
           /\ x = NewNode(t)
  <2>1. DeadAt(z, k, t)
    <3>1. CASE k \in DOMAIN z.node
      <4>1. NodeOf(z, k) = z.node[k] /\ NodeInv(z.node[k], c, MaxLag)
        BY <3>1, NodeOfFacts, Zenon DEF ZoneInv
      <4>2. Expirable(z.node[k], t)
        BY <1>3, <3>1
      <4> QED
        BY <4>1, <4>2, ExpirableIsDead, Zenon DEF DeadAt, Events, Until
    <3>2. CASE k \notin DOMAIN z.node
      <4>1. Events(z, k) = <<>> /\ Until(z, k) = 0
        BY <3>2, NodeOfFacts, Zenon
      <4> QED
        BY <1>1, <4>1 DEF DeadAt
    <3> QED
      BY <3>1, <3>2
  <2>2. SlidTo(<<>>, Events(z, k), t)
    BY <1>1, <2>1, DeadSlides DEF DeadAt
  <2>3. x.events = <<>> /\ x.blocked_until = 0
    BY <1>3 DEF NewNode, ZeroNode
  <2>4. LiveEvents(x, t) = <<>>
    <3>1. LiveEvents(x, t) = PruneEvents(<<>>, t)
      BY <2>3, Zenon DEF LiveEvents
    <3>2. <<>> \in Seq(Time) /\ Len(<<>>) = 0
      OBVIOUS
    <3>3. /\ StaleRun(<<>>, t) \in 0 .. Len(<<>>)
          /\ PruneEvents(<<>>, t)
                 = SubSeq(<<>>, StaleRun(<<>>, t) + 1, Len(<<>>))
      BY <1>1, <3>2, PruneFacts, Zenon
    <3>4. StaleRun(<<>>, t) = 0
      BY <3>2, <3>3
    <3>5. SubSeq(<<>>, 0 + 1, 0) = <<>>
      BY SubSeqEmpty
    <3> QED
      BY <3>1, <3>2, <3>3, <3>4, <3>5
  <2> QED
    BY <2>1, <2>2, <2>4, Zenon DEF DeadAt
<1> QED
  BY <1>2, <1>3

\* What record() does, in the policy's terms.
LEMMA RecordStep ==
    ASSUME NEW z, NEW c, NEW t, NEW k \in Key, ZoneInv(z, c, MaxLag),
           CachedAt(t, c, MaxLag)
    PROVE  LET r == Record(z, k, t)
               a == RecordReply(r, k, t)
           IN  /\ \/ HeldBy(z, r, k, t, "record", "BUSY", a)
                  \/ CountedBy(z, r, k, t, a)
                  \/ RefusedBy(z, r, k, t, a)
               /\ \A j \in Key \ {k} :
                      Unaltered(z, r, j) \/ (Erased(r, j) /\ Until(z, j) <= t)
               /\ \A i, j \in Key \ {k} :
                      \/ Unaltered(z, r, i) \/ DeadAt(z, i, t)
                      \/ Unaltered(z, r, j) \/ DeadAt(z, j, t)
                      \/ i = j
<1> DEFINE y == Tracking(z, k, t)
           r == Record(z, k, t)
           a == RecordReply(r, k, t)
<1>1. t \in Int /\ t \in Time /\ GoodZone(z)
  BY TimeFacts DEF CachedAt, ZoneInv
<1>2. /\ \A j \in DOMAIN y.node \ {k} :
             j \in DOMAIN z.node /\ y.node[j] = z.node[j]
      /\ \A j \in DOMAIN z.node \ DOMAIN y.node : ~ Banned(z.node[j], t)
      /\ \A i, j \in DOMAIN z.node \ DOMAIN y.node :
             Expirable(z.node[i], t) \/ Expirable(z.node[j], t) \/ i = j
      /\ \/ /\ k \in DOMAIN y.node /\ k \in DOMAIN z.node
            /\ y.node[k] = [z.node[k] EXCEPT !.last_seen = t]
         \/ /\ k \in DOMAIN z.node => Expirable(z.node[k], t)
            /\ \/ k \in DOMAIN y.node /\ y.node[k] = NewNode(t)
               \/ /\ k \notin DOMAIN y.node
                  /\ \E j \in DOMAIN y.node : Banned(z.node[j], t)
  BY <1>1, TrackingFacts
<1>3. ZoneInv(y, c, MaxLag)
  BY TrackingInv
<1>4. /\ ZoneInv(r, c, MaxLag)
      /\ DOMAIN r.node = DOMAIN y.node
      /\ \A j \in DOMAIN y.node \ {k} : r.node[j] = y.node[j]
      /\ k \in DOMAIN y.node /\ Banned(y.node[k], t)
             => r.node[k] = y.node[k]
      /\ k \in DOMAIN y.node /\ ~ Banned(y.node[k], t)
             => r.node[k] = CountError(y.node[k], t)
  <2>1. Updates(r, y, k, t, CountError(y.node[k], t), c, MaxLag)
    BY RecordFacts, Zenon
  <2> HIDE DEF y, r
  <2> QED
    BY <2>1, Zenon DEF Updates
<1>5. a = IF k \in DOMAIN r.node
          THEN Reply("record", k, IF Banned(NodeOf(r, k), t) THEN "BUSY" ELSE "OK",
                     IF Banned(NodeOf(r, k), t) THEN Threshold
                                                ELSE Len(NodeOf(r, k).events),
                     NodeOf(r, k).blocked_until)
          ELSE Reply("record", k, "ERROR", 0, 0)
  BY DEF RecordReply, Report
<1> HIDE DEF y, r, a
<1>6. /\ \A j \in DOMAIN r.node \ {k} :
             j \in DOMAIN z.node /\ r.node[j] = z.node[j]
      /\ \A j \in DOMAIN z.node \ DOMAIN r.node : ~ Banned(z.node[j], t)
  BY <1>2, <1>4, Zenon
<1>7. ASSUME NEW j, j # k
      PROVE  /\ Unaltered(z, r, j) \/ (Erased(r, j) /\ Until(z, j) <= t)
             /\ ~ Unaltered(z, r, j) => j \in DOMAIN z.node \ DOMAIN r.node
             /\ j \in DOMAIN z.node /\ Expirable(z.node[j], t) => DeadAt(z, j, t)
  BY <1>4, <1>6, <1>7, BystanderFacts
<1>8. \A i, j \in Key \ {k} :
          \/ Unaltered(z, r, i) \/ DeadAt(z, i, t)
          \/ Unaltered(z, r, j) \/ DeadAt(z, j, t)
          \/ i = j
  BY <1>2, <1>4, <1>7, Zenon
<1>9. ASSUME k \in DOMAIN y.node, Banned(y.node[k], t)
      PROVE  HeldBy(z, r, k, t, "record", "BUSY", a)
  <2>1. ~ Banned(NewNode(t), t)
    BY <1>1, TimeFacts DEF Banned, NewNode, ZeroNode
  <2>2. k \in DOMAIN z.node /\ y.node[k] = [z.node[k] EXCEPT !.last_seen = t]
    BY <1>2, <1>9, <2>1, Zenon
  <2>3. z.node[k] \in Node
    BY <2>2, Zenon DEF ZoneInv, NodeInv
  <2>4. /\ y.node[k].events = z.node[k].events
        /\ y.node[k].blocked_until = z.node[k].blocked_until
    BY <2>2, <2>3 DEF Node
  <2>5. k \in DOMAIN r.node /\ r.node[k] = y.node[k]
    BY <1>4, <1>9, Zenon
  <2>6. NodeOf(z, k) = z.node[k] /\ NodeOf(r, k) = y.node[k]
    BY <2>2, <2>5, Zenon DEF NodeOf
  <2>7. Unaltered(z, r, k) /\ Until(r, k) = Until(z, k)
    BY <2>4, <2>6, Zenon DEF Unaltered, Events, Until
  <2>8. Until(z, k) > t
    BY <1>9, <2>4, <2>6, Zenon DEF Until, Banned
  <2>9. a = Reply("record", k, "BUSY", Threshold, Until(z, k))
    BY <1>5, <1>9, <2>4, <2>5, <2>6, Zenon DEF Until
  <2> QED
    BY <2>7, <2>8, <2>9, Zenon DEF HeldBy
<1>10. ASSUME k \in DOMAIN y.node, ~ Banned(y.node[k], t)
       PROVE  CountedBy(z, r, k, t, a)
  <2> DEFINE x == y.node[k]
             e == LiveEvents(x, t)
  <2>1. NodeInv(x, c, MaxLag)
    BY <1>3, <1>10, Zenon DEF ZoneInv
  <2>2. SlidTo(e, Events(z, k), t) /\ Until(z, k) <= t
    <3>1. \/ k \in DOMAIN z.node /\ x = [z.node[k] EXCEPT !.last_seen = t]
          \/ /\ k \in DOMAIN z.node => Expirable(z.node[k], t)
             /\ x = NewNode(t)
      BY <1>2, <1>10, Zenon
    <3> HIDE DEF x
    <3>2. ~ Banned(x, t)
      BY <1>10, Zenon DEF x
    <3> QED
      BY <2>1, <3>1, <3>2, TrackedSlides, Zenon
  <2>3. PICK d \in 0 .. Len(Events(z, k)) :
            /\ WindowSlides(Events(z, k), t, d)
            /\ e = SubSeq(Events(z, k), d + 1, Len(Events(z, k)))
    BY <2>2, Zenon DEF SlidTo
  <2>4. LET n == CountError(x, t)
        IN  IF Len(e) + 1 >= Threshold
            THEN n.events = <<>> /\ n.blocked_until = TimeAddSaturate(t, Block)
            ELSE n.events = Append(e, t) /\ n.blocked_until = 0
    BY <2>1, CountErrorShape
  <2>5. k \in DOMAIN r.node /\ NodeOf(r, k) = CountError(x, t)
    BY <1>4, <1>10, Zenon DEF NodeOf
  <2>6. e \in Seq(Time)
    BY <1>1, <2>1, LiveEventsFacts
  <2> HIDE DEF x, e
  <2>7. CASE Len(e) + 1 >= Threshold
    <3>1. /\ NodeOf(r, k).events = <<>>
          /\ NodeOf(r, k).blocked_until = TimeAddSaturate(t, Block)
      BY <2>4, <2>5, <2>7, Zenon
    <3>2. Banned(NodeOf(r, k), t)
      BY <3>1, BanIsLater, Zenon DEF Banned
    <3>3. a = Reply("record", k, "BUSY", Threshold, TimeAddSaturate(t, Block))
      BY <1>5, <2>5, <3>1, <3>2, Zenon
    <3> QED
      BY <2>2, <2>3, <2>7, <3>1, <3>3, Zenon DEF CountedBy, Events, Until
  <2>8. CASE ~ (Len(e) + 1 >= Threshold)
    <3>1. /\ NodeOf(r, k).events = Append(e, t)
          /\ NodeOf(r, k).blocked_until = 0
      BY <2>4, <2>5, <2>8, Zenon
    <3>2. ~ Banned(NodeOf(r, k), t)
      BY <1>1, <3>1, TimeFacts DEF Banned
    <3>3. Len(Append(e, t)) = Len(e) + 1
      BY <1>1, <2>6, AppendProperties
    <3>4. a = Reply("record", k, "OK", Len(e) + 1, 0)
      BY <1>5, <2>5, <3>1, <3>2, <3>3, Zenon
    <3> QED
      BY <2>2, <2>3, <2>8, <3>1, <3>4, Zenon DEF CountedBy, Events, Until
  <2> QED
    BY <2>7, <2>8, Zenon
<1>11. ASSUME k \notin DOMAIN y.node
       PROVE  RefusedBy(z, r, k, t, a)
  <2>1. /\ k \in DOMAIN z.node => Expirable(z.node[k], t)
        /\ \E j \in DOMAIN y.node : Banned(z.node[j], t)
    BY <1>2, <1>11, Zenon
  <2>2. PICK j \in DOMAIN y.node : Banned(z.node[j], t)
    BY <2>1
  <2>3. j # k /\ j \in DOMAIN z.node /\ j \in DOMAIN r.node
    BY <1>2, <1>4, <1>11, Zenon
  <2>4. j \in Key /\ Until(z, j) > t /\ Unaltered(z, r, j)
    <3>1. j \in Key
      BY <2>3, Zenon DEF ZoneInv, GoodZone, IsZone
    <3>2. Unaltered(z, r, j)
      BY <1>7, <2>3, Zenon
    <3>3. NodeOf(z, j) = z.node[j]
      BY <2>3, Zenon DEF NodeOf
    <3> QED
      BY <2>2, <3>1, <3>2, <3>3, Zenon DEF Until, Banned
  <2>5. Erased(r, k) /\ k \notin DOMAIN r.node
    BY <1>4, <1>11, NodeOfFacts, Zenon DEF Erased
  <2>6. DeadAt(z, k, t)
    <3>1. CASE k \in DOMAIN z.node
      <4>1. NodeOf(z, k) = z.node[k] /\ NodeInv(z.node[k], c, MaxLag)
        BY <3>1, NodeOfFacts, Zenon DEF ZoneInv
      <4> QED
        BY <2>1, <3>1, <4>1, ExpirableIsDead, Zenon DEF DeadAt, Events, Until
    <3>2. CASE k \notin DOMAIN z.node
      <4>1. Events(z, k) = <<>> /\ Until(z, k) = 0
        BY <3>2, NodeOfFacts, Zenon
      <4> QED
        BY <1>1, <4>1, TimeFacts DEF DeadAt
    <3> QED
      BY <3>1, <3>2
  <2>7. a = Reply("record", k, "ERROR", 0, 0)
    BY <1>5, <2>5, Zenon
  <2> QED
    BY <2>3, <2>4, <2>5, <2>6, <2>7, Zenon DEF RefusedBy
<1>12. \A j \in Key \ {k} :
           Unaltered(z, r, j) \/ (Erased(r, j) /\ Until(z, j) <= t)
  BY <1>7, Zenon
<1> QED
  BY <1>8, <1>9, <1>10, <1>11, <1>12, Zenon DEF r, a

\* What is_blocked() does, in the policy's terms.
LEMMA IsBlockedStep ==
    ASSUME NEW z, NEW c, NEW t, NEW k \in Key, ZoneInv(z, c, MaxLag),
           CachedAt(t, c, MaxLag)
    PROVE  LET r == IsBlocked(z, k, t)
               a == IsBlockedReply(r, k, t)
           IN  /\ \/ HeldBy(z, r, k, t, "is_blocked", "OK", a)
                  \/ LookedAtBy(z, r, k, t, a)
               /\ \A j \in Key \ {k} :
                      Unaltered(z, r, j) \/ (Erased(r, j) /\ Until(z, j) <= t)
               /\ \A j \in Key \ {k} : Unaltered(z, r, j) \/ DeadAt(z, j, t)
<1> DEFINE f == FindTouch(z, k, t)
           r == IsBlocked(z, k, t)
           a == IsBlockedReply(r, k, t)
<1>1. t \in Int /\ t \in Time /\ GoodZone(z)
  BY TimeFacts DEF CachedAt, ZoneInv
<1>2. /\ DOMAIN f.node \subseteq DOMAIN z.node
      /\ \A j \in DOMAIN f.node \ {k} : f.node[j] = z.node[j]
      /\ k \in DOMAIN f.node => f.node[k] = [z.node[k] EXCEPT !.last_seen = t]
      /\ \A j \in DOMAIN z.node \ DOMAIN f.node : Expirable(z.node[j], t)
  BY <1>1, FindTouchFacts
<1>3. /\ ZoneInv(r, c, MaxLag)
      /\ DOMAIN r.node = DOMAIN f.node
      /\ \A j \in DOMAIN f.node \ {k} : r.node[j] = f.node[j]
      /\ k \in DOMAIN f.node /\ Banned(f.node[k], t)
             => r.node[k] = f.node[k]
      /\ k \in DOMAIN f.node /\ ~ Banned(f.node[k], t)
             => r.node[k] = SettleNode(f.node[k], t)
  <2>1. Updates(r, f, k, t, SettleNode(f.node[k], t), c, MaxLag)
    BY IsBlockedFacts, Zenon
  <2> HIDE DEF f, r
  <2> QED
    BY <2>1, Zenon DEF Updates
<1>4. a = Reply("is_blocked", k,
                IF Banned(NodeOf(r, k), t) THEN "OK" ELSE "DECLINED",
                IF Banned(NodeOf(r, k), t) THEN Threshold
                                           ELSE Len(NodeOf(r, k).events),
                NodeOf(r, k).blocked_until)
  BY DEF IsBlockedReply, Report
<1> HIDE DEF f, r, a
<1>5. /\ \A j \in DOMAIN r.node \ {k} :
             j \in DOMAIN z.node /\ r.node[j] = z.node[j]
      /\ \A j \in DOMAIN z.node \ DOMAIN r.node : ~ Banned(z.node[j], t)
  BY <1>2, <1>3, Zenon DEF Expirable
<1>6. ASSUME NEW j, j # k
      PROVE  /\ Unaltered(z, r, j) \/ (Erased(r, j) /\ Until(z, j) <= t)
             /\ ~ Unaltered(z, r, j) => j \in DOMAIN z.node \ DOMAIN r.node
             /\ j \in DOMAIN z.node /\ Expirable(z.node[j], t) => DeadAt(z, j, t)
  BY <1>3, <1>5, <1>6, BystanderFacts
<1>7. \A j \in Key \ {k} : Unaltered(z, r, j) \/ DeadAt(z, j, t)
  BY <1>2, <1>3, <1>6, Zenon
<1>8. \A j \in Key \ {k} :
          Unaltered(z, r, j) \/ (Erased(r, j) /\ Until(z, j) <= t)
  BY <1>6, Zenon
<1>9. ASSUME k \in DOMAIN f.node
      PROVE  /\ k \in DOMAIN z.node /\ k \in DOMAIN r.node
             /\ NodeOf(z, k) = z.node[k] /\ NodeOf(r, k) = r.node[k]
             /\ NodeInv(z.node[k], c, MaxLag) /\ NodeInv(f.node[k], c, MaxLag)
             /\ f.node[k].events = z.node[k].events
             /\ f.node[k].blocked_until = z.node[k].blocked_until
  <2>1. k \in DOMAIN z.node /\ k \in DOMAIN r.node
    BY <1>2, <1>3, <1>9, Zenon
  <2>2. NodeOf(z, k) = z.node[k] /\ NodeOf(r, k) = r.node[k]
    BY <2>1, Zenon DEF NodeOf
  <2>3. NodeInv(z.node[k], c, MaxLag)
    BY <2>1, Zenon DEF ZoneInv
  <2>4. NodeInv(f.node[k], c, MaxLag)
    <3>1. NodeInv([z.node[k] EXCEPT !.last_seen = t], c, MaxLag)
      BY <2>3, TouchNode
    <3> QED
      BY <1>2, <1>9, <3>1, Zenon
  <2>5. /\ f.node[k].events = z.node[k].events
        /\ f.node[k].blocked_until = z.node[k].blocked_until
    BY <1>2, <1>9, <2>3 DEF NodeInv, Node
  <2> QED
    BY <2>1, <2>2, <2>3, <2>4, <2>5
<1>10. ASSUME k \in DOMAIN f.node, Banned(f.node[k], t)
       PROVE  HeldBy(z, r, k, t, "is_blocked", "OK", a)
  <2>1. NodeOf(r, k) = f.node[k]
    BY <1>3, <1>9, <1>10, Zenon
  <2>2. Unaltered(z, r, k) /\ Until(r, k) = Until(z, k)
    BY <1>9, <1>10, <2>1, Zenon DEF Unaltered, Events, Until
  <2>3. Until(z, k) > t
    BY <1>9, <1>10, Zenon DEF Until, Banned
  <2>4. a = Reply("is_blocked", k, "OK", Threshold, Until(z, k))
    BY <1>4, <1>10, <2>1, <2>2, Zenon DEF Until
  <2> QED
    BY <2>2, <2>3, <2>4, Zenon DEF HeldBy
<1>11. ASSUME NEW e, SlidTo(e, Events(z, k), t), Until(z, k) <= t,
              Events(r, k) = e, Until(r, k) = 0
       PROVE  LookedAtBy(z, r, k, t, a)
  <2>1. PICK d \in 0 .. Len(Events(z, k)) :
            /\ WindowSlides(Events(z, k), t, d)
            /\ e = SubSeq(Events(z, k), d + 1, Len(Events(z, k)))
    BY <1>11, Zenon DEF SlidTo
  <2>2. ~ Banned(NodeOf(r, k), t)
    BY <1>1, <1>11, TimeFacts DEF Banned, Until
  <2>3. a = Reply("is_blocked", k, "DECLINED", Len(e), 0)
    BY <1>4, <1>11, <2>2, Zenon DEF Events, Until
  <2> QED
    BY <1>11, <2>1, <2>3, Zenon DEF LookedAtBy
<1>12. ASSUME k \in DOMAIN f.node, ~ Banned(f.node[k], t)
       PROVE  LookedAtBy(z, r, k, t, a)
  <2> DEFINE x == f.node[k]
  <2>1. NodeOf(r, k) = SettleNode(x, t) /\ NodeInv(x, c, MaxLag)
    BY <1>3, <1>9, <1>12, Zenon
  <2>2. SlidTo(LiveEvents(x, t), Events(z, k), t) /\ Until(z, k) <= t
    <3>1. ~ Banned(x, t) /\ k \in DOMAIN z.node
          /\ x = [z.node[k] EXCEPT !.last_seen = t]
      BY <1>2, <1>9, <1>12, Zenon
    <3> QED
      BY <2>1, <3>1, TrackedSlides, Zenon
  <2>3. SettleNode(x, t).events = LiveEvents(x, t)
        /\ SettleNode(x, t).blocked_until = 0
    BY <2>1 DEF SettleNode, NodeInv, Node
  <2> HIDE DEF x
  <2>4. Events(r, k) = LiveEvents(x, t) /\ Until(r, k) = 0
    BY <2>1, <2>3, Zenon DEF Events, Until
  <2> QED
    BY <1>11, <2>2, <2>4, Zenon
<1>13. ASSUME k \notin DOMAIN f.node
       PROVE  LookedAtBy(z, r, k, t, a)
  <2>1. Events(r, k) = <<>> /\ Until(r, k) = 0
    BY <1>3, <1>13, NodeOfFacts, Zenon
  <2>2. k \in DOMAIN z.node => Expirable(z.node[k], t)
    BY <1>2, <1>13, Zenon
  <2>3. DeadAt(z, k, t) /\ Events(z, k) \in Seq(Time)
    <3>1. CASE k \in DOMAIN z.node
      <4>1. NodeOf(z, k) = z.node[k] /\ NodeInv(z.node[k], c, MaxLag)
        BY <3>1, NodeOfFacts, Zenon DEF ZoneInv
      <4>2. DeadAt(z, k, t)
        BY <2>2, <3>1, <4>1, ExpirableIsDead, Zenon DEF DeadAt, Events, Until
      <4> QED
        BY <4>2, NodeOfFacts, Zenon
    <3>2. CASE k \notin DOMAIN z.node
      <4>1. Events(z, k) = <<>> /\ Until(z, k) = 0
        BY <3>2, NodeOfFacts, Zenon
      <4> QED
        BY <1>1, <4>1, TimeFacts DEF DeadAt
    <3> QED
      BY <3>1, <3>2
  <2>4. SlidTo(<<>>, Events(z, k), t)
    BY <1>1, <2>3, DeadSlides DEF DeadAt
  <2> QED
    BY <1>11, <2>1, <2>3, <2>4, Zenon DEF DeadAt
<1> QED
  BY <1>7, <1>8, <1>10, <1>12, <1>13, Zenon DEF r, a

-----------------------------------------------------------------------------
(***************************************************************************)
(* Every step of the zone is a step of the policy.                         *)
(***************************************************************************)

\* The policy's terms, in those of the zone.
LEMMA PolicyTerms ==
    ASSUME NEW j \in Key, NEW t
    PROVE  /\ Policy!Same(j) <=> Unaltered(zone, zone', j)
           /\ Policy!Forgotten(j) <=> Erased(zone', j)
           /\ Policy!Dead(j, t) <=> DeadAt(zone, j, t)
BY DEF Policy!Same, Policy!Forgotten, Policy!Dead, Unaltered, Erased, DeadAt,
       Events, Until, NodeOf

\* A call that leaves a banned identity alone is a Hold.
LEMMA HoldTerms ==
    ASSUME NEW k \in Key, NEW t, NEW op, NEW rc,
           HeldBy(zone, zone', k, t, op, rc, reply')
    PROVE  Policy!Hold(k, t, op, rc)
<1>1. Policy!Same(k)
  BY PolicyTerms, Zenon DEF HeldBy
<1> QED
  BY <1>1 DEF HeldBy, Policy!Hold, Until, Reply, Policy!Reply

\* A call that counts an error is a Count.
LEMMA CountTerms ==
    ASSUME NEW k \in Key, NEW c, NEW t, CachedAt(t, c, MaxLag),
           CountedBy(zone, zone', k, t, reply')
    PROVE  Policy!Count(k, t)
<1>1. Policy!BanEnd(t) = TimeAddSaturate(t, Block)
  BY ZoneParameters, TimeRange
     DEF Policy!BanEnd, TimeAddSaturate, CachedAt, Time
<1> QED
  BY <1>1 DEF CountedBy, Policy!Count, Policy!Slides, Policy!Rest, WindowSlides,
              Events, Until, NodeOf, Reply, Policy!Reply

\* A call that fails is a Refuse.
LEMMA RefuseTerms ==
    ASSUME NEW k \in Key, NEW t, RefusedBy(zone, zone', k, t, reply')
    PROVE  Policy!Refuse(k, t)
<1>1. Policy!Dead(k, t) /\ Policy!Forgotten(k)
  BY PolicyTerms, Zenon DEF RefusedBy
<1>2. PICK j \in Key \ {k} : Until(zone, j) > t /\ Unaltered(zone, zone', j)
  BY DEF RefusedBy
<1>3. Policy!Same(j)
  BY <1>2, PolicyTerms, Zenon
<1> QED
  BY <1>1, <1>2, <1>3
     DEF RefusedBy, Policy!Refuse, Until, Reply, Policy!Reply

\* A call that looks at an identity that is not banned is a Look.
LEMMA LookTerms ==
    ASSUME NEW k \in Key, NEW t, LookedAtBy(zone, zone', k, t, reply')
    PROVE  Policy!Look(k, t)
BY DEF LookedAtBy, Policy!Look, Policy!Slides, Policy!Rest, WindowSlides,
       Events, Until, NodeOf, Reply, Policy!Reply

\* record() is a call of the policy.
LEMMA RecordIsCall ==
    ASSUME IInv, NEW w \in Worker, NEW k \in Key, DoRecord(w, k)
    PROVE  Policy!Call
<1> DEFINE t == now[w]
<1>1. CachedAt(t, clock, MaxLag) /\ ZoneInv(zone, clock, MaxLag)
  BY CachedTimes, IInvDef, Zenon DEF IInvByNode
<1>2. zone' = Record(zone, k, t) /\ reply' = RecordReply(zone', k, t)
      /\ clock' = clock
  BY DEF DoRecord
<1>3. t \in clock - MaxLag .. clock
  BY <1>1, TimeFacts, ClockBounds DEF CachedAt
<1> HIDE DEF t
<1>4. /\ \/ HeldBy(zone, zone', k, t, "record", "BUSY", reply')
         \/ CountedBy(zone, zone', k, t, reply')
         \/ RefusedBy(zone, zone', k, t, reply')
      /\ \A j \in Key \ {k} :
             \/ Unaltered(zone, zone', j)
             \/ Erased(zone', j) /\ Until(zone, j) <= t
      /\ \A i, j \in Key \ {k} :
             \/ Unaltered(zone, zone', i) \/ DeadAt(zone, i, t)
             \/ Unaltered(zone, zone', j) \/ DeadAt(zone, j, t)
             \/ i = j
  BY <1>1, <1>2, RecordStep, Zenon
<1>5. \/ Policy!Hold(k, t, "record", "BUSY")
      \/ Policy!Count(k, t)
      \/ Policy!Refuse(k, t)
  BY <1>1, <1>4, HoldTerms, CountTerms, RefuseTerms, Zenon
<1>6. \A i, j \in Key \ {k} : Policy!Lost(i, t) /\ Policy!Lost(j, t) => i = j
  BY <1>4, PolicyTerms, Zenon DEF Policy!Lost
<1>7. Policy!Bystanders(k, t)
  BY <1>4, PolicyTerms DEF Policy!Bystanders, Until
<1>8. Policy!RecordCall(k, t)
  BY <1>5, <1>6, Zenon DEF Policy!RecordCall
<1> QED
  BY <1>2, <1>3, <1>7, <1>8, Zenon DEF Policy!Call

\* is_blocked() is a call of the policy.
LEMMA IsBlockedIsCall ==
    ASSUME IInv, NEW w \in Worker, NEW k \in Key, DoIsBlocked(w, k)
    PROVE  Policy!Call
<1> DEFINE t == now[w]
<1>1. CachedAt(t, clock, MaxLag) /\ ZoneInv(zone, clock, MaxLag)
  BY CachedTimes, IInvDef, Zenon DEF IInvByNode
<1>2. zone' = IsBlocked(zone, k, t) /\ reply' = IsBlockedReply(zone', k, t)
      /\ clock' = clock
  BY DEF DoIsBlocked
<1>3. t \in clock - MaxLag .. clock
  BY <1>1, TimeFacts, ClockBounds DEF CachedAt
<1> HIDE DEF t
<1>4. /\ \/ HeldBy(zone, zone', k, t, "is_blocked", "OK", reply')
         \/ LookedAtBy(zone, zone', k, t, reply')
      /\ \A j \in Key \ {k} :
             \/ Unaltered(zone, zone', j)
             \/ Erased(zone', j) /\ Until(zone, j) <= t
      /\ \A j \in Key \ {k} :
             Unaltered(zone, zone', j) \/ DeadAt(zone, j, t)
  BY <1>1, <1>2, IsBlockedStep, Zenon
<1>5. Policy!Hold(k, t, "is_blocked", "OK") \/ Policy!Look(k, t)
  BY <1>1, <1>4, HoldTerms, LookTerms, Zenon
<1>6. \A j \in Key \ {k} : ~ Policy!Lost(j, t)
  BY <1>4, PolicyTerms, Zenon DEF Policy!Lost
<1>7. Policy!Bystanders(k, t)
  BY <1>4, PolicyTerms DEF Policy!Bystanders, Until
<1>8. Policy!IsBlockedCall(k, t)
  BY <1>5, <1>6, Zenon DEF Policy!IsBlockedCall
<1> QED
  BY <1>2, <1>3, <1>7, <1>8, Zenon DEF Policy!Call

\* The first state of the zone is the policy's.
LEMMA PolicyInit == Init => Policy!Init
BY DEF Init, Policy!Init, EmptyZone, NodeOf, ZeroNode, NoReply, Policy!NoReply

\* Every step is a step of the policy or leaves it alone.
LEMMA PolicyStep == IInv /\ [Next]_vars => [Policy!Next]_(Policy!vars)
<1> SUFFICES ASSUME IInv, [Next]_vars
             PROVE  [Policy!Next]_(Policy!vars)
  OBVIOUS
<1>1. CASE Tick
  BY <1>1 DEF Tick, Policy!Next, Policy!Tick, NodeOf
<1>2. ASSUME NEW w \in Worker, UpdateTime(w)
      PROVE  [Policy!Next]_(Policy!vars)
  BY <1>2 DEF UpdateTime, Policy!vars, NodeOf
<1>3. ASSUME NEW w \in Worker, NEW k \in Key, DoRecord(w, k) \/ DoIsBlocked(w, k)
      PROVE  [Policy!Next]_(Policy!vars)
  BY <1>3, RecordIsCall, IsBlockedIsCall DEF Policy!Next
<1>4. CASE UNCHANGED vars
  BY <1>4 DEF vars, Policy!vars, NodeOf
<1> QED
  BY <1>1, <1>2, <1>3, <1>4 DEF Next

\* The zone implements the policy of module BanPolicy: whatever the number of
\* workers, identities and nodes, every record() and is_blocked() does to the
\* windows and bans what the policy allows, and replies as it says.
THEOREM Refinement == Spec => ImplementsPolicy
BY PolicyInit, PolicyStep, Invariance, PTL DEF Spec, ImplementsPolicy, Policy!Spec

\* What a step does to a running ban.
LEMMA BanStep ==
    ASSUME IInv, [Next]_vars, NEW k \in Key, Until(zone, k) > clock
    PROVE  Until(zone', k) = Until(zone, k)
<1>1. Until(zone, k) \in Int /\ clock \in Int /\ ZoneInv(zone, clock, MaxLag)
  BY IInvDef, NodeOfFacts, TimeFacts DEF IInvByNode
<1>2. CASE zone' = zone
  BY <1>2
<1>3. ASSUME NEW w \in Worker, NEW j \in Key, DoRecord(w, j)
      PROVE  Until(zone', k) = Until(zone, k)
  <2>1. CachedAt(now[w], clock, MaxLag)
    BY CachedTimes
  <2>2. zone' = Record(zone, j, now[w])
    BY <1>3 DEF DoRecord
  <2>3. ~ (Until(zone, k) <= now[w])
    <3>1. now[w] \in Int /\ now[w] <= clock
      BY <2>1, TimeFacts DEF CachedAt
    <3> HIDE DEF Until
    <3> QED
      BY <1>1, <3>1
  <2> QED
    BY <1>1, <2>1, <2>2, <2>3, RecordStep, Zenon
       DEF HeldBy, CountedBy, RefusedBy, DeadAt, Unaltered
<1>4. ASSUME NEW w \in Worker, NEW j \in Key, DoIsBlocked(w, j)
      PROVE  Until(zone', k) = Until(zone, k)
  <2>1. CachedAt(now[w], clock, MaxLag)
    BY CachedTimes
  <2>2. zone' = IsBlocked(zone, j, now[w])
    BY <1>4 DEF DoIsBlocked
  <2>3. ~ (Until(zone, k) <= now[w])
    <3>1. now[w] \in Int /\ now[w] <= clock
      BY <2>1, TimeFacts DEF CachedAt
    <3> HIDE DEF Until
    <3> QED
      BY <1>1, <3>1
  <2> QED
    BY <1>1, <2>1, <2>2, <2>3, IsBlockedStep, Zenon
       DEF HeldBy, LookedAtBy, DeadAt, Unaltered
<1> QED
  BY <1>2, <1>3, <1>4 DEF Next, Tick, UpdateTime, vars

\* A running ban is neither evicted, expired, lengthened nor shortened.
THEOREM BansStand == Spec => BanStands
<1>1. IInv /\ [Next]_vars =>
          [\A k \in Key : NodeOf(zone, k).blocked_until > clock =>
              NodeOf(zone', k).blocked_until = NodeOf(zone, k).blocked_until]_vars
  BY BanStep, Zenon DEF Until
<1> QED
  BY <1>1, Invariance, PTL DEF Spec, BanStands

-----------------------------------------------------------------------------
(***************************************************************************)
(* Memory pressure: what is lost to a full pool, and what a failure gains. *)
(***************************************************************************)

\* expire() makes no list longer, and leaves a list of the same length alone.
LEMMA ExpireLength ==
    ASSUME NEW z, GoodZone(z), NEW t \in Int, NEW limit \in Nat
    PROVE  LET e == Expire(z, t, limit)
           IN  /\ Len(e.queue) <= Len(z.queue)
               /\ Len(e.queue) = Len(z.queue) =>
                      e.queue = z.queue /\ DOMAIN e.node = DOMAIN z.node
<1> DEFINE e == Expire(z, t, limit)
           m == ExpireRun(z, t, limit)
<1>1. PICK q \in Seq(Key) : q = z.queue
  BY DEF GoodZone, IsZone
<1>2. PICK n \in Nat : n = Len(q)
  BY LenProperties
<1>3. m \in 0 .. n
  BY <1>1, <1>2, ExpireRunFacts DEF GoodZone
<1>4. /\ e.queue = SubSeq(q, 1, n - m)
      /\ e.node = WithoutNodes(z.node, TailKeys(q, m))
  BY <1>1, <1>2 DEF Expire
<1> HIDE DEF e, m
<1>5. Len(e.queue) = n - m
  <2>1. n - m \in 0 .. Len(q)
    BY <1>2, <1>3
  <2> QED
    BY <1>4, <2>1, PrefixFacts
<1>6. ASSUME n - m = n
      PROVE  e.queue = q /\ DOMAIN e.node = DOMAIN z.node
  <2>1. e.queue = q
    BY <1>2, <1>4, <1>6, SubSeqFull
  <2>2. Len(q) - m + 1 .. Len(q) = {}
    BY <1>2, <1>3, <1>6
  <2>3. TailKeys(q, m) = {}
    BY <2>2, Zenon DEF TailKeys
  <2>4. DOMAIN WithoutNodes(z.node, {}) = DOMAIN z.node \ {}
    BY WithoutNodesFacts, Zenon
  <2> QED
    BY <1>4, <2>1, <2>3, <2>4
<1> QED
  BY <1>1, <1>2, <1>3, <1>5, <1>6 DEF e

\* The list s is z's after the last nodes, bans all of them, have rotated to
\* the head: the whole list, or as many nodes as one scan passes over.
Rotated(z, s, t) ==
    \E i \in 0 .. Len(z.queue) :
        /\ s = Splice(z.queue, i, i)
        /\ \A x \in i + 1 .. Len(z.queue) : Banned(z.node[z.queue[x]], t)
        /\ i = 0 \/ i = Len(z.queue) - EvictScanLimit

\* evict_one_unblocked() deletes a node or only rotates the list.
LEMMA EvictLength ==
    ASSUME NEW z, GoodZone(z), NEW t \in Int
    PROVE  LET e == EvictOneUnblocked(z, t)
           IN  \/ Len(e.queue) = Len(z.queue) - 1
               \/ e.node = z.node /\ Rotated(z, e.queue, t)
<1> DEFINE e == EvictOneUnblocked(z, t)
           m == BannedRun(z, t)
<1>1. PICK q \in Seq(Key) : q = z.queue
  BY DEF GoodZone, IsZone
<1>2. PICK n \in Nat : n = Len(q)
  BY LenProperties
<1>3. /\ m \in 0 .. n
      /\ \A i \in n - m + 1 .. n : Banned(z.node[q[i]], t)
  BY <1>1, <1>2, BannedRunFacts DEF GoodZone
<1>4. CASE m = n \/ m = EvictScanLimit
  <2>1. e.queue = Splice(q, n - m, n - m) /\ e.node = z.node
    BY <1>1, <1>2, <1>4 DEF EvictOneUnblocked
  <2> HIDE DEF e, m
  <2>2. PICK i \in 0 .. n : i = n - m
    BY <1>3
  <2>3. i = 0 \/ i = n - EvictScanLimit
    BY <1>4, <2>2
  <2> QED
    BY <1>1, <1>2, <1>3, <2>1, <2>2, <2>3, Zenon DEF e, Rotated
<1>5. CASE ~ (m = n \/ m = EvictScanLimit)
  <2>1. e.queue = Splice(q, n - m, n - m - 1)
    BY <1>1, <1>2, <1>5 DEF EvictOneUnblocked
  <2>2. n - m \in 1 .. Len(q)
    BY <1>2, <1>3, <1>5
  <2>3. Distinct(q)
    BY <1>1, WellLinkedDef, Zenon DEF GoodZone
  <2> HIDE DEF e, m
  <2>4. Len(e.queue) = Len(q) - 1
    BY <2>1, <2>2, <2>3, RotateAndDelete
  <2> QED
    BY <1>1, <2>4 DEF e
<1> QED
  BY <1>4, <1>5

\* A node that is not expirable is lost to the allocation only if the pool was
\* full, and that makes room.  If there is no room after all, every node is
\* still there and the list has only been rotated.
LEMMA MakeRoomLength ==
    ASSUME NEW z, GoodZone(z), NEW t \in Int
    PROVE  LET r == MakeRoom(z, t)
           IN  /\ \A j \in DOMAIN z.node \ DOMAIN r.node :
                      \/ Expirable(z.node[j], t)
                      \/ Len(z.queue) = Capacity /\ Len(r.queue) = Capacity - 1
               /\ Full(r) => /\ Len(z.queue) = Capacity
                             /\ DOMAIN r.node = DOMAIN z.node
                             /\ Rotated(z, r.queue, t)
<1> DEFINE e == IF Full(z) THEN Expire(z, t, ExpireLimitAlloc) ELSE z
           r == MakeRoom(z, t)
<1>1. /\ GoodZone(e) /\ Keeps(z, e)
      /\ \A j \in DOMAIN z.node \ DOMAIN e.node : Expirable(z.node[j], t)
      /\ Len(e.queue) <= Len(z.queue)
      /\ Len(e.queue) = Len(z.queue) =>
             e.queue = z.queue /\ DOMAIN e.node = DOMAIN z.node
  <2>1. ExpireLimitAlloc \in Nat
    BY ZoneLimits
  <2>2. LET x == Expire(z, t, ExpireLimitAlloc)
        IN  /\ GoodZone(x) /\ Keeps(z, x)
            /\ \A j \in DOMAIN z.node \ DOMAIN x.node : Expirable(z.node[j], t)
            /\ Len(x.queue) <= Len(z.queue)
            /\ Len(x.queue) = Len(z.queue) =>
                   x.queue = z.queue /\ DOMAIN x.node = DOMAIN z.node
    BY <2>1, ExpireFacts, ExpireLength
  <2>3. GoodZone(z) /\ Keeps(z, z) /\ Len(z.queue) <= Len(z.queue)
    <3>1. Len(z.queue) \in Nat
      BY LenProperties DEF GoodZone, IsZone
    <3> QED
      BY <3>1 DEF Keeps
  <2> QED
    BY <2>2, <2>3, Zenon
<1>2. r = IF Full(e) THEN EvictOneUnblocked(e, t) ELSE e
  BY Zenon DEF MakeRoom
<1>3. /\ Len(z.queue) \in Nat /\ Len(z.queue) <= Capacity
      /\ Len(e.queue) \in Nat /\ Len(e.queue) <= Capacity
      /\ Capacity \in Nat
  BY <1>1, LenProperties, ZoneLimits DEF GoodZone, IsZone, WellLinked
<1>4. CASE Full(e)
  <2> HIDE DEF e, r
  <2>1. Len(e.queue) = Capacity /\ Len(z.queue) = Capacity
    BY <1>1, <1>3, <1>4 DEF Full
  <2>2. e.queue = z.queue /\ DOMAIN e.node = DOMAIN z.node
    BY <1>1, <2>1
  <2>3. \/ Len(r.queue) = Len(e.queue) - 1
        \/ r.node = e.node /\ Rotated(e, r.queue, t)
    BY <1>1, <1>2, <1>4, EvictLength
  <2>4. CASE Len(r.queue) = Len(e.queue) - 1
    <3>1. ~ Full(r) /\ Len(r.queue) = Capacity - 1
      BY <1>3, <2>1, <2>4 DEF Full
    <3> QED
      BY <2>1, <3>1 DEF r
  <2>5. CASE r.node = e.node /\ Rotated(e, r.queue, t)
    <3>1. DOMAIN r.node = DOMAIN z.node
      BY <2>2, <2>5
    <3>2. \A x \in 1 .. Len(z.queue) : z.queue[x] \in DOMAIN z.node
      BY WellLinkedDef DEF GoodZone, Elems
    <3>3. \A x \in 1 .. Len(z.queue) : e.node[z.queue[x]] = z.node[z.queue[x]]
      BY <1>1, <2>2, <3>2, Zenon DEF Keeps
    <3>4. Rotated(z, r.queue, t)
      <4>1. PICK i \in 0 .. Len(z.queue) :
               /\ r.queue = Splice(z.queue, i, i)
               /\ \A x \in i + 1 .. Len(z.queue) : Banned(e.node[z.queue[x]], t)
               /\ i = 0 \/ i = Len(z.queue) - EvictScanLimit
        BY <2>2, <2>5, Zenon DEF Rotated
      <4>2. \A x \in i + 1 .. Len(z.queue) : x \in 1 .. Len(z.queue)
        BY <1>3
      <4>3. \A x \in i + 1 .. Len(z.queue) : Banned(z.node[z.queue[x]], t)
        BY <3>3, <4>1, <4>2, Zenon
      <4> QED
        BY <4>1, <4>3, Zenon DEF Rotated
    <3> QED
      BY <2>1, <3>1, <3>4, Zenon DEF r
  <2> QED
    BY <2>3, <2>4, <2>5
<1>5. CASE ~ Full(e)
  <2>1. r = e
    BY <1>2, <1>5, Zenon
  <2> QED
    BY <1>1, <1>5, <2>1, Zenon
<1> QED
  BY <1>4, <1>5, Zenon

\* The lookup makes no list longer, and leaves one that stays as long alone if
\* it does not find k.
LEMMA FindTouchLength ==
    ASSUME NEW z, GoodZone(z), NEW k \in Key, NEW t \in Time
    PROVE  LET f == FindTouch(z, k, t)
           IN  /\ Len(f.queue) <= Len(z.queue)
               /\ Len(f.queue) = Len(z.queue) /\ k \notin DOMAIN f.node =>
                      f.queue = z.queue /\ DOMAIN f.node = DOMAIN z.node
<1> DEFINE f == FindTouch(z, k, t)
           e == Expire(z, t, ExpireLimitFind)
<1>1. t \in Int /\ ExpireLimitFind \in Nat
  BY ZoneLimits, TimeRange DEF Time
<1>2. /\ GoodZone(e)
      /\ Len(e.queue) <= Len(z.queue)
      /\ Len(e.queue) = Len(z.queue) =>
             e.queue = z.queue /\ DOMAIN e.node = DOMAIN z.node
  BY <1>1, ExpireFacts, ExpireLength
<1>3. CASE k \notin DOMAIN e.node
  <2>1. f = e
    BY <1>3, Zenon DEF FindTouch
  <2> QED
    BY <1>2, <2>1, Zenon
<1>4. CASE k \in DOMAIN e.node
  <2>1. /\ f.queue = Touch(e.queue, k)
        /\ DOMAIN f.node = DOMAIN e.node
    BY <1>4 DEF FindTouch
  <2>2. /\ e.queue \in Seq(Key) /\ Distinct(e.queue)
        /\ k \in Elems(e.queue)
    BY <1>2, <1>4, WellLinkedDef DEF GoodZone, IsZone
  <2> HIDE DEF e, f
  <2>3. Len(f.queue) = Len(e.queue)
    BY <2>1, <2>2, TouchQueue
  <2> QED
    BY <1>2, <1>4, <2>1, <2>3 DEF f, e
<1> QED
  BY <1>3, <1>4

\* What record() loses that is not expirable was lost to a full pool, which is
\* full again; and if it ends without a node of k, it has rotated the list.
LEMMA TrackingLength ==
    ASSUME NEW z, GoodZone(z), NEW k \in Key, NEW t \in Time
    PROVE  LET y == Tracking(z, k, t)
           IN  /\ \A j \in DOMAIN z.node \ DOMAIN y.node :
                      \/ Expirable(z.node[j], t)
                      \/ Len(z.queue) = Capacity /\ Len(y.queue) = Capacity
               /\ k \notin DOMAIN y.node => Rotated(z, y.queue, t)
<1> DEFINE y == Tracking(z, k, t)
           f == FindTouch(z, k, t)
           r == MakeRoom(f, t)
<1>0. t \in Int
  BY TimeRange DEF Time
<1>1. /\ GoodZone(f)
      /\ DOMAIN f.node \subseteq DOMAIN z.node
      /\ \A j \in DOMAIN f.node \ {k} : f.node[j] = z.node[j]
      /\ k \in DOMAIN f.node => f.node[k] = [z.node[k] EXCEPT !.last_seen = t]
      /\ \A j \in DOMAIN z.node \ DOMAIN f.node : Expirable(z.node[j], t)
  BY FindTouchFacts
<1>2. /\ Len(f.queue) <= Len(z.queue)
      /\ Len(f.queue) = Len(z.queue) /\ k \notin DOMAIN f.node =>
             f.queue = z.queue /\ DOMAIN f.node = DOMAIN z.node
  BY FindTouchLength
<1>3. y = IF k \in DOMAIN f.node THEN f
          ELSE IF Full(r) THEN r
          ELSE [queue |-> <<k>> \o r.queue,
                node  |-> [j \in DOMAIN r.node \cup {k} |->
                              IF j = k THEN [ZeroNode EXCEPT !.last_seen = t]
                                       ELSE r.node[j]]]
  BY Zenon DEF Tracking, CreateNode
<1>4. /\ GoodZone(r) /\ Keeps(f, r)
      /\ \A j \in DOMAIN f.node \ DOMAIN r.node :
             \/ Expirable(f.node[j], t)
             \/ Len(f.queue) = Capacity /\ Len(r.queue) = Capacity - 1
      /\ Full(r) => /\ Len(f.queue) = Capacity
                    /\ DOMAIN r.node = DOMAIN f.node
                    /\ Rotated(f, r.queue, t)
  BY <1>0, <1>1, MakeRoomFacts, MakeRoomLength
<1>5. /\ Len(z.queue) \in Nat /\ Len(z.queue) <= Capacity
      /\ Capacity \in Nat /\ r.queue \in Seq(Key)
      /\ \A x \in 1 .. Len(z.queue) : z.queue[x] \in DOMAIN z.node
  BY <1>4, LenProperties, ZoneLimits, WellLinkedDef
     DEF GoodZone, IsZone, Elems
<1> HIDE DEF y, f, r
<1>6. CASE k \in DOMAIN f.node
  <2>1. y = f
    BY <1>3, <1>6, Zenon
  <2> QED
    BY <1>1, <1>6, <2>1, Zenon DEF y
<1>7. CASE k \notin DOMAIN f.node /\ Full(r)
  <2>1. y = r
    BY <1>3, <1>7, Zenon
  <2>2. Len(f.queue) = Len(z.queue)
    BY <1>2, <1>4, <1>5, <1>7
  <2>3. f.queue = z.queue /\ DOMAIN f.node = DOMAIN z.node
    BY <1>2, <1>7, <2>2
  <2>4. \A j \in DOMAIN z.node : f.node[j] = z.node[j]
    BY <1>1, <1>7, <2>3, Zenon
  <2>5. PICK i \in 0 .. Len(z.queue) :
            /\ r.queue = Splice(z.queue, i, i)
            /\ \A x \in i + 1 .. Len(z.queue) : Banned(f.node[z.queue[x]], t)
            /\ i = 0 \/ i = Len(z.queue) - EvictScanLimit
    BY <1>4, <1>7, <2>3, Zenon DEF Rotated
  <2>6. \A x \in i + 1 .. Len(z.queue) : x \in 1 .. Len(z.queue)
    BY <1>5
  <2>7. \A x \in i + 1 .. Len(z.queue) : Banned(z.node[z.queue[x]], t)
    BY <1>5, <2>4, <2>5, <2>6, Zenon
  <2>8. Rotated(z, r.queue, t)
    BY <2>5, <2>7, Zenon DEF Rotated
  <2>9. DOMAIN z.node \ DOMAIN r.node = {}
    BY <1>4, <1>7, <2>3, Zenon
  <2> QED
    BY <2>1, <2>8, <2>9, Zenon DEF y
<1>8. CASE k \notin DOMAIN f.node /\ ~ Full(r)
  <2>1. /\ y.queue = <<k>> \o r.queue
        /\ DOMAIN y.node = DOMAIN r.node \cup {k}
    BY <1>3, <1>8
  <2>2. Len(y.queue) = Len(r.queue) + 1
    <3>1. <<k>> \in Seq(Key) /\ Len(<<k>>) = 1
      OBVIOUS
    <3>2. Len(r.queue) \in Nat
      BY <1>5, LenProperties
    <3> QED
      BY <1>5, <2>1, <3>1, <3>2, ConcatProperties
  <2>3. ASSUME NEW j \in DOMAIN z.node \ DOMAIN y.node,
               ~ Expirable(z.node[j], t)
        PROVE  Len(z.queue) = Capacity /\ Len(y.queue) = Capacity
    <3>1. j \in DOMAIN f.node \ DOMAIN r.node /\ f.node[j] = z.node[j]
      BY <1>1, <1>8, <2>1, <2>3, Zenon
    <3>2. Len(f.queue) = Capacity /\ Len(r.queue) = Capacity - 1
      BY <1>4, <2>3, <3>1, Zenon
    <3> QED
      BY <1>2, <1>5, <2>2, <3>2
  <2> QED
    BY <2>1, <2>3, Zenon DEF y
<1> QED
  BY <1>6, <1>7, <1>8

\* record() has the list and the nodes of the lookup and the allocation.
LEMMA RecordQueue ==
    ASSUME NEW z, NEW k, NEW t
    PROVE  /\ Record(z, k, t).queue = Tracking(z, k, t).queue
           /\ DOMAIN Record(z, k, t).node = DOMAIN Tracking(z, k, t).node
<1> DEFINE y == Tracking(z, k, t)
<1>1. Record(z, k, t) = IF k \notin DOMAIN y.node \/ Banned(y.node[k], t)
                        THEN y ELSE SetNode(y, k, CountError(y.node[k], t))
  BY Zenon DEF Record
<1> HIDE DEF y
<1>2. CASE k \notin DOMAIN y.node \/ Banned(y.node[k], t)
  BY <1>1, <1>2, Zenon DEF y
<1>3. CASE ~ (k \notin DOMAIN y.node \/ Banned(y.node[k], t))
  <2>1. Record(z, k, t) = SetNode(y, k, CountError(y.node[k], t))
    BY <1>1, <1>3, Zenon
  <2>2. \A n : /\ SetNode(y, k, n).queue = y.queue
               /\ DOMAIN SetNode(y, k, n).node = DOMAIN y.node
    BY DEF SetNode
  <2> QED
    BY <2>1, <2>2, Zenon DEF y
<1> QED
  BY <1>2, <1>3

\* Where a node is in a list without duplicates.
LEMMA PositionFacts ==
    ASSUME NEW q \in Seq(Key), Distinct(q), NEW x \in 1 .. Len(q)
    PROVE  Position(q, q[x]) = x
<1>1. DOMAIN q = 1 .. Len(q)
  BY LenProperties
<1> DEFINE p == CHOOSE i \in DOMAIN q : q[i] = q[x]
<1>2. p \in DOMAIN q /\ q[p] = q[x]
  BY <1>1, Zenon
<1>3. p = x
  BY <1>1, <1>2, Zenon DEF Distinct
<1> QED
  BY <1>3, Zenon DEF Position

\* What is left in front of the rotated nodes comes closer to the tail by the
\* number of nodes that are rotated.
LEMMA RotateAdvances ==
    ASSUME NEW q \in Seq(Key), Distinct(q), NEW i \in 0 .. Len(q),
           NEW x \in 1 .. i
    PROVE  FromTail(Splice(q, i, i), q[x]) = FromTail(q, q[x]) - (Len(q) - i)
<1> DEFINE s == Splice(q, i, i)
           a == SubSeq(q, i + 1, Len(q))
           b == SubSeq(q, 1, i)
<1>1. PICK n \in Nat : n = Len(q)
  BY LenProperties
<1>2. s \in Seq(Key) /\ Distinct(s) /\ Len(s) = n
  BY <1>1, RotateQueue
<1>3. s = a \o b
  BY Zenon DEF Splice
<1>4. a \in Seq(Key) /\ Len(a) = n - i
  BY <1>1, SuffixFacts
<1>5. b \in Seq(Key) /\ Len(b) = i /\ b[x] = q[x]
  BY PrefixFacts
<1> HIDE DEF s, a, b
<1>6. n - i + x \in 1 .. Len(s) /\ n - i + x \in 1 .. Len(a) + Len(b)
  BY <1>1, <1>2, <1>4, <1>5
<1>7. s[n - i + x] = q[x]
  <2>1. s[n - i + x] = IF n - i + x <= Len(a) THEN a[n - i + x]
                       ELSE b[n - i + x - Len(a)]
    BY <1>3, <1>4, <1>5, <1>6, ConcatProperties
  <2>2. ~ (n - i + x <= Len(a)) /\ n - i + x - Len(a) = x
    BY <1>1, <1>4
  <2> QED
    BY <1>5, <2>1, <2>2
<1>8. Position(s, q[x]) = n - i + x
  BY <1>2, <1>6, <1>7, PositionFacts
<1>9. Position(q, q[x]) = x
  <2>1. x \in 1 .. Len(q)
    BY <1>1
  <2> QED
    BY <2>1, PositionFacts
<1>10. FromTail(s, q[x]) = n - (n - i + x) /\ FromTail(q, q[x]) = n - x
  BY <1>1, <1>2, <1>8, <1>9, Zenon DEF FromTail
<1> QED
  BY <1>1, <1>10 DEF s

LEMMA MissStep == IInv => MissAdvances
<1> SUFFICES ASSUME IInv, NEW w \in Worker, NEW k \in Key,
                    k \notin DOMAIN Record(zone, k, now[w]).node,
                    NEW j \in DOMAIN zone.node, ~ Banned(zone.node[j], now[w])
             PROVE  FromTail(Record(zone, k, now[w]).queue, j)
                        = FromTail(zone.queue, j) - EvictScanLimit
  BY Zenon DEF MissAdvances
<1> DEFINE t == now[w]
           s == Record(zone, k, t).queue
<1>1. ZoneInv(zone, clock, MaxLag) /\ CachedAt(t, clock, MaxLag)
  BY IInvDef, CachedTimes, Zenon DEF IInvByNode
<1>2. GoodZone(zone) /\ t \in Time
  BY <1>1, Zenon DEF ZoneInv, CachedAt
<1>3. Rotated(zone, s, t)
  <2>1. k \notin DOMAIN Tracking(zone, k, t).node
    BY RecordQueue, Zenon
  <2>2. s = Tracking(zone, k, t).queue
    BY RecordQueue, Zenon
  <2> QED
    BY <1>2, <2>1, <2>2, TrackingLength, Zenon
<1> HIDE DEF s
<1>4. PICK i \in 0 .. Len(zone.queue) :
        /\ s = Splice(zone.queue, i, i)
        /\ \A x \in i + 1 .. Len(zone.queue) : Banned(zone.node[zone.queue[x]], t)
        /\ i = 0 \/ i = Len(zone.queue) - EvictScanLimit
  BY <1>3, Zenon DEF Rotated
<1>5. PICK q \in Seq(Key) : q = zone.queue
  BY <1>2 DEF GoodZone, IsZone
<1>6. Distinct(q) /\ Elems(q) = DOMAIN zone.node /\ Len(q) \in Nat
  BY <1>2, <1>5, WellLinkedDef, LenProperties DEF GoodZone
<1>7. PICK x \in 1 .. Len(q) : q[x] = j
  BY <1>6, Zenon DEF Elems
<1>8. x \in 1 .. i
  <2>1. x \notin i + 1 .. Len(q)
    BY <1>4, <1>5, <1>7, Zenon
  <2> QED
    BY <1>4, <1>5, <1>6, <2>1
<1>9. FromTail(s, j) = FromTail(q, j) - (Len(q) - i)
  BY <1>4, <1>5, <1>6, <1>7, <1>8, RotateAdvances
<1>10. Len(q) - i = EvictScanLimit
  BY <1>4, <1>5, <1>6, <1>8, ZoneLimits
<1> QED
  BY <1>5, <1>9, <1>10 DEF s

\* MissAdvances: a record() that fails for want of room brings every unbanned
\* node closer to the tail by the whole scan limit, so pressure reaches one.
THEOREM MissesAdvance == Spec => []MissAdvances
BY MissStep, Invariance, PTL

LEMMA LossStep ==
    ASSUME IInv, [Next]_vars, NEW j \in DOMAIN zone.node \ DOMAIN zone'.node
    PROVE  \/ \E w \in Worker : Expirable(zone.node[j], now[w])
           \/ Len(zone.queue) = Capacity /\ Len(zone'.queue) = Capacity
<1>1. PICK w \in Worker, k \in Key : DoRecord(w, k) \/ DoIsBlocked(w, k)
  BY DEF Next, vars, Tick, UpdateTime
<1> DEFINE t == now[w]
<1>2. ZoneInv(zone, clock, MaxLag) /\ CachedAt(t, clock, MaxLag)
  BY IInvDef, CachedTimes, Zenon DEF IInvByNode
<1>3. GoodZone(zone) /\ t \in Time
  BY <1>2, Zenon DEF ZoneInv, CachedAt
<1>4. CASE DoRecord(w, k)
  <2>1. zone' = Record(zone, k, t)
    BY <1>4, Zenon DEF DoRecord
  <2>2. /\ zone'.queue = Tracking(zone, k, t).queue
        /\ DOMAIN zone'.node = DOMAIN Tracking(zone, k, t).node
    BY <2>1, RecordQueue, Zenon
  <2> QED
    BY <1>3, <2>2, TrackingLength, Zenon
<1>5. CASE DoIsBlocked(w, k)
  <2>1. zone' = IsBlocked(zone, k, t)
    BY <1>5, Zenon DEF DoIsBlocked
  <2> DEFINE f == FindTouch(zone, k, t)
  <2>2. DOMAIN zone'.node = DOMAIN f.node
    <3>1. Updates(IsBlocked(zone, k, t), f, k, t,
                  SettleNode(f.node[k], t), clock, MaxLag)
      BY <1>2, IsBlockedFacts
    <3> QED
      BY <2>1, <3>1, Zenon DEF Updates
  <2>3. Expirable(zone.node[j], t)
    BY <1>3, <2>2, FindTouchFacts, Zenon
  <2> QED
    BY <2>3, Zenon
<1> QED
  BY <1>1, <1>4, <1>5, Zenon

\* LossNeedsFullPool: an identity that is not idle is lost only to a full pool
\* and only when its room is used at once.
THEOREM LossesNeedFullPool == Spec => LossNeedsFullPool
<1>1. IInv /\ [Next]_vars =>
        [\A k \in DOMAIN zone.node \ DOMAIN zone'.node :
           \/ \E w \in Worker : Expirable(zone.node[k], now[w])
           \/ Len(zone.queue) = Capacity /\ Len(zone'.queue) = Capacity]_vars
  BY LossStep, Zenon
<1> QED
  BY <1>1, Invariance, PTL DEF Spec, LossNeedsFullPool

-----------------------------------------------------------------------------
(***************************************************************************)
(* Dry run: peek() reports what record() would.                            *)
(***************************************************************************)

\* The entries in the window of a ring that is in order are those that are
\* left when it is pruned.
LEMMA WindowCount ==
    ASSUME NEW e \in Seq(Time), NEW t \in Time, InOrder(e)
    PROVE  Cardinality({i \in DOMAIN e : e[i] > t - Interval})
               = Len(PruneEvents(e, t))
<1> DEFINE d == StaleRun(e, t)
           valid == {i \in DOMAIN e : e[i] > t - Interval}
<1>1. PICK n \in Nat : n = Len(e) /\ DOMAIN e = 1 .. n
  BY LenProperties
<1>2. t \in Int /\ Interval \in Int /\ \A i \in 1 .. n : e[i] \in Int
  BY <1>1, ElementOfSeq, TimeFacts, ZoneParameters
<1>3. e \in Seq(Int)
  BY SeqMonotonic, TimeFacts
<1>4. /\ d \in 0 .. n
      /\ \A i \in 1 .. d : e[i] <= t - Interval
      /\ d < n => e[d + 1] > t - Interval
  BY <1>1, <1>2, <1>3, StaleRunFacts
<1>5. Len(PruneEvents(e, t)) = n - d
  BY <1>1, <1>2, PruneFacts
<1> HIDE DEF d
<1>6. valid = d + 1 .. n
  <2>1. ASSUME NEW i \in 1 .. n, ~ (i <= d) PROVE e[i] > t - Interval
    <3>1. d + 1 \in 1 .. n /\ d + 1 <= i /\ d < n
      BY <1>1, <1>4, <2>1
    <3>2. e[d + 1] <= e[i]
      BY <1>1, <3>1, Zenon DEF InOrder
    <3> QED
      BY <1>2, <1>4, <3>1, <3>2
  <2>2. ASSUME NEW i \in 1 .. n, i <= d PROVE ~ (e[i] > t - Interval)
    <3>1. i \in 1 .. d
      BY <1>4, <2>2
    <3> QED
      BY <1>2, <1>4, <3>1
  <2> QED
    BY <1>1, <1>4, <2>1, <2>2
<1>7. Cardinality(d + 1 .. n) = n - d
  <2>1. PICK a \in Int : a = d + 1
    BY <1>4
  <2>2. n \in Int
    OBVIOUS
  <2>3. Cardinality(a .. n) = IF a > n THEN 0 ELSE n - a + 1
    BY <2>2, FS_Interval, Zenon
  <2> QED
    BY <1>4, <2>1, <2>3
<1> QED
  BY <1>5, <1>6, <1>7

\* Peek for an identity that is not banned.
LEMMA PeekFacts ==
    ASSUME NEW z, NEW k, NEW t, NEW n, n = NodeOf(z, k), ~ Banned(n, t),
           NEW c, c = Cardinality({i \in DOMAIN n.events :
                                       n.events[i] > t - Interval}) + 1
    PROVE  Peek(z, k, t) =
             [banned        |-> c >= Threshold,
              count         |-> c,
              blocked_until |-> IF c >= Threshold
                                THEN TimeAddSaturate(t, Block) ELSE 0]
BY Zenon DEF Peek

LEMMA PeekStep == IInv => PeekAgreesInOrder
<1> SUFFICES ASSUME IInv, NEW w \in Worker, NEW k \in Key,
                    k \in DOMAIN Record(zone, k, now[w]).node,
                    k \in DOMAIN zone.node =>
                        ~ Expirable(NodeOf(zone, k), now[w]),
                    InOrder(NodeOf(zone, k).events)
             PROVE  Peek(zone, k, now[w])
                        = Report(Record(zone, k, now[w]), k, now[w])
  BY Zenon DEF PeekAgreesInOrder
<1> DEFINE t == now[w]
           z == Record(zone, k, t)
           y == Tracking(zone, k, t)
           n == NodeOf(zone, k)
<1>1. ZoneInv(zone, clock, MaxLag) /\ CachedAt(t, clock, MaxLag)
  BY IInvDef, CachedTimes, Zenon DEF IInvByNode
<1>2. GoodZone(zone) /\ t \in Time
  BY <1>1, Zenon DEF ZoneInv, CachedAt
<1>3. Updates(z, y, k, t, CountError(y.node[k], t), clock, MaxLag)
  BY <1>1, RecordFacts
<1>4. /\ k \in DOMAIN y.node
      /\ \/ /\ k \in DOMAIN zone.node
            /\ y.node[k] = [zone.node[k] EXCEPT !.last_seen = t]
         \/ k \notin DOMAIN zone.node /\ y.node[k] = NewNode(t)
  <2>1. k \in DOMAIN y.node
    BY <1>3, Zenon DEF Updates
  <2>2. k \in DOMAIN zone.node => n = zone.node[k]
    BY Zenon DEF NodeOf
  <2>3. \/ /\ k \in DOMAIN zone.node
           /\ y.node[k] = [zone.node[k] EXCEPT !.last_seen = t]
        \/ /\ k \in DOMAIN zone.node => Expirable(zone.node[k], t)
           /\ y.node[k] = NewNode(t)
    BY <1>2, <2>1, TrackingFacts, Zenon
  <2> QED
    BY <2>1, <2>2, <2>3, Zenon
<1>5. NodeInv(y.node[k], clock, MaxLag)
  BY <1>1, <1>4, TrackingInv, Zenon DEF ZoneInv
<1> HIDE DEF z, y
<1>6. /\ n.events \in Seq(Time) /\ n.blocked_until \in Time
      /\ n.blocked_until # 0 => n.events = <<>>
      /\ y.node[k].events = n.events
      /\ y.node[k].blocked_until = n.blocked_until
  <2>1. CASE k \in DOMAIN zone.node
    <3>1. n = zone.node[k] /\ NodeInv(n, clock, MaxLag)
      BY <1>1, <2>1, Zenon DEF NodeOf, ZoneInv
    <3> QED
      BY <1>4, <2>1, <3>1 DEF NodeInv, Node
  <2>2. CASE k \notin DOMAIN zone.node
    <3>1. n = ZeroNode
      BY <2>2, Zenon DEF NodeOf
    <3>2. y.node[k] = [ZeroNode EXCEPT !.last_seen = t]
      BY <1>4, <2>2 DEF NewNode
    <3> QED
      BY <3>1, <3>2, TimeFacts DEF ZeroNode
  <2> QED
    BY <2>1, <2>2
<1>7. NodeOf(z, k) = z.node[k]
  BY Zenon DEF NodeOf, z
<1> HIDE DEF n
<1>8. CASE Banned(n, t)
  <2>1. Banned(y.node[k], t)
    BY <1>6, <1>8, Zenon DEF Banned
  <2>2. z.node[k] = y.node[k]
    BY <1>3, <1>4, <2>1, Zenon DEF Updates
  <2>3. Peek(zone, k, t) = Report(zone, k, t)
    BY <1>8, Zenon DEF Peek, n
  <2>4. /\ Report(zone, k, t) = [banned |-> TRUE, count |-> Threshold,
                                 blocked_until |-> n.blocked_until]
        /\ Report(z, k, t) = [banned |-> TRUE, count |-> Threshold,
                              blocked_until |-> y.node[k].blocked_until]
    <3>1. \A x, u : Banned(NodeOf(x, k), t) /\ NodeOf(x, k).blocked_until = u =>
              Report(x, k, t) = [banned |-> TRUE, count |-> Threshold,
                                 blocked_until |-> u]
      BY DEF Report
    <3> QED
      BY <1>7, <1>8, <2>1, <2>2, <3>1, Zenon DEF n
  <2> QED
    BY <1>6, <2>3, <2>4, Zenon DEF z
<1>9. CASE ~ Banned(n, t)
  <2> DEFINE x == y.node[k]
             e == LiveEvents(x, t)
             c == Cardinality({i \in DOMAIN n.events :
                                   n.events[i] > t - Interval}) + 1
  <2>1. ~ Banned(x, t)
    BY <1>6, <1>9, Zenon DEF Banned
  <2>2. z.node[k] = CountError(x, t)
    BY <1>3, <1>4, <2>1, Zenon DEF Updates
  <2>3. e \in Seq(Time) /\ Len(e) \in Nat /\ Len(e) < Threshold
    BY <1>2, <1>5, LiveEventsFacts, TimeFacts
  <2>4. c = Len(e) + 1
    <3>1. CASE n.blocked_until # 0
      <4>1. e = <<>> /\ n.events = <<>>
        BY <1>6, <3>1, Zenon DEF LiveEvents
      <4>2. {i \in DOMAIN n.events : n.events[i] > t - Interval} = {}
        BY <4>1
      <4> QED
        BY <4>1, <4>2, FS_EmptySet
    <3>2. CASE n.blocked_until = 0
      <4>1. e = PruneEvents(n.events, t)
        BY <1>6, <3>2, Zenon DEF LiveEvents
      <4>2. InOrder(n.events)
        BY DEF n
      <4> QED
        BY <1>2, <1>6, <4>1, <4>2, WindowCount
    <3> QED
      BY <3>1, <3>2
  <2>5. IF Len(e) + 1 >= Threshold
        THEN z.node[k].blocked_until = TimeAddSaturate(t, Block)
        ELSE z.node[k].events = Append(e, t) /\ z.node[k].blocked_until = 0
    BY <1>1, <1>5, <2>2, CountErrorShape
  <2> HIDE DEF e, c, x
  <2>6. Peek(zone, k, t) =
          [banned |-> c >= Threshold, count |-> c,
           blocked_until |-> IF c >= Threshold
                             THEN TimeAddSaturate(t, Block) ELSE 0]
    BY <1>9, PeekFacts DEF n, c
  <2>7. Report(z, k, t) =
          [banned |-> z.node[k].blocked_until > t,
           count |-> IF z.node[k].blocked_until > t THEN Threshold
                     ELSE Len(z.node[k].events),
           blocked_until |-> z.node[k].blocked_until]
    BY <1>7, Zenon DEF Report, Banned
  <2>8. CASE c >= Threshold
    <3>1. c = Threshold
      BY <2>3, <2>4, <2>8, ZoneParameters
    <3>2. z.node[k].blocked_until = TimeAddSaturate(t, Block)
      BY <2>4, <2>5, <2>8
    <3>3. TimeAddSaturate(t, Block) > t
      BY <1>1, BanIsLater
    <3> QED
      BY <2>6, <2>7, <2>8, <3>1, <3>2, <3>3 DEF z
  <2>9. CASE ~ (c >= Threshold)
    <3>1. z.node[k].events = Append(e, t) /\ z.node[k].blocked_until = 0
      BY <2>4, <2>5, <2>9
    <3>2. Len(Append(e, t)) = c
      BY <1>2, <2>3, <2>4
    <3>3. ~ (0 > t)
      BY <1>2, TimeFacts
    <3> QED
      BY <2>6, <2>7, <2>9, <3>1, <3>2, <3>3 DEF z
  <2> QED
    BY <2>8, <2>9
<1> QED
  BY <1>8, <1>9

\* PeekAgreesInOrder: a dry run reports what enforcement would do for every
\* identity whose ring the workers' lag has left in order.
THEOREM PeekAgreesWithRecord == Spec => []PeekAgreesInOrder
BY PeekStep, Invariance, PTL

=============================================================================
