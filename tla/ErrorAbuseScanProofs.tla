------------------------ MODULE ErrorAbuseScanProofs ------------------------
(***************************************************************************)
(* Rings and the cells of a snapshot.                                      *)
(*                                                                         *)
(* Three arguments.  No operator on the list and the tree looks at events, *)
(* so each one commutes with Plain, which replaces every ring by the       *)
(* sequence of its entries; with what ErrorAbuseZoneOpsProofs knows of     *)
(* that sequence, a call on rings is the call of ErrorAbuseZone.  The walk *)
(* of validate_snapshot leaves a path of valid records behind it, and the  *)
(* walk of load can only follow that path.  And what serialize() lays out  *)
(* is such a path, whose records are decoded as they were saved.           *)
(***************************************************************************)
EXTENDS ErrorAbuseScan, ErrorAbuseZoneOpsProofs

-----------------------------------------------------------------------------
(***************************************************************************)
(* Rings.                                                                  *)
(***************************************************************************)

\* A node of a zone with rings, and the node of ErrorAbuseZone it stands for.
RNode == [blocked_until : Time, last_seen : Time, events : Ring]

PlainNode(n) == [n EXCEPT !.events = Entries(@)]

\* The remainder of a sum of an index and a distance.
LEMMA Wrap ==
    ASSUME NEW n \in Nat \ {0}, NEW x \in 0 .. 2 * n - 1
    PROVE  x % n = IF x < n THEN x ELSE x - n
OBVIOUS

\* The fields of a ring.
LEMMA RingFields ==
    ASSUME NEW r \in Ring
    PROVE  /\ Threshold \in Nat \ {0}
           /\ r.head \in Nat /\ r.head < Threshold
           /\ r.count \in Nat /\ r.count <= Threshold
           /\ r.slot \in [Slot -> Time]
           /\ r = [head |-> r.head, count |-> r.count, slot |-> r.slot]
BY ZoneParameters DEF Ring, Slot

\* Where the entry at distance i is.
LEMMA PlaceOf ==
    ASSUME NEW h \in Slot, NEW i \in 0 .. Threshold
    PROVE  /\ (h + i) % Threshold \in Slot
           /\ (h + i) % Threshold = IF h + i < Threshold THEN h + i
                                    ELSE h + i - Threshold
<1>1. Threshold \in Nat \ {0} /\ h \in Nat /\ h < Threshold /\ i \in Nat
      /\ i <= Threshold
  BY ZoneParameters DEF Slot
<1> DEFINE x == h + i
<1>3. x \in 0 .. 2 * Threshold - 1 /\ x \in Nat
  BY <1>1
<1> DEFINE y == x % Threshold
<1> HIDE DEF x
<1>5. y = IF x < Threshold THEN x ELSE x - Threshold
  BY <1>1, <1>3, Wrap
<1> HIDE DEF y
<1>6. y \in Slot
  BY <1>1, <1>3, <1>5 DEF Slot
<1>7. (h + i) % Threshold \in Slot
  BY <1>6 DEF x, y
<1>8. (h + i) % Threshold = IF h + i < Threshold THEN h + i
                            ELSE h + i - Threshold
  BY <1>1, <1>5 DEF x, y
<1> QED
  BY <1>7, <1>8, Zenon

\* The sequence of a ring's entries.
LEMMA EntriesFacts ==
    ASSUME NEW r \in Ring
    PROVE  /\ Entries(r) \in Seq(Time)
           /\ Len(Entries(r)) = r.count
           /\ \A i \in 1 .. r.count : Entries(r)[i] = Entry(r, i - 1)
<1>1. r.head \in Slot /\ r.count \in Nat /\ r.count <= Threshold
      /\ r.slot \in [Slot -> Time] /\ Threshold \in Nat
  BY RingFields DEF Slot
<1>2. ASSUME NEW i \in 1 .. r.count PROVE Entry(r, i - 1) \in Time
  <2>1. i - 1 \in 0 .. Threshold
    BY <1>1
  <2> QED
    BY <1>1, <2>1, PlaceOf DEF Entry
<1> QED
  BY <1>1, <1>2 DEF Entries

\* An empty ring, and one that has been cleared.
LEMMA ClearedFacts ==
    ASSUME NEW r \in Ring
    PROVE  /\ Cleared(r) \in Ring /\ Entries(Cleared(r)) = <<>>
           /\ ZeroRing \in Ring /\ Entries(ZeroRing) = <<>>
<1>1. 0 \in Slot /\ 0 \in 0 .. Threshold /\ 0 \in Time
  BY TimeFacts, ZoneParameters DEF Slot
<1>2. Cleared(r) \in Ring /\ Cleared(r).count = 0
  BY <1>1 DEF Cleared, Ring
<1>3. ZeroRing \in Ring /\ ZeroRing.count = 0
  BY <1>1 DEF Ring, ZeroRing
<1> QED
  BY <1>2, <1>3, EntriesFacts, EmptySeq

\* prune_events() drops as many entries as PruneEvents drops events.
LEMMA StaleEntriesAre ==
    ASSUME NEW r \in Ring, NEW t \in Int
    PROVE  StaleEntries(r, t) = StaleRun(Entries(r), t)
<1> DEFINE e == Entries(r)
           P(m) == /\ \A i \in 0 .. m - 1 : Entry(r, i) <= t - Interval
                   /\ m < r.count => Entry(r, m) > t - Interval
           Q(m) == /\ \A i \in 1 .. m : e[i] <= t - Interval
                   /\ m < Len(e) => e[m + 1] > t - Interval
<1>1. Len(e) = r.count /\ r.count \in Nat
      /\ \A i \in 1 .. r.count : e[i] = Entry(r, i - 1)
  BY EntriesFacts, RingFields
<1>2. ASSUME NEW m \in 0 .. r.count PROVE P(m) <=> Q(m)
  <2>1. \A i \in 0 .. m - 1 : i + 1 \in 1 .. m /\ i + 1 \in 1 .. r.count
                              /\ e[i + 1] = Entry(r, i)
    BY <1>1
  <2>2. \A i \in 1 .. m : i - 1 \in 0 .. m - 1 /\ e[i] = Entry(r, i - 1)
    BY <1>1
  <2>3. m < r.count => e[m + 1] = Entry(r, m)
    BY <1>1
  <2> HIDE DEF e
  <2> QED
    BY <1>1, <2>1, <2>2, <2>3
<1>3. StaleEntries(r, t) = CHOOSE m \in 0 .. r.count : P(m)
  BY Zenon DEF StaleEntries
<1>4. StaleRun(e, t) = CHOOSE m \in 0 .. Len(e) : Q(m)
  BY Zenon DEF StaleRun
<1> HIDE DEF P, Q, e
<1>5. (CHOOSE m \in 0 .. r.count : P(m)) = (CHOOSE m \in 0 .. r.count : Q(m))
  BY <1>2, Zenon
<1>6. StaleEntries(r, t) = StaleRun(e, t)
  BY <1>1, <1>3, <1>4, <1>5
<1> QED
  BY <1>6 DEF e

\* prune_events drops from a ring what it drops from its entries.
LEMMA PruneRingFacts ==
    ASSUME NEW r \in Ring, NEW t \in Int
    PROVE  /\ PruneRing(r, t) \in Ring
           /\ Entries(PruneRing(r, t)) = PruneEvents(Entries(r), t)
<1> DEFINE m == StaleEntries(r, t)
           e == Entries(r)
           q == PruneRing(r, t)
<1>1. /\ Threshold \in Nat \ {0} /\ r.head \in Slot /\ r.count \in Nat
      /\ r.count <= Threshold /\ r.slot \in [Slot -> Time]
  BY RingFields DEF Slot
<1>2. e \in Seq(Time) /\ Len(e) = r.count
      /\ \A i \in 1 .. r.count : e[i] = Entry(r, i - 1)
  BY EntriesFacts
<1>2a. m = StaleRun(e, t) /\ e \in Seq(Time)
  BY <1>2, StaleEntriesAre
<1> HIDE DEF e, m
<1>3. /\ m \in 0 .. r.count
      /\ PruneEvents(e, t) \in Seq(Time)
      /\ Len(PruneEvents(e, t)) = r.count - m
      /\ \A x \in 1 .. r.count - m : PruneEvents(e, t)[x] = e[x + m]
  BY <1>2, <1>2a, PruneFacts
<1>4. m \in 0 .. Threshold /\ m \in Nat /\ r.count - m \in 0 .. Threshold
  BY <1>1, <1>3
<1>5. (r.head + m) % Threshold \in Slot
  BY <1>1, <1>4, PlaceOf
<1>6. q = [r EXCEPT !.head = (r.head + m) % Threshold, !.count = r.count - m]
  BY Zenon DEF PruneRing, m
<1>7. /\ q \in Ring /\ q.head = (r.head + m) % Threshold
      /\ q.count = r.count - m /\ q.slot = r.slot
  <2>1. PICK h \in Slot : h = (r.head + m) % Threshold
    BY <1>5
  <2>2. PICK c \in 0 .. Threshold : c = r.count - m
    BY <1>4
  <2>3. q = [r EXCEPT !.head = h, !.count = c]
    BY <1>6, <2>1, <2>2, Zenon
  <2>4. q \in Ring /\ q.head = h /\ q.count = c /\ q.slot = r.slot
    BY <2>3 DEF Ring
  <2> QED
    BY <2>1, <2>2, <2>4
<1> HIDE DEF q
<1>8. /\ Entries(q) \in Seq(Time) /\ Len(Entries(q)) = r.count - m
      /\ \A i \in 1 .. r.count - m : Entries(q)[i] = Entry(q, i - 1)
  BY <1>7, EntriesFacts
<1>8a. e = Entries(r)
  BY DEF e
<1>9. ASSUME NEW i \in 1 .. r.count - m
      PROVE  Entries(q)[i] = PruneEvents(e, t)[i]
  <2>1. /\ i - 1 \in 0 .. Threshold /\ i + m - 1 \in 0 .. Threshold
        /\ i + m \in 1 .. r.count /\ (i + m) - 1 = i + m - 1
    BY <1>1, <1>3
  <2>2. (r.head + (i + m - 1)) % Threshold
           = (((r.head + m) % Threshold) + (i - 1)) % Threshold
    <3> DEFINE h == (r.head + m) % Threshold
    <3>1. /\ h \in Slot
          /\ h = IF r.head + m < Threshold THEN r.head + m
                 ELSE r.head + m - Threshold
      BY <1>1, <1>4, PlaceOf
    <3> HIDE DEF h
    <3>2. (h + (i - 1)) % Threshold
             = IF h + (i - 1) < Threshold THEN h + (i - 1)
               ELSE h + (i - 1) - Threshold
      BY <2>1, <3>1, PlaceOf
    <3>3. (r.head + (i + m - 1)) % Threshold
             = IF r.head + (i + m - 1) < Threshold THEN r.head + (i + m - 1)
               ELSE r.head + (i + m - 1) - Threshold
      BY <1>1, <2>1, PlaceOf
    <3>4. /\ r.head \in Nat /\ h \in Nat /\ r.head < Threshold
          /\ h < Threshold /\ i \in Nat /\ m + i <= Threshold /\ i > 0
      BY <1>1, <1>3, <1>4, <2>1, <3>1 DEF Slot
    <3>5. (h + (i - 1)) % Threshold = (r.head + (i + m - 1)) % Threshold
      <4> DEFINE a == (h + (i - 1)) % Threshold
                 b == (r.head + (i + m - 1)) % Threshold
      <4>1. a = IF h + (i - 1) < Threshold THEN h + (i - 1)
                ELSE h + (i - 1) - Threshold
        BY <3>2
      <4>2. b = IF r.head + (i + m - 1) < Threshold THEN r.head + (i + m - 1)
                ELSE r.head + (i + m - 1) - Threshold
        BY <3>3
      <4> HIDE DEF a, b
      <4>3. a = b
        BY <1>1, <1>4, <3>1, <3>4, <4>1, <4>2
      <4> QED
        BY <4>3 DEF a, b
    <3> QED
      BY <3>5 DEF h
  <2>3. Entry(q, i - 1) = Entry(r, i + m - 1)
    BY <1>7, <2>2 DEF Entry
  <2>4. e[i + m] = Entry(r, i + m - 1)
    BY <1>2, <2>1
  <2> QED
    BY <1>3, <1>8, <2>3, <2>4
<1>10. Entries(q) = PruneEvents(e, t)
  BY <1>3, <1>8, <1>9, SameSeq
<1> QED
  BY <1>7, <1>8a, <1>10 DEF q

\* A new entry behind the newest one is appended to the entries.
LEMMA InsertFacts ==
    ASSUME NEW r \in Ring, r.count < Threshold, NEW t \in Time
    PROVE  /\ Insert(r, t) \in Ring
           /\ Entries(Insert(r, t)) = Append(Entries(r), t)
<1> DEFINE q == Insert(r, t)
           e == Entries(r)
           c == (r.head + r.count) % Threshold
<1>1. /\ Threshold \in Nat \ {0} /\ r.head \in Slot /\ r.count \in Nat
      /\ r.count < Threshold /\ r.slot \in [Slot -> Time]
      /\ r.count \in 0 .. Threshold
  BY RingFields DEF Slot
<1>2. q = [r EXCEPT !.slot[c] = t, !.count = r.count + 1]
  BY Zenon DEF Insert, Ring
<1>3. /\ c \in Slot
      /\ c = IF r.head + r.count < Threshold THEN r.head + r.count
             ELSE r.head + r.count - Threshold
  BY <1>1, PlaceOf
<1> HIDE DEF c
<1>4. /\ q \in Ring /\ q.head = r.head /\ q.count = r.count + 1
      /\ q.slot = [r.slot EXCEPT ![c] = t]
  <2>1. r.count + 1 \in 0 .. Threshold
    BY <1>1
  <2>2. PICK m \in 0 .. Threshold : m = r.count + 1
    BY <2>1
  <2>3. q = [r EXCEPT !.slot[c] = t, !.count = m]
    BY <1>2, <2>2, Zenon
  <2>4. /\ q \in Ring /\ q.head = r.head /\ q.count = m
        /\ q.slot = [r.slot EXCEPT ![c] = t]
    <3>1. PICK d \in Slot : d = c
      BY <1>3, Zenon
    <3>2. q = [r EXCEPT !.slot[d] = t, !.count = m]
      BY <2>3, <3>1, Zenon
    <3>3. /\ q \in Ring /\ q.head = r.head /\ q.count = m
          /\ q.slot = [r.slot EXCEPT ![d] = t]
      BY <3>2 DEF Ring
    <3> QED
      BY <3>1, <3>3
  <2> QED
    BY <2>2, <2>4
<1> HIDE DEF q
<1>5. e \in Seq(Time) /\ Len(e) = r.count
      /\ \A i \in 1 .. r.count : e[i] = Entry(r, i - 1)
  BY EntriesFacts
<1>6. /\ Entries(q) \in Seq(Time) /\ Len(Entries(q)) = r.count + 1
      /\ \A i \in 1 .. r.count + 1 : Entries(q)[i] = Entry(q, i - 1)
  BY <1>4, EntriesFacts
<1>7. /\ Append(e, t) \in Seq(Time) /\ Len(Append(e, t)) = r.count + 1
      /\ Append(e, t)[r.count + 1] = t
      /\ \A i \in 1 .. r.count : Append(e, t)[i] = e[i]
  BY <1>5, AppendProperties
<1>8. ASSUME NEW i \in 1 .. r.count + 1 PROVE Entries(q)[i] = Append(e, t)[i]
  <2> DEFINE d == (r.head + (i - 1)) % Threshold
  <2>1. i - 1 \in 0 .. Threshold
    BY <1>1
  <2>2. /\ d \in Slot
        /\ d = IF r.head + (i - 1) < Threshold THEN r.head + (i - 1)
               ELSE r.head + (i - 1) - Threshold
    BY <1>1, <2>1, PlaceOf
  <2>3. /\ Entry(q, i - 1) = [r.slot EXCEPT ![c] = t][d]
        /\ Entry(r, i - 1) = r.slot[d]
    BY <1>4 DEF Entry
  <2> HIDE DEF d
  <2>4. CASE i = r.count + 1
    <3>1. d = c
      BY <1>1, <1>3, <2>2, <2>4
    <3> QED
      BY <1>1, <1>6, <1>7, <2>2, <2>3, <2>4, <3>1
  <2>5. CASE i # r.count + 1
    <3>1. i \in 1 .. r.count
      BY <1>1, <2>5
    <3>2. d # c
      BY <1>1, <1>3, <2>2, <3>1 DEF Slot
    <3> QED
      BY <1>1, <1>5, <1>6, <1>7, <2>2, <2>3, <3>1, <3>2
  <2> QED
    BY <2>4, <2>5
<1>9. Entries(q) = Append(e, t)
  BY <1>6, <1>7, <1>8, SameSeq
<1> QED
  BY <1>4, <1>9 DEF q

-----------------------------------------------------------------------------
(***************************************************************************)
(* Nodes with rings.                                                       *)
(***************************************************************************)

\* The fields of a node, and of the node it stands for.
LEMMA PlainNodeFacts ==
    ASSUME NEW n \in RNode
    PROVE  /\ PlainNode(n) \in Node
           /\ PlainNode(n).blocked_until = n.blocked_until
           /\ PlainNode(n).last_seen = n.last_seen
           /\ PlainNode(n).events = Entries(n.events)
           /\ n.blocked_until \in Time /\ n.last_seen \in Time
           /\ n.events \in Ring
<1>1. PICK e \in Seq(Time) : e = Entries(n.events)
  BY EntriesFacts DEF RNode
<1>2. PICK p : p = [n EXCEPT !.events = e]
  OBVIOUS
<1>3. /\ p \in Node /\ p.blocked_until = n.blocked_until
      /\ p.last_seen = n.last_seen /\ p.events = e
      /\ n.blocked_until \in Time /\ n.last_seen \in Time
      /\ n.events \in Ring
  BY <1>2 DEF RNode, Node
<1>4. p = PlainNode(n)
  BY <1>1, <1>2 DEF PlainNode
<1> QED
  BY <1>1, <1>3, <1>4, Zenon

\* Nodes with the same fields are one.
LEMMA SameNode ==
    ASSUME NEW m \in Node, NEW n \in Node, m.blocked_until = n.blocked_until,
           m.last_seen = n.last_seen, m.events = n.events
    PROVE  m = n
BY DEF Node

\* What both calls keep of an unbanned node's ring.
LEMMA LiveRingFacts ==
    ASSUME NEW n \in RNode, NEW t \in Int
    PROVE  /\ LiveRing(n, t) \in Ring
           /\ Entries(LiveRing(n, t)) = LiveEvents(PlainNode(n), t)
<1>1. PICK r \in Ring : r = n.events
  BY PlainNodeFacts
<1>2. PICK p \in Node : p = PlainNode(n)
  BY PlainNodeFacts
<1>3. p.blocked_until = n.blocked_until /\ p.events = Entries(r)
  BY <1>1, <1>2, PlainNodeFacts
<1>4. /\ LiveRing(n, t) = IF n.blocked_until # 0 THEN Cleared(r)
                          ELSE PruneRing(r, t)
      /\ LiveEvents(p, t) = IF n.blocked_until # 0 THEN <<>>
                            ELSE PruneEvents(Entries(r), t)
  BY <1>1, <1>3, Zenon DEF LiveRing, LiveEvents
<1> QED
  BY <1>2, <1>4, ClearedFacts, PruneRingFacts

\* is_blocked() on an unbanned node.
LEMMA RingSettleFacts ==
    ASSUME NEW n \in RNode, NEW t \in Int
    PROVE  /\ RingSettle(n, t) \in RNode
           /\ PlainNode(RingSettle(n, t)) = SettleNode(PlainNode(n), t)
<1>1. PICK r \in Ring : r = LiveRing(n, t)
  BY LiveRingFacts
<1>2. PICK p \in Node : p = PlainNode(n)
  BY PlainNodeFacts
<1>3. Entries(r) = LiveEvents(p, t) /\ Entries(r) \in Seq(Time)
      /\ 0 \in Time /\ p.last_seen = n.last_seen
  BY <1>1, <1>2, LiveRingFacts, EntriesFacts, PlainNodeFacts, TimeFacts
<1>4. PICK m : m = RingSettle(n, t)
  OBVIOUS
<1>5. m \in RNode /\ m.events = r /\ m.blocked_until = 0
      /\ m.last_seen = n.last_seen
  BY <1>1, <1>3, <1>4 DEF RingSettle, RNode
<1>6. PICK e \in Seq(Time) : e = LiveEvents(p, t)
  BY <1>3
<1>7. PICK s : s = [p EXCEPT !.events = e, !.blocked_until = 0]
  OBVIOUS
<1>8. s \in Node /\ s.events = e /\ s.blocked_until = 0
      /\ s.last_seen = p.last_seen
  BY <1>3, <1>7 DEF Node
<1>9. s = SettleNode(p, t)
  BY <1>6, <1>7 DEF SettleNode
<1>10. /\ PlainNode(m) \in Node /\ PlainNode(m).events = e
       /\ PlainNode(m).blocked_until = 0
       /\ PlainNode(m).last_seen = p.last_seen
  BY <1>3, <1>5, <1>6, PlainNodeFacts
<1>11. PlainNode(m) = s
  BY <1>8, <1>10, SameNode
<1> QED
  BY <1>2, <1>4, <1>5, <1>9, <1>11

\* record() on an unbanned node.
LEMMA RingCountErrorFacts ==
    ASSUME NEW n \in RNode, NEW t \in Time
    PROVE  /\ RingCountError(n, t) \in RNode
           /\ PlainNode(RingCountError(n, t)) = CountError(PlainNode(n), t)
<1>0. t \in Int /\ 0 \in Time /\ Threshold \in Nat \ {0}
  BY TimeFacts, ZoneParameters
<1>1. PICK r \in Ring : r = LiveRing(n, t)
  BY <1>0, LiveRingFacts
<1>2. PICK p \in Node : p = PlainNode(n)
  BY PlainNodeFacts
<1>3. /\ Entries(r) = LiveEvents(p, t) /\ Entries(r) \in Seq(Time)
      /\ p.last_seen = n.last_seen /\ p.blocked_until \in Time
      /\ Len(Entries(r)) = r.count /\ r.count \in Nat
      /\ r.count <= Threshold
  BY <1>0, <1>1, <1>2, LiveRingFacts, EntriesFacts, PlainNodeFacts, RingFields
<1>4. PICK e \in Seq(Time) : e = Append(LiveEvents(p, t), t)
  BY <1>3, AppendProperties
<1>5. Len(e) = r.count + 1
  BY <1>3, <1>4, AppendProperties
<1>6. PICK i : i = Insert(r, t)
  OBVIOUS
<1>7. i.count = r.count + 1
  BY <1>6 DEF Insert, Ring
<1>8. PICK b \in Time : b = TimeAddSaturate(t, Block)
  BY SaturateType, ZoneParameters
<1>9. PICK m : m = RingCountError(n, t)
  OBVIOUS
<1>10. PICK s : s = CountError(p, t)
  OBVIOUS
<1>11. CASE r.count + 1 >= Threshold
  <2>1. m = [n EXCEPT !.events = Cleared(i), !.blocked_until = b]
    BY <1>1, <1>6, <1>7, <1>8, <1>9, <1>11, Zenon DEF RingCountError
  <2>2. s = [p EXCEPT !.events = <<>>, !.blocked_until = b]
    BY <1>4, <1>5, <1>8, <1>10, <1>11, Zenon DEF CountError
  <2>3. Cleared(i) \in Ring /\ Entries(Cleared(i)) = <<>>
    <3>1. PICK d : d = (r.head + r.count) % Threshold
      OBVIOUS
    <3>2. d \in Slot
      BY <1>3, <3>1, PlaceOf DEF Ring
    <3>3. PICK f \in [Slot -> Time] : f = [r.slot EXCEPT ![d] = t]
      BY <3>2 DEF Ring
    <3>4. PICK c \in Nat : c = r.count + 1
      BY <1>3
    <3>5. i = [r EXCEPT !.slot = f, !.count = c]
      BY <1>6, <3>1, <3>3, <3>4 DEF Insert
    <3>6. i \in [head : Slot, count : Nat, slot : [Slot -> Time]]
      BY <3>5 DEF Ring
    <3>7. 0 \in Slot /\ 0 \in 0 .. Threshold
      BY <1>0 DEF Slot
    <3>8. Cleared(i) \in Ring /\ Cleared(i).count = 0
      BY <3>6, <3>7 DEF Cleared, Ring
    <3> QED
      BY <3>8, EntriesFacts, EmptySeq
  <2>4. m \in RNode /\ m.events = Cleared(i) /\ m.blocked_until = b
        /\ m.last_seen = n.last_seen
    BY <2>1, <2>3 DEF RNode
  <2>5. s \in Node /\ s.events = <<>> /\ s.blocked_until = b
        /\ s.last_seen = p.last_seen
    <3>1. <<>> \in Seq(Time)
      OBVIOUS
    <3> QED
      BY <2>2, <3>1 DEF Node
  <2>6. /\ PlainNode(m) \in Node /\ PlainNode(m).events = <<>>
        /\ PlainNode(m).blocked_until = b
        /\ PlainNode(m).last_seen = p.last_seen
    BY <1>3, <2>3, <2>4, PlainNodeFacts
  <2>7. PlainNode(m) = s
    BY <2>5, <2>6, SameNode
  <2> QED
    BY <1>2, <1>9, <1>10, <2>4, <2>7
<1>12. CASE ~ (r.count + 1 >= Threshold)
  <2>1. m = [n EXCEPT !.events = i, !.blocked_until = 0]
    BY <1>1, <1>6, <1>7, <1>8, <1>9, <1>12, Zenon DEF RingCountError
  <2>2. s = [p EXCEPT !.events = e, !.blocked_until = 0]
    BY <1>4, <1>5, <1>8, <1>10, <1>12, Zenon DEF CountError
  <2>3. i \in Ring /\ Entries(i) = e
    BY <1>0, <1>3, <1>4, <1>6, <1>12, InsertFacts
  <2>4. m \in RNode /\ m.events = i /\ m.blocked_until = 0
        /\ m.last_seen = n.last_seen
    BY <1>0, <2>1, <2>3 DEF RNode
  <2>5. s \in Node /\ s.events = e /\ s.blocked_until = 0
        /\ s.last_seen = p.last_seen
    BY <1>0, <2>2 DEF Node
  <2>6. /\ PlainNode(m) \in Node /\ PlainNode(m).events = e
        /\ PlainNode(m).blocked_until = 0
        /\ PlainNode(m).last_seen = p.last_seen
    BY <1>3, <2>3, <2>4, PlainNodeFacts
  <2>7. PlainNode(m) = s
    BY <2>5, <2>6, SameNode
  <2> QED
    BY <1>2, <1>9, <1>10, <2>4, <2>7
<1> QED
  BY <1>11, <1>12

-----------------------------------------------------------------------------
(***************************************************************************)
(* Zones with rings: no operator on list and tree looks at events, so each *)
(* one commutes with Plain.                                                *)
(***************************************************************************)

RingZone(z) ==
    /\ z = [queue |-> z.queue, node |-> z.node]
    /\ z.queue \in Seq(Key)
    /\ z.node \in [DOMAIN z.node -> RNode]
    /\ DOMAIN z.node \subseteq Key
    /\ WellLinked(z)

PlainNodes(f) == [k \in DOMAIN f |-> PlainNode(f[k])]

\* The plain zone has the list, the identities and the fields of its zone.
LEMMA PlainFacts ==
    ASSUME NEW z, RingZone(z)
    PROVE  /\ Plain(z) = [queue |-> z.queue, node |-> PlainNodes(z.node)]
           /\ Plain(z).queue = z.queue
           /\ Plain(z).node = PlainNodes(z.node)
           /\ DOMAIN Plain(z).node = DOMAIN z.node
           /\ \A k \in DOMAIN z.node : Plain(z).node[k] = PlainNode(z.node[k])
           /\ GoodZone(Plain(z))
<1>1. PICK f : f = PlainNodes(z.node)
  OBVIOUS
<1>2. /\ DOMAIN f = DOMAIN z.node
      /\ \A k \in DOMAIN z.node : f[k] = PlainNode(z.node[k])
  BY <1>1 DEF PlainNodes
<1>3. Plain(z) = [queue |-> z.queue, node |-> f]
  BY <1>1, Zenon DEF Plain, PlainNodes, PlainNode
<1>4. \A k \in DOMAIN z.node : f[k] \in Node
  BY <1>2, PlainNodeFacts DEF RingZone
<1>5. PICK y : y = Plain(z)
  OBVIOUS
<1>6. y.queue = z.queue /\ y.node = f
  BY <1>3, <1>5
<1>7. IsZone(y)
  BY <1>2, <1>4, <1>6 DEF IsZone, RingZone
<1>8. WellLinked(y)
  BY <1>2, <1>6, WellLinkedDef DEF RingZone
<1> QED
  BY <1>1, <1>2, <1>3, <1>5, <1>6, <1>7, <1>8, Zenon DEF GoodZone

\* A zone is one with rings when its plain zone is good and its nodes have
\* rings.
LEMMA RingZoneFrom ==
    ASSUME NEW q, NEW f, NEW D, f \in [D -> RNode],
           NEW y, GoodZone(y), y.queue = q, DOMAIN y.node = D
    PROVE  RingZone([queue |-> q, node |-> f])
<1>1. PICK z : z = [queue |-> q, node |-> f]
  OBVIOUS
<1>2. z.queue = q /\ z.node = f /\ DOMAIN f = D
  BY <1>1
<1>3. q \in Seq(Key) /\ D \subseteq Key
  BY DEF GoodZone, IsZone
<1>4. WellLinked(z)
  BY <1>2 DEF GoodZone, WellLinked
<1> QED
  BY <1>1, <1>2, <1>3, <1>4 DEF RingZone

\* Deleting nodes commutes with Plain.
LEMMA PlainWithout ==
    ASSUME NEW D, NEW f \in [D -> RNode], NEW keys
    PROVE  /\ WithoutNodes(f, keys) \in [D \ keys -> RNode]
           /\ PlainNodes(WithoutNodes(f, keys))
                 = WithoutNodes(PlainNodes(f), keys)
<1>1. PICK g : g = WithoutNodes(f, keys)
  OBVIOUS
<1>2. g = [k \in D \ keys |-> f[k]]
  BY <1>1 DEF WithoutNodes, Restrict
<1>3. PICK p : p = PlainNodes(f)
  OBVIOUS
<1>4. p = [k \in D |-> PlainNode(f[k])]
  BY <1>3 DEF PlainNodes
<1>5. WithoutNodes(p, keys) = [k \in D \ keys |-> PlainNode(f[k])]
  BY <1>4 DEF WithoutNodes, Restrict
<1>6. PlainNodes(g) = [k \in D \ keys |-> PlainNode(f[k])]
  BY <1>2 DEF PlainNodes
<1> QED
  BY <1>1, <1>2, <1>3, <1>5, <1>6

\* What the list names is in the tree, and what a walk asks of a node it asks
\* of the node it stands for.
LEMMA WalkAlike ==
    ASSUME NEW z, RingZone(z), NEW t
    PROVE  \A i \in 1 .. Len(z.queue) :
              LET n == z.node[z.queue[i]]
                  p == Plain(z).node[z.queue[i]]
              IN  /\ Banned(n, t) <=> Banned(p, t)
                  /\ Expirable(n, t) <=> Expirable(p, t)
<1> SUFFICES ASSUME NEW i \in 1 .. Len(z.queue)
             PROVE  LET n == z.node[z.queue[i]]
                        p == Plain(z).node[z.queue[i]]
                    IN  /\ Banned(n, t) <=> Banned(p, t)
                        /\ Expirable(n, t) <=> Expirable(p, t)
  OBVIOUS
<1>1. PICK k : k = z.queue[i]
  OBVIOUS
<1>2. k \in DOMAIN z.node
  BY <1>1 DEF RingZone, WellLinked
<1>3. PICK n \in RNode : n = z.node[k]
  BY <1>2 DEF RingZone
<1>4. PICK p : p = Plain(z).node[k]
  OBVIOUS
<1>5. p.blocked_until = n.blocked_until /\ p.last_seen = n.last_seen
  BY <1>2, <1>3, <1>4, PlainFacts, PlainNodeFacts
<1> QED
  BY <1>1, <1>3, <1>4, <1>5, Zenon DEF Banned, Expirable

\* expire() passes over the same nodes in both zones.
LEMMA ExpireRunAlike ==
    ASSUME NEW z, RingZone(z), NEW t, NEW limit
    PROVE  ExpireRun(z, t, limit) = ExpireRun(Plain(z), t, limit)
<1> DEFINE n == Len(z.queue)
           y == Plain(z)
           P(m) == /\ m <= limit
                   /\ \A i \in n - m + 1 .. n :
                          Expirable(z.node[z.queue[i]], t)
                   /\ \/ m = limit
                      \/ m = n
                      \/ ~ Expirable(z.node[z.queue[n - m]], t)
           Q(m) == /\ m <= limit
                   /\ \A i \in n - m + 1 .. n :
                          Expirable(y.node[z.queue[i]], t)
                   /\ \/ m = limit
                      \/ m = n
                      \/ ~ Expirable(y.node[z.queue[n - m]], t)
<1>1. y.queue = z.queue /\ n \in Nat
  BY PlainFacts, LenProperties DEF RingZone
<1>2. \A i \in 1 .. n : Expirable(z.node[z.queue[i]], t)
                           <=> Expirable(y.node[z.queue[i]], t)
  BY WalkAlike
<1>3. ExpireRun(z, t, limit) = CHOOSE m \in 0 .. n : P(m)
  BY Zenon DEF ExpireRun
<1>4. ExpireRun(y, t, limit) = CHOOSE m \in 0 .. n : Q(m)
  BY <1>1, Zenon DEF ExpireRun
<1> HIDE DEF y, n
<1>5. ASSUME NEW m \in 0 .. n PROVE P(m) <=> Q(m)
  <2>1. \A i \in n - m + 1 .. n : i \in 1 .. n
    BY <1>1
  <2>2. m # n => n - m \in 1 .. n
    BY <1>1
  <2> QED
    BY <1>2, <2>1, <2>2, Zenon
<1> HIDE DEF P, Q
<1>6. (CHOOSE m \in 0 .. n : P(m)) = (CHOOSE m \in 0 .. n : Q(m))
  BY <1>5, Zenon
<1>7. ExpireRun(z, t, limit) = ExpireRun(y, t, limit)
  BY <1>3, <1>4, <1>6
<1> QED
  BY <1>7 DEF y

\* evict_one_unblocked() passes over the same bans in both zones.
LEMMA BannedRunAlike ==
    ASSUME NEW z, RingZone(z), NEW t
    PROVE  BannedRun(z, t) = BannedRun(Plain(z), t)
<1> DEFINE n == Len(z.queue)
           y == Plain(z)
           P(m) == /\ m <= EvictScanLimit
                   /\ \A i \in n - m + 1 .. n : Banned(z.node[z.queue[i]], t)
                   /\ \/ m = EvictScanLimit
                      \/ m = n
                      \/ ~ Banned(z.node[z.queue[n - m]], t)
           Q(m) == /\ m <= EvictScanLimit
                   /\ \A i \in n - m + 1 .. n : Banned(y.node[z.queue[i]], t)
                   /\ \/ m = EvictScanLimit
                      \/ m = n
                      \/ ~ Banned(y.node[z.queue[n - m]], t)
<1>1. y.queue = z.queue /\ n \in Nat
  BY PlainFacts, LenProperties DEF RingZone
<1>2. \A i \in 1 .. n : Banned(z.node[z.queue[i]], t)
                           <=> Banned(y.node[z.queue[i]], t)
  BY WalkAlike
<1>3. BannedRun(z, t) = CHOOSE m \in 0 .. n : P(m)
  BY Zenon DEF BannedRun
<1>4. BannedRun(y, t) = CHOOSE m \in 0 .. n : Q(m)
  BY <1>1, Zenon DEF BannedRun
<1> HIDE DEF y, n
<1>5. ASSUME NEW m \in 0 .. n PROVE P(m) <=> Q(m)
  <2>1. \A i \in n - m + 1 .. n : i \in 1 .. n
    BY <1>1
  <2>2. m # n => n - m \in 1 .. n
    BY <1>1
  <2> QED
    BY <1>2, <2>1, <2>2, Zenon
<1> HIDE DEF P, Q
<1>6. (CHOOSE m \in 0 .. n : P(m)) = (CHOOSE m \in 0 .. n : Q(m))
  BY <1>5, Zenon
<1>7. BannedRun(z, t) = BannedRun(y, t)
  BY <1>3, <1>4, <1>6
<1> QED
  BY <1>7 DEF y

\* expire()
LEMMA ExpireAlike ==
    ASSUME NEW z, RingZone(z), NEW t \in Int, NEW limit \in Nat
    PROVE  /\ RingZone(Expire(z, t, limit))
           /\ Plain(Expire(z, t, limit)) = Expire(Plain(z), t, limit)
           /\ \A k \in DOMAIN Expire(z, t, limit).node :
                  k \in DOMAIN z.node
<1>1. PICK m : m = ExpireRun(z, t, limit)
  OBVIOUS
<1>2. PICK q : q = SubSeq(z.queue, 1, Len(z.queue) - m)
  OBVIOUS
<1>3. PICK keys : keys = TailKeys(z.queue, m)
  OBVIOUS
<1>4. PICK f : f = WithoutNodes(z.node, keys)
  OBVIOUS
<1>5. PICK e : e = Expire(z, t, limit)
  OBVIOUS
<1>6. e = [queue |-> q, node |-> f]
  BY <1>1, <1>2, <1>3, <1>4, <1>5, Zenon DEF Expire
<1>7. PICK D : D = DOMAIN z.node
  OBVIOUS
<1>8. z.node \in [D -> RNode]
  BY <1>7 DEF RingZone
<1>9. PICK y : y = Plain(z)
  OBVIOUS
<1>10. y.queue = z.queue /\ y.node = PlainNodes(z.node) /\ GoodZone(y)
  BY <1>9, PlainFacts
<1>11. f \in [D \ keys -> RNode]
       /\ PlainNodes(f) = WithoutNodes(y.node, keys)
  BY <1>4, <1>8, <1>10, PlainWithout
<1>12. ExpireRun(y, t, limit) = m
  BY <1>1, <1>9, ExpireRunAlike
<1>13. Expire(y, t, limit) = [queue |-> q, node |-> PlainNodes(f)]
  BY <1>2, <1>3, <1>10, <1>11, <1>12, Zenon DEF Expire
<1>14. GoodZone(Expire(y, t, limit))
  BY <1>10, ExpireFacts
<1>15. DOMAIN PlainNodes(f) = D \ keys
  BY <1>11 DEF PlainNodes
<1>16. RingZone(e)
  BY <1>6, <1>11, <1>13, <1>14, <1>15, RingZoneFrom
<1>17. Plain(e) = [queue |-> q, node |-> PlainNodes(f)]
  BY <1>6, <1>16, PlainFacts
<1>18. DOMAIN e.node \subseteq D
  BY <1>6, <1>11
<1> QED
  BY <1>5, <1>7, <1>9, <1>13, <1>16, <1>17, <1>18

\* evict_one_unblocked()
LEMMA EvictAlike ==
    ASSUME NEW z, RingZone(z), NEW t \in Int
    PROVE  /\ RingZone(EvictOneUnblocked(z, t))
           /\ Plain(EvictOneUnblocked(z, t)) = EvictOneUnblocked(Plain(z), t)
           /\ \A k \in DOMAIN EvictOneUnblocked(z, t).node :
                  k \in DOMAIN z.node
<1>1. PICK m : m = BannedRun(z, t)
  OBVIOUS
<1>2. PICK n : n = Len(z.queue)
  OBVIOUS
<1>3. PICK e : e = EvictOneUnblocked(z, t)
  OBVIOUS
<1>4. PICK D : D = DOMAIN z.node
  OBVIOUS
<1>5. z.node \in [D -> RNode]
  BY <1>4 DEF RingZone
<1>6. PICK y : y = Plain(z)
  OBVIOUS
<1>7. y.queue = z.queue /\ y.node = PlainNodes(z.node) /\ GoodZone(y)
  BY <1>6, PlainFacts
<1>8. BannedRun(y, t) = m
  BY <1>1, <1>6, BannedRunAlike
<1>9. GoodZone(EvictOneUnblocked(y, t))
  BY <1>7, EvictFacts
<1>10. PICK q, f, E : /\ e = [queue |-> q, node |-> f]
                      /\ EvictOneUnblocked(y, t)
                            = [queue |-> q, node |-> PlainNodes(f)]
                      /\ f \in [E -> RNode] /\ E \subseteq D
  <2>1. CASE m = n \/ m = EvictScanLimit
    <3>1. e = [queue |-> Splice(z.queue, n - m, n - m), node |-> z.node]
      BY <1>1, <1>2, <1>3, <2>1, Zenon DEF EvictOneUnblocked
    <3>2. EvictOneUnblocked(y, t)
             = [queue |-> Splice(z.queue, n - m, n - m), node |-> y.node]
      BY <1>2, <1>7, <1>8, <2>1, Zenon DEF EvictOneUnblocked
    <3> QED
      BY <1>5, <1>7, <3>1, <3>2
  <2>2. CASE ~ (m = n \/ m = EvictScanLimit)
    <3>1. PICK keys : keys = {z.queue[n - m]}
      OBVIOUS
    <3>2. e = [queue |-> Splice(z.queue, n - m, n - m - 1),
               node  |-> WithoutNodes(z.node, keys)]
      BY <1>1, <1>2, <1>3, <2>2, <3>1, Zenon DEF EvictOneUnblocked
    <3>3. EvictOneUnblocked(y, t)
             = [queue |-> Splice(z.queue, n - m, n - m - 1),
                node  |-> WithoutNodes(y.node, keys)]
      BY <1>2, <1>7, <1>8, <2>2, <3>1, Zenon DEF EvictOneUnblocked
    <3>4. /\ WithoutNodes(z.node, keys) \in [D \ keys -> RNode]
          /\ PlainNodes(WithoutNodes(z.node, keys))
                = WithoutNodes(y.node, keys)
      BY <1>5, <1>7, PlainWithout
    <3>5. PICK q : q = Splice(z.queue, n - m, n - m - 1)
      OBVIOUS
    <3>6. PICK f : f = WithoutNodes(z.node, keys)
      OBVIOUS
    <3>7. PICK E : E = D \ keys
      OBVIOUS
    <3>8. E \subseteq D /\ f \in [E -> RNode]
      BY <3>4, <3>6, <3>7
    <3>9. e = [queue |-> q, node |-> f]
      BY <3>2, <3>5, <3>6, Zenon
    <3>10. EvictOneUnblocked(y, t) = [queue |-> q, node |-> PlainNodes(f)]
      BY <3>3, <3>4, <3>5, <3>6, Zenon
    <3> QED
      BY <3>8, <3>9, <3>10, Zenon
  <2> QED
    BY <2>1, <2>2
<1>11. DOMAIN PlainNodes(f) = E
  BY <1>10 DEF PlainNodes
<1>12. RingZone(e)
  BY <1>9, <1>10, <1>11, RingZoneFrom
<1>13. Plain(e) = [queue |-> q, node |-> PlainNodes(f)]
  BY <1>10, <1>12, PlainFacts
<1>14. DOMAIN e.node \subseteq D
  BY <1>10
<1> QED
  BY <1>3, <1>4, <1>6, <1>10, <1>12, <1>13, <1>14

\* The allocation ladder of create_node.
LEMMA MakeRoomAlike ==
    ASSUME NEW z, RingZone(z), NEW t \in Int
    PROVE  /\ RingZone(MakeRoom(z, t))
           /\ Plain(MakeRoom(z, t)) = MakeRoom(Plain(z), t)
           /\ \A k \in DOMAIN MakeRoom(z, t).node : k \in DOMAIN z.node
<1>0. ExpireLimitAlloc \in Nat
  BY ZoneLimits
<1>1. \A x : RingZone(x) => (Full(x) <=> Full(Plain(x)))
  BY PlainFacts DEF Full
<1>2. PICK x : x = IF Full(z) THEN Expire(z, t, ExpireLimitAlloc) ELSE z
  OBVIOUS
<1>3. /\ RingZone(x)
      /\ Plain(x) = IF Full(Plain(z))
                    THEN Expire(Plain(z), t, ExpireLimitAlloc) ELSE Plain(z)
      /\ \A k \in DOMAIN x.node : k \in DOMAIN z.node
  BY <1>0, <1>1, <1>2, ExpireAlike
<1>4. MakeRoom(z, t) = IF Full(x) THEN EvictOneUnblocked(x, t) ELSE x
  BY <1>2, Zenon DEF MakeRoom
<1>5. MakeRoom(Plain(z), t)
         = IF Full(Plain(x)) THEN EvictOneUnblocked(Plain(x), t) ELSE Plain(x)
  BY <1>3, Zenon DEF MakeRoom
<1> QED
  BY <1>1, <1>3, <1>4, <1>5, EvictAlike

\* A node that is replaced.
LEMMA SetNodeAlike ==
    ASSUME NEW z, RingZone(z), NEW k \in DOMAIN z.node, NEW n \in RNode
    PROVE  /\ RingZone(SetNode(z, k, n))
           /\ Plain(SetNode(z, k, n)) = SetNode(Plain(z), k, PlainNode(n))
           /\ DOMAIN SetNode(z, k, n).node = DOMAIN z.node
<1>1. PICK y : y = SetNode(z, k, n)
  OBVIOUS
<1>2. PICK f : f = [z.node EXCEPT ![k] = n]
  OBVIOUS
<1>3. y = [queue |-> z.queue, node |-> f]
  BY <1>1, <1>2, Zenon DEF SetNode
<1>4. PICK D : D = DOMAIN z.node
  OBVIOUS
<1>5. z.node \in [D -> RNode] /\ k \in D
  BY <1>4 DEF RingZone
<1>6. f \in [D -> RNode]
  BY <1>2, <1>5
<1>7. y.queue = z.queue /\ y.node = f /\ DOMAIN f = D
  BY <1>3, <1>6
<1>8. WellLinked(y)
  BY <1>4, <1>7, WellLinkedDef DEF RingZone
<1>9. RingZone(y)
  BY <1>3, <1>4, <1>6, <1>7, <1>8 DEF RingZone
<1>10. PlainNodes(f) = [PlainNodes(z.node) EXCEPT ![k] = PlainNode(n)]
  BY <1>2, <1>5 DEF PlainNodes
<1>11. Plain(y) = [queue |-> z.queue, node |-> PlainNodes(f)]
  BY <1>7, <1>9, PlainFacts
<1>12. Plain(z).queue = z.queue /\ Plain(z).node = PlainNodes(z.node)
  BY PlainFacts
<1>13. SetNode(Plain(z), k, PlainNode(n))
          = [queue |-> z.queue, node |-> PlainNodes(f)]
  BY <1>10, <1>12, Zenon DEF SetNode
<1> QED
  BY <1>1, <1>4, <1>7, <1>9, <1>11, <1>13

\* create_node with a cleared ring.
LEMMA CreateNodeAlike ==
    ASSUME NEW z, RingZone(z), NEW k \in Key, k \notin DOMAIN z.node,
           NEW t \in Time
    PROVE  LET y == WithZeroRing(CreateNode(z, k, t), k)
           IN  /\ RingZone(y)
               /\ Plain(y) = CreateNode(Plain(z), k, t)
<1>1. t \in Int /\ 0 \in Time
  BY TimeFacts
<1>2. PICK room : room = MakeRoom(z, t)
  OBVIOUS
<1>3. /\ RingZone(room) /\ Plain(room) = MakeRoom(Plain(z), t)
      /\ k \notin DOMAIN room.node
  BY <1>1, <1>2, MakeRoomAlike
<1>4. /\ Plain(room).queue = room.queue
      /\ Plain(room).node = PlainNodes(room.node)
  BY <1>3, PlainFacts
<1>5. PICK y : y = WithZeroRing(CreateNode(z, k, t), k)
  OBVIOUS
<1>6. GoodZone(Plain(z)) /\ k \notin DOMAIN Plain(z).node
  BY PlainFacts
<1>7. GoodZone(CreateNode(Plain(z), k, t))
  BY <1>6, CreateNodeFacts
<1>8. CASE Full(room)
  <2>1. CreateNode(z, k, t) = room
    BY <1>2, <1>8, Zenon DEF CreateNode
  <2>2. y = room
    BY <1>3, <1>5, <2>1 DEF WithZeroRing
  <2>3. Full(Plain(room))
    BY <1>4, <1>8 DEF Full
  <2>4. CreateNode(Plain(z), k, t) = Plain(room)
    BY <1>3, <2>3, Zenon DEF CreateNode
  <2> QED
    BY <1>3, <1>5, <2>2, <2>4
<1>9. CASE ~ Full(room)
  <2>1. PICK q : q = <<k>> \o room.queue
    OBVIOUS
  <2>2. PICK D : D = DOMAIN room.node
    OBVIOUS
  <2>3. room.node \in [D -> RNode] /\ k \notin D
    BY <1>3, <2>2 DEF RingZone
  <2>4. PICK n : n = [ZeroNode EXCEPT !.last_seen = t]
    OBVIOUS
  <2>5. n = [blocked_until |-> 0, last_seen |-> t, events |-> <<>>]
    BY <2>4 DEF ZeroNode
  <2>6. PICK f : f = [j \in D \cup {k} |->
                         IF j = k THEN n ELSE room.node[j]]
    OBVIOUS
  <2>7. CreateNode(z, k, t) = [queue |-> q, node |-> f]
    BY <1>2, <1>9, <2>1, <2>2, <2>4, <2>6, Zenon DEF CreateNode
  <2>8. PICK c : c = CreateNode(z, k, t)
    OBVIOUS
  <2>9. c = [queue |-> q, node |-> f] /\ k \in DOMAIN c.node
    BY <2>6, <2>7, <2>8
  <2>10. y = [c EXCEPT !.node[k].events = ZeroRing]
    BY <1>5, <2>8, <2>9 DEF WithZeroRing
  <2>11. PICK r : r = [blocked_until |-> 0, last_seen |-> t,
                       events |-> ZeroRing]
    OBVIOUS
  <2>12. r = [n EXCEPT !.events = ZeroRing]
    BY <2>5, <2>11
  <2>13. y = [queue |-> q, node |-> [f EXCEPT ![k] = r]]
    <3>1. f[k] = n
      BY <2>6
    <3>2. y = [c EXCEPT !.node = [f EXCEPT ![k] = r]]
      BY <2>9, <2>10, <2>12, <3>1
    <3> QED
      BY <2>9, <3>2
  <2>14. PICK g : g = [f EXCEPT ![k] = r]
    OBVIOUS
  <2>15. g = [j \in D \cup {k} |-> IF j = k THEN r ELSE room.node[j]]
    BY <2>3, <2>6, <2>14
  <2>16. ZeroRing \in Ring /\ Entries(ZeroRing) = <<>>
    <3>1. [head |-> 0, count |-> 0, slot |-> [i \in Slot |-> 0]] \in Ring
      BY <1>1, ZoneParameters DEF Ring, Slot
    <3> QED
      BY <3>1, ClearedFacts
  <2>17. r \in RNode
    BY <1>1, <2>11, <2>16 DEF RNode
  <2>18. PlainNode(r) = n
    BY <2>5, <2>11, <2>16 DEF PlainNode
  <2>19. g \in [D \cup {k} -> RNode]
    BY <2>3, <2>15, <2>17
  <2>20. PlainNodes(g) = [j \in D \cup {k} |->
                             IF j = k THEN n ELSE PlainNode(room.node[j])]
    BY <2>15, <2>18 DEF PlainNodes
  <2>21. ~ Full(Plain(room))
    BY <1>4, <1>9 DEF Full
  <2>22. CreateNode(Plain(z), k, t)
            = [queue |-> q,
               node |-> [j \in DOMAIN PlainNodes(room.node) \cup {k} |->
                            IF j = k THEN n ELSE PlainNodes(room.node)[j]]]
    BY <1>3, <1>4, <2>1, <2>4, <2>21, Zenon DEF CreateNode
  <2>23. [j \in DOMAIN PlainNodes(room.node) \cup {k} |->
             IF j = k THEN n ELSE PlainNodes(room.node)[j]]
           = PlainNodes(g)
    <3>1. PICK p : p = PlainNodes(room.node)
      OBVIOUS
    <3>2. p = [j \in D |-> PlainNode(room.node[j])]
      BY <2>2, <3>1 DEF PlainNodes
    <3>3. [j \in DOMAIN p \cup {k} |-> IF j = k THEN n ELSE p[j]]
             = [j \in D \cup {k} |->
                   IF j = k THEN n ELSE PlainNode(room.node[j])]
      BY <2>3, <3>2
    <3> QED
      BY <2>20, <3>1, <3>3
  <2>24. CreateNode(Plain(z), k, t) = [queue |-> q, node |-> PlainNodes(g)]
    BY <2>22, <2>23
  <2>25. DOMAIN PlainNodes(g) = D \cup {k}
    BY <2>19 DEF PlainNodes
  <2>26. y = [queue |-> q, node |-> g]
    BY <2>13, <2>14
  <2>27. RingZone(y)
    BY <1>7, <2>19, <2>24, <2>25, <2>26, RingZoneFrom
  <2>28. Plain(y) = [queue |-> q, node |-> PlainNodes(g)]
    BY <2>26, <2>27, PlainFacts
  <2> QED
    BY <1>5, <2>24, <2>27, <2>28
<1> QED
  BY <1>8, <1>9

\* find_touch_locked()
LEMMA FindTouchAlike ==
    ASSUME NEW z, RingZone(z), NEW k \in Key, NEW t \in Time
    PROVE  /\ RingZone(FindTouch(z, k, t))
           /\ Plain(FindTouch(z, k, t)) = FindTouch(Plain(z), k, t)
<1>1. t \in Int /\ ExpireLimitFind \in Nat
  BY TimeFacts, ZoneLimits
<1>2. PICK s : s = Expire(z, t, ExpireLimitFind)
  OBVIOUS
<1>3. RingZone(s) /\ Plain(s) = Expire(Plain(z), t, ExpireLimitFind)
  BY <1>1, <1>2, ExpireAlike
<1>4. /\ Plain(s).queue = s.queue /\ Plain(s).node = PlainNodes(s.node)
      /\ DOMAIN Plain(s).node = DOMAIN s.node
  BY <1>3, PlainFacts
<1>5. GoodZone(FindTouch(Plain(z), k, t))
  BY PlainFacts, FindTouchFacts
<1>6. CASE k \notin DOMAIN s.node
  <2>1. FindTouch(z, k, t) = s
    BY <1>2, <1>6, Zenon DEF FindTouch
  <2>2. FindTouch(Plain(z), k, t) = Plain(s)
    BY <1>3, <1>4, <1>6, Zenon DEF FindTouch
  <2> QED
    BY <1>3, <2>1, <2>2
<1>7. CASE k \in DOMAIN s.node
  <2>1. PICK q : q = Touch(s.queue, k)
    OBVIOUS
  <2>2. PICK f : f = [s.node EXCEPT ![k].last_seen = t]
    OBVIOUS
  <2>3. FindTouch(z, k, t) = [queue |-> q, node |-> f]
    BY <1>2, <1>7, <2>1, <2>2, Zenon DEF FindTouch
  <2>4. FindTouch(Plain(z), k, t)
           = [queue |-> q,
              node  |-> [Plain(s).node EXCEPT ![k].last_seen = t]]
    BY <1>3, <1>4, <1>7, <2>1, Zenon DEF FindTouch
  <2>5. PICK D : D = DOMAIN s.node
    OBVIOUS
  <2>6. s.node \in [D -> RNode] /\ k \in D
    BY <1>3, <1>7, <2>5 DEF RingZone
  <2>7. PICK n \in RNode : n = s.node[k]
    BY <2>6
  <2>8. PICK m : m = [n EXCEPT !.last_seen = t]
    OBVIOUS
  <2>9. m \in RNode /\ PlainNode(m) = [PlainNode(n) EXCEPT !.last_seen = t]
    <3>1. m \in RNode /\ m.blocked_until = n.blocked_until
          /\ m.last_seen = t /\ m.events = n.events
      BY <2>8 DEF RNode
    <3>2. PICK p \in Node : p = PlainNode(n)
      BY PlainNodeFacts
    <3>3. PICK o : o = [p EXCEPT !.last_seen = t]
      OBVIOUS
    <3>4. o \in Node /\ o.blocked_until = p.blocked_until
          /\ o.last_seen = t /\ o.events = p.events
      BY <3>3 DEF Node
    <3>5. PlainNode(m) = o
      BY <3>1, <3>2, <3>4, PlainNodeFacts, SameNode
    <3> QED
      BY <3>1, <3>2, <3>3, <3>5
  <2>10. f = [s.node EXCEPT ![k] = m]
    BY <2>2, <2>7, <2>8
  <2>11. f \in [D -> RNode]
    BY <2>6, <2>9, <2>10
  <2>12. PlainNodes(f) = [PlainNodes(s.node) EXCEPT ![k] = PlainNode(m)]
    BY <2>6, <2>10 DEF PlainNodes
  <2>13. PICK g : g = PlainNodes(s.node)
    OBVIOUS
  <2>14. g[k] = PlainNode(n)
    BY <2>6, <2>7, <2>13 DEF PlainNodes
  <2>15. [g EXCEPT ![k].last_seen = t] = PlainNodes(f)
    BY <2>9, <2>12, <2>13, <2>14
  <2>16. FindTouch(Plain(z), k, t) = [queue |-> q, node |-> PlainNodes(f)]
    BY <1>4, <2>4, <2>13, <2>15
  <2>17. DOMAIN PlainNodes(f) = D
    BY <2>11 DEF PlainNodes
  <2>18. RingZone([queue |-> q, node |-> f])
    BY <1>5, <2>11, <2>16, <2>17, RingZoneFrom
  <2>19. Plain([queue |-> q, node |-> f])
            = [queue |-> q, node |-> PlainNodes(f)]
    BY <2>18, PlainFacts
  <2> QED
    BY <2>3, <2>16, <2>18, <2>19
<1> QED
  BY <1>6, <1>7

\* What both calls ask of the node they have found.
LEMMA BannedAlike ==
    ASSUME NEW z, RingZone(z), NEW k, NEW t
    PROVE  k \in DOMAIN z.node =>
               /\ z.node[k] \in RNode
               /\ Plain(z).node[k] = PlainNode(z.node[k])
               /\ Banned(z.node[k], t) <=> Banned(Plain(z).node[k], t)
<1>1. SUFFICES ASSUME k \in DOMAIN z.node
               PROVE  /\ z.node[k] \in RNode
                      /\ Plain(z).node[k] = PlainNode(z.node[k])
                      /\ Banned(z.node[k], t) <=> Banned(Plain(z).node[k], t)
  OBVIOUS
<1>2. PICK n \in RNode : n = z.node[k]
  BY <1>1 DEF RingZone
<1>3. Plain(z).node[k] = PlainNode(n)
  BY <1>1, <1>2, PlainFacts
<1>4. PlainNode(n).blocked_until = n.blocked_until
  BY PlainNodeFacts
<1> QED
  BY <1>2, <1>3, <1>4, Zenon DEF Banned

\* The node record() has found or created.
LEMMA RingTrackingAlike ==
    ASSUME NEW z, RingZone(z), NEW k \in Key, NEW t \in Time
    PROVE  /\ RingZone(RingTracking(z, k, t))
           /\ Plain(RingTracking(z, k, t)) = Tracking(Plain(z), k, t)
<1>1. PICK f : f = FindTouch(z, k, t)
  OBVIOUS
<1>2. RingZone(f) /\ Plain(f) = FindTouch(Plain(z), k, t)
  BY <1>1, FindTouchAlike
<1>3. DOMAIN Plain(f).node = DOMAIN f.node
  BY <1>2, PlainFacts
<1>4. RingTracking(z, k, t) = IF k \in DOMAIN f.node THEN f
                              ELSE WithZeroRing(CreateNode(f, k, t), k)
  BY <1>1, Zenon DEF RingTracking
<1>5. Tracking(Plain(z), k, t) = IF k \in DOMAIN f.node THEN Plain(f)
                                 ELSE CreateNode(Plain(f), k, t)
  BY <1>2, <1>3, Zenon DEF Tracking
<1> QED
  BY <1>2, <1>4, <1>5, CreateNodeAlike

\* record()
LEMMA RingRecordAlike ==
    ASSUME NEW z, RingZone(z), NEW k \in Key, NEW t \in Time
    PROVE  /\ RingZone(RingRecord(z, k, t))
           /\ Plain(RingRecord(z, k, t)) = Record(Plain(z), k, t)
<1>1. PICK y : y = RingTracking(z, k, t)
  OBVIOUS
<1>2. RingZone(y) /\ Plain(y) = Tracking(Plain(z), k, t)
  BY <1>1, RingTrackingAlike
<1>3. /\ DOMAIN Plain(y).node = DOMAIN y.node
      /\ k \in DOMAIN y.node =>
            /\ y.node[k] \in RNode
            /\ Plain(y).node[k] = PlainNode(y.node[k])
            /\ Banned(y.node[k], t) <=> Banned(Plain(y).node[k], t)
  BY <1>2, PlainFacts, BannedAlike
<1>4. CASE k \notin DOMAIN y.node \/ Banned(y.node[k], t)
  <2>1. RingRecord(z, k, t) = y
    BY <1>1, <1>4, Zenon DEF RingRecord
  <2>2. Record(Plain(z), k, t) = Plain(y)
    BY <1>2, <1>3, <1>4, Zenon DEF Record
  <2> QED
    BY <1>2, <2>1, <2>2
<1>5. CASE ~ (k \notin DOMAIN y.node \/ Banned(y.node[k], t))
  <2>1. PICK n \in RNode : n = RingCountError(y.node[k], t)
    BY <1>3, <1>5, RingCountErrorFacts
  <2>2. PlainNode(n) = CountError(Plain(y).node[k], t)
    BY <1>3, <1>5, <2>1, RingCountErrorFacts
  <2>3. RingRecord(z, k, t) = SetNode(y, k, n)
    BY <1>1, <1>5, <2>1, Zenon DEF RingRecord
  <2>4. Record(Plain(z), k, t) = SetNode(Plain(y), k, PlainNode(n))
    BY <1>2, <1>3, <1>5, <2>2, Zenon DEF Record
  <2> QED
    BY <1>2, <1>5, <2>3, <2>4, SetNodeAlike
<1> QED
  BY <1>4, <1>5

\* is_blocked()
LEMMA RingIsBlockedAlike ==
    ASSUME NEW z, RingZone(z), NEW k \in Key, NEW t \in Time
    PROVE  /\ RingZone(RingIsBlocked(z, k, t))
           /\ Plain(RingIsBlocked(z, k, t)) = IsBlocked(Plain(z), k, t)
<1>1. PICK y : y = FindTouch(z, k, t)
  OBVIOUS
<1>2. RingZone(y) /\ Plain(y) = FindTouch(Plain(z), k, t) /\ t \in Int
  BY <1>1, FindTouchAlike, TimeFacts
<1>3. /\ DOMAIN Plain(y).node = DOMAIN y.node
      /\ k \in DOMAIN y.node =>
            /\ y.node[k] \in RNode
            /\ Plain(y).node[k] = PlainNode(y.node[k])
            /\ Banned(y.node[k], t) <=> Banned(Plain(y).node[k], t)
  BY <1>2, PlainFacts, BannedAlike
<1>4. CASE k \notin DOMAIN y.node \/ Banned(y.node[k], t)
  <2>1. RingIsBlocked(z, k, t) = y
    BY <1>1, <1>4, Zenon DEF RingIsBlocked
  <2>2. IsBlocked(Plain(z), k, t) = Plain(y)
    BY <1>2, <1>3, <1>4, Zenon DEF IsBlocked
  <2> QED
    BY <1>2, <2>1, <2>2
<1>5. CASE ~ (k \notin DOMAIN y.node \/ Banned(y.node[k], t))
  <2>1. PICK n \in RNode : n = RingSettle(y.node[k], t)
    BY <1>2, <1>3, <1>5, RingSettleFacts
  <2>2. PlainNode(n) = SettleNode(Plain(y).node[k], t)
    BY <1>2, <1>3, <1>5, <2>1, RingSettleFacts
  <2>3. RingIsBlocked(z, k, t) = SetNode(y, k, n)
    BY <1>1, <1>5, <2>1, Zenon DEF RingIsBlocked
  <2>4. IsBlocked(Plain(z), k, t) = SetNode(Plain(y), k, PlainNode(n))
    BY <1>2, <1>3, <1>5, <2>2, Zenon DEF IsBlocked
  <2> QED
    BY <1>2, <1>5, <2>3, <2>4, SetNodeAlike
<1> QED
  BY <1>4, <1>5

-----------------------------------------------------------------------------
(***************************************************************************)
(* Loading a record into a zone with rings.                                *)
(***************************************************************************)

\* load's loop over the events of a record that anything may have written.
LEMMA WindowOfAny ==
    ASSUME NEW e \in Seq(Nat), NEW t \in Time
    PROVE  InWindow(e, t) \in Seq(Time) /\ Len(InWindow(e, t)) <= Len(e)
<1> DEFINE n == Len(e)
<1>1. n \in Nat /\ t \in Int /\ TimeMax \in Nat
      /\ \A i \in 1 .. n : e[i] \in Nat
  BY LenProperties, TimeFacts
<1>2. PICK k : IsWindowRun(k, e, t) /\ InWindow(e, t) = k[n]
  BY <1>1, WindowRun
<1>3. /\ k[0] = <<>>
      /\ \A i \in 1 .. n :
            k[i] = k[i - 1] \/ (k[i] = Append(k[i - 1], e[i]) /\ e[i] \in Time)
  <2>1. \A x \in Nat : x <= t => x \in Time
    BY <1>1, TimeFacts, TimeRange DEF Time
  <2>2. ASSUME NEW i \in 1 .. n
        PROVE  \/ k[i] = k[i - 1]
               \/ k[i] = Append(k[i - 1], e[i]) /\ e[i] \in Time
    <3> DEFINE Inside == e[i] > t - Interval /\ e[i] <= t
    <3>1. k[i] = IF Inside THEN Append(k[i - 1], e[i]) ELSE k[i - 1]
      BY <1>2 DEF IsWindowRun
    <3>2. Inside => e[i] \in Time
      BY <1>1, <2>1
    <3> HIDE DEF Inside
    <3> QED
      BY <3>1, <3>2
  <2> QED
    BY <1>2, <2>2 DEF IsWindowRun
<1> DEFINE S == {i \in 0 .. n : k[i] \in Seq(Time) /\ Len(k[i]) <= i}
<1>4. 0 \in S
  <2>1. <<>> \in Seq(Time) /\ Len(<<>>) = 0 /\ 0 \in 0 .. n
    BY <1>1
  <2>2. k[0] = <<>>
    BY <1>3
  <2>3. k[0] \in Seq(Time) /\ Len(k[0]) <= 0
    BY <2>1, <2>2
  <2> QED
    BY <2>1, <2>3
<1>5. ASSUME NEW i \in 1 .. n, i - 1 \in S PROVE i \in S
  <2>1. k[i - 1] \in Seq(Time) /\ Len(k[i - 1]) <= i - 1
        /\ Len(k[i - 1]) \in Nat /\ i \in 0 .. n
    BY <1>1, <1>5, LenProperties
  <2>2. CASE k[i] = k[i - 1]
    BY <1>1, <2>1, <2>2
  <2>3. CASE (k[i] = Append(k[i - 1], e[i]) /\ e[i] \in Time)
    <3>1. k[i] \in Seq(Time) /\ Len(k[i]) = Len(k[i - 1]) + 1
      BY <2>1, <2>3, AppendProperties
    <3> QED
      BY <1>1, <2>1, <3>1
  <2> QED
    BY <1>3, <2>2, <2>3
<1> HIDE DEF S
<1>6. \A i \in 0 .. n : i \in S
  BY <1>1, <1>4, <1>5, UpTo
<1>7. n \in S
  BY <1>1, <1>6
<1> QED
  BY <1>2, <1>7 DEF S

\* What load makes of such a record.
LEMMA RestoredOfAny ==
    ASSUME NEW n, n.blocked_until \in Nat, n.last_seen \in Nat,
           NEW e \in Seq(Nat), n.events = e, NEW t \in Time
    PROVE  /\ Restored(n, t) \in Node
           /\ Len(Restored(n, t).events) <= Len(e)
<1>1. PICK w \in Seq(Time) : w = InWindow(e, t) /\ Len(w) <= Len(e)
  BY WindowOfAny
<1>2. PICK limit \in Time : limit = TimeAddSaturate(t, Block)
  BY SaturateType, ZoneParameters
<1>3. \A x \in Nat, y \in Time : x <= y => x \in Time
  BY TimeFacts, TimeRange DEF Time
<1>4. PICK b \in Time : b = IF n.blocked_until <= t THEN 0
                            ELSE IF n.blocked_until < limit
                            THEN n.blocked_until ELSE limit
  <2>1. 0 \in Time /\ \A x \in Time : x \in Int
    BY TimeFacts
  <2> QED
    BY <1>3, <2>1
<1>5. PICK s \in Time : s = IF n.last_seen > 0 /\ n.last_seen <= t
                            THEN n.last_seen ELSE t
  BY <1>3
<1>6. Restored(n, t) = [blocked_until |-> b, last_seen |-> s, events |-> w]
  BY <1>1, <1>2, <1>4, <1>5, Zenon DEF Restored
<1> QED
  BY <1>1, <1>6 DEF Node

\* The ring a load fills.
LEMMA RefilledFacts ==
    ASSUME NEW e \in Seq(Time), Len(e) <= Threshold
    PROVE  Refilled(e) \in Ring /\ Entries(Refilled(e)) = e
<1>1. Threshold \in Nat \ {0} /\ 0 \in Time /\ Len(e) \in Nat
      /\ \A i \in 1 .. Len(e) : e[i] \in Time
  BY ZoneParameters, TimeFacts, LenProperties
<1>2. PICK f : f = [i \in Slot |-> IF i < Len(e) THEN e[i + 1] ELSE 0]
  OBVIOUS
<1>3. \A i \in Slot : i < Len(e) => i + 1 \in 1 .. Len(e)
  BY <1>1 DEF Slot
<1>4. f \in [Slot -> Time]
  BY <1>1, <1>2, <1>3
<1>5. PICK r : r = Refilled(e)
  OBVIOUS
<1>6. r = [head |-> 0, count |-> Len(e), slot |-> f]
  BY <1>2, <1>5 DEF Refilled
<1>7. 0 \in Slot /\ Len(e) \in 0 .. Threshold
  BY <1>1 DEF Slot
<1>8. r \in Ring /\ r.head = 0 /\ r.count = Len(e) /\ r.slot = f
  BY <1>4, <1>6, <1>7 DEF Ring
<1>9. /\ Entries(r) \in Seq(Time) /\ Len(Entries(r)) = Len(e)
      /\ \A i \in 1 .. Len(e) : Entries(r)[i] = Entry(r, i - 1)
  BY <1>8, EntriesFacts
<1>10. ASSUME NEW i \in 1 .. Len(e) PROVE Entries(r)[i] = e[i]
  <2>1. i - 1 \in 0 .. Threshold /\ i - 1 \in Slot /\ i - 1 < Len(e)
        /\ (i - 1) + 1 = i /\ 0 + (i - 1) = i - 1 /\ i - 1 < Threshold
    BY <1>1 DEF Slot
  <2>2. (0 + (i - 1)) % Threshold = i - 1
    BY <1>7, <2>1, PlaceOf
  <2>3. Entry(r, i - 1) = f[i - 1]
    BY <1>8, <2>2 DEF Entry
  <2>4. f[i - 1] = e[(i - 1) + 1]
    BY <1>2, <2>1
  <2> QED
    BY <1>9, <2>1, <2>3, <2>4
<1>11. Entries(r) = e
  BY <1>9, <1>10, SameSeq
<1> QED
  BY <1>5, <1>8, <1>11

\* A record whose fields are numbers.
IsRecord(rec) ==
    /\ rec.key \in Key
    /\ rec.node.blocked_until \in Nat
    /\ rec.node.last_seen \in Nat
    /\ rec.node.events \in Seq(Nat)
    /\ Len(rec.node.events) <= Threshold

\* One record loaded into rings is LoadRecord on the plain zone, and a zone
\* without room for it lacks it in both.
LEMMA LoadedAlike ==
    ASSUME NEW z, RingZone(z), NEW rec, IsRecord(rec), NEW t \in Time
    PROVE  LET y == Loaded(z, rec, t)
               r == LoadRecord([zone |-> Plain(z), full |-> FALSE], rec, t)
           IN  /\ RingZone(y)
               /\ ~ Spent(rec.node, t) =>
                     /\ Plain(y) = r.zone
                     /\ r.full <=> rec.key \notin DOMAIN y.node
<1>1. PICK k \in Key : k = rec.key
  BY DEF IsRecord
<1>2. PICK n \in Node : n = Restored(rec.node, t)
                        /\ Len(n.events) <= Threshold
  <2>1. PICK e \in Seq(Nat) : e = rec.node.events /\ Len(e) <= Threshold
    BY DEF IsRecord
  <2>2. PICK m \in Node : m = Restored(rec.node, t)
                          /\ Len(m.events) <= Len(e)
    BY <2>1, RestoredOfAny DEF IsRecord
  <2>3. PICK w \in Seq(Time) : w = m.events
    BY DEF Node
  <2>4. Len(w) \in Nat /\ Len(e) \in Nat /\ Threshold \in Nat
    BY LenProperties, ZoneParameters
  <2> QED
    BY <2>1, <2>2, <2>3, <2>4
<1>3. PICK w \in Seq(Time) : w = n.events
  BY DEF Node
<1>4. PICK r \in Ring : r = Refilled(w) /\ Entries(r) = w
  BY <1>2, <1>3, RefilledFacts
<1>5. PICK m : m = [n EXCEPT !.events = Refilled(@)]
  OBVIOUS
<1>6. m \in RNode /\ PlainNode(m) = n
  <2>1. m = [n EXCEPT !.events = r]
    BY <1>3, <1>4, <1>5
  <2>2. m \in RNode /\ m.blocked_until = n.blocked_until
        /\ m.last_seen = n.last_seen /\ m.events = r
    BY <2>1 DEF Node, RNode
  <2>3. PlainNode(m) = n
    BY <1>3, <1>4, <2>2, PlainNodeFacts, SameNode
  <2> QED
    BY <2>2, <2>3
<1>7. PICK y : y = IF k \in DOMAIN z.node
                   THEN z ELSE WithZeroRing(CreateNode(z, k, t), k)
  OBVIOUS
<1>8. /\ RingZone(y)
      /\ Plain(y) = IF k \in DOMAIN Plain(z).node
                    THEN Plain(z) ELSE CreateNode(Plain(z), k, t)
  <2>1. DOMAIN Plain(z).node = DOMAIN z.node
    BY PlainFacts
  <2> QED
    BY <1>7, <2>1, CreateNodeAlike
<1>9. DOMAIN Plain(y).node = DOMAIN y.node
  BY <1>8, PlainFacts
<1>10. Loaded(z, rec, t) = IF k \in DOMAIN y.node THEN SetNode(y, k, m) ELSE y
  BY <1>1, <1>2, <1>5, <1>7, Zenon DEF Loaded
<1>11. PICK acc : acc = [zone |-> Plain(z), full |-> FALSE]
  OBVIOUS
<1>12. acc.zone = Plain(z) /\ acc.full = FALSE
  BY <1>11
<1>13. ~ Spent(rec.node, t) =>
          LoadRecord(acc, rec, t)
             = IF k \notin DOMAIN Plain(y).node
               THEN [zone |-> Plain(y), full |-> TRUE]
               ELSE [zone |-> SetNode(Plain(y), k, n), full |-> FALSE]
  BY <1>1, <1>2, <1>8, <1>12, Zenon DEF LoadRecord
<1>14. CASE k \notin DOMAIN y.node
  <2>1. Loaded(z, rec, t) = y
    BY <1>10, <1>14
  <2>2. ~ Spent(rec.node, t) =>
           LoadRecord(acc, rec, t) = [zone |-> Plain(y), full |-> TRUE]
    BY <1>9, <1>13, <1>14
  <2> QED
    BY <1>1, <1>8, <1>11, <1>14, <2>1, <2>2
<1>15. CASE k \in DOMAIN y.node
  <2>1. Loaded(z, rec, t) = SetNode(y, k, m)
    BY <1>10, <1>15
  <2>2. PICK l : l = Loaded(z, rec, t)
    OBVIOUS
  <2>3. RingZone(l) /\ Plain(l) = SetNode(Plain(y), k, n)
        /\ DOMAIN l.node = DOMAIN y.node
    BY <1>6, <1>8, <1>15, <2>1, <2>2, SetNodeAlike
  <2>4. ~ Spent(rec.node, t) =>
           LoadRecord(acc, rec, t) = [zone |-> Plain(l), full |-> FALSE]
    BY <1>9, <1>13, <1>15, <2>3
  <2> QED
    BY <1>1, <1>11, <1>15, <2>2, <2>3, <2>4
<1> QED
  BY <1>14, <1>15

-----------------------------------------------------------------------------
(***************************************************************************)
(* The cells of a snapshot.                                                *)
(***************************************************************************)

\* The rounds of serialize's loop: c[i] is what it has written after i of
\* them.
IsPayloadRun(c, z) ==
    /\ c[0] = <<>>
    /\ \A i \in 1 .. Len(z.queue) :
           LET k == z.queue[Len(z.queue) + 1 - i]
           IN  c[i] = c[i - 1] \o Put(k, z.node[k])

\* The rounds exist.
LEMMA PayloadRun ==
    ASSUME NEW z, Len(z.queue) \in Nat
    PROVE  \E c : IsPayloadRun(c, z) /\ Payload(z) = c[Len(z.queue)]
<1> DEFINE n == Len(z.queue)
           Cells(k) == Put(k, z.node[k])
           Step(g, i) == IF i = 0 THEN <<>>
                         ELSE g[i - 1] \o Cells(z.queue[n + 1 - i])
           IsRun(g, m) == g = [i \in 0 .. m |-> Step(g, i)]
<1>1. n \in Nat
  OBVIOUS
<1>2. \A m \in 0 .. n : \E g : IsRun(g, m)
  <2> DEFINE S == {m \in 0 .. n : \E g : IsRun(g, m)}
  <2>1. 0 \in S
    <3>1. PICK g : g = [i \in 0 .. 0 |-> <<>>]
      OBVIOUS
    <3>2. \A i \in 0 .. 0 : Step(g, i) = <<>>
      OBVIOUS
    <3> HIDE DEF Step
    <3>3. IsRun(g, 0)
      BY <3>1, <3>2
    <3> QED
      BY <1>1, <3>3
  <2>2. ASSUME NEW m \in 1 .. n, m - 1 \in S
        PROVE  m \in S
    <3>1. PICK g : IsRun(g, m - 1)
      BY <2>2, Zenon
    <3>2. PICK h : h = [i \in 0 .. m |-> IF i = m THEN Step(g, i) ELSE g[i]]
      OBVIOUS
    <3>3. \A i \in 0 .. m : i # m => i \in 0 .. m - 1
      BY <1>1
    <3>4. \A i \in 0 .. m : i # 0 => i - 1 \in 0 .. m - 1 /\ i - 1 # m
      BY <1>1
    <3>5. \A i \in 0 .. m - 1 : i \in 0 .. m /\ i # m /\ g[i] = Step(g, i)
      <4> HIDE DEF Step
      <4>1. \A i \in 0 .. m - 1 : g[i] = Step(g, i)
        BY <3>1
      <4> QED
        BY <1>1, <4>1
    <3>6. \A i \in 0 .. m - 1 : h[i] = g[i]
      BY <3>2, <3>5
    <3> HIDE DEF n, Cells
    <3>7. ASSUME NEW i \in 0 .. m PROVE h[i] = Step(h, i)
      <4>1. i # 0 => h[i - 1] = g[i - 1]
        BY <3>4, <3>6
      <4>2. Step(h, i) = Step(g, i)
        BY <4>1
      <4>3. h[i] = Step(g, i)
        BY <3>2, <3>3, <3>5
      <4> QED
        BY <4>2, <4>3, Zenon
    <3>8. IsRun(h, m)
      <4> HIDE DEF Step
      <4>1. h = [i \in 0 .. m |-> h[i]]
        BY <3>2
      <4> QED
        BY <3>7, <4>1
    <3> HIDE DEF IsRun, n
    <3> QED
      BY <1>1, <3>8
  <2> HIDE DEF S
  <2>3. \A m \in 0 .. n : m \in S
    BY <1>1, <2>1, <2>2, UpTo
  <2> QED
    BY <2>3 DEF S
<1>3. PICK c : IsRun(c, n) /\ Payload(z) = c[n]
  <2>1. Payload(z) = (CHOOSE g : IsRun(g, n))[n]
    BY DEF Payload
  <2> HIDE DEF IsRun, n
  <2>2. \E g : IsRun(g, n)
    BY <1>1, <1>2
  <2> QED
    BY <2>1, <2>2
<1>4. \A i \in 0 .. n : c[i] = Step(c, i)
  <2> HIDE DEF Step, n
  <2> QED
    BY <1>1, <1>3
<1>5. /\ c[0] = <<>>
      /\ \A i \in 1 .. n : c[i] = c[i - 1] \o Cells(z.queue[n + 1 - i])
  <2>1. \A i \in 1 .. n : i \in 0 .. n /\ i # 0
    BY <1>1
  <2>2. 0 \in 0 .. n
    BY <1>1
  <2> HIDE DEF n, IsRun, Cells
  <2> QED
    BY <1>4, <2>1, <2>2, Zenon
<1> HIDE DEF IsRun
<1> QED
  BY <1>3, <1>5 DEF IsPayloadRun

\* The cells of one record.
LEMMA PutFacts ==
    ASSUME NEW k \in Key, NEW n \in RNode
    PROVE  LET s == Put(k, n)
           IN  /\ s \in Seq(Key)
               /\ n.events.count \in Nat
               /\ Len(s) = 5 + n.events.count
               /\ s[1] = DigestLen /\ s[2] = n.events.count
               /\ s[3] = n.blocked_until /\ s[4] = n.last_seen /\ s[5] = k
               /\ \A j \in 1 .. n.events.count :
                      s[5 + j] = Entries(n.events)[j]
<1>1. PICK c \in Nat : c = n.events.count /\ c <= Threshold
  BY PlainNodeFacts, RingFields
<1>2. PICK e \in Seq(Time) : e = Entries(n.events) /\ Len(e) = c
  BY <1>1, PlainNodeFacts, EntriesFacts
<1>3. n.blocked_until \in Time /\ n.last_seen \in Time
  BY PlainNodeFacts
<1>4. /\ c \in Key /\ DigestLen \in Key /\ e \in Seq(Key)
      /\ n.blocked_until \in Key /\ n.last_seen \in Key
  <2>1. c \in 0 .. Threshold + 1 /\ DigestLen \in 0 .. Threshold + 1
    BY <1>1, ZoneParameters DEF DigestLen
  <2>2. \A i \in 1 .. Len(e) : e[i] \in Key
    BY ElementOfSeq, CellsAreDigests
  <2>3. Len(e) \in Nat /\ e = [i \in 1 .. Len(e) |-> e[i]]
    BY LenProperties
  <2>4. e \in Seq(Key)
    BY <2>2, <2>3
  <2> QED
    BY <1>3, <2>1, <2>4, CellsAreDigests
<1>5. PICK h : h = <<DigestLen, c, n.blocked_until, n.last_seen, k>>
  OBVIOUS
<1>6. /\ h \in Seq(Key) /\ Len(h) = 5 /\ h[1] = DigestLen /\ h[2] = c
      /\ h[3] = n.blocked_until /\ h[4] = n.last_seen /\ h[5] = k
  BY <1>4, <1>5
<1>7. Put(k, n) = h \o e
  BY <1>1, <1>2, <1>5, Zenon DEF Put
<1>8. /\ h \o e \in Seq(Key) /\ Len(h \o e) = 5 + c
      /\ \A i \in 1 .. 5 + c : (h \o e)[i] = IF i <= 5 THEN h[i] ELSE e[i - 5]
  <2>1. /\ h \o e \in Seq(Key) /\ Len(h \o e) = Len(h) + Len(e)
        /\ \A i \in 1 .. Len(h) + Len(e) :
              (h \o e)[i] = IF i <= Len(h) THEN h[i] ELSE e[i - Len(h)]
    BY <1>4, <1>6, ConcatProperties
  <2> QED
    BY <1>2, <1>6, <2>1
<1>9. PICK s : s = h \o e
  OBVIOUS
<1>10. /\ s[1] = h[1] /\ s[2] = h[2] /\ s[3] = h[3] /\ s[4] = h[4]
       /\ s[5] = h[5]
  BY <1>8, <1>9
<1>11. ASSUME NEW j \in 1 .. c PROVE s[5 + j] = e[j]
  <2>1. 5 + j \in 1 .. 5 + c /\ ~ (5 + j <= 5) /\ (5 + j) - 5 = j
    BY <1>1
  <2> QED
    BY <1>8, <1>9, <2>1
<1> QED
  BY <1>1, <1>2, <1>6, <1>7, <1>8, <1>9, <1>10, <1>11

\* cells is what serialize has written of z, and record i ends with cell
\* pos[i].
Lays(cells, z, pos) ==
    LET n == Len(z.queue)
    IN  /\ pos \in [0 .. n -> Nat]
        /\ pos[0] = 0
        /\ pos[n] = Len(cells)
        /\ \A i \in 1 .. n :
               LET k == z.queue[n + 1 - i]
                   m == z.node[k]
               IN  /\ pos[i] = pos[i - 1] + 5 + m.events.count
                   /\ pos[i] <= Len(cells)
                   /\ \A x \in 1 .. 5 + m.events.count :
                          cells[pos[i - 1] + x] = Put(k, m)[x]

\* What serialize() writes is made of numbers, and of its records in order.
LEMMA PayloadFacts ==
    ASSUME NEW z, RingZone(z)
    PROVE  /\ Payload(z) \in Seq(Key)
           /\ \E pos : Lays(Payload(z), z, pos)
<1> DEFINE n == Len(z.queue)
           k(i) == z.queue[n + 1 - i]
           m(i) == z.node[k(i)]
           s(i) == Put(k(i), m(i))
           Begins(a, b) == /\ Len(a) <= Len(b)
                           /\ \A x \in 1 .. Len(a) : b[x] = a[x]
<1>1. n \in Nat
  BY LenProperties DEF RingZone
<1>2. PICK c : IsPayloadRun(c, z) /\ Payload(z) = c[n]
  BY <1>1, PayloadRun
<1>3. c[0] = <<>> /\ \A i \in 1 .. n : c[i] = c[i - 1] \o s(i)
  BY <1>2, Zenon DEF IsPayloadRun
<1>4. ASSUME NEW i \in 1 .. n
      PROVE  k(i) \in Key /\ m(i) \in RNode
  <2>1. n + 1 - i \in 1 .. n
    BY <1>1
  <2>2. k(i) \in DOMAIN z.node /\ k(i) \in Key
    BY <2>1, WellLinkedDef, ElementOfSeq DEF RingZone, Elems
  <2> QED
    BY <2>2 DEF RingZone
<1> HIDE DEF k, m
<1>5. ASSUME NEW i \in 1 .. n
      PROVE  /\ s(i) \in Seq(Key) /\ m(i).events.count \in Nat
             /\ Len(s(i)) = 5 + m(i).events.count
  BY <1>4, PutFacts
<1> HIDE DEF s
<1>6. ASSUME NEW i \in 1 .. n, c[i - 1] \in Seq(Key)
      PROVE  /\ c[i] \in Seq(Key)
             /\ Len(c[i - 1]) \in Nat
             /\ Len(c[i]) = Len(c[i - 1]) + Len(s(i))
             /\ Begins(c[i - 1], c[i])
             /\ \A x \in 1 .. Len(s(i)) : c[i][Len(c[i - 1]) + x] = s(i)[x]
  <2>1. PICK a \in Seq(Key) : a = c[i - 1]
    BY <1>6
  <2>2. PICK b \in Seq(Key) : b = s(i)
    BY <1>5
  <2>3. c[i] = a \o b
    BY <1>3, <2>1, <2>2
  <2>4. /\ a \o b \in Seq(Key) /\ Len(a \o b) = Len(a) + Len(b)
        /\ \A x \in 1 .. Len(a) + Len(b) :
              (a \o b)[x] = IF x <= Len(a) THEN a[x] ELSE b[x - Len(a)]
    BY ConcatProperties
  <2>5. Len(a) \in Nat /\ Len(b) \in Nat
    BY LenProperties
  <2>6. \A x \in 1 .. Len(a) : (a \o b)[x] = a[x]
    BY <2>4, <2>5
  <2>7. ASSUME NEW x \in 1 .. Len(b) PROVE (a \o b)[Len(a) + x] = b[x]
    <3>1. /\ Len(a) + x \in 1 .. Len(a) + Len(b) /\ ~ (Len(a) + x <= Len(a))
          /\ (Len(a) + x) - Len(a) = x
      BY <2>5
    <3> QED
      BY <2>4, <3>1
  <2>8. Len(a) <= Len(a \o b)
    BY <2>4, <2>5
  <2> QED
    BY <2>1, <2>2, <2>3, <2>4, <2>5, <2>6, <2>7, <2>8
<1> DEFINE S == {j \in 0 .. n : /\ c[j] \in Seq(Key)
                                /\ \A i \in 0 .. j : Begins(c[i], c[j])}
<1>7. 0 \in S
  <2>1. <<>> \in Seq(Key) /\ Len(<<>>) = 0
    OBVIOUS
  <2>2. Begins(c[0], c[0])
    BY <1>3, <2>1
  <2>3. \A i \in 0 .. 0 : i = 0
    OBVIOUS
  <2>4. c[0] \in Seq(Key) /\ 0 \in 0 .. n
    BY <1>1, <1>3, <2>1
  <2> HIDE DEF Begins, n
  <2> QED
    BY <2>2, <2>3, <2>4
<1>8. ASSUME NEW j \in 1 .. n, j - 1 \in S PROVE j \in S
  <2>1. c[j - 1] \in Seq(Key) /\ \A i \in 0 .. j - 1 : Begins(c[i], c[j - 1])
    BY <1>8
  <2>2. c[j] \in Seq(Key) /\ Begins(c[j - 1], c[j])
        /\ Len(c[j - 1]) \in Nat /\ Len(c[j]) \in Nat
    BY <1>6, <2>1, LenProperties
  <2>3. ASSUME NEW i \in 0 .. j PROVE Begins(c[i], c[j])
    <3>1. CASE i = j
      BY <2>2, <3>1
    <3>2. CASE i # j
      <4>1. i \in 0 .. j - 1
        BY <1>1, <3>2
      <4>2. Begins(c[i], c[j - 1])
        BY <2>1, <4>1
      <4>3. CASE Len(c[i]) \in Nat
        BY <2>2, <4>2, <4>3
      <4>4. Len(c[i]) \in Nat
        OBVIOUS
      <4> QED
        BY <4>3, <4>4
    <3> QED
      BY <3>1, <3>2
  <2> HIDE DEF Begins
  <2> QED
    BY <2>2, <2>3
<1> HIDE DEF S
<1>9. \A j \in 0 .. n : j \in S
  BY <1>1, <1>7, <1>8, UpTo
<1>10. /\ \A i \in 0 .. n : c[i] \in Seq(Key) /\ Begins(c[i], c[n])
       /\ n \in 0 .. n
  BY <1>1, <1>9 DEF S
<1>11. PICK pos : pos = [i \in 0 .. n |-> Len(c[i])]
  OBVIOUS
<1>12. pos \in [0 .. n -> Nat] /\ pos[n] = Len(c[n]) /\ pos[0] = 0
  <2>1. \A i \in 0 .. n : Len(c[i]) \in Nat
    BY <1>10, LenProperties
  <2>2. Len(c[0]) = 0 /\ 0 \in 0 .. n
    BY <1>1, <1>3
  <2> QED
    BY <1>10, <1>11, <2>1, <2>2
<1>13. ASSUME NEW i \in 1 .. n
       PROVE  /\ pos[i] = pos[i - 1] + 5 + m(i).events.count
              /\ pos[i] <= Len(c[n])
              /\ \A x \in 1 .. 5 + m(i).events.count :
                     c[n][pos[i - 1] + x] = s(i)[x]
  <2>1. i \in 0 .. n /\ i - 1 \in 0 .. n
    BY <1>1
  <2>2. pos[i] = Len(c[i]) /\ pos[i - 1] = Len(c[i - 1])
    BY <1>11, <2>1
  <2>3. Begins(c[i], c[n]) /\ c[i - 1] \in Seq(Key)
    BY <1>10, <2>1
  <2>4. /\ Len(c[i - 1]) \in Nat /\ m(i).events.count \in Nat
        /\ Len(c[i]) = Len(c[i - 1]) + (5 + m(i).events.count)
        /\ \A x \in 1 .. 5 + m(i).events.count :
              c[i][Len(c[i - 1]) + x] = s(i)[x]
    BY <1>5, <1>6, <2>3
  <2>4a. PICK a \in Nat : a = Len(c[i - 1])
    BY <2>4
  <2>4b. PICK b \in Nat : b = m(i).events.count
    BY <2>4
  <2>4c. Len(c[i]) = a + (5 + b)
    BY <2>4, <2>4a, <2>4b
  <2>5. ASSUME NEW x \in 1 .. 5 + m(i).events.count
        PROVE  c[n][pos[i - 1] + x] = s(i)[x]
    <3>0. x \in 1 .. 5 + b
      BY <2>4b
    <3>1. Len(c[i - 1]) + x \in 1 .. Len(c[i])
      <4>1. a + x \in 1 .. a + (5 + b)
        BY <3>0
      <4> QED
        BY <2>4a, <2>4c, <4>1
    <3>2. c[n][Len(c[i - 1]) + x] = c[i][Len(c[i - 1]) + x]
      BY <2>3, <3>1
    <3>3. c[i][Len(c[i - 1]) + x] = s(i)[x]
      BY <2>4
    <3> QED
      BY <2>2, <3>2, <3>3
  <2>6. pos[i] = pos[i - 1] + 5 + m(i).events.count
    <3>1. a + (5 + b) = a + 5 + b
      OBVIOUS
    <3> QED
      BY <2>2, <2>4a, <2>4b, <2>4c, <3>1, Zenon
  <2> QED
    BY <2>2, <2>3, <2>5, <2>6
<1> HIDE DEF n
<1>14. Lays(c[n], z, pos)
  BY <1>12, <1>13 DEF Lays, n, k, m, s
<1> QED
  BY <1>2, <1>10, <1>14

-----------------------------------------------------------------------------
(***************************************************************************)
(* The walk through a snapshot.                                            *)
(***************************************************************************)

\* The record at p of these cells is valid, and where it ends.
ValidAt(cells, p) ==
    /\ Len(cells) - p >= RecLen
    /\ cells[p + 1] = DigestLen
    /\ cells[p + 2] <= Threshold
    /\ Len(cells) - p - RecLen >= cells[p + 1] + cells[p + 2]

After(cells, p) == p + RecLen + cells[p + 1] + cells[p + 2]

\* n valid records lie behind each other, and record i ends with cell pos[i].
IsPath(cells, n, pos) ==
    /\ pos \in [0 .. n -> Nat]
    /\ pos[0] = 0
    /\ \A i \in 1 .. n : /\ ValidAt(cells, pos[i - 1])
                         /\ pos[i] = After(cells, pos[i - 1])

\* A valid record and its cells are numbers.
LEMMA ValidRecord ==
    ASSUME NEW cells \in Seq(Key), NEW p \in Nat, ValidAt(cells, p)
    PROVE  /\ cells[p + 1] = 1 /\ cells[p + 2] \in Nat
           /\ cells[p + 2] <= Threshold
           /\ p + 5 + cells[p + 2] <= Len(cells)
           /\ Len(cells) \in Nat
           /\ \A j \in 1 .. 5 + cells[p + 2] : cells[p + j] \in Key
           /\ After(cells, p) = p + 5 + cells[p + 2]
           /\ After(cells, p) \in Nat
<1>1. PICK l \in Nat : l = Len(cells)
  BY LenProperties
<1>2. \A x \in 1 .. l : cells[x] \in Key /\ cells[x] \in Nat
  BY <1>1, ElementOfSeq, CellsAreDigests
<1>3. l - p >= 4 /\ p + 1 \in 1 .. l /\ p + 2 \in 1 .. l
  BY <1>1 DEF ValidAt, RecLen
<1>4. PICK c \in Nat : c = cells[p + 2]
  BY <1>2, <1>3
<1>5. cells[p + 1] = 1 /\ c <= Threshold /\ l - p - 4 >= 1 + c
  BY <1>1, <1>4 DEF ValidAt, RecLen, DigestLen
<1>6. p + 5 + c <= l /\ After(cells, p) = p + 5 + c
  BY <1>4, <1>5 DEF After, RecLen
<1>7. \A j \in 1 .. 5 + c : p + j \in 1 .. l
  BY <1>6
<1> QED
  BY <1>1, <1>2, <1>4, <1>5, <1>6, <1>7

\* One more record.
LEMMA LongerPath ==
    ASSUME NEW cells \in Seq(Key), NEW n \in Nat, NEW pos,
           IsPath(cells, n, pos), ValidAt(cells, pos[n])
    PROVE  \E longer : /\ IsPath(cells, n + 1, longer)
                       /\ longer[n + 1] = After(cells, pos[n])
<1>1. pos \in [0 .. n -> Nat] /\ pos[0] = 0 /\ pos[n] \in Nat
  BY DEF IsPath
<1>2. PICK a \in Nat : a = After(cells, pos[n])
  BY <1>1, ValidRecord
<1>3. PICK q : q = [i \in 0 .. n + 1 |-> IF i = n + 1 THEN a ELSE pos[i]]
  OBVIOUS
<1>4. q \in [0 .. n + 1 -> Nat] /\ q[n + 1] = a
      /\ \A i \in 0 .. n : q[i] = pos[i]
  BY <1>1, <1>3
<1>5. ASSUME NEW i \in 1 .. n + 1
      PROVE  ValidAt(cells, q[i - 1]) /\ q[i] = After(cells, q[i - 1])
  <2>1. CASE i = n + 1
    <3>1. i - 1 = n /\ n \in 0 .. n
      BY <2>1
    <3> QED
      BY <1>2, <1>4, <2>1, <3>1
  <2>2. CASE i # n + 1
    <3>1. i \in 1 .. n /\ i \in 0 .. n /\ i - 1 \in 0 .. n
      BY <2>2
    <3>2. ValidAt(cells, pos[i - 1]) /\ pos[i] = After(cells, pos[i - 1])
      BY <3>1 DEF IsPath
    <3> QED
      BY <1>4, <3>1, <3>2
  <2> QED
    BY <2>1, <2>2
<1>6. IsPath(cells, n + 1, q)
  <2>1. 0 \in 0 .. n
    OBVIOUS
  <2> QED
    BY <1>1, <1>4, <1>5, <2>1 DEF IsPath
<1> QED
  BY <1>2, <1>4, <1>6

Walk == [stage : {"run", "down", "validate", "load", "done"},
         threshold : Nat, records : Nat, crc : BOOLEAN, cells : Seq(Key),
         p : Nat, i : Nat, lost : {"none", "all", "short", "full"}]

\* What a walk in each stage has behind it.  A walk that ends well has met
\* nothing but valid records, and the last one ends with the last cell.
WalkInv ==
    /\ walk \in Walk
    /\ walk.stage \in {"down", "validate"} => shm = EmptyZone
    /\ walk.stage \in {"validate", "load", "done"} => Worker # {}
    /\ walk.stage \in {"down", "validate", "load"} => walk.lost = "none"
    /\ walk.stage = "down" => walk.p = 0 /\ walk.i = 0
    /\ walk.stage = "validate" =>
          /\ walk.i <= walk.records
          /\ \E pos : IsPath(walk.cells, walk.i, pos) /\ walk.p = pos[walk.i]
    /\ walk.stage = "load" =>
          /\ walk.i <= walk.records
          /\ \E pos : /\ IsPath(walk.cells, walk.records, pos)
                      /\ pos[walk.records] = Len(walk.cells)
                      /\ walk.p = pos[walk.i]
    /\ walk.stage = "done" =>
          /\ walk.lost # "short"
          /\ walk.lost = "none" => walk.p = Len(walk.cells)

ClocksInv ==
    /\ clock \in 1 .. MaxTime
    /\ now \in [Worker -> 0 .. clock]

IInv == ClocksInv /\ RingZone(shm) /\ WalkInv

\* A cached time is a time.
LEMMA CachedIsTime ==
    ASSUME ClocksInv
    PROVE  \A w \in Worker : now[w] \in Time
<1>1. clock \in Nat /\ clock < TimeMax /\ TimeMax \in Nat
  BY RingBounds, TimeRange DEF ClocksInv
<1> QED
  BY <1>1 DEF ClocksInv, Time

\* A new zone.
LEMMA EmptyIsRingZone == RingZone(EmptyZone) /\ Plain(EmptyZone) = EmptyZone
<1>1. PICK z : z = EmptyZone
  OBVIOUS
<1>2. z = [queue |-> <<>>, node |-> <<>>] /\ z.queue = <<>> /\ z.node = <<>>
      /\ DOMAIN z.node = {}
  BY <1>1 DEF EmptyZone
<1>3. WellLinked(z) /\ z.queue \in Seq(Key)
  BY <1>2, ZoneLimits DEF WellLinked
<1>4. RingZone(z)
  BY <1>2, <1>3 DEF RingZone
<1>5. Plain(z) = z
  BY <1>2 DEF Plain
<1> QED
  BY <1>1, <1>4, <1>5

\* The fields of a walk.
LEMMA WalkFields ==
    ASSUME NEW x \in Walk
    PROVE  /\ x.cells \in Seq(Key) /\ x.p \in Nat /\ x.i \in Nat
           /\ x.records \in Nat /\ Len(x.cells) \in Nat
BY LenProperties DEF Walk

\* The initial state.
LEMMA InitIInv == ScanInit => IInv
<1> SUFFICES ASSUME ScanInit PROVE IInv
  OBVIOUS
<1>1. clock = 1 /\ now = [w \in Worker |-> 1] /\ shm = EmptyZone /\ walk = Idle
  BY DEF ScanInit, RingInit
<1>2. ClocksInv
  BY <1>1, RingBounds DEF ClocksInv
<1>3. <<>> \in Seq(Key) /\ Threshold \in Nat
  BY ZoneParameters
<1>4. walk \in Walk /\ walk.stage = "run"
  BY <1>1, <1>3 DEF Idle, Walk
<1>5. WalkInv
  BY <1>4 DEF WalkInv
<1> QED
  BY <1>1, <1>2, <1>5, EmptyIsRingZone DEF IInv

\* The clocks.
LEMMA PassesClocks ==
    ASSUME ClocksInv, Passes
    PROVE  ClocksInv'
<1>1. clock \in Nat /\ MaxTime \in Nat /\ clock >= 1 /\ clock <= MaxTime
      /\ now \in [Worker -> 0 .. clock]
  BY RingBounds DEF ClocksInv
<1>2. CASE Abstract!Tick
  <2>1. PICK fresh \in SUBSET Worker :
          now' = [w \in Worker |-> IF w \in fresh THEN clock + 1 ELSE now[w]]
    BY <1>2 DEF Abstract!Tick
  <2>2. clock' = clock + 1 /\ clock < MaxTime
    BY <1>2 DEF Abstract!Tick
  <2> QED
    BY <1>1, <2>1, <2>2 DEF ClocksInv
<1>3. CASE \E w \in Worker : Abstract!UpdateTime(w)
  <2>1. PICK w \in Worker : Abstract!UpdateTime(w)
    BY <1>3
  <2>2. PICK t \in 1 .. clock : now' = [now EXCEPT ![w] = t]
    BY <2>1 DEF Abstract!UpdateTime
  <2>3. clock' = clock
    BY <2>1 DEF Abstract!UpdateTime
  <2>4. t \in 0 .. clock
    BY <1>1
  <2> QED
    BY <1>1, <2>2, <2>3, <2>4 DEF ClocksInv
<1> QED
  BY <1>2, <1>3 DEF Passes

\* A save, damage, and the start of a load.
LEMMA SaveWalk ==
    ASSUME IInv, Save
    PROVE  WalkInv'
<1>1. PICK c \in Seq(Key) : c = Payload(shm)
  BY PayloadFacts DEF IInv
<1>2. PICK r \in Nat : r = Len(shm.queue)
  BY LenProperties DEF IInv, RingZone
<1>3. walk' = [Idle EXCEPT !.stage = "down", !.records = r, !.cells = c]
  BY <1>1, <1>2 DEF Save
<1>4. walk' = [stage |-> "down", threshold |-> Threshold, records |-> r,
               crc |-> TRUE, cells |-> c, p |-> 0, i |-> 0, lost |-> "none"]
  BY <1>3 DEF Idle
<1>5. walk' \in Walk
  BY <1>4, ZoneParameters DEF Walk
<1>6. shm' = EmptyZone
  BY DEF Save
<1> QED
  BY <1>4, <1>5, <1>6 DEF WalkInv

\* Damage leaves cells that are numbers.
LEMMA DamageWalk ==
    ASSUME WalkInv, Damage
    PROVE  WalkInv'
<1>1. walk \in Walk /\ walk.stage = "down" /\ shm = EmptyZone
      /\ walk.lost = "none" /\ walk.p = 0 /\ walk.i = 0
  BY DEF WalkInv, Damage, Down
<1>2. /\ walk' \in Walk /\ walk'.stage = "down" /\ walk'.lost = "none"
      /\ walk'.p = 0 /\ walk'.i = 0
  <2>1. CASE \E j \in DOMAIN walk.cells, v \in Key :
               walk' = [walk EXCEPT !.cells[j] = v]
    <3>1. PICK j \in DOMAIN walk.cells, v \in Key :
               walk' = [walk EXCEPT !.cells[j] = v]
      BY <2>1
    <3>2. PICK c \in Seq(Key) : c = walk.cells
      BY <1>1, WalkFields
    <3>3. PICK d : d = [c EXCEPT ![j] = v]
      OBVIOUS
    <3>4. d \in Seq(Key)
      BY <3>1, <3>2, <3>3, ExceptSeq
    <3>5. walk' = [walk EXCEPT !.cells = d]
      BY <3>1, <3>2, <3>3
    <3> QED
      BY <1>1, <3>4, <3>5 DEF Walk
  <2>2. CASE \E m \in 0 .. Len(walk.cells) - 1 :
               walk' = [walk EXCEPT !.cells = SubSeq(@, 1, m)]
    <3>1. PICK m \in 0 .. Len(walk.cells) - 1 :
               walk' = [walk EXCEPT !.cells = SubSeq(@, 1, m)]
      BY <2>2
    <3>2. PICK c \in Seq(Key) : c = walk.cells /\ Len(c) \in Nat
      BY <1>1, WalkFields
    <3>2a. 1 \in Int /\ m \in Int /\ \A i \in 1 .. m : c[i] \in Key
      BY <3>2, ElementOfSeq
    <3>3. PICK d \in Seq(Key) : d = SubSeq(c, 1, m)
      BY <3>2a, SubSeqProperties
    <3>4. walk' = [walk EXCEPT !.cells = d]
      BY <3>1, <3>2, <3>3
    <3> QED
      BY <1>1, <3>4 DEF Walk
  <2>3. CASE \E r \in {walk.records - 1, walk.records + 1} \cap Nat :
               walk' = [walk EXCEPT !.records = r]
    BY <1>1, <2>3 DEF Walk
  <2>4. CASE walk' = [walk EXCEPT !.threshold = @ + 1]
    BY <1>1, <2>4 DEF Walk
  <2>5. CASE walk' = [walk EXCEPT !.crc = FALSE]
    BY <1>1, <2>5 DEF Walk
  <2> QED
    BY <2>1, <2>2, <2>3, <2>4, <2>5 DEF Damage
<1>3. shm' = shm
  BY DEF Damage
<1> QED
  BY <1>1, <1>2, <1>3 DEF WalkInv

\* The start of a load.
LEMMA RestartWalk ==
    ASSUME WalkInv, NEW w \in Worker, Restart(w)
    PROVE  WalkInv'
<1>1. walk \in Walk /\ walk.stage = "down" /\ shm = EmptyZone /\ shm' = shm
      /\ walk.lost = "none" /\ walk.p = 0 /\ walk.i = 0
  BY DEF WalkInv, Restart, Down
<1>2. CASE walk.threshold # Threshold \/ ~ walk.crc
  <2>1. walk' = [walk EXCEPT !.stage = "done", !.lost = "all"]
    BY <1>2 DEF Restart, Ignored
  <2>2. walk' \in Walk /\ walk'.stage = "done" /\ walk'.lost = "all"
    BY <1>1, <2>1 DEF Walk
  <2> QED
    BY <2>2 DEF WalkInv
<1>3. CASE ~ (walk.threshold # Threshold \/ ~ walk.crc)
  <2>1. walk' = [walk EXCEPT !.stage = "validate"]
    BY <1>3 DEF Restart
  <2>2. walk' \in Walk /\ walk'.stage = "validate" /\ walk'.lost = "none"
        /\ walk'.p = 0 /\ walk'.i = 0 /\ walk'.records \in Nat
    BY <1>1, <2>1 DEF Walk
  <2>3. PICK pos : pos = [i \in 0 .. 0 |-> 0]
    OBVIOUS
  <2>4. pos[0] = 0 /\ \A c : IsPath(c, 0, pos)
    BY <2>3 DEF IsPath
  <2> QED
    BY <1>1, <2>2, <2>4 DEF WalkInv
<1> QED
  BY <1>2, <1>3

\* What the two walks ask of a record, and where they go.
LEMMA AskedAlike ==
    ASSUME walk \in Walk
    PROVE  /\ RecordValid <=> ValidAt(walk.cells, walk.p)
           /\ RecordReadable <=> ValidAt(walk.cells, walk.p)
           /\ ValidAt(walk.cells, walk.p) =>
                 /\ Advanced \in Walk
                 /\ Advanced = [walk EXCEPT !.p = After(walk.cells, walk.p),
                                            !.i = walk.i + 1]
<1>1. PICK c \in Seq(Key) : c = walk.cells
  BY WalkFields
<1>2. PICK p \in Nat : p = walk.p
  BY WalkFields
<1>3. PICK l \in Nat : l = Len(c)
  BY LenProperties
<1>4. RecordValid <=> ValidAt(c, p)
  BY <1>1, <1>2, Zenon DEF RecordValid, ValidAt, Left, Field
<1>5. l - p >= RecLen => c[p + 1] \in Nat /\ c[p + 2] \in Nat
  <2>1. \A x \in 1 .. l : c[x] \in Nat
    BY <1>3, ElementOfSeq, CellsAreDigests
  <2> QED
    BY <2>1 DEF RecLen
<1>6. RecordReadable <=> ValidAt(c, p)
  <2>1. RecordReadable <=>
          /\ l - p >= RecLen
          /\ ~ (\/ c[p + 1] # DigestLen
                \/ c[p + 2] > Threshold
                \/ l - p - RecLen < c[p + 1] + c[p + 2])
    BY <1>1, <1>2, <1>3 DEF RecordReadable, Left, Field
  <2>2. ValidAt(c, p) <=>
          /\ l - p >= RecLen
          /\ c[p + 1] = DigestLen
          /\ c[p + 2] <= Threshold
          /\ l - p - RecLen >= c[p + 1] + c[p + 2]
    BY <1>3 DEF ValidAt
  <2> QED
    BY <1>5, <2>1, <2>2, ZoneParameters DEF RecLen, DigestLen
<1>7. ASSUME ValidAt(c, p)
      PROVE  /\ Advanced \in Walk
             /\ Advanced = [walk EXCEPT !.p = After(c, p), !.i = walk.i + 1]
  <2>1. c[p + 1] = 1 /\ c[p + 2] \in Nat /\ After(c, p) = p + 5 + c[p + 2]
    BY <1>7, ValidRecord
  <2>2. PICK a \in Nat : a = After(c, p)
    BY <1>7, ValidRecord
  <2>3. walk.p + Stride = a
    <3>1. Stride = 4 + c[p + 1] + c[p + 2]
      BY <1>1, <1>2 DEF Stride, Field, RecLen
    <3>2. PICK m \in Nat : m = c[p + 2]
      BY <2>1
    <3>3. Stride = 5 + m
      BY <2>1, <3>1, <3>2
    <3>4. a = p + 5 + m
      BY <2>1, <2>2, <3>2
    <3> QED
      BY <1>2, <3>3, <3>4
  <2>4. PICK j \in Nat : j = walk.i + 1
    BY WalkFields
  <2>5. Advanced = [walk EXCEPT !.p = a, !.i = j]
    BY <2>3, <2>4, Zenon DEF Advanced
  <2>6. Advanced \in Walk
    BY <2>5 DEF Walk
  <2> QED
    BY <2>2, <2>4, <2>5, <2>6
<1> QED
  BY <1>1, <1>2, <1>4, <1>6, <1>7

\* A round of validate_snapshot makes the path longer.
LEMMA ValidateRecordWalk ==
    ASSUME WalkInv, ValidateRecord
    PROVE  WalkInv'
<1>1. walk \in Walk /\ walk.stage = "validate" /\ walk.lost = "none"
      /\ shm = EmptyZone /\ shm' = shm /\ Worker # {} /\ walk.i < walk.records
  BY DEF WalkInv, ValidateRecord
<1>2. PICK pos : IsPath(walk.cells, walk.i, pos) /\ walk.p = pos[walk.i]
  BY <1>1 DEF WalkInv
<1>3. /\ walk.cells \in Seq(Key) /\ walk.i \in Nat /\ walk.p \in Nat
      /\ walk.records \in Nat
  BY <1>1, WalkFields
<1>4. CASE ~ RecordValid
  <2>1. walk' = [walk EXCEPT !.stage = "done", !.lost = "all"]
    BY <1>4 DEF ValidateRecord, Ignored
  <2>2. walk' \in Walk /\ walk'.stage = "done" /\ walk'.lost = "all"
    BY <1>1, <2>1 DEF Walk
  <2> QED
    BY <1>1, <2>2 DEF WalkInv
<1>5. CASE RecordValid
  <2>1. ValidAt(walk.cells, pos[walk.i])
    BY <1>1, <1>2, <1>5, AskedAlike
  <2>2. PICK a \in Nat : a = After(walk.cells, walk.p)
    BY <1>2, <1>3, <2>1, ValidRecord
  <2>3. PICK j \in Nat : /\ j = walk.i + 1
                         /\ walk' = [walk EXCEPT !.p = a, !.i = j]
    <3>1. walk' = [walk EXCEPT !.p = a, !.i = walk.i + 1]
      BY <1>1, <1>2, <1>5, <2>1, <2>2, AskedAlike DEF ValidateRecord
    <3>2. walk.i + 1 \in Nat
      BY <1>3
    <3> QED
      BY <3>1, <3>2, Zenon
  <2>4. /\ walk' \in Walk /\ walk'.stage = "validate" /\ walk'.lost = "none"
        /\ walk'.cells = walk.cells /\ walk'.i = walk.i + 1 /\ walk'.p = a
        /\ walk'.records = walk.records
    BY <1>1, <1>3, <2>3 DEF Walk
  <2>5. PICK longer : /\ IsPath(walk.cells, walk.i + 1, longer)
                      /\ longer[walk.i + 1] = a
    BY <1>2, <1>3, <2>1, <2>2, LongerPath
  <2>6. walk.i + 1 <= walk.records
    BY <1>1, <1>3
  <2> QED
    BY <1>1, <2>4, <2>5, <2>6 DEF WalkInv
<1> QED
  BY <1>4, <1>5

\* The path that fills the payload is the one load will follow.
LEMMA ValidateEndWalk ==
    ASSUME WalkInv, ValidateEnd
    PROVE  WalkInv'
<1>1. walk \in Walk /\ walk.stage = "validate" /\ walk.lost = "none"
      /\ shm' = shm /\ Worker # {} /\ walk.i = walk.records
  BY DEF WalkInv, ValidateEnd
<1>2. PICK pos : IsPath(walk.cells, walk.i, pos) /\ walk.p = pos[walk.i]
  BY <1>1 DEF WalkInv
<1>3. CASE ~ Filled
  <2>1. walk' = [walk EXCEPT !.stage = "done", !.lost = "all"]
    BY <1>3 DEF ValidateEnd, Ignored
  <2>2. walk' \in Walk /\ walk'.stage = "done" /\ walk'.lost = "all"
    BY <1>1, <2>1 DEF Walk
  <2> QED
    BY <1>1, <2>2 DEF WalkInv
<1>4. CASE Filled
  <2>1. walk' = [walk EXCEPT !.stage = "load", !.p = 0, !.i = 0]
    BY <1>4 DEF ValidateEnd
  <2>2. /\ walk' \in Walk /\ walk'.stage = "load" /\ walk'.lost = "none"
        /\ walk'.cells = walk.cells /\ walk'.i = 0 /\ walk'.p = 0
        /\ walk'.records = walk.records /\ walk.records \in Nat
    BY <1>1, <2>1 DEF Walk
  <2>3. /\ IsPath(walk.cells, walk.records, pos) /\ pos[0] = 0
        /\ pos[walk.records] = Len(walk.cells)
    BY <1>1, <1>2, <1>4 DEF Filled, IsPath
  <2>4. 0 <= walk.records
    BY <2>2
  <2> QED
    BY <1>1, <2>2, <2>3, <2>4 DEF WalkInv
<1> QED
  BY <1>3, <1>4

\* The record at p is complete while the walk of the load is inside the path.
LEMMA LoadReads ==
    ASSUME WalkInv, walk.stage = "load", walk.i < walk.records
    PROVE  /\ ValidAt(walk.cells, walk.p) /\ RecordReadable
           /\ \E pos : /\ IsPath(walk.cells, walk.records, pos)
                       /\ pos[walk.records] = Len(walk.cells)
                       /\ walk.p = pos[walk.i]
                       /\ After(walk.cells, walk.p) = pos[walk.i + 1]
<1>1. walk \in Walk /\ walk.i \in Nat /\ walk.records \in Nat
  BY WalkFields DEF WalkInv
<1>2. PICK pos : /\ IsPath(walk.cells, walk.records, pos)
                 /\ pos[walk.records] = Len(walk.cells)
                 /\ walk.p = pos[walk.i]
  BY DEF WalkInv
<1>3. walk.i + 1 \in 1 .. walk.records /\ (walk.i + 1) - 1 = walk.i
  BY <1>1
<1>4. /\ ValidAt(walk.cells, pos[walk.i])
      /\ pos[walk.i + 1] = After(walk.cells, pos[walk.i])
  BY <1>2, <1>3 DEF IsPath
<1> QED
  BY <1>1, <1>2, <1>4, AskedAlike

\* A round of the load goes on, or ends for want of room.
LEMMA LoadStepMoves ==
    ASSUME WalkInv, LoadStep
    PROVE  /\ walk \in Walk /\ walk.stage = "load" /\ walk.i < walk.records
           /\ walk.lost = "none" /\ Worker # {}
           /\ \/ walk' = Advanced
              \/ /\ walk' = [walk EXCEPT !.stage = "done", !.lost = "full"]
                 /\ ~ Spent(Decoded.node, now[CHOOSE w \in Worker : TRUE])
                 /\ Decoded.key \notin
                       DOMAIN Loaded(shm, Decoded,
                                     now[CHOOSE w \in Worker : TRUE]).node
<1> DEFINE t == now[CHOOSE w \in Worker : TRUE]
           y == Loaded(shm, Decoded, t)
           passed == ~ RecordReadable \/ Spent(Decoded.node, t)
<1>1. walk.stage = "load" /\ walk.i < walk.records
  BY DEF LoadStep
<1>2. walk \in Walk /\ Worker # {} /\ walk.lost = "none"
  BY <1>1 DEF WalkInv
<1>3. RecordReadable
  BY <1>1, LoadReads
<1>4. walk' = CASE ~ RecordReadable ->
                      [walk EXCEPT !.stage = "done", !.lost = "short"]
                [] RecordReadable /\ ~ passed
                       /\ Decoded.key \notin DOMAIN y.node ->
                      [walk EXCEPT !.stage = "done", !.lost = "full"]
                [] OTHER -> Advanced
  BY Zenon DEF LoadStep
<1> HIDE DEF y
<1>5. \/ walk' = Advanced
      \/ /\ walk' = [walk EXCEPT !.stage = "done", !.lost = "full"]
         /\ ~ Spent(Decoded.node, t)
         /\ Decoded.key \notin DOMAIN y.node
  BY <1>3, <1>4
<1> QED
  BY <1>1, <1>2, <1>5 DEF y

\* A round of load goes to the next place on the path.
LEMMA LoadStepWalk ==
    ASSUME WalkInv, LoadStep
    PROVE  WalkInv'
<1>1. /\ walk \in Walk /\ walk.stage = "load" /\ walk.i < walk.records
      /\ walk.lost = "none" /\ Worker # {}
  BY LoadStepMoves
<1>2. /\ walk.cells \in Seq(Key) /\ walk.i \in Nat /\ walk.p \in Nat
      /\ walk.records \in Nat
  BY <1>1, WalkFields
<1>3. CASE walk' = [walk EXCEPT !.stage = "done", !.lost = "full"]
  <2>1. walk' \in Walk /\ walk'.stage = "done" /\ walk'.lost = "full"
    BY <1>1, <1>3 DEF Walk
  <2> QED
    BY <1>1, <2>1 DEF WalkInv
<1>4. CASE walk' = Advanced
  <2>1. ValidAt(walk.cells, walk.p)
    BY <1>1, LoadReads
  <2>2. PICK pos : /\ IsPath(walk.cells, walk.records, pos)
                   /\ pos[walk.records] = Len(walk.cells)
                   /\ walk.p = pos[walk.i]
                   /\ After(walk.cells, walk.p) = pos[walk.i + 1]
    BY <1>1, LoadReads
  <2>3. PICK a \in Nat : a = After(walk.cells, walk.p)
    BY <1>2, <2>1, ValidRecord
  <2>4. PICK j \in Nat : /\ j = walk.i + 1
                         /\ walk' = [walk EXCEPT !.p = a, !.i = j]
    <3>1. walk' = [walk EXCEPT !.p = a, !.i = walk.i + 1]
      BY <1>1, <1>4, <2>1, <2>3, AskedAlike
    <3>2. walk.i + 1 \in Nat
      BY <1>2
    <3> QED
      BY <3>1, <3>2, Zenon
  <2>5. /\ walk' \in Walk /\ walk'.stage = "load" /\ walk'.lost = "none"
        /\ walk'.cells = walk.cells /\ walk'.i = walk.i + 1 /\ walk'.p = a
        /\ walk'.records = walk.records
    BY <1>1, <1>2, <2>4 DEF Walk
  <2>6. walk.i + 1 <= walk.records
    BY <1>1, <1>2
  <2> QED
    BY <1>1, <2>2, <2>3, <2>5, <2>6 DEF WalkInv
<1> QED
  BY <1>3, <1>4, LoadStepMoves

\* The end of the path is the end of the cells.
LEMMA LoadEndWalk ==
    ASSUME WalkInv, LoadEnd
    PROVE  WalkInv'
<1>1. walk \in Walk /\ walk.stage = "load" /\ walk.lost = "none"
      /\ Worker # {} /\ walk.i = walk.records
  BY DEF WalkInv, LoadEnd
<1>2. walk.p = Len(walk.cells)
  BY <1>1 DEF WalkInv
<1>3. walk' = [walk EXCEPT !.stage = "done"]
  BY DEF LoadEnd
<1>4. walk' \in Walk /\ walk'.stage = "done" /\ walk'.lost = "none"
      /\ walk'.p = walk.p /\ walk'.cells = walk.cells
  BY <1>1, <1>3 DEF Walk
<1> QED
  BY <1>1, <1>2, <1>4 DEF WalkInv

\* In the stage where the workers run, only the type of the walk matters.
LEMMA RunningWalk ==
    ASSUME walk' \in Walk, walk'.stage = "run"
    PROVE  WalkInv'
BY DEF WalkInv

\* The walk that does nothing.
LEMMA IdleIsWalk == Idle \in Walk /\ Idle.stage = "run"
<1>1. <<>> \in Seq(Key) /\ Threshold \in Nat
  BY ZoneParameters
<1> QED
  BY <1>1 DEF Idle, Walk

\* The record a load decodes.
LEMMA DecodedIsRecord ==
    ASSUME walk \in Walk, ValidAt(walk.cells, walk.p)
    PROVE  IsRecord(Decoded)
<1>1. PICK c \in Seq(Key) : c = walk.cells
  BY WalkFields
<1>2. PICK p \in Nat : p = walk.p
  BY WalkFields
<1>3. PICK m \in Nat : m = c[p + 2]
  BY <1>1, <1>2, ValidRecord
<1>4. /\ c[p + 1] = 1 /\ m <= Threshold
      /\ \A j \in 1 .. 5 + m : c[p + j] \in Key
  BY <1>1, <1>2, <1>3, ValidRecord
<1>5. Stride = 5 + m
  BY <1>1, <1>2, <1>3, <1>4 DEF Stride, Field, RecLen
<1>6. PICK e : e = SubSeq(c, p + 5 + 1, p + (5 + m))
  OBVIOUS
<1>7. p + RecLen + DigestLen + 1 = p + 5 + 1
  BY DEF RecLen, DigestLen
<1>8. Decoded = [key |-> c[p + 5],
                 node |-> [blocked_until |-> c[p + 3], last_seen |-> c[p + 4],
                           events |-> e]]
  BY <1>1, <1>2, <1>5, <1>6, <1>7 DEF Decoded, Field
<1>9. e \in Seq(Nat) /\ Len(e) = m
  <2>1. \A i \in p + 5 + 1 .. p + (5 + m) : c[i] \in Nat
    <3>1. ASSUME NEW i \in p + 5 + 1 .. p + (5 + m) PROVE c[i] \in Nat
      <4>1. i - p \in 1 .. 5 + m /\ p + (i - p) = i
        OBVIOUS
      <4> QED
        BY <1>4, <4>1, CellsAreDigests
    <3> QED
      BY <3>1
  <2>2. p + 5 + 1 \in Int /\ p + (5 + m) \in Int
    OBVIOUS
  <2>3. /\ e \in Seq(Nat)
        /\ Len(e) = IF p + 5 + 1 <= p + (5 + m)
                    THEN p + (5 + m) - (p + 5 + 1) + 1 ELSE 0
    BY <1>6, <2>1, <2>2, SubSeqProperties
  <2> QED
    BY <2>3
<1>10. c[p + 3] \in Nat /\ c[p + 4] \in Nat /\ c[p + 5] \in Key
  <2>1. 3 \in 1 .. 5 + m /\ 4 \in 1 .. 5 + m /\ 5 \in 1 .. 5 + m
    OBVIOUS
  <2>2. c[p + 3] \in Key /\ c[p + 4] \in Key /\ c[p + 5] \in Key
    BY <1>4, <2>1
  <2> QED
    BY <2>2, CellsAreDigests
<1> QED
  BY <1>4, <1>8, <1>9, <1>10 DEF IsRecord

-----------------------------------------------------------------------------
(***************************************************************************)
(* The invariant.                                                          *)
(***************************************************************************)

\* A round of the load keeps a zone with rings.
LEMMA LoadStepZone ==
    ASSUME IInv, LoadStep
    PROVE  RingZone(shm')
<1> DEFINE t == now[CHOOSE w \in Worker : TRUE]
<1>1. /\ walk \in Walk /\ walk.stage = "load" /\ walk.i < walk.records
      /\ Worker # {}
  BY LoadStepMoves DEF IInv
<1>2. t \in Time
  <2>1. (CHOOSE w \in Worker : TRUE) \in Worker
    BY <1>1, Zenon
  <2> QED
    BY <2>1, CachedIsTime DEF IInv
<1>3. IsRecord(Decoded)
  BY <1>1, LoadReads, DecodedIsRecord DEF IInv
<1> HIDE DEF t
<1>4. RingZone(Loaded(shm, Decoded, t))
  BY <1>2, <1>3, LoadedAlike DEF IInv
<1>5. shm' = shm \/ shm' = Loaded(shm, Decoded, t)
  BY Zenon DEF LoadStep, t
<1> QED
  BY <1>4, <1>5 DEF IInv

\* Every step keeps the invariant.
LEMMA NextIInv == IInv /\ [ScanNext]_scanvars => IInv'
<1> SUFFICES ASSUME IInv, [ScanNext]_scanvars PROVE IInv'
  OBVIOUS
<1>1. ClocksInv /\ RingZone(shm) /\ WalkInv /\ walk \in Walk
  BY DEF IInv, WalkInv
<1>2. CASE Running /\ RingNext /\ UNCHANGED <<walk, saved, genuine>>
  <2>1. WalkInv'
    BY <1>1, <1>2, RunningWalk DEF Running
  <2>2. CASE Passes
    <3>1. ClocksInv'
      BY <1>1, <2>2, PassesClocks
    <3>2. shm' = shm
      BY <2>2 DEF Passes
    <3> QED
      BY <1>1, <2>1, <3>1, <3>2 DEF IInv
  <2>3. CASE \E w \in Worker, k \in Client :
                RingDoRecord(w, k) \/ RingDoIsBlocked(w, k)
    <3>1. PICK w \in Worker, k \in Client :
                RingDoRecord(w, k) \/ RingDoIsBlocked(w, k)
      BY <2>3
    <3>2. k \in Key /\ now[w] \in Time
      BY <1>1, ClientsAreKeys, CachedIsTime
    <3>3. /\ RingZone(RingRecord(shm, k, now[w]))
          /\ RingZone(RingIsBlocked(shm, k, now[w]))
      BY <1>1, <3>2, RingRecordAlike, RingIsBlockedAlike
    <3>4. RingZone(shm') /\ clock' = clock /\ now' = now
      BY <3>1, <3>3 DEF RingDoRecord, RingDoIsBlocked
    <3> QED
      BY <1>1, <2>1, <3>4 DEF IInv, ClocksInv
  <2> QED
    BY <1>2, <2>2, <2>3 DEF RingNext
<1>3. CASE Save
  <2>1. WalkInv' /\ shm' = EmptyZone /\ clock' = clock /\ now' = now
    BY <1>3, SaveWalk DEF Save
  <2> QED
    BY <1>1, <2>1, EmptyIsRingZone DEF IInv, ClocksInv
<1>4. CASE Wait
  <2>1. ClocksInv' /\ shm' = shm /\ walk' = walk
    BY <1>1, <1>4, PassesClocks DEF Wait, Passes
  <2> QED
    BY <1>1, <2>1 DEF IInv, WalkInv
<1>5. CASE Damage
  <2>1. WalkInv' /\ shm' = shm /\ clock' = clock /\ now' = now
    BY <1>1, <1>5, DamageWalk DEF Damage
  <2> QED
    BY <1>1, <2>1 DEF IInv, ClocksInv
<1>6. CASE \E w \in Worker : Restart(w)
  <2>1. PICK w \in Worker : Restart(w)
    BY <1>6
  <2>2. WalkInv' /\ shm' = shm /\ clock' = clock
        /\ now' = [v \in Worker |-> now[w]]
    BY <1>1, <2>1, RestartWalk DEF Restart
  <2>3. ClocksInv'
    BY <1>1, <2>2 DEF ClocksInv
  <2> QED
    BY <1>1, <2>2, <2>3 DEF IInv
<1>7. CASE ValidateRecord
  <2>1. WalkInv' /\ shm' = shm /\ clock' = clock /\ now' = now
    BY <1>1, <1>7, ValidateRecordWalk DEF ValidateRecord
  <2> QED
    BY <1>1, <2>1 DEF IInv, ClocksInv
<1>8. CASE ValidateEnd
  <2>1. WalkInv' /\ shm' = shm /\ clock' = clock /\ now' = now
    BY <1>1, <1>8, ValidateEndWalk DEF ValidateEnd
  <2> QED
    BY <1>1, <2>1 DEF IInv, ClocksInv
<1>9. CASE LoadStep
  <2>1. WalkInv' /\ RingZone(shm')
    BY <1>1, <1>9, LoadStepWalk, LoadStepZone
  <2>2. clock' = clock /\ now' = now
    BY <1>9 DEF LoadStep
  <2> QED
    BY <1>1, <2>1, <2>2 DEF IInv, ClocksInv
<1>10. CASE LoadEnd
  <2>1. WalkInv' /\ shm' = shm /\ clock' = clock /\ now' = now
    BY <1>1, <1>10, LoadEndWalk DEF LoadEnd
  <2> QED
    BY <1>1, <2>1 DEF IInv, ClocksInv
<1>11. CASE Start
  <2>1. WalkInv'
    BY <1>11, RunningWalk, IdleIsWalk DEF Start
  <2>2. shm' = shm /\ clock' = clock /\ now' = now
    BY <1>11 DEF Start
  <2> QED
    BY <1>1, <2>1, <2>2 DEF IInv, ClocksInv
<1>12. CASE UNCHANGED scanvars
  BY <1>1, <1>12 DEF IInv, ClocksInv, WalkInv, scanvars
<1> QED
  BY <1>2, <1>3, <1>4, <1>5, <1>6, <1>7, <1>8, <1>9, <1>10, <1>11, <1>12
     DEF ScanNext

\* The invariant of the zone and the walk: a zone with rings is well linked
\* and every ring is a ring, also after the load of a damaged file, and a walk
\* has nothing but complete records behind it.
THEOREM Invariance == ScanSpec => []IInv
<1> QED
  BY InitIInv, NextIInv, PTL DEF ScanSpec

\* LoadLandsOnLast: once validate_snapshot() has accepted a file, load() meets
\* no record it must refuse, and its stride lands on the end.
THEOREM LoadsLandOnLast == ScanSpec => []LoadLandsOnLast
<1>1. IInv => LoadLandsOnLast
  BY DEF IInv, WalkInv, LoadLandsOnLast
<1> QED
  BY <1>1, Invariance, PTL

-----------------------------------------------------------------------------
(***************************************************************************)
(* Rings implement the zone.                                               *)
(***************************************************************************)

\* The operations of the zone that ErrorAbuseZone names are those of this
\* module.
LEMMA SameOperations ==
    /\ \A z, k, t : Abstract!Record(z, k, t) = Record(z, k, t)
    /\ \A z, k, t : Abstract!IsBlocked(z, k, t) = IsBlocked(z, k, t)
<1>1. \A a, b : Abstract!TimeAddSaturate(a, b) = TimeAddSaturate(a, b)
  BY DEF Abstract!TimeAddSaturate, TimeAddSaturate
<1>2. \A n, t : /\ Abstract!Banned(n, t) <=> Banned(n, t)
                /\ Abstract!Expirable(n, t) <=> Expirable(n, t)
  BY <1>1 DEF Abstract!Banned, Banned, Abstract!Expirable, Expirable
<1>3. \A f, s : Abstract!WithoutNodes(f, s) = WithoutNodes(f, s)
  BY DEF Abstract!WithoutNodes, WithoutNodes, Abstract!Restrict, Restrict
<1>4. \A q, m : Abstract!TailKeys(q, m) = TailKeys(q, m)
  BY Zenon DEF Abstract!TailKeys, TailKeys
<1>5. \A z, t, l : Abstract!ExpireRun(z, t, l) = ExpireRun(z, t, l)
  BY DEF Abstract!ExpireRun, ExpireRun, Abstract!Expirable, Expirable,
         Abstract!Banned, Banned, Abstract!TimeAddSaturate, TimeAddSaturate
<1>6. \A z, t, l : Abstract!Expire(z, t, l) = Expire(z, t, l)
  BY <1>3, <1>4, <1>5 DEF Abstract!Expire, Expire
<1>7. \A z, t : Abstract!BannedRun(z, t) = BannedRun(z, t)
  BY <1>2 DEF Abstract!BannedRun, BannedRun
<1>8. \A q, i, j : Abstract!Splice(q, i, j) = Splice(q, i, j)
  BY DEF Abstract!Splice, Splice
<1>9. \A z, t : Abstract!EvictOneUnblocked(z, t) = EvictOneUnblocked(z, t)
  BY <1>3, <1>7, <1>8 DEF Abstract!EvictOneUnblocked, EvictOneUnblocked
<1>10. \A z : Abstract!Full(z) <=> Full(z)
  BY DEF Abstract!Full, Full
<1>11. \A z, t : Abstract!MakeRoom(z, t) = MakeRoom(z, t)
  BY <1>6, <1>9, <1>10 DEF Abstract!MakeRoom, MakeRoom
<1>12. \A z, k, t : Abstract!CreateNode(z, k, t) = CreateNode(z, k, t)
  BY <1>10, <1>11 DEF Abstract!CreateNode, CreateNode, Abstract!ZeroNode,
                      ZeroNode
<1>13. \A q, k : Abstract!Touch(q, k) = Touch(q, k)
  BY DEF Abstract!Touch, Touch, Abstract!Position, Position,
         Abstract!RemoveAt, RemoveAt
<1>14. \A z, k, t : Abstract!FindTouch(z, k, t) = FindTouch(z, k, t)
  BY <1>6, <1>13 DEF Abstract!FindTouch, FindTouch
<1>15. \A z, k, n : Abstract!SetNode(z, k, n) = SetNode(z, k, n)
  BY DEF Abstract!SetNode, SetNode
<1>16. \A e, t : Abstract!PruneEvents(e, t) = PruneEvents(e, t)
  BY DEF Abstract!PruneEvents, PruneEvents, Abstract!StaleRun, StaleRun
<1>17. \A n, t : Abstract!LiveEvents(n, t) = LiveEvents(n, t)
  BY <1>16 DEF Abstract!LiveEvents, LiveEvents
<1>18. \A n, t : /\ Abstract!CountError(n, t) = CountError(n, t)
                 /\ Abstract!SettleNode(n, t) = SettleNode(n, t)
  BY <1>1, <1>17 DEF Abstract!CountError, CountError, Abstract!SettleNode,
                     SettleNode
<1>19. \A z, k, t : Abstract!Tracking(z, k, t) = Tracking(z, k, t)
  BY <1>12, <1>14 DEF Abstract!Tracking, Tracking
<1> QED
  BY <1>2, <1>14, <1>15, <1>18, <1>19
     DEF Abstract!Record, Record, Abstract!IsBlocked, IsBlocked

\* A call on rings is a call of ErrorAbuseZone.
LEMMA StepOnRings ==
    ASSUME IInv, [ScanNext]_scanvars
    PROVE  Running /\ walk'.stage = "run" => [Abstract!Next]_(Abstract!vars)
<1> SUFFICES ASSUME Running, walk'.stage = "run"
             PROVE  [Abstract!Next]_(Abstract!vars)
  OBVIOUS
<1>1. ClocksInv /\ RingZone(shm) /\ walk.stage = "run"
  BY DEF IInv, Running
<1>2. CASE UNCHANGED scanvars
  BY <1>2 DEF scanvars, Abstract!vars
<1>3. CASE RingNext
  <2>1. CASE Passes
    BY <2>1 DEF Passes, Abstract!Next
  <2>2. CASE \E w \in Worker, k \in Client :
                RingDoRecord(w, k) \/ RingDoIsBlocked(w, k)
    <3>1. PICK w \in Worker, k \in Client :
                RingDoRecord(w, k) \/ RingDoIsBlocked(w, k)
      BY <2>2
    <3>2. k \in Key /\ now[w] \in Time
      BY <1>1, ClientsAreKeys, CachedIsTime
    <3>3. CASE RingDoRecord(w, k)
      <4>1. Plain(shm') = Abstract!Record(Plain(shm), k, now[w])
        BY <1>1, <3>2, <3>3, RingRecordAlike, SameOperations DEF RingDoRecord
      <4>2. Abstract!DoRecord(w, k)
        BY <3>3, <4>1 DEF RingDoRecord, Abstract!DoRecord
      <4> QED
        BY <3>2, <4>2 DEF Abstract!Next
    <3>4. CASE RingDoIsBlocked(w, k)
      <4>1. Plain(shm') = Abstract!IsBlocked(Plain(shm), k, now[w])
        BY <1>1, <3>2, <3>4, RingIsBlockedAlike, SameOperations
           DEF RingDoIsBlocked
      <4>2. Abstract!DoIsBlocked(w, k)
        BY <3>4, <4>1 DEF RingDoIsBlocked, Abstract!DoIsBlocked
      <4> QED
        BY <3>2, <4>2 DEF Abstract!Next
    <3> QED
      BY <3>1, <3>3, <3>4
  <2> QED
    BY <1>3, <2>1, <2>2 DEF RingNext
<1>4. CASE Save
  <2>1. walk'.stage = "down"
    BY <1>4 DEF Save, Idle
  <2> QED
    BY <2>1
<1> QED
  BY <1>1, <1>2, <1>3, <1>4
     DEF ScanNext, Wait, Damage, Down, Restart, ValidateRecord, ValidateEnd,
         LoadStep, LoadEnd, Start

\* RingsImplementZone: whatever the rings hold and wherever they begin, also
\* after a load, a call on them is the call of ErrorAbuseZone on their entries.
THEOREM RingsAlwaysImplementZone == ScanSpec => RingsImplementZone
<1>1. IInv /\ [ScanNext]_scanvars
         => [Running /\ walk'.stage = "run"
                => [Abstract!Next]_(Abstract!vars)]_scanvars
  BY StepOnRings
<1> QED
  BY <1>1, Invariance, PTL DEF ScanSpec, RingsImplementZone

-----------------------------------------------------------------------------
(***************************************************************************)
(* A snapshot that nothing has damaged.                                    *)
(***************************************************************************)

\* The records of such a snapshot are valid, one behind the other.
LEMMA LaidIsValid ==
    ASSUME NEW z, RingZone(z), NEW cells \in Seq(Key), NEW pos,
           Lays(cells, z, pos), NEW i \in Nat, i < Len(z.queue)
    PROVE  /\ pos[i] \in Nat /\ pos[i + 1] \in Nat
           /\ ValidAt(cells, pos[i])
           /\ After(cells, pos[i]) = pos[i + 1]
<1>1. PICK n \in Nat : n = Len(z.queue) /\ i < n
  BY LenProperties DEF RingZone
<1>2. PICK k : k = z.queue[n + 1 - (i + 1)]
  OBVIOUS
<1>3. k \in Key /\ z.node[k] \in RNode
  <2>1. n + 1 - (i + 1) \in 1 .. n
    <3>1. i \in Nat /\ n \in Nat /\ i < n
      BY <1>1
    <3> QED
      BY <3>1
  <2>2. k \in DOMAIN z.node
    BY <1>1, <1>2, <2>1, WellLinkedDef DEF RingZone, Elems
  <2> QED
    BY <2>2 DEF RingZone
<1>4. PICK s : s = Put(k, z.node[k])
  OBVIOUS
<1>5. PICK m \in Nat : m = z.node[k].events.count /\ m <= Threshold
  BY <1>3, PlainNodeFacts, RingFields
<1>6. s[1] = 1 /\ s[2] = m
  BY <1>3, <1>4, <1>5, PutFacts DEF DigestLen
<1>7. i + 1 \in 1 .. n /\ (i + 1) - 1 = i /\ i \in 0 .. n /\ i + 1 \in 0 .. n
  BY <1>1
<1>8. pos \in [0 .. n -> Nat]
  BY <1>1, Zenon DEF Lays
<1>9. PICK p \in Nat : p = pos[i]
  BY <1>7, <1>8
<1>10. /\ pos[i + 1] = p + 5 + m
       /\ pos[i + 1] <= Len(cells)
       /\ \A x \in 1 .. 5 + m : cells[p + x] = s[x]
  BY <1>1, <1>2, <1>4, <1>5, <1>7, <1>9 DEF Lays
<1>11. cells[p + 1] = 1 /\ cells[p + 2] = m
  <2>1. 1 \in 1 .. 5 + m /\ 2 \in 1 .. 5 + m
    OBVIOUS
  <2> QED
    BY <1>6, <1>10, <2>1
<1>12. PICK l \in Nat : l = Len(cells)
  BY LenProperties
<1>13. ValidAt(cells, p)
  <2>1. p + 5 + m <= l
    BY <1>10, <1>12
  <2>2. l - p >= 4 /\ l - p - 4 >= 1 + m
    BY <2>1
  <2> QED
    BY <1>5, <1>11, <1>12, <2>2 DEF ValidAt, RecLen, DigestLen
<1>14. After(cells, p) = p + 5 + m
  BY <1>11 DEF After, RecLen
<1> QED
  BY <1>9, <1>10, <1>13, <1>14

\* The load decodes record i as it was saved.
LEMMA LaidIsDecoded ==
    ASSUME walk \in Walk, NEW z, RingZone(z), NEW pos,
           Lays(walk.cells, z, pos), walk.i < Len(z.queue),
           walk.p = pos[walk.i]
    PROVE  /\ Decoded = Serialize(Plain(z))[walk.i + 1]
           /\ Len(Serialize(Plain(z))) = Len(z.queue)
<1>1. PICK n \in Nat : n = Len(z.queue)
  BY LenProperties DEF RingZone
<1>2. PICK i \in Nat : i = walk.i /\ i < n
  BY <1>1, WalkFields
<1>3. PICK c \in Seq(Key) : c = walk.cells
  BY WalkFields
<1>4. PICK k : k = z.queue[n + 1 - (i + 1)]
  OBVIOUS
<1>5. k \in Key /\ k \in DOMAIN z.node /\ z.node[k] \in RNode
  <2>1. n + 1 - (i + 1) \in 1 .. n
    BY <1>1, <1>2
  <2>2. k \in DOMAIN z.node
    BY <1>1, <1>4, <2>1, WellLinkedDef DEF RingZone, Elems
  <2> QED
    BY <2>2 DEF RingZone
<1>6. PICK a \in RNode : a = z.node[k]
  BY <1>5
<1>7. PICK s : s = Put(k, a)
  OBVIOUS
<1>8. PICK m \in Nat : m = a.events.count
  BY PlainNodeFacts, RingFields
<1>9. PICK e \in Seq(Time) : e = Entries(a.events) /\ Len(e) = m
  BY <1>8, PlainNodeFacts, EntriesFacts
<1>10. /\ s[2] = m /\ s[1] = 1
       /\ s[3] = a.blocked_until /\ s[4] = a.last_seen /\ s[5] = k
       /\ \A j \in 1 .. m : s[5 + j] = e[j]
  <2>1. /\ s[1] = DigestLen /\ s[2] = a.events.count
        /\ s[3] = a.blocked_until /\ s[4] = a.last_seen /\ s[5] = k
        /\ \A j \in 1 .. a.events.count : s[5 + j] = Entries(a.events)[j]
    BY <1>5, <1>7, PutFacts
  <2> QED
    BY <1>8, <1>9, <2>1 DEF DigestLen
<1>11. PICK p \in Nat : p = walk.p /\ p = pos[i]
  BY <1>2, WalkFields
<1>12. \A x \in 1 .. 5 + m : c[p + x] = s[x]
  <2>1. i + 1 \in 1 .. n /\ (i + 1) - 1 = i
    BY <1>1, <1>2
  <2> QED
    BY <1>1, <1>3, <1>4, <1>6, <1>7, <1>8, <1>11, <2>1 DEF Lays
<1>13. /\ c[p + 1] = 1 /\ c[p + 2] = m /\ c[p + 3] = a.blocked_until
       /\ c[p + 4] = a.last_seen /\ c[p + 5] = k
  <2>1. /\ 1 \in 1 .. 5 + m /\ 2 \in 1 .. 5 + m /\ 3 \in 1 .. 5 + m
        /\ 4 \in 1 .. 5 + m /\ 5 \in 1 .. 5 + m
    OBVIOUS
  <2> QED
    BY <1>10, <1>12, <2>1
<1>14. PICK d : d = SubSeq(c, p + 5 + 1, p + (5 + m))
  OBVIOUS
<1>15. d = e
  <2>1. \A j \in 1 .. m : c[p + 5 + j] = e[j]
    <3>1. ASSUME NEW j \in 1 .. m PROVE c[p + 5 + j] = e[j]
      <4>1. 5 + j \in 1 .. 5 + m /\ p + (5 + j) = p + 5 + j
        OBVIOUS
      <4> QED
        BY <1>10, <1>12, <4>1
    <3> QED
      BY <3>1
  <2>2. /\ p + 5 + 1 \in Int /\ p + (5 + m) \in Int
        /\ \A y \in p + 5 + 1 .. p + (5 + m) : c[y] \in Time
    <3>1. ASSUME NEW y \in p + 5 + 1 .. p + (5 + m) PROVE c[y] \in Time
      <4>1. PICK j \in 1 .. m : y = p + 5 + j
        <5>1. y - p - 5 \in 1 .. m /\ y = p + 5 + (y - p - 5)
          OBVIOUS
        <5> QED
          BY <5>1
      <4> QED
        BY <1>9, <2>1, <4>1, ElementOfSeq
    <3> QED
      BY <3>1
  <2>3. PICK u \in Int, v \in Int : u = p + 5 + 1 /\ v = p + (5 + m)
    BY <2>2
  <2>4. /\ d \in Seq(Time)
        /\ Len(d) = IF u <= v THEN v - u + 1 ELSE 0
        /\ \A j \in 1 .. v - u + 1 : d[j] = c[u + j - 1]
    <3>1. \A y \in u .. v : c[y] \in Time
      BY <2>2, <2>3
    <3>2. d = SubSeq(c, u, v)
      BY <1>14, <2>3
    <3> QED
      BY <3>1, <3>2, SubSeqProperties
  <2>5. Len(d) = m
    BY <2>3, <2>4
  <2>6. ASSUME NEW j \in 1 .. m PROVE d[j] = e[j]
    <3>1. j \in 1 .. v - u + 1 /\ u + j - 1 = p + 5 + j
      BY <2>3
    <3> QED
      BY <2>1, <2>4, <3>1
  <2> QED
    BY <1>9, <2>4, <2>5, <2>6, SameSeq
<1>16. Stride = 5 + m
  BY <1>3, <1>11, <1>13 DEF Stride, Field, RecLen
<1>17. p + RecLen + DigestLen + 1 = p + 5 + 1
  BY DEF RecLen, DigestLen
<1>18. PICK b : b = [blocked_until |-> c[p + 3], last_seen |-> c[p + 4],
                     events |-> d]
  OBVIOUS
<1>19. Decoded = [key |-> c[p + 5], node |-> b]
  BY <1>3, <1>11, <1>14, <1>16, <1>17, <1>18 DEF Decoded, Field
<1>20. b = PlainNode(a)
  <2>1. b \in Node /\ b.blocked_until = a.blocked_until
        /\ b.last_seen = a.last_seen /\ b.events = e
    BY <1>13, <1>15, <1>18, PlainNodeFacts DEF Node
  <2> QED
    BY <1>9, <2>1, PlainNodeFacts, SameNode
<1>21. PICK y : y = Plain(z)
  OBVIOUS
<1>22. y.queue = z.queue /\ y.node[k] = PlainNode(a)
  BY <1>5, <1>6, <1>21, PlainFacts
<1>23. PICK r : r = Serialize(y)
  OBVIOUS
<1>24. Len(r) = n /\ r[i + 1] = [key |-> k, node |-> PlainNode(a)]
  <2>1. r = [j \in 1 .. n |-> LET h == z.queue[n + 1 - j]
                              IN  [key |-> h, node |-> y.node[h]]]
    BY <1>1, <1>22, <1>23 DEF Serialize
  <2>2. i + 1 \in 1 .. n
    BY <1>1, <1>2
  <2> QED
    BY <1>1, <1>4, <1>22, <2>1, <2>2
<1> QED
  BY <1>1, <1>2, <1>13, <1>19, <1>20, <1>21, <1>23, <1>24

\* The cached time a load works with.
LoadTime == now[CHOOSE w \in Worker : TRUE]

\* The zone is what the first i records of the snapshot load into.
HasLoaded(i) ==
    \E k : /\ IsLoadRun(k, saved, LoadTime)
           /\ LoadAll(saved, LoadTime) = k[Len(saved)].zone
           /\ k[i] = [zone |-> Plain(shm), full |-> FALSE]
           /\ Len(shm.queue) <= i

\* The zone, and where its records end, that an undamaged snapshot was made
\* of, and how far its load has come.
IsSource(z, pos) ==
    /\ RingZone(z)
    /\ Lays(walk.cells, z, pos)
    /\ walk.records = Len(z.queue)
    /\ saved = Serialize(Plain(z))
    /\ walk.stage = "down" => walk.threshold = Threshold /\ walk.crc
    /\ walk.stage \in {"validate", "load"} => walk.p = pos[walk.i]
    /\ walk.stage = "load" => HasLoaded(walk.i)
    /\ walk.stage = "done" => /\ walk.lost = "none"
                              /\ Plain(shm) = LoadAll(saved, LoadTime)

GenuineInv ==
    genuine /\ walk.stage # "run" => \E z, pos : IsSource(z, pos)

\* A record that is loaded into a zone with room for it never stays out.
LEMMA LoadedInRoom ==
    ASSUME NEW z, RingZone(z), Len(z.queue) < Capacity,
           NEW rec, IsRecord(rec), NEW t \in Time
    PROVE  LET y == Loaded(z, rec, t)
           IN  /\ rec.key \in DOMAIN y.node
               /\ Len(y.queue) <= Len(z.queue) + 1
<1>1. PICK k \in Key : k = rec.key
  BY DEF IsRecord
<1>2. PICK m : m = [Restored(rec.node, t) EXCEPT !.events = Refilled(@)]
  OBVIOUS
<1>3. ~ Full(z)
  BY ZoneLimits, LenProperties DEF RingZone, Full
<1>4. PICK x : x = CreateNode(z, k, t)
  OBVIOUS
<1>5. x.queue = <<k>> \o z.queue /\ DOMAIN x.node = DOMAIN z.node \cup {k}
  BY <1>3, <1>4, CreateInRoom
<1>6. PICK l \in Nat : l = Len(z.queue) /\ Len(<<k>> \o z.queue) = 1 + l
  <2>1. <<k>> \in Seq(Key) /\ Len(<<k>>) = 1 /\ z.queue \in Seq(Key)
    BY DEF RingZone
  <2>2. Len(<<k>> \o z.queue) = 1 + Len(z.queue) /\ Len(z.queue) \in Nat
    BY <2>1, ConcatProperties, LenProperties
  <2> QED
    BY <2>2
<1>7. PICK y : y = IF k \in DOMAIN z.node THEN z ELSE WithZeroRing(x, k)
  OBVIOUS
<1>8. k \in DOMAIN y.node /\ Len(y.queue) <= l + 1
  <2>1. CASE k \in DOMAIN z.node
    BY <1>6, <1>7, <2>1
  <2>2. CASE k \notin DOMAIN z.node
    <3>1. k \in DOMAIN x.node
      BY <1>5
    <3>2. y = [x EXCEPT !.node[k].events = ZeroRing]
      BY <1>7, <2>2, <3>1 DEF WithZeroRing
    <3>3. x = [queue |-> x.queue, node |-> x.node]
      <4>1. ~ Full(MakeRoom(z, t))
        BY <1>3 DEF MakeRoom
      <4> QED
        BY <1>4, <4>1 DEF CreateNode
    <3>4. y.queue = x.queue /\ DOMAIN y.node = DOMAIN x.node
      BY <3>2, <3>3
    <3> QED
      BY <1>5, <1>6, <3>1, <3>4
  <2> QED
    BY <2>1, <2>2
<1>9. Loaded(z, rec, t) = IF k \in DOMAIN y.node THEN SetNode(y, k, m) ELSE y
  BY <1>1, <1>2, <1>4, <1>7, Zenon DEF Loaded
<1>10. Loaded(z, rec, t) = SetNode(y, k, m)
  BY <1>8, <1>9
<1>11. PICK s : s = SetNode(y, k, m)
  OBVIOUS
<1>12. s.queue = y.queue /\ DOMAIN s.node = DOMAIN y.node
  BY <1>11 DEF SetNode
<1> QED
  BY <1>1, <1>6, <1>8, <1>10, <1>11, <1>12

\* A save, and the steps of the load that follows it.
LEMMA SaveGenuine ==
    ASSUME IInv, Save
    PROVE  GenuineInv'
<1>1. RingZone(shm)
  BY DEF IInv
<1>2. PICK pos : Lays(Payload(shm), shm, pos)
  BY <1>1, PayloadFacts
<1>3. PICK z : z = shm
  OBVIOUS
<1>4. /\ walk'.cells = Payload(z) /\ walk'.records = Len(z.queue)
      /\ walk'.stage = "down" /\ walk'.threshold = Threshold
      /\ walk'.crc = TRUE /\ saved' = Serialize(Plain(z))
  BY <1>3, Zenon DEF Save, Idle
<1>5. IsSource(z, pos)'
  BY <1>1, <1>2, <1>3, <1>4 DEF IsSource
<1> QED
  BY <1>5 DEF GenuineInv

\* Steps that leave the snapshot and the load where they are.
LEMMA StillGenuine ==
    ASSUME GenuineInv, UNCHANGED <<walk, saved, genuine>>,
           walk.stage \in {"run", "down"}
    PROVE  GenuineInv'
<1> SUFFICES ASSUME genuine, walk.stage = "down"
             PROVE  (\E z, pos : IsSource(z, pos))'
  BY DEF GenuineInv
<1>1. PICK z, pos : IsSource(z, pos)
  BY DEF GenuineInv
<1>2. IsSource(z, pos)'
  BY <1>1 DEF IsSource
<1> QED
  BY <1>2

\* Its header is accepted.
LEMMA RestartGenuine ==
    ASSUME IInv, GenuineInv, NEW w \in Worker, Restart(w)
    PROVE  GenuineInv'
<1> SUFFICES ASSUME genuine
             PROVE  (\E z, pos : IsSource(z, pos))'
  BY DEF GenuineInv, Restart
<1>1. walk \in Walk /\ walk.stage = "down" /\ walk.p = 0 /\ walk.i = 0
  BY DEF Restart, Down, IInv, WalkInv
<1>2. PICK z, pos : IsSource(z, pos)
  BY <1>1 DEF GenuineInv
<1>3. walk.threshold = Threshold /\ walk.crc
  BY <1>1, <1>2 DEF IsSource
<1>4. walk' = [walk EXCEPT !.stage = "validate"] /\ saved' = saved
  BY <1>3 DEF Restart
<1>5. /\ walk'.stage = "validate" /\ walk'.p = 0 /\ walk'.i = 0
      /\ walk'.cells = walk.cells /\ walk'.records = walk.records
  BY <1>1, <1>4 DEF Walk
<1>6. pos[0] = 0
  BY <1>2 DEF IsSource, Lays
<1>7. IsSource(z, pos)'
  BY <1>2, <1>4, <1>5, <1>6 DEF IsSource
<1> QED
  BY <1>7

\* Each of its records is valid.
LEMMA ValidateRecordGenuine ==
    ASSUME IInv, GenuineInv, ValidateRecord
    PROVE  GenuineInv'
<1> SUFFICES ASSUME genuine
             PROVE  (\E z, pos : IsSource(z, pos))'
  BY DEF GenuineInv, ValidateRecord
<1>1. walk \in Walk /\ walk.stage = "validate" /\ walk.i < walk.records
  BY DEF ValidateRecord, IInv, WalkInv
<1>2. PICK z, pos : IsSource(z, pos)
  BY <1>1 DEF GenuineInv
<1>3. /\ RingZone(z) /\ Lays(walk.cells, z, pos) /\ walk.p = pos[walk.i]
      /\ walk.i < Len(z.queue)
  BY <1>1, <1>2 DEF IsSource
<1>4. /\ walk.cells \in Seq(Key) /\ walk.i \in Nat
  BY <1>1, WalkFields
<1>5. ValidAt(walk.cells, walk.p) /\ After(walk.cells, walk.p) = pos[walk.i + 1]
  BY <1>3, <1>4, LaidIsValid
<1>6. /\ walk' = [walk EXCEPT !.p = After(walk.cells, walk.p),
                              !.i = walk.i + 1]
      /\ saved' = saved
  BY <1>1, <1>5, AskedAlike DEF ValidateRecord
<1>7. /\ walk'.stage = "validate" /\ walk'.p = pos[walk.i + 1]
      /\ walk'.i = walk.i + 1
      /\ walk'.cells = walk.cells /\ walk'.records = walk.records
  BY <1>1, <1>5, <1>6 DEF Walk
<1>8. IsSource(z, pos)'
  BY <1>2, <1>6, <1>7 DEF IsSource
<1> QED
  BY <1>8

\* They fill the payload, and the load starts on an empty zone.
LEMMA ValidateEndGenuine ==
    ASSUME IInv, GenuineInv, ValidateEnd
    PROVE  GenuineInv'
<1> SUFFICES ASSUME genuine
             PROVE  (\E z, pos : IsSource(z, pos))'
  BY DEF GenuineInv, ValidateEnd
<1>1. walk \in Walk /\ walk.stage = "validate" /\ walk.i = walk.records
      /\ shm = EmptyZone
  BY DEF ValidateEnd, IInv, WalkInv
<1>2. PICK z, pos : IsSource(z, pos)
  BY <1>1 DEF GenuineInv
<1>3. Filled
  BY <1>1, <1>2 DEF IsSource, Lays, Filled
<1>4. /\ walk' = [walk EXCEPT !.stage = "load", !.p = 0, !.i = 0]
      /\ UNCHANGED <<now, shm, saved>>
  BY <1>3 DEF ValidateEnd
<1>5. /\ walk'.stage = "load" /\ walk'.p = 0 /\ walk'.i = 0
      /\ walk'.cells = walk.cells /\ walk'.records = walk.records
  BY <1>1, <1>4 DEF Walk
<1>6. pos[0] = 0
  BY <1>2 DEF IsSource, Lays
<1>7. Len(saved) \in Nat
  <2>1. PICK n \in Nat : n = Len(z.queue)
    BY <1>2, LenProperties DEF IsSource, RingZone
  <2>2. Plain(z).queue = z.queue
    BY <1>2, PlainFacts DEF IsSource
  <2> QED
    BY <1>2, <2>1, <2>2 DEF IsSource, Serialize
<1>8. PICK k : /\ IsLoadRun(k, saved, LoadTime)
               /\ LoadAll(saved, LoadTime) = k[Len(saved)].zone
  BY <1>7, LoadRun
<1>9. k[0] = [zone |-> Plain(shm), full |-> FALSE]
  BY <1>1, <1>8, EmptyIsRingZone DEF IsLoadRun
<1>10. Len(shm.queue) = 0
  BY <1>1 DEF EmptyZone
<1>11. HasLoaded(0)
  BY <1>8, <1>9, <1>10 DEF HasLoaded
<1>12. HasLoaded(0)'
  BY <1>4, <1>11 DEF HasLoaded, LoadTime
<1>13. IsSource(z, pos)'
  BY <1>2, <1>4, <1>5, <1>6, <1>12 DEF IsSource
<1> QED
  BY <1>13

\* Each record is decoded as it was saved, and finds room.
LEMMA LoadStepGenuine ==
    ASSUME IInv, GenuineInv, LoadStep
    PROVE  GenuineInv'
<1> SUFFICES ASSUME genuine
             PROVE  (\E z, pos : IsSource(z, pos))'
  BY DEF GenuineInv, LoadStep
<1> DEFINE t == LoadTime
           i == walk.i
<1>1. /\ walk \in Walk /\ walk.stage = "load" /\ walk.i < walk.records
      /\ Worker # {} /\ RingZone(shm)
  BY LoadStepMoves DEF IInv
<1>2. PICK z, pos : IsSource(z, pos)
  BY <1>1 DEF GenuineInv
<1>3. /\ RingZone(z) /\ Lays(walk.cells, z, pos) /\ walk.p = pos[i]
      /\ i < Len(z.queue) /\ saved = Serialize(Plain(z))
  BY <1>1, <1>2 DEF IsSource
<1>4. walk.cells \in Seq(Key) /\ i \in Nat
  BY <1>1, WalkFields
<1>5. /\ ValidAt(walk.cells, walk.p)
      /\ After(walk.cells, walk.p) = pos[i + 1]
  BY <1>3, <1>4, LaidIsValid
<1>6. Decoded = saved[i + 1] /\ Len(saved) = Len(z.queue)
  BY <1>1, <1>3, LaidIsDecoded
<1>7. IsRecord(Decoded)
  BY <1>1, <1>5, DecodedIsRecord
<1>8. t \in Time
  <2>1. (CHOOSE w \in Worker : TRUE) \in Worker
    BY <1>1, Zenon
  <2> QED
    BY <2>1, CachedIsTime DEF IInv, LoadTime
<1>9. Len(shm.queue) <= i /\ Len(shm.queue) < Capacity
  <2>1. Len(shm.queue) <= i
    BY <1>1, <1>2 DEF IsSource, HasLoaded
  <2>2. PICK l \in Nat : l = Len(shm.queue)
    BY <1>1, LenProperties DEF RingZone
  <2>3. PICK n \in Nat : n = Len(z.queue) /\ n <= Capacity
    BY <1>3, LenProperties DEF RingZone, WellLinked
  <2> QED
    BY <1>3, <1>4, <2>1, <2>2, <2>3, ZoneLimits
<1> HIDE DEF t
<1>10. PICK y : y = Loaded(shm, Decoded, t)
  OBVIOUS
<1>11. /\ Decoded.key \in DOMAIN y.node
       /\ Len(y.queue) <= Len(shm.queue) + 1
  BY <1>1, <1>7, <1>8, <1>9, <1>10, LoadedInRoom
<1>12. PICK k : /\ IsLoadRun(k, saved, t)
                /\ LoadAll(saved, t) = k[Len(saved)].zone
                /\ k[i] = [zone |-> Plain(shm), full |-> FALSE]
  BY <1>1, <1>2 DEF IsSource, HasLoaded, t
<1>13. k[i + 1] = LoadRecord([zone |-> Plain(shm), full |-> FALSE], Decoded, t)
  <2>1. PICK n \in Nat : n = Len(saved) /\ i < n
    BY <1>3, <1>6, LenProperties DEF RingZone
  <2>2. i + 1 \in 1 .. n /\ (i + 1) - 1 = i
    BY <1>4, <2>1
  <2>3. k[i + 1] = LoadRecord(k[(i + 1) - 1], saved[i + 1], t)
    BY <1>12, <2>1, <2>2 DEF IsLoadRun
  <2> QED
    BY <1>6, <1>12, <2>2, <2>3
<1>14. RecordReadable
  BY <1>1, <1>5, AskedAlike
<1>15. shm' = IF Spent(Decoded.node, t) THEN shm ELSE y
  <2>1. shm' = IF ~ RecordReadable \/ Spent(Decoded.node, t)
               THEN shm ELSE Loaded(shm, Decoded, t)
    BY Zenon DEF LoadStep, t, LoadTime
  <2> QED
    BY <1>10, <1>14, <2>1
<1>16. walk' = Advanced
  <2>1. walk' = Advanced \/ Decoded.key \notin DOMAIN y.node
    BY <1>10, LoadStepMoves DEF IInv, t, LoadTime
  <2> QED
    BY <1>11, <2>1
<1>17. /\ walk'.stage = "load" /\ walk'.p = pos[i + 1] /\ walk'.i = i + 1
       /\ walk'.cells = walk.cells /\ walk'.records = walk.records
  <2>1. Advanced = [walk EXCEPT !.p = After(walk.cells, walk.p),
                                !.i = walk.i + 1]
    BY <1>1, <1>5, AskedAlike
  <2> QED
    BY <1>1, <1>5, <1>16, <2>1 DEF Walk
<1>18. saved' = saved /\ t' = t
  BY DEF LoadStep, t, LoadTime
<1>19. PICK x : x = shm'
  OBVIOUS
<1>20. /\ k[i + 1] = [zone |-> Plain(x), full |-> FALSE]
       /\ Len(x.queue) <= i + 1
  <2>0. PICK l \in Nat : l = Len(shm.queue)
    BY <1>1, LenProperties DEF RingZone
  <2>1. CASE Spent(Decoded.node, t)
    <3>1. x = shm
      BY <1>15, <1>19, <2>1
    <3>2. k[i + 1] = [zone |-> Plain(shm), full |-> FALSE]
      BY <1>13, <2>1, Zenon DEF LoadRecord
    <3> QED
      BY <1>4, <1>9, <2>0, <3>1, <3>2
  <2>2. CASE ~ Spent(Decoded.node, t)
    <3>1. x = y
      BY <1>15, <1>19, <2>2
    <3>2. PICK r : r = k[i + 1]
      OBVIOUS
    <3>3. Plain(y) = r.zone /\ (r.full <=> Decoded.key \notin DOMAIN y.node)
      BY <1>1, <1>7, <1>8, <1>10, <1>13, <2>2, <3>2, LoadedAlike
    <3>4. PICK acc : acc = [zone |-> Plain(shm), full |-> FALSE]
      OBVIOUS
    <3>5. acc.full = FALSE
      BY <3>4
    <3>6. r = LoadRecord(acc, Decoded, t)
      BY <1>13, <3>2, <3>4
    <3>7. PICK a, b : \/ r = [zone |-> a, full |-> TRUE]
                      \/ r = [zone |-> b, full |-> FALSE]
      BY <2>2, <3>5, <3>6, Zenon DEF LoadRecord
    <3>8. r = [zone |-> Plain(y), full |-> FALSE]
      BY <1>11, <3>3, <3>7
    <3>9. Len(y.queue) \in Nat
      <4>1. RingZone(y)
        BY <1>1, <1>7, <1>8, <1>10, LoadedAlike
      <4> QED
        BY <4>1, LenProperties DEF RingZone
    <3> QED
      BY <1>4, <1>9, <1>11, <2>0, <3>1, <3>2, <3>8, <3>9
  <2> QED
    BY <2>1, <2>2
<1>21. PICK j : j = i + 1
  OBVIOUS
<1>22. HasLoaded(j)'
  <2>1. /\ k[j] = [zone |-> Plain(shm'), full |-> FALSE]
        /\ Len(shm'.queue) <= j
    BY <1>19, <1>20, <1>21
  <2>2. IsLoadRun(k, saved', t') /\ LoadAll(saved', t') = k[Len(saved')].zone
    BY <1>12, <1>18
  <2> QED
    BY <2>1, <2>2 DEF HasLoaded, t
<1>23. /\ walk'.stage = "load" /\ walk'.p = pos[j] /\ walk'.i = j
       /\ walk'.cells = walk.cells /\ walk'.records = walk.records
  BY <1>17, <1>21
<1>24. HasLoaded(walk.i)'
  BY <1>22, <1>23
<1>25. IsSource(z, pos)'
  BY <1>2, <1>18, <1>23, <1>24 DEF IsSource
<1> QED
  BY <1>25

\* The load is complete.
LEMMA LoadEndGenuine ==
    ASSUME IInv, GenuineInv, LoadEnd
    PROVE  GenuineInv'
<1> SUFFICES ASSUME genuine
             PROVE  (\E z, pos : IsSource(z, pos))'
  BY DEF GenuineInv, LoadEnd
<1>1. walk \in Walk /\ walk.stage = "load" /\ walk.i = walk.records
      /\ walk.lost = "none"
  BY DEF LoadEnd, IInv, WalkInv
<1>2. PICK z, pos : IsSource(z, pos)
  BY <1>1 DEF GenuineInv
<1>3. walk' = [walk EXCEPT !.stage = "done"] /\ UNCHANGED <<now, shm, saved>>
  BY DEF LoadEnd
<1>4. /\ walk'.stage = "done" /\ walk'.lost = "none"
      /\ walk'.cells = walk.cells /\ walk'.records = walk.records
  BY <1>1, <1>3 DEF Walk
<1>5. Len(saved) = walk.i
  <2>1. PICK n \in Nat : n = Len(z.queue)
    BY <1>2, LenProperties DEF IsSource, RingZone
  <2>2. Plain(z).queue = z.queue
    BY <1>2, PlainFacts DEF IsSource
  <2> QED
    BY <1>1, <1>2, <2>1, <2>2 DEF IsSource, Serialize
<1>6. PICK k : /\ LoadAll(saved, LoadTime) = k[Len(saved)].zone
               /\ k[walk.i] = [zone |-> Plain(shm), full |-> FALSE]
  BY <1>1, <1>2 DEF IsSource, HasLoaded
<1>7. LoadAll(saved, LoadTime) = Plain(shm)
  BY <1>5, <1>6
<1>8. (LoadAll(saved, LoadTime) = Plain(shm))'
  BY <1>3, <1>7 DEF LoadTime
<1>9. IsSource(z, pos)'
  BY <1>2, <1>3, <1>4, <1>8 DEF IsSource
<1> QED
  BY <1>9

\* Every step keeps the source of the snapshot.
LEMMA NextGenuine ==
    IInv /\ GenuineInv /\ [ScanNext]_scanvars => GenuineInv'
<1> SUFFICES ASSUME IInv, GenuineInv, [ScanNext]_scanvars PROVE GenuineInv'
  OBVIOUS
<1>1. CASE Running /\ RingNext /\ UNCHANGED <<walk, saved, genuine>>
  BY <1>1, StillGenuine DEF Running
<1>2. CASE Save
  BY <1>2, SaveGenuine
<1>3. CASE Wait
  BY <1>3, StillGenuine DEF Wait, Down
<1>4. CASE Damage
  BY <1>4 DEF Damage, GenuineInv
<1>5. CASE \E w \in Worker : Restart(w)
  BY <1>5, RestartGenuine
<1>6. CASE ValidateRecord
  BY <1>6, ValidateRecordGenuine
<1>7. CASE ValidateEnd
  BY <1>7, ValidateEndGenuine
<1>8. CASE LoadStep
  BY <1>8, LoadStepGenuine
<1>9. CASE LoadEnd
  BY <1>9, LoadEndGenuine
<1>10. CASE Start
  BY <1>10 DEF Start, Idle, GenuineInv
<1>11. CASE UNCHANGED scanvars
  <2>1. UNCHANGED <<now, shm, walk, saved, genuine>>
    BY <1>11 DEF scanvars
  <2> QED
    BY <2>1 DEF GenuineInv, IsSource, HasLoaded, LoadTime
<1> QED
  BY <1>1, <1>2, <1>3, <1>4, <1>5, <1>6, <1>7, <1>8, <1>9, <1>10, <1>11
     DEF ScanNext

\* SnapshotRoundTrip: a snapshot that nothing has damaged passes every check,
\* and the load of its cells gives the zone that loading the saved records
\* gives: serialize() and load() agree on the layout, record by record.
THEOREM SnapshotsRoundTrip == ScanSpec => []SnapshotRoundTrip
<1>1. ScanInit => GenuineInv
  BY DEF ScanInit, Idle, GenuineInv
<1>2. GenuineInv => SnapshotRoundTrip
  BY DEF GenuineInv, IsSource, SnapshotRoundTrip, LoadTime
<1> QED
  BY <1>1, <1>2, Invariance, NextGenuine, PTL DEF ScanSpec

=============================================================================
