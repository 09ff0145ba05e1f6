---------------------- MODULE ErrorAbuseRequestProofs ----------------------
(***************************************************************************)
(* Proofs about ErrorAbuseRequest, for any requests, locations, zones,     *)
(* configurations, numbers of redirects and parameters of the zones.       *)
(*                                                                         *)
(* The zones are the ones of ErrorAbuseZoneOpsProofs, with one clock: the  *)
(* cached time of every process is the clock, and the lag is 0.            *)
(***************************************************************************)
EXTENDS ErrorAbuseRequest, ErrorAbuseZoneOpsProofs, FiniteSetTheorems

-----------------------------------------------------------------------------
(***************************************************************************)
(* The inductive invariant.                                                *)
(***************************************************************************)

Ctx == [zone : Zone \cup {NoZone}, state : State, dry_run : BOOLEAN,
        response_seen : BOOLEAN, own_rejection : BOOLEAN,
        from_anchor : BOOLEAN, blocked_until : Time]

Req == [phase : Phase, loc : Location \cup {NoLoc}, client : Key \cup {NoKey},
        hops : Nat, status : Status, set : BOOLEAN, anchored : BOOLEAN,
        ctx : Ctx, origin : Location \cup {NoLoc}, calls : Nat,
        hit : {"none", "OK", "BUSY", "ERROR"}, hit_zone : Zone \cup {NoZone},
        private : BOOLEAN, until : Time]

\* A request either has not been identified, and then nothing has happened to
\* it, or it belongs to the zone of its origin.
Identified(q) ==
    IF q.ctx.zone = NoZone
    THEN /\ q.ctx.state = "BYPASSED" /\ ~ q.ctx.own_rejection
         /\ q.ctx.blocked_until = 0 /\ q.until = 0
         /\ q.calls = 0 /\ q.origin = NoLoc
    ELSE /\ q.origin \in Location /\ q.ctx.zone = Conf[q.origin].zone
         /\ q.client \in Key /\ q.ctx.state # "BYPASSED"

\* What record() has been called for.
History(q) ==
    /\ q.calls <= 1
    /\ q.calls = 0 <=> q.hit = "none"
    /\ q.calls > 0 => q.hit_zone = q.ctx.zone /\ ~ Conf[q.origin].dry_run
    /\ q.ctx.own_rejection => /\ q.hit \in {"none", "ERROR"}
                              /\ ~ Conf[q.origin].dry_run

\* A request that is not over.
Running(q) ==
    /\ ~ q.private /\ q.until = 0
    /\ q.calls > 0 => q.ctx.own_rejection
    /\ q.ctx.state # "COUNTED"
    /\ q.ctx.state = "BLOCKED" <=> q.ctx.own_rejection
    /\ q.ctx.state = "DRY_RUN" => Conf[q.origin].dry_run
    /\ q.ctx.zone # NoZone =>
           /\ q.anchored
           /\ q.ctx.dry_run = Conf[q.origin].dry_run
           /\ q.set /\ ~ q.ctx.from_anchor => q.loc = q.origin
    /\ q.phase = "new" => q.ctx.zone = NoZone
    /\ q.phase \notin {"new", "aborted"} => q.loc \in Location

\* A request that is over.
Over(q) ==
    /\ q.private <=> q.ctx.own_rejection
    /\ q.ctx.state = "COUNTED" <=> q.hit = "OK"
    /\ q.ctx.state = "BLOCKED" <=> (q.hit = "BUSY" \/ q.ctx.own_rejection)
    /\ q.ctx.state \in {"DRY_RUN", "BYPASSED"} => q.hit = "none"

ReqInv(q) ==
    /\ q \in Req
    /\ Identified(q)
    /\ History(q)
    /\ q.phase # "done" => Running(q)
    /\ q.phase = "done" => Over(q)
    /\ q.phase \notin {"aborted", "done"} => ~ q.ctx.response_seen

\* The deadlines a request holds are those of its client's ban in the zones
\* zs, as long as the ban runs at time c.
TellsTrue(q, zs, c) ==
    /\ q.phase # "done" /\ q.ctx.blocked_until > c =>
           Until(zs[q.ctx.zone], q.client) = q.ctx.blocked_until
    /\ q.until > c => Until(zs[q.ctx.zone], q.client) = q.until

\* The requests rq that have been counted for the identity k in the zone z.
CountedFor(rq, z, k) ==
    {r \in Request : /\ rq[r].client = k
                     /\ rq[r].hit_zone = z
                     /\ rq[r].hit \in {"OK", "BUSY"}}

\* The window and the ban of the identity k in the zone y are earned by the
\* requests in the set S.
EarnedBy(y, k, S) ==
    /\ IsFiniteSet(S)
    /\ Len(Events(y, k)) <= Cardinality(S)
    /\ Until(y, k) # 0 => Cardinality(S) >= Threshold

ZonesOf(f) == f = [z \in Zone |-> f[z]]

IInv ==
    /\ clock \in 1 .. MaxTime
    /\ ZonesOf(zones)
    /\ \A z \in Zone : ZoneInv(zones[z], clock, 0)
    /\ req \in [Request -> Req]
    /\ \A r \in Request : ReqInv(req[r])
    /\ \A r \in Request : TellsTrue(req[r], zones, clock)
    /\ \A z \in Zone, k \in Key : EarnedBy(zones[z], k, CountedFor(req, z, k))

-----------------------------------------------------------------------------
(***************************************************************************)
(* What the handlers make of one request.                                  *)
(***************************************************************************)

LEMMA ConfFacts ==
    ASSUME NEW l \in Location
    PROVE  /\ Conf[l].enabled \in BOOLEAN /\ Conf[l].dry_run \in BOOLEAN
           /\ Conf[l].zone \in Zone \cup {NoZone}
           /\ l # NoLoc
BY RequestParameters

\* What a step that does not count a request leaves alone.
SameHistory(q, s) ==
    /\ s.client = q.client
    /\ s.hit = q.hit
    /\ s.hit_zone = q.hit_zone

\* The deadline in the context of s is the one in that of q, or there is none.
SameDeadline(q, s) ==
    s.ctx.blocked_until # 0 => /\ s.ctx.zone = q.ctx.zone
                               /\ s.ctx.blocked_until = q.ctx.blocked_until

\* NewCtx builds the context of a request that has none.
LEMMA NewCtxFacts ==
    ASSUME NEW q, ReqInv(q), q.phase \in {"rewrite", "header"}, ~ q.anchored
    PROVE  LET s == NewCtx(q)
           IN  /\ ReqInv(s) /\ SameHistory(q, s)
               /\ s.phase = q.phase /\ s.until = q.until
               /\ s.ctx.zone = NoZone /\ s.ctx.blocked_until = 0
               /\ s.client = q.client /\ s.set /\ ~ s.anchored
               /\ s.ctx = [NoCtx EXCEPT !.dry_run = Conf[q.loc].dry_run]
<1>1. q \in Req /\ q.loc \in Location /\ q.ctx.zone = NoZone
      /\ q.phase # "done" /\ q.phase # "aborted"
  BY DEF ReqInv, Running, Req
<1>2. PICK d \in BOOLEAN : d = Conf[q.loc].dry_run
  BY <1>1, ConfFacts
<1>3. PICK c : c = [NoCtx EXCEPT !.dry_run = d]
  OBVIOUS
<1>4. /\ c \in Ctx /\ c.zone = NoZone /\ c.state = "BYPASSED"
      /\ ~ c.own_rejection /\ ~ c.from_anchor /\ ~ c.response_seen
      /\ c.blocked_until = 0 /\ c.dry_run = d
  BY <1>2, <1>3, TimeFacts DEF NoCtx, Ctx, State
<1>5. PICK s : s = NewCtx(q)
  OBVIOUS
<1>6. s = [q EXCEPT !.set = TRUE, !.ctx = c]
  BY <1>2, <1>3, <1>5 DEF NewCtx
<1>7. /\ s \in Req /\ s.ctx = c /\ s.set /\ s.phase = q.phase
      /\ s.until = q.until /\ s.client = q.client /\ s.anchored = q.anchored
      /\ s.loc = q.loc /\ s.calls = q.calls /\ s.hit = q.hit
      /\ s.hit_zone = q.hit_zone /\ s.origin = q.origin
      /\ s.private = q.private
  BY <1>1, <1>4, <1>6 DEF Req
<1>8. Identified(s) /\ History(s)
  BY <1>1, <1>4, <1>7 DEF ReqInv, Identified, History
<1>9. Running(s)
  BY <1>1, <1>4, <1>7, <1>8 DEF ReqInv, Running, Identified
<1> QED
  BY <1>1, <1>2, <1>3, <1>4, <1>5, <1>7, <1>8, <1>9 DEF ReqInv, SameHistory

\* The requests prepare_ctx() may leave behind.
Prepared(q, s) ==
    /\ ReqInv(s) /\ SameHistory(q, s) /\ SameDeadline(q, s)
    /\ s.phase = q.phase /\ s.until = q.until
    /\ s.ctx.zone # NoZone => EffectiveDryRun(s) = Conf[s.origin].dry_run

\* A request that has been hashed belongs to the zone of its location.
LEMMA HashedFacts ==
    ASSUME NEW q, ReqInv(q), q.phase \in {"rewrite", "header"}, ~ q.anchored,
           q.client # NoKey, Conf[q.loc].zone # NoZone,
           NEW s, s = [RegisterAnchor(NewCtx(q)) EXCEPT
                          !.ctx.zone = Conf[q.loc].zone, !.ctx.state = "PASSED",
                          !.origin = IF @ = NoLoc THEN q.loc ELSE @]
    PROVE  Prepared(q, s)
<1>1. PICK a : a = NewCtx(q)
  OBVIOUS
<1>2. /\ ReqInv(a) /\ SameHistory(q, a)
      /\ a.phase = q.phase /\ a.until = q.until
      /\ a.ctx.zone = NoZone /\ a.ctx.blocked_until = 0
      /\ a.client = q.client /\ a.set /\ ~ a.anchored
      /\ a.ctx = [NoCtx EXCEPT !.dry_run = Conf[q.loc].dry_run]
  BY <1>1, NewCtxFacts
<1>3. a \in Req /\ a.phase \notin {"done", "aborted", "new"} /\ a.loc = q.loc
      /\ a.loc \in Location /\ a.origin = NoLoc /\ a.ctx \in Ctx
      /\ a.client \in Key /\ a.calls = 0 /\ a.hit = "none"
      /\ a.phase \notin {"done", "aborted"} /\ ~ a.private /\ a.until = 0
      /\ a.ctx.dry_run = Conf[q.loc].dry_run /\ ~ a.ctx.own_rejection
      /\ ~ a.ctx.response_seen /\ ~ a.ctx.from_anchor
      /\ SameHistory(q, a)
  BY <1>1, <1>2 DEF ReqInv, Running, Identified, Req, Ctx, History, NewCtx,
     SameHistory, NoCtx
<1>4. PICK z \in Zone : z = Conf[a.loc].zone
  BY <1>3, ConfFacts
<1>5. PICK c : c = [a.ctx EXCEPT !.zone = z, !.state = "PASSED"]
  OBVIOUS
<1>6. /\ c \in Ctx /\ c.zone = z /\ c.state = "PASSED" /\ c.blocked_until = 0
      /\ c.dry_run = Conf[a.loc].dry_run /\ ~ c.own_rejection
      /\ ~ c.response_seen /\ ~ c.from_anchor
  BY <1>2, <1>3, <1>4, <1>5 DEF Ctx, State
<1>7. s = [a EXCEPT !.anchored = TRUE, !.ctx = c, !.origin = a.loc]
  BY <1>1, <1>3, <1>4, <1>5 DEF RegisterAnchor, Req
<1>8. /\ s \in Req /\ s.anchored /\ s.ctx = c /\ s.origin = a.loc
      /\ s.loc = a.loc /\ s.phase = a.phase /\ s.client = a.client
      /\ s.calls = 0 /\ s.hit = "none" /\ ~ s.private /\ s.until = 0
      /\ s.set = a.set /\ s.hit_zone = a.hit_zone
  BY <1>3, <1>6, <1>7 DEF Req
<1>9. Identified(s) /\ History(s)
  <2>1. s.ctx.zone # NoZone
    BY <1>4, <1>6, <1>8, RequestParameters
  <2> QED
    BY <1>3, <1>4, <1>6, <1>8, <2>1 DEF Identified, History
<1>10. Running(s)
  BY <1>3, <1>4, <1>6, <1>8 DEF Running
<1>11. EffectiveDryRun(s) = Conf[s.origin].dry_run
  BY <1>6, <1>8 DEF EffectiveDryRun
<1>12. SameHistory(q, s) /\ s.phase = q.phase /\ s.until = q.until
  BY <1>2, <1>3, <1>8 DEF SameHistory
<1>13. SameDeadline(q, s)
  BY <1>6, <1>8 DEF SameDeadline
<1>14. s.phase # "done" /\ ~ s.ctx.response_seen
  BY <1>3, <1>6, <1>8
<1> QED
  BY <1>8, <1>9, <1>10, <1>11, <1>12, <1>13, <1>14 DEF Prepared, ReqInv

\* prepare_ctx() may leave a context without a zone behind when it fails, but
\* never one with a zone.
LEMMA PrepareFacts ==
    ASSUME NEW q, ReqInv(q), q.phase \in {"rewrite", "header"},
           NEW p \in PrepareCtx(q)
    PROVE  /\ Prepared(q, p.q)
           /\ p.null => p.q.ctx.zone = NoZone
<1>0. q \in Req /\ q.ctx \in Ctx /\ q.phase # "done" /\ q.phase # "aborted"
      /\ q.phase # "new" /\ Running(q) /\ q.loc \in Location
  BY DEF ReqInv, Running, Req
<1>1. CASE q.set
  <2>1. p = [q |-> q, null |-> FALSE]
    BY <1>1 DEF PrepareCtx
  <2>2. q.ctx.zone # NoZone => EffectiveDryRun(q) = Conf[q.origin].dry_run
    BY <1>0, <1>1 DEF Running, EffectiveDryRun
  <2> QED
    BY <2>1, <2>2 DEF Prepared, SameHistory, SameDeadline
<1>2. CASE ~ q.set /\ q.anchored
  <2>1. PICK c : c = [q.ctx EXCEPT !.from_anchor = TRUE]
    OBVIOUS
  <2>2. PICK s : s = [q EXCEPT !.set = TRUE, !.ctx = c]
    OBVIOUS
  <2>3. p.q = s /\ p.null = FALSE
    BY <1>2, <2>1, <2>2 DEF PrepareCtx, FindAnchor
  <2>4. /\ c \in Ctx /\ c.from_anchor /\ c.zone = q.ctx.zone
        /\ c.state = q.ctx.state /\ c.dry_run = q.ctx.dry_run
        /\ c.response_seen = q.ctx.response_seen
        /\ c.own_rejection = q.ctx.own_rejection
        /\ c.blocked_until = q.ctx.blocked_until
    BY <1>0, <2>1 DEF Ctx
  <2>5. /\ s \in Req /\ s.ctx = c /\ s.set /\ s.phase = q.phase
        /\ s.until = q.until /\ s.client = q.client /\ s.anchored = q.anchored
        /\ s.loc = q.loc /\ s.calls = q.calls /\ s.hit = q.hit
        /\ s.hit_zone = q.hit_zone /\ s.origin = q.origin
        /\ s.private = q.private
    BY <1>0, <2>2, <2>4 DEF Req
  <2>6. Identified(s) /\ History(s)
    BY <1>0, <2>4, <2>5 DEF ReqInv, Identified, History
  <2>7. Running(s)
    BY <1>0, <2>4, <2>5 DEF Running
  <2>8. s.ctx.zone # NoZone => EffectiveDryRun(s) = Conf[s.origin].dry_run
    BY <1>0, <2>4, <2>5 DEF Running, EffectiveDryRun
  <2>9. SameHistory(q, s) /\ SameDeadline(q, s) /\ s.phase # "done"
    BY <1>0, <2>4, <2>5 DEF SameHistory, SameDeadline
  <2>10. ~ s.ctx.response_seen
    BY <1>0, <2>4, <2>5 DEF ReqInv
  <2> QED
    BY <2>3, <2>5, <2>6, <2>7, <2>8, <2>9, <2>10 DEF Prepared, ReqInv
<1>3. CASE ~ q.set /\ ~ q.anchored
  <2>1. PICK n : n = NewCtx(q)
    OBVIOUS
  <2>2. PICK a : a = RegisterAnchor(n)
    OBVIOUS
  <2>3. PICK h : h = [a EXCEPT
                         !.ctx.zone = Conf[q.loc].zone, !.ctx.state = "PASSED",
                         !.origin = IF @ = NoLoc THEN q.loc ELSE @]
    OBVIOUS
  <2>4. q.ctx.zone = NoZone
    BY <1>0, <1>3 DEF Running
  <2>5. Prepared(q, q)
    BY <2>4 DEF Prepared, SameHistory, SameDeadline
  <2>6. /\ ReqInv(n) /\ SameHistory(q, n) /\ n.phase = q.phase
        /\ n.until = q.until /\ n.ctx.zone = NoZone /\ n.ctx.blocked_until = 0
        /\ n.client = q.client
    BY <1>3, <2>1, NewCtxFacts
  <2>7. Prepared(q, n)
    BY <2>6 DEF Prepared, SameDeadline
  <2>8. Prepared(q, a) /\ a.ctx.zone = NoZone
    <3>1. n \in Req /\ n.phase # "done"
      BY <1>0, <2>6 DEF ReqInv
    <3>2. a = [n EXCEPT !.anchored = TRUE]
      BY <2>2 DEF RegisterAnchor
    <3>3. /\ a \in Req /\ a.anchored /\ a.ctx = n.ctx /\ a.phase = n.phase
          /\ a.until = n.until /\ a.client = n.client /\ a.set = n.set
          /\ a.loc = n.loc /\ a.calls = n.calls /\ a.hit = n.hit
          /\ a.hit_zone = n.hit_zone /\ a.origin = n.origin
          /\ a.private = n.private
      BY <3>1, <3>2 DEF Req
    <3>4. Identified(a) /\ History(a)
      BY <2>6, <3>3 DEF ReqInv, Identified, History
    <3>5. Running(a)
      BY <2>6, <3>1, <3>3 DEF ReqInv, Running
    <3> QED
      BY <2>6, <3>1, <3>3, <3>4, <3>5 DEF Prepared, ReqInv, SameHistory,
         SameDeadline
  <2>9. CASE ~ Conf[q.loc].enabled \/ Conf[q.loc].zone = NoZone
    <3>1. p = [q |-> q, null |-> TRUE]
      BY <1>3, <2>9 DEF PrepareCtx, FindAnchor
    <3> QED
      BY <2>4, <2>5, <3>1
  <2>10. CASE ~ (~ Conf[q.loc].enabled \/ Conf[q.loc].zone = NoZone)
    <3>1. \/ p.null = FALSE /\ p.q = IF q.client = NoKey THEN a ELSE h
          \/ p.null = TRUE /\ p.q \in {q, n, a}
      BY <1>3, <2>1, <2>2, <2>3, <2>10 DEF PrepareCtx, FindAnchor
    <3>2. q.client # NoKey => Prepared(q, h)
      BY <1>3, <2>1, <2>2, <2>3, <2>10, HashedFacts
    <3> QED
      BY <2>4, <2>5, <2>6, <2>7, <2>8, <3>1, <3>2
  <2> QED
    BY <2>9, <2>10
<1> QED
  BY <1>0, <1>1, <1>2, <1>3 DEF Req

\* What preaccess makes of a request with a zone: it is stopped if its client
\* is banned in z, unless its origin is in dry run.
LEMMA JudgeFacts ==
    ASSUME NEW q, ReqInv(q), q.phase = "rewrite", q.ctx.zone # NoZone,
           EffectiveDryRun(q) = Conf[q.origin].dry_run,
           NEW z, NEW c, NEW lag, ZoneInv(z, c, lag), clock \in Int
    PROVE  LET s == Judge(q, z)
           IN  /\ ReqInv(s) /\ SameHistory(q, s)
               /\ s.phase \in {"content", "special"}
               /\ s.until = q.until
               /\ s.ctx.zone = q.ctx.zone
               /\ s.ctx.blocked_until = Until(z, q.client)
               /\ s.phase = "content" =>
                      \/ Conf[s.origin].dry_run
                      \/ ~ Banned(NodeOf(z, q.client), clock)
<1>1. PICK u \in Time : u = Until(z, q.client)
  BY NodeOfFacts
<1>2. PICK b \in BOOLEAN : b = Banned(NodeOf(z, q.client), clock)
  <2>1. Banned(NodeOf(z, q.client), clock) = (u > clock)
    BY <1>1 DEF Banned, Until
  <2>2. (u > clock) \in BOOLEAN
    BY <1>1, TimeFacts
  <2> QED
    BY <2>1, <2>2, Zenon
<1>3. Report(z, q.client, clock).banned = b
      /\ Report(z, q.client, clock).blocked_until = u
  BY <1>1, <1>2 DEF Report, Until
<1>4. q \in Req /\ q.ctx \in Ctx /\ Identified(q) /\ History(q) /\ Running(q)
      /\ ~ q.ctx.response_seen
  BY DEF ReqInv, Req
<1>5. PICK d \in BOOLEAN : d = Conf[q.origin].dry_run
  BY <1>4, ConfFacts DEF Identified
<1>6. PICK x : x = [q.ctx EXCEPT !.blocked_until = u]
  OBVIOUS
<1>7. /\ x \in Ctx /\ x.zone = q.ctx.zone /\ x.state = q.ctx.state
      /\ x.dry_run = q.ctx.dry_run /\ x.response_seen = q.ctx.response_seen
      /\ x.own_rejection = q.ctx.own_rejection
      /\ x.from_anchor = q.ctx.from_anchor /\ x.blocked_until = u
  BY <1>4, <1>6 DEF Ctx
<1>8. PICK s : s = Judge(q, z)
  OBVIOUS
<1>9. ASSUME NEW y \in Ctx, NEW ph \in {"content", "special"},
             NEW st \in Status,
             s = [q EXCEPT !.ctx = y, !.phase = ph, !.status = st],
             y.zone = q.ctx.zone, y.dry_run = q.ctx.dry_run,
             ~ y.response_seen, y.from_anchor = q.ctx.from_anchor,
             y.blocked_until = u,
             \/ /\ y.state = q.ctx.state
                /\ y.own_rejection = q.ctx.own_rejection
                /\ ~ b
             \/ /\ y.state = "DRY_RUN"
                /\ y.own_rejection = q.ctx.own_rejection
                /\ d
             \/ /\ y.state = "BLOCKED" /\ y.own_rejection /\ ~ d
                /\ ph = "special"
      PROVE  /\ ReqInv(s) /\ SameHistory(q, s)
             /\ s.phase \in {"content", "special"}
             /\ s.until = q.until
             /\ s.ctx.zone = q.ctx.zone
             /\ s.ctx.blocked_until = u
             /\ s.phase = "content" => Conf[s.origin].dry_run \/ ~ b
  <2>1. /\ s \in Req /\ s.ctx = y /\ s.phase = ph /\ s.set = q.set
        /\ s.until = q.until /\ s.client = q.client /\ s.anchored = q.anchored
        /\ s.loc = q.loc /\ s.calls = q.calls /\ s.hit = q.hit
        /\ s.hit_zone = q.hit_zone /\ s.origin = q.origin
        /\ s.private = q.private
    BY <1>4, <1>9 DEF Req, Phase
  <2>2. q.ctx.own_rejection => ~ d
    BY <1>4, <1>5 DEF History
  <2>3. Identified(s)
    BY <1>4, <1>9, <2>1 DEF Identified
  <2>4. History(s)
    <3>1. q.calls = 0 \/ q.ctx.own_rejection
      BY <1>4 DEF Running, History, Req
    <3> QED
      BY <1>4, <1>5, <1>9, <2>1, <3>1 DEF History
  <2>5. Running(s)
    BY <1>4, <1>5, <1>9, <2>1, <2>2 DEF Running
  <2> QED
    BY <1>4, <1>5, <1>9, <2>1, <2>3, <2>4, <2>5 DEF ReqInv, SameHistory
<1>10. q.status \in Status /\ "reject" \in Status
  BY <1>4 DEF Req, Status
<1>11. CASE ~ b
  <2>1. s = [q EXCEPT !.ctx = x, !.phase = "content", !.status = q.status]
    BY <1>3, <1>4, <1>6, <1>8, <1>11 DEF Judge, Req
  <2> QED
    BY <1>1, <1>2, <1>4, <1>7, <1>8, <1>9, <1>10, <1>11, <2>1
<1>12. CASE b /\ d
  <2>1. PICK y : y = [x EXCEPT !.state = "DRY_RUN"]
    OBVIOUS
  <2>2. s = [q EXCEPT !.ctx = y, !.phase = "content", !.status = q.status]
    BY <1>3, <1>4, <1>5, <1>6, <1>8, <1>12, <2>1 DEF Judge, Req
  <2>3. /\ y \in Ctx /\ y.zone = q.ctx.zone /\ y.state = "DRY_RUN"
        /\ y.dry_run = q.ctx.dry_run /\ ~ y.response_seen
        /\ y.own_rejection = q.ctx.own_rejection
        /\ y.from_anchor = q.ctx.from_anchor /\ y.blocked_until = u
    BY <1>4, <1>7, <2>1 DEF Ctx, State
  <2>4. /\ ReqInv(s) /\ SameHistory(q, s)
        /\ s.phase \in {"content", "special"}
        /\ s.until = q.until
        /\ s.ctx.zone = q.ctx.zone
        /\ s.ctx.blocked_until = u
        /\ s.phase = "content" => Conf[s.origin].dry_run \/ ~ b
    BY <1>9, <1>10, <1>12, <2>2, <2>3
  <2> QED
    BY <1>1, <1>2, <1>8, <2>4
<1>13. CASE b /\ ~ d
  <2>1. PICK y : y = [x EXCEPT !.state = "BLOCKED", !.own_rejection = TRUE]
    OBVIOUS
  <2>2. s = [q EXCEPT !.ctx = y, !.phase = "special", !.status = "reject"]
    BY <1>3, <1>4, <1>5, <1>6, <1>8, <1>13, <2>1 DEF Judge, Req
  <2>3. /\ y \in Ctx /\ y.zone = q.ctx.zone /\ y.state = "BLOCKED"
        /\ y.dry_run = q.ctx.dry_run /\ ~ y.response_seen
        /\ y.own_rejection
        /\ y.from_anchor = q.ctx.from_anchor /\ y.blocked_until = u
    BY <1>4, <1>7, <2>1 DEF Ctx, State
  <2>4. /\ ReqInv(s) /\ SameHistory(q, s)
        /\ s.phase \in {"content", "special"}
        /\ s.until = q.until
        /\ s.ctx.zone = q.ctx.zone
        /\ s.ctx.blocked_until = u
        /\ s.phase = "content" => Conf[s.origin].dry_run \/ ~ b
    BY <1>9, <1>10, <1>13, <2>2, <2>3
  <2> QED
    BY <1>1, <1>2, <1>8, <2>4
<1> QED
  BY <1>11, <1>12, <1>13

\* A response that leaves.
LEMMA SentFacts ==
    ASSUME NEW q, q \in Req, Identified(q), History(q), Over(q)
    PROVE  LET s == Sent(q)
           IN  /\ ReqInv(s) /\ SameHistory(q, s) /\ s.phase = "done"
               /\ s.until = q.until /\ s.ctx.zone = q.ctx.zone
<1>1. PICK c : c = [q.ctx EXCEPT !.response_seen = FALSE, !.dry_run = FALSE,
                                 !.from_anchor = FALSE]
  OBVIOUS
<1>2. q.ctx \in Ctx
  BY DEF Req
<1>3. /\ c \in Ctx /\ c.zone = q.ctx.zone /\ c.state = q.ctx.state
      /\ c.own_rejection = q.ctx.own_rejection
      /\ c.blocked_until = q.ctx.blocked_until
  BY <1>1, <1>2 DEF Ctx
<1>4. PICK s : s = Sent(q)
  OBVIOUS
<1>5. s = [q EXCEPT !.phase = "done", !.loc = NoLoc, !.hops = 0,
                    !.status = "ok", !.set = FALSE, !.anchored = FALSE,
                    !.ctx = c]
  BY <1>1, <1>4 DEF Sent, Req
<1>6. /\ s \in Req /\ s.ctx = c /\ s.phase = "done"
      /\ s.until = q.until /\ s.client = q.client
      /\ s.calls = q.calls /\ s.hit = q.hit
      /\ s.hit_zone = q.hit_zone /\ s.origin = q.origin
      /\ s.private = q.private
  BY <1>3, <1>5 DEF Req, Phase, Status
<1>7. Identified(s) /\ History(s) /\ Over(s)
  BY <1>3, <1>6 DEF Identified, History, Over
<1> QED
  BY <1>3, <1>4, <1>6, <1>7 DEF ReqInv, SameHistory

\* A request the header filter looks at.
Looked(q) ==
    /\ q \in Req /\ Identified(q) /\ History(q) /\ Running(q)
    /\ q.phase = "header" /\ q.ctx.zone # NoZone

LEMMA SeenFacts ==
    ASSUME NEW q, ReqInv(q), q.phase = "header", q.ctx.zone # NoZone,
           EffectiveDryRun(q) = Conf[q.origin].dry_run
    PROVE  LET s == Seen(q)
           IN  /\ Looked(s) /\ SameHistory(q, s) /\ s.until = q.until
               /\ s.ctx.zone = q.ctx.zone
               /\ s.ctx.blocked_until = q.ctx.blocked_until
               /\ s.ctx.dry_run = Conf[s.origin].dry_run
<1>1. q \in Req /\ q.ctx \in Ctx /\ Identified(q) /\ History(q) /\ Running(q)
  BY DEF ReqInv, Req
<1>2. PICK d \in BOOLEAN : d = EffectiveDryRun(q) /\ d = Conf[q.origin].dry_run
  BY <1>1, ConfFacts DEF Identified
<1>3. PICK c : c = [q.ctx EXCEPT !.response_seen = TRUE, !.dry_run = d]
  OBVIOUS
<1>4. /\ c \in Ctx /\ c.zone = q.ctx.zone /\ c.state = q.ctx.state
      /\ c.dry_run = d /\ c.own_rejection = q.ctx.own_rejection
      /\ c.from_anchor = q.ctx.from_anchor
      /\ c.blocked_until = q.ctx.blocked_until
  BY <1>1, <1>3 DEF Ctx
<1>5. PICK s : s = Seen(q)
  OBVIOUS
<1>6. s = [q EXCEPT !.ctx = c]
  BY <1>1, <1>2, <1>3, <1>5 DEF Seen, Req
<1>7. /\ s \in Req /\ s.ctx = c /\ s.phase = q.phase /\ s.set = q.set
      /\ s.until = q.until /\ s.client = q.client /\ s.anchored = q.anchored
      /\ s.loc = q.loc /\ s.calls = q.calls /\ s.hit = q.hit
      /\ s.hit_zone = q.hit_zone /\ s.origin = q.origin
      /\ s.private = q.private
  BY <1>1, <1>4, <1>6 DEF Req
<1>8. Identified(s) /\ History(s) /\ Running(s)
  BY <1>1, <1>2, <1>4, <1>7 DEF Identified, History, Running
<1> QED
  BY <1>2, <1>4, <1>5, <1>7, <1>8 DEF Looked, SameHistory

\* A rejection of the module itself leaves with its headers, or is aborted.
LEMMA RejectHeadersFacts ==
    ASSUME NEW q, Looked(q), q.ctx.own_rejection, NEW s \in AddRejectHeaders(q)
    PROVE  /\ ReqInv(s) /\ SameHistory(q, s)
           /\ s.phase \in {"done", "aborted"}
           /\ s.ctx.zone = q.ctx.zone
           /\ s.phase # "done" => /\ s.ctx.blocked_until = q.ctx.blocked_until
                                  /\ s.until = 0
           /\ s.until # 0 => s.until = q.ctx.blocked_until
<1>1. q \in Req /\ q.ctx \in Ctx /\ Identified(q) /\ History(q) /\ Running(q)
      /\ q.ctx.blocked_until \in Time
  BY DEF Looked, Req, Ctx
<1>2. PICK told : told = IF q.status = "reject" /\ q.ctx.blocked_until > clock
                         THEN q.ctx.blocked_until ELSE 0
  OBVIOUS
<1>3. told \in Time /\ (told # 0 => told = q.ctx.blocked_until)
  BY <1>1, <1>2, TimeFacts
<1>4. \/ s = Sent([q EXCEPT !.private = TRUE, !.until = told])
      \/ s = [q EXCEPT !.phase = "aborted"]
  BY <1>2 DEF AddRejectHeaders
<1>5. CASE s = [q EXCEPT !.phase = "aborted"]
  <2>1. /\ s \in Req /\ s.ctx = q.ctx /\ s.phase = "aborted" /\ s.set = q.set
        /\ s.until = q.until /\ s.client = q.client /\ s.anchored = q.anchored
        /\ s.loc = q.loc /\ s.calls = q.calls /\ s.hit = q.hit
        /\ s.hit_zone = q.hit_zone /\ s.origin = q.origin
        /\ s.private = q.private
    BY <1>1, <1>5 DEF Req, Phase
  <2>2. Identified(s) /\ History(s) /\ Running(s)
    BY <1>1, <2>1 DEF Identified, History, Running, Looked
  <2> QED
    BY <1>1, <2>1, <2>2 DEF ReqInv, SameHistory, Running
<1>6. CASE s = Sent([q EXCEPT !.private = TRUE, !.until = told])
  <2>1. PICK x : x = [q EXCEPT !.private = TRUE, !.until = told]
    OBVIOUS
  <2>2. /\ x \in Req /\ x.ctx = q.ctx
        /\ x.until = told /\ x.client = q.client
        /\ x.calls = q.calls /\ x.hit = q.hit
        /\ x.hit_zone = q.hit_zone /\ x.origin = q.origin
        /\ x.private
    BY <1>1, <1>3, <2>1 DEF Req
  <2>3. Identified(x) /\ History(x)
    BY <1>1, <2>2 DEF Identified, History, Looked
  <2>4. Over(x)
    BY <1>1, <2>2 DEF Over, History, Running
  <2>5. /\ ReqInv(s) /\ SameHistory(x, s) /\ s.phase = "done"
        /\ s.until = x.until /\ s.ctx.zone = x.ctx.zone
    BY <1>6, <2>1, <2>2, <2>3, <2>4, SentFacts
  <2> QED
    BY <1>3, <2>2, <2>5 DEF SameHistory
<1> QED
  BY <1>4, <1>5, <1>6

\* A response that does not count leaves as it is.
LEMMA NotCountedFacts ==
    ASSUME NEW q, Looked(q), ~ q.ctx.own_rejection
    PROVE  LET s == Sent(q)
           IN  /\ ReqInv(s) /\ SameHistory(q, s) /\ s.phase = "done"
               /\ s.until = 0 /\ s.ctx.zone = q.ctx.zone
<1>1. q \in Req /\ Identified(q) /\ History(q) /\ Running(q)
  BY DEF Looked
<1>2. q.hit = "none"
  BY <1>1 DEF History, Running, Req
<1>3. Over(q)
  BY <1>1, <1>2 DEF Over, Running
<1> QED
  BY <1>1, <1>3, SentFacts DEF Running, Looked

\* A dry run leaves with the deadline peek() foretells.
LEMMA ObservedFacts ==
    ASSUME NEW q, Looked(q), ~ q.ctx.own_rejection,
           clock \in Time,
           ZoneInv(zones[q.ctx.zone], clock, 0)
    PROVE  LET s == Observed(q)
           IN  /\ ReqInv(s) /\ SameHistory(q, s) /\ s.phase = "done"
               /\ s.until = 0 /\ s.ctx.zone = q.ctx.zone
<1>1. q \in Req /\ q.ctx \in Ctx /\ Identified(q) /\ History(q) /\ Running(q)
  BY DEF Looked, Req
<1>2. PICK u : u = Peek(zones[q.ctx.zone], q.client, clock).blocked_until
  OBVIOUS
<1>3. u \in Time
  <2>1. Until(zones[q.ctx.zone], q.client) \in Time
    BY NodeOfFacts
  <2>2. TimeAddSaturate(clock, Block) \in Time /\ 0 \in Time
    BY SaturateType, ZoneParameters, TimeFacts
  <2>3. u \in {Until(zones[q.ctx.zone], q.client), TimeAddSaturate(clock, Block), 0}
    BY <1>2 DEF Peek, Report, Until
  <2> QED
    BY <2>1, <2>2, <2>3
<1>4. PICK c : c = [q.ctx EXCEPT !.state = "DRY_RUN", !.blocked_until = u]
  OBVIOUS
<1>5. /\ c \in Ctx /\ c.zone = q.ctx.zone /\ c.state = "DRY_RUN"
      /\ c.own_rejection = q.ctx.own_rejection
  BY <1>1, <1>3, <1>4 DEF Ctx, State
<1>6. PICK x : x = [q EXCEPT !.ctx = c]
  OBVIOUS
<1>7. /\ x \in Req /\ x.ctx = c
      /\ x.until = q.until /\ x.client = q.client
      /\ x.calls = q.calls /\ x.hit = q.hit
      /\ x.hit_zone = q.hit_zone /\ x.origin = q.origin
      /\ x.private = q.private
  BY <1>1, <1>5, <1>6 DEF Req
<1>8. Observed(q) = Sent(x)
  <2>1. x = [q EXCEPT !.ctx.state = "DRY_RUN", !.ctx.blocked_until = u]
    BY <1>1, <1>4, <1>6 DEF Req
  <2> QED
    BY <1>2, <2>1 DEF Observed
<1>9. Identified(x) /\ History(x)
  BY <1>1, <1>5, <1>7 DEF Identified, History, Looked
<1>10. Over(x)
  BY <1>1, <1>5, <1>7 DEF Over, Running, History, Req
<1>11. LET s == Sent(x)
       IN  /\ ReqInv(s) /\ SameHistory(x, s) /\ s.phase = "done"
           /\ s.until = x.until /\ s.ctx.zone = x.ctx.zone
  BY <1>7, <1>9, <1>10, SentFacts
<1> QED
  BY <1>1, <1>5, <1>7, <1>8, <1>11 DEF SameHistory, Running

\* A response that counts leaves with its outcome, or is replaced by a
\* rejection when the zone z has no node for it.
LEMMA CountedFacts ==
    ASSUME NEW q, Looked(q), ~ q.ctx.own_rejection, ~ q.ctx.dry_run,
           q.ctx.state # "DRY_RUN",
           NEW z, NEW c, NEW lag, ZoneInv(z, c, lag)
    PROVE  LET s == Counted(q, z)
           IN  /\ ReqInv(s) /\ s.client = q.client /\ q.hit = "none"
               /\ s.hit_zone = q.ctx.zone /\ s.ctx.zone = q.ctx.zone
               /\ s.hit \in {"OK", "BUSY"} <=> q.client \in DOMAIN z.node
               /\ s.until = 0
               /\ s.phase # "done" =>
                      s.ctx.blocked_until = Until(z, q.client)
<1>1. q \in Req /\ q.ctx \in Ctx /\ Identified(q) /\ History(q) /\ Running(q)
      /\ q.ctx.zone # NoZone /\ q.phase = "header"
  BY DEF Looked, Req
<1>2. /\ q.hit = "none" /\ q.calls = 0 /\ q.until = 0 /\ ~ q.private
      /\ ~ Conf[q.origin].dry_run /\ q.ctx.zone \in Zone
  BY <1>1 DEF History, Running, Req, Ctx
<1>3. PICK u \in Time : u = Until(z, q.client)
  BY NodeOfFacts
<1>4. PICK rc : rc = IF q.client \notin DOMAIN z.node THEN "ERROR"
                     ELSE IF Report(z, q.client, clock).banned THEN "BUSY"
                     ELSE "OK"
  OBVIOUS
<1>4a. /\ rc \in {"ERROR", "BUSY", "OK"}
       /\ rc \in {"OK", "BUSY"} <=> q.client \in DOMAIN z.node
  BY <1>4
<1>5. PICK x : x = [q.ctx EXCEPT !.blocked_until = u]
  OBVIOUS
<1>6. PICK told : told = [q EXCEPT !.calls = 1, !.hit = rc,
                                   !.hit_zone = q.ctx.zone, !.ctx = x]
  OBVIOUS
<1>7. /\ x \in Ctx /\ x.zone = q.ctx.zone /\ x.state = q.ctx.state
      /\ x.dry_run = q.ctx.dry_run
      /\ x.own_rejection = q.ctx.own_rejection
      /\ x.from_anchor = q.ctx.from_anchor /\ x.blocked_until = u
  BY <1>1, <1>3, <1>5 DEF Ctx
<1>8. /\ told \in Req /\ told.ctx = x /\ told.phase = q.phase
      /\ told.set = q.set
      /\ told.until = 0 /\ told.client = q.client
      /\ told.anchored = q.anchored /\ told.loc = q.loc /\ told.calls = 1
      /\ told.hit = rc /\ told.hit_zone = q.ctx.zone
      /\ told.origin = q.origin /\ ~ told.private
  BY <1>1, <1>2, <1>4a, <1>6, <1>7 DEF Req, Ctx
<1>9. PICK s : s = Counted(q, z)
  OBVIOUS
<1>10. s = IF rc = "ERROR"
           THEN IF OnFullReject[q.ctx.zone] THEN RejectFull(told) ELSE Sent(told)
           ELSE Sent([told EXCEPT !.ctx.state =
                                     IF rc = "BUSY" THEN "BLOCKED" ELSE "COUNTED"])
  <2>1. told = [q EXCEPT !.calls = @ + 1, !.hit = rc, !.hit_zone = q.ctx.zone,
                         !.ctx.blocked_until
                              = Report(z, q.client, clock).blocked_until]
    BY <1>1, <1>2, <1>3, <1>5, <1>6 DEF Req, Report, Until
  <2> QED
    BY <1>4, <1>9, <2>1 DEF Counted
<1>12. CASE rc = "ERROR" /\ ~ OnFullReject[q.ctx.zone]
  <2>1. s = Sent(told)
    BY <1>10, <1>12
  <2>2. Identified(told) /\ History(told)
    BY <1>1, <1>2, <1>7, <1>8, <1>12 DEF Identified, History
  <2>3. Over(told)
    BY <1>1, <1>7, <1>8, <1>12 DEF Over, Running, Identified
  <2>4. /\ ReqInv(s) /\ SameHistory(told, s) /\ s.phase = "done"
        /\ s.until = told.until /\ s.ctx.zone = told.ctx.zone
    BY <1>8, <2>1, <2>2, <2>3, SentFacts
  <2> QED
    BY <1>2, <1>7, <1>8, <1>9, <1>4a, <2>4 DEF SameHistory
<1>13. CASE rc = "ERROR" /\ OnFullReject[q.ctx.zone]
  <2>1. PICK y : y = [x EXCEPT !.state = "BLOCKED", !.own_rejection = TRUE,
                               !.response_seen = FALSE]
    OBVIOUS
  <2>2. /\ y \in Ctx /\ y.zone = q.ctx.zone /\ y.state = "BLOCKED"
        /\ y.dry_run = q.ctx.dry_run /\ y.own_rejection
        /\ ~ y.response_seen
        /\ y.from_anchor = q.ctx.from_anchor /\ y.blocked_until = u
    BY <1>7, <2>1 DEF Ctx, State
  <2>3. s = [told EXCEPT !.phase = "special", !.status = "reject", !.ctx = y]
    BY <1>8, <1>10, <1>13, <2>1 DEF RejectFull, Req
  <2>4. /\ s \in Req /\ s.ctx = y /\ s.phase = "special"
        /\ s.set = q.set
        /\ s.until = 0 /\ s.client = q.client
        /\ s.anchored = q.anchored /\ s.loc = q.loc /\ s.calls = 1
        /\ s.hit = rc /\ s.hit_zone = q.ctx.zone
        /\ s.origin = q.origin /\ ~ s.private
    BY <1>8, <2>2, <2>3 DEF Req, Phase, Status
  <2>5. Identified(s) /\ History(s)
    BY <1>1, <1>2, <1>13, <2>2, <2>4 DEF Identified, History
  <2>6. Running(s)
    BY <1>1, <1>2, <2>2, <2>4 DEF Running
  <2> QED
    BY <1>2, <1>3, <1>9, <1>4a, <2>2, <2>4, <2>5, <2>6 DEF ReqInv
<1>14. CASE rc # "ERROR"
  <2>1. PICK st : st = IF rc = "BUSY" THEN "BLOCKED" ELSE "COUNTED"
    OBVIOUS
  <2>2. PICK y : y = [x EXCEPT !.state = st]
    OBVIOUS
  <2>3. /\ y \in Ctx /\ y.zone = q.ctx.zone /\ y.state = st
        /\ y.own_rejection = q.ctx.own_rejection
    BY <1>7, <2>1, <2>2 DEF Ctx, State
  <2>4. PICK w : w = [told EXCEPT !.ctx = y]
    OBVIOUS
  <2>5. s = Sent(w)
    <3>1. w = [told EXCEPT !.ctx.state =
                              IF rc = "BUSY" THEN "BLOCKED" ELSE "COUNTED"]
      BY <1>8, <2>1, <2>2, <2>4 DEF Req
    <3> QED
      BY <1>10, <1>14, <3>1
  <2>6. /\ w \in Req /\ w.ctx = y /\ w.until = 0 /\ w.client = q.client
        /\ w.calls = 1 /\ w.hit = rc /\ w.hit_zone = q.ctx.zone
        /\ w.origin = q.origin /\ ~ w.private
    BY <1>8, <2>3, <2>4 DEF Req
  <2>7. Identified(w) /\ History(w)
    BY <1>1, <1>2, <1>4a, <1>14, <2>1, <2>3, <2>6 DEF Identified, History
  <2>8. Over(w)
    BY <1>4a, <1>14, <2>1, <2>3, <2>6 DEF Over
  <2>9. /\ ReqInv(s) /\ SameHistory(w, s) /\ s.phase = "done"
        /\ s.until = w.until /\ s.ctx.zone = w.ctx.zone
    BY <2>5, <2>6, <2>7, <2>8, SentFacts
  <2> QED
    BY <1>2, <1>9, <1>4a, <2>3, <2>6, <2>9 DEF SameHistory
<1> QED
  BY <1>12, <1>13, <1>14, RequestParameters

-----------------------------------------------------------------------------
(***************************************************************************)
(* The deadlines clients are told, and what their bans are earned by.      *)
(***************************************************************************)

\* The zone y has the running bans of the zone x.
KeepsBans(x, y, c) == \A j : Until(x, j) > c => Until(y, j) = Until(x, j)

\* What was told stays true while running bans stay.
LEMMA TellsTrueLater ==
    ASSUME NEW q, ReqInv(q), NEW zs, NEW ws, NEW c \in Int, c >= 0,
           TellsTrue(q, zs, c),
           \A z \in Zone : KeepsBans(zs[z], ws[z], c)
    PROVE  TellsTrue(q, ws, c)
<1>1. CASE q.ctx.zone = NoZone
  <2>1. q.ctx.blocked_until = 0 /\ q.until = 0
    BY <1>1 DEF ReqInv, Identified
  <2> QED
    BY <2>1 DEF TellsTrue
<1>2. CASE q.ctx.zone # NoZone
  <2>1. q.ctx.zone \in Zone
    BY <1>2 DEF ReqInv, Req, Ctx
  <2>2. KeepsBans(zs[q.ctx.zone], ws[q.ctx.zone], c)
    BY <2>1
  <2>3. ASSUME NEW u, u > c, Until(zs[q.ctx.zone], q.client) = u
        PROVE  Until(ws[q.ctx.zone], q.client) = u
    BY <2>2, <2>3 DEF KeepsBans
  <2> QED
    BY <2>3, Zenon DEF TellsTrue
<1> QED
  BY <1>1, <1>2

\* A step that is not counted, and names the client at most before it counts.
SameCount(q, s) ==
    /\ s.hit = q.hit
    /\ s.hit_zone = q.hit_zone
    /\ q.hit # "none" => s.client = q.client

\* A request that has not been counted now was not counted before.
LEMMA SameCounted ==
    ASSUME NEW rq, NEW ws, \A i \in Request : SameCount(rq[i], ws[i]),
           NEW z, NEW k
    PROVE  CountedFor(ws, z, k) = CountedFor(rq, z, k)
<1>1. \A i \in Request :
          ws[i].client = k /\ ws[i].hit_zone = z /\ ws[i].hit \in {"OK", "BUSY"}
              <=> /\ rq[i].client = k /\ rq[i].hit_zone = z
                  /\ rq[i].hit \in {"OK", "BUSY"}
  BY DEF SameCount
<1> QED
  BY <1>1, Zenon DEF CountedFor

\* Calls that add nothing leave what was earned.
LEMMA EarnedStays ==
    ASSUME NEW x, NEW y, NEW k, NEW S, EarnedBy(x, k, S), NoMore(x, y, k),
           Len(Events(x, k)) \in Nat, Len(Events(y, k)) \in Nat
    PROVE  EarnedBy(y, k, S)
<1>1. Cardinality(S) \in Nat
  BY FS_CardinalityType DEF EarnedBy
<1> QED
  BY <1>1 DEF EarnedBy, NoMore

\* A counted request earns what record() adds.
LEMMA EarnedGrows ==
    ASSUME NEW x, NEW y, NEW k, NEW S, EarnedBy(x, k, S), NEW r, r \notin S,
           Len(Events(x, k)) \in Nat, Len(Events(y, k)) \in Nat,
           Len(Events(y, k)) <= Len(Events(x, k)) + 1,
           Until(y, k) # 0 => \/ Until(x, k) # 0
                              \/ Len(Events(x, k)) + 1 >= Threshold
    PROVE  EarnedBy(y, k, S \cup {r})
<1>1. /\ IsFiniteSet(S \cup {r}) /\ Cardinality(S) \in Nat
      /\ Cardinality(S \cup {r}) = Cardinality(S) + 1
  BY FS_CardinalityType, FS_AddElement DEF EarnedBy
<1> QED
  BY <1>1, ZoneParameters DEF EarnedBy

-----------------------------------------------------------------------------
(***************************************************************************)
(* The steps.                                                              *)
(***************************************************************************)

LEMMA InitIInv == Init => IInv
<1> SUFFICES ASSUME Init PROVE IInv
  OBVIOUS
<1> USE DEF Init
<1>1. clock \in 1 .. MaxTime
  BY RequestParameters
<1>2. ASSUME NEW z \in Zone
      PROVE  ZoneInv(zones[z], clock, 0) /\ zones[z] = EmptyZone
  <2>1. PICK y : y = EmptyZone
    OBVIOUS
  <2>2. DOMAIN y.node = {} /\ Len(y.queue) = 0 /\ y.queue \in Seq(Key)
    BY <2>1 DEF EmptyZone
  <2>3. IsZone(y) /\ WellLinked(y)
    BY <2>2, ZoneLimits DEF IsZone, WellLinked
  <2> QED
    BY <2>1, <2>2, <2>3 DEF ZoneInv, GoodZone
<1>3. /\ NoCtx \in Ctx /\ NoCtx.zone = NoZone /\ NoCtx.state = "BYPASSED"
      /\ ~ NoCtx.own_rejection /\ ~ NoCtx.response_seen
      /\ NoCtx.blocked_until = 0
  BY TimeFacts DEF NoCtx, Ctx, State
<1>4. /\ Fresh \in Req /\ Fresh.ctx = NoCtx /\ Fresh.phase = "new"
      /\ Fresh.calls = 0 /\ Fresh.hit = "none" /\ ~ Fresh.private
      /\ Fresh.until = 0 /\ Fresh.origin = NoLoc
  BY <1>3, TimeFacts DEF Fresh, Req, Phase, Status
<1>5. ReqInv(Fresh)
  BY <1>3, <1>4 DEF ReqInv, Identified, History, Running
<1>6. TellsTrue(Fresh, zones, clock)
  BY <1>3, <1>4 DEF TellsTrue
<1>7. ASSUME NEW z \in Zone, NEW k \in Key
      PROVE  EarnedBy(zones[z], k, CountedFor(req, z, k))
  <2>1. CountedFor(req, z, k) = {}
    BY <1>4 DEF CountedFor
  <2>2. IsFiniteSet({}) /\ Cardinality({}) = 0
    BY FS_EmptySet
  <2>3. DOMAIN zones[z].node = {}
    BY <1>2 DEF EmptyZone
  <2>4. Events(zones[z], k) = <<>> /\ Until(zones[z], k) = 0
    BY <1>2, <2>3, NodeOfFacts
  <2> QED
    BY <2>1, <2>2, <2>4 DEF EarnedBy
<1>8. req \in [Request -> Req] /\ \A r \in Request : req[r] = Fresh
  BY <1>4
<1>9. ZonesOf(zones)
  BY DEF ZonesOf
<1> QED
  BY <1>1, <1>2, <1>5, <1>6, <1>7, <1>8, <1>9 DEF IInv

\* The clock of the zones.
LEMMA ClockFacts ==
    ASSUME IInv
    PROVE  /\ clock \in Nat /\ clock \in Time /\ clock > 0
           /\ CachedAt(clock, clock, 0)
BY RequestParameters, TimeFacts DEF IInv, CachedAt, Time

\* A step of one request that neither counts it nor changes a zone.
LEMMA QuietStep ==
    ASSUME IInv, NEW r \in Request, NEW s, req' = [req EXCEPT ![r] = s],
           UNCHANGED <<clock, zones>>, ReqInv(s), SameCount(req[r], s),
           TellsTrue(s, zones, clock)
    PROVE  IInv'
<1>1. s \in Req
  BY DEF ReqInv
<1>2. /\ req' \in [Request -> Req]
      /\ \A i \in Request : req'[i] = IF i = r THEN s ELSE req[i]
  BY <1>1 DEF IInv
<1>3. ASSUME NEW z, NEW k PROVE CountedFor(req', z, k) = CountedFor(req, z, k)
  <2>1. \A i \in Request : SameCount(req[i], req'[i])
    BY <1>2 DEF SameCount
  <2>2. PICK ws : ws = req'
    OBVIOUS
  <2>3. \A i \in Request : SameCount(req[i], ws[i])
    BY <2>1, <2>2
  <2>4. CountedFor(ws, z, k) = CountedFor(req, z, k)
    BY <2>3, SameCounted
  <2> QED
    BY <2>2, <2>4
<1>4. \A i \in Request : ReqInv(req'[i]) /\ TellsTrue(req'[i], zones, clock)
  BY <1>2 DEF IInv
<1>5. \A z \in Zone, k \in Key : EarnedBy(zones[z], k, CountedFor(req', z, k))
  BY <1>3, Zenon DEF IInv
<1> QED
  BY <1>2, <1>4, <1>5 DEF IInv

\* A step of one request that changes one zone.
LEMMA ZoneStep ==
    ASSUME IInv, NEW r \in Request, NEW s, req' = [req EXCEPT ![r] = s],
           NEW zn \in Zone, NEW y, zones' = [zones EXCEPT ![zn] = y],
           UNCHANGED clock, ReqInv(s), ZoneInv(y, clock, 0),
           KeepsBans(zones[zn], y, clock), TellsTrue(s, zones', clock),
           \A z \in Zone, k \in Key :
               EarnedBy(zones'[z], k, CountedFor(req', z, k))
    PROVE  IInv'
<1>1. s \in Req
  BY DEF ReqInv
<1>2. /\ req' \in [Request -> Req]
      /\ \A i \in Request : req'[i] = IF i = r THEN s ELSE req[i]
  BY <1>1 DEF IInv
<1>3. /\ ZonesOf(zones')
      /\ \A z \in Zone : zones'[z] = IF z = zn THEN y ELSE zones[z]
  BY DEF IInv, ZonesOf
<1>4. \A z \in Zone : ZoneInv(zones'[z], clock, 0)
  BY <1>3 DEF IInv
<1>5. \A z \in Zone : KeepsBans(zones[z], zones'[z], clock)
  BY <1>3 DEF KeepsBans
<1>6. \A i \in Request : ReqInv(req'[i]) /\ TellsTrue(req'[i], zones', clock)
  <2>1. SUFFICES ASSUME NEW i \in Request
                 PROVE  ReqInv(req'[i]) /\ TellsTrue(req'[i], zones', clock)
    OBVIOUS
  <2>2. CASE i = r
    BY <1>2, <2>2
  <2>3. CASE i # r
    <3>1. req'[i] = req[i] /\ ReqInv(req[i]) /\ TellsTrue(req[i], zones, clock)
      BY <1>2, <2>3 DEF IInv
    <3>2. clock \in Int /\ clock >= 0
      BY ClockFacts
    <3>3. TellsTrue(req[i], zones', clock)
      BY <1>5, <3>1, <3>2, TellsTrueLater
    <3> QED
      BY <3>1, <3>3
  <2> QED
    BY <2>2, <2>3
<1> QED
  BY <1>2, <1>3, <1>4, <1>6 DEF IInv

\* The clock ticks.
LEMMA TickStep == IInv /\ Tick => IInv'
<1> SUFFICES ASSUME IInv, Tick PROVE IInv'
  OBVIOUS
<1>1. /\ clock \in Nat /\ clock \in Int /\ clock' = clock + 1
      /\ clock' \in 1 .. MaxTime
      /\ zones' = zones /\ req' = req
  BY ClockFacts, RequestParameters DEF Tick
<1>2. ASSUME NEW z \in Zone PROVE ZoneInv(zones[z], clock + 1, 0)
  <2>1. ZoneInv(zones[z], clock, 0)
    BY DEF IInv
  <2>2. ASSUME NEW k \in DOMAIN zones[z].node
        PROVE  NodeInv(zones[z].node[k], clock + 1, 0)
    BY <1>1, <2>1, NodeInvLater DEF ZoneInv
  <2> QED
    BY <2>1, <2>2 DEF ZoneInv
<1>3. ASSUME NEW r \in Request PROVE TellsTrue(req[r], zones, clock + 1)
  <2>1. /\ req[r].ctx.blocked_until \in Int /\ req[r].until \in Int
        /\ TellsTrue(req[r], zones, clock)
    BY TimeFacts DEF IInv, ReqInv, Req, Ctx
  <2> QED
    BY <1>1, <2>1 DEF TellsTrue
<1> QED
  BY <1>1, <1>2, <1>3 DEF IInv

\* A request arrives.
LEMMA ArriveStep ==
    ASSUME IInv, NEW r \in Request, Arrive(r)
    PROVE  IInv'
<1>1. PICK q : q = req[r]
  OBVIOUS
<1>2. ReqInv(q) /\ q.phase = "new"
  BY <1>1 DEF IInv, Arrive
<1>3. /\ q \in Req /\ q.ctx \in Ctx /\ q.ctx.zone = NoZone /\ q.hit = "none"
      /\ Identified(q) /\ History(q) /\ Running(q)
      /\ q.ctx.blocked_until = 0 /\ q.until = 0
  BY <1>2 DEF ReqInv, Running, Identified, History, Req
<1>4. PICK l \in Location, k \in Key \cup {NoKey} :
          req' = [req EXCEPT ![r] = [q EXCEPT !.phase = "rewrite", !.loc = l,
                                              !.client = k]]
  BY <1>1 DEF Arrive, IInv
<1>5. PICK s : s = [q EXCEPT !.phase = "rewrite", !.loc = l, !.client = k]
  OBVIOUS
<1>6. /\ s \in Req /\ s.ctx = q.ctx /\ s.phase = "rewrite" /\ s.loc = l
      /\ s.until = q.until
      /\ s.calls = q.calls /\ s.hit = q.hit
      /\ s.hit_zone = q.hit_zone /\ s.origin = q.origin
      /\ s.private = q.private
  BY <1>3, <1>5 DEF Req, Phase
<1>7. Identified(s) /\ History(s) /\ Running(s)
  BY <1>3, <1>6 DEF Identified, History, Running
<1>8. ReqInv(s) /\ SameCount(q, s)
  BY <1>2, <1>3, <1>6, <1>7 DEF ReqInv, SameCount
<1>9. TellsTrue(s, zones, clock)
  BY <1>3, <1>6, ClockFacts DEF TellsTrue
<1> QED
  BY <1>1, <1>4, <1>5, <1>8, <1>9, QuietStep DEF Arrive

\* nginx moves a request on: only its phase, status, location and set change.
Moved(q, s) ==
    /\ s \in Req /\ s.ctx = q.ctx
    /\ s.client = q.client /\ s.anchored = q.anchored
    /\ s.until = q.until /\ s.calls = q.calls /\ s.hit = q.hit
    /\ s.hit_zone = q.hit_zone /\ s.origin = q.origin
    /\ s.private = q.private
    /\ s.phase \in {"rewrite", "header", "special"}
    /\ s.loc \in Location
    /\ s.set => q.set /\ s.loc = q.loc

LEMMA MoveStep ==
    ASSUME IInv, NEW r \in Request, UNCHANGED <<clock, zones>>,
           req[r].phase \in {"rewrite", "content", "special"},
           NEW s, Moved(req[r], s), req' = [req EXCEPT ![r] = s]
    PROVE  IInv'
<1>1. PICK q : q = req[r]
  OBVIOUS
<1>2. /\ ReqInv(q) /\ q \in Req /\ q.ctx \in Ctx
      /\ Identified(q) /\ History(q) /\ Running(q)
      /\ ~ q.ctx.response_seen /\ TellsTrue(q, zones, clock)
  BY <1>1 DEF IInv, ReqInv, Req
<1>3. Identified(s) /\ History(s) /\ Running(s)
  BY <1>1, <1>2 DEF Identified, History, Running, Moved
<1>4. ReqInv(s) /\ SameCount(q, s)
  BY <1>1, <1>2, <1>3 DEF ReqInv, SameCount, Moved
<1>5. TellsTrue(s, zones, clock)
  BY <1>1, <1>2 DEF TellsTrue, Moved
<1> QED
  BY <1>1, <1>4, <1>5, QuietStep

\* A handler answers.
LEMMA RespondStep ==
    ASSUME IInv, NEW r \in Request, Respond(r)
    PROVE  IInv'
<1>1. PICK q : q = req[r]
  OBVIOUS
<1>2. /\ q \in Req /\ q.loc \in Location /\ q.phase \in {"rewrite", "content"}
      /\ q.status \in Status
  BY <1>1 DEF IInv, ReqInv, Running, Req, Respond
<1>3. PICK st \in {"ok", "error", q.status} :
          req' = [req EXCEPT ![r] = [q EXCEPT !.status = st,
                                       !.phase = IF st = "error" THEN "special"
                                                                 ELSE "header"]]
  BY <1>1 DEF Respond, IInv
<1>4. PICK s : s = [q EXCEPT !.status = st,
                             !.phase = IF st = "error" THEN "special"
                                                       ELSE "header"]
  OBVIOUS
<1>5. st \in Status
  BY <1>2 DEF Status
<1>6. Moved(q, s)
  BY <1>2, <1>4, <1>5 DEF Req, Moved, Phase
<1> QED
  BY <1>1, <1>2, <1>3, <1>4, <1>6, MoveStep DEF Respond

\* nginx renders an error itself.
LEMMA SendSpecialStep ==
    ASSUME IInv, NEW r \in Request, SendSpecial(r)
    PROVE  IInv'
<1>1. PICK q : q = req[r]
  OBVIOUS
<1>2. q \in Req /\ q.loc \in Location /\ q.phase = "special"
  BY <1>1 DEF IInv, ReqInv, Running, Req, SendSpecial
<1>3. PICK s : s = [q EXCEPT !.phase = "header"]
  OBVIOUS
<1>4. req' = [req EXCEPT ![r] = s]
  BY <1>1, <1>3 DEF SendSpecial, IInv
<1>5. Moved(q, s)
  BY <1>2, <1>3 DEF Req, Moved, Phase
<1> QED
  BY <1>1, <1>2, <1>4, <1>5, MoveStep DEF SendSpecial

\* A redirect starts the phases again.
LEMMA RedirectStep ==
    ASSUME IInv, NEW r \in Request, Redirect(r)
    PROVE  IInv'
<1>1. PICK q : q = req[r]
  OBVIOUS
<1>2. q \in Req /\ q.phase \in {"special", "content"} /\ q.hops \in Nat
  BY <1>1 DEF IInv, ReqInv, Req, Redirect
<1>3. PICK h \in Nat : h = q.hops + 1
  BY <1>2
<1>4. PICK l \in Location :
          req' = [req EXCEPT ![r] = [req[r] EXCEPT !.phase = "rewrite", !.loc = l,
                                        !.set = FALSE, !.hops = req[r].hops + 1]]
  BY DEF Redirect
<1>5. PICK s : s = [q EXCEPT !.phase = "rewrite", !.loc = l, !.set = FALSE,
                             !.hops = h]
  OBVIOUS
<1>6. req' = [req EXCEPT ![r] = s]
  BY <1>1, <1>3, <1>4, <1>5
<1>7. Moved(q, s)
  BY <1>2, <1>5 DEF Req, Moved, Phase
<1> QED
  BY <1>1, <1>2, <1>6, <1>7, MoveStep DEF Redirect

\* What was told of a request stays true of what prepare_ctx() makes of it.
LEMMA PreparedTells ==
    ASSUME NEW q, q.phase # "done", NEW s, Prepared(q, s), NEW zs,
           s.client = q.client,
           NEW c \in Int, c >= 0, TellsTrue(q, zs, c)
    PROVE  TellsTrue(s, zs, c)
<1>1. s.until = 0 /\ s.phase = q.phase /\ SameDeadline(q, s)
  BY DEF Prepared, ReqInv, Running
<1>2. CASE s.ctx.blocked_until = 0
  BY <1>1, <1>2 DEF TellsTrue
<1>3. CASE s.ctx.blocked_until # 0
  BY <1>1, <1>3 DEF TellsTrue, SameDeadline
<1> QED
  BY <1>2, <1>3

\* SameHistory is more than the steps need.
LEMMA HistoryCounts ==
    ASSUME NEW q, NEW s, SameHistory(q, s)
    PROVE  SameCount(q, s) /\ s.client = q.client
BY DEF SameHistory, SameCount

\* A zone is changed by is_blocked(), and a request moves on.
LEMMA BlockedStep ==
    ASSUME IInv, NEW r \in Request, NEW s, req' = [req EXCEPT ![r] = s],
           NEW zn \in Zone, NEW k \in Key,
           zones' = [zones EXCEPT ![zn] = IsBlocked(zones[zn], k, clock)],
           UNCHANGED clock, ReqInv(s), SameCount(req[r], s),
           TellsTrue(s, zones', clock)
    PROVE  IInv'
<1>1. PICK y : y = IsBlocked(zones[zn], k, clock)
  OBVIOUS
<1>2. ZoneInv(zones[zn], clock, 0) /\ CachedAt(clock, clock, 0)
  BY ClockFacts DEF IInv
<1>3. ZoneInv(y, clock, 0)
  BY <1>1, <1>2, IsBlockedFacts DEF Updates
<1>4. ASSUME NEW j
      PROVE  /\ NoMore(zones[zn], y, j)
             /\ Until(zones[zn], j) > clock => Until(y, j) = Until(zones[zn], j)
  BY <1>1, <1>2, IsBlockedKeeps
<1>5. KeepsBans(zones[zn], y, clock)
  BY <1>4 DEF KeepsBans
<1>6. \A z \in Zone : zones'[z] = IF z = zn THEN y ELSE zones[z]
  BY <1>1 DEF IInv, ZonesOf
<1>7. PICK ws : ws = req'
  OBVIOUS
<1>8. \A i \in Request : SameCount(req[i], ws[i])
  <2>1. s \in Req
    BY DEF ReqInv
  <2>2. \A i \in Request : ws[i] = IF i = r THEN s ELSE req[i]
    BY <1>7, <2>1 DEF IInv
  <2> QED
    BY <2>2 DEF SameCount
<1>9. ASSUME NEW z \in Zone, NEW i \in Key
      PROVE  EarnedBy(zones'[z], i, CountedFor(ws, z, i))
  <2>1. PICK S : S = CountedFor(req, z, i)
    OBVIOUS
  <2>2. CountedFor(ws, z, i) = S /\ EarnedBy(zones[z], i, S)
    BY <1>8, <2>1, SameCounted DEF IInv
  <2>3. CASE z = zn
    <3>1. Len(Events(zones[zn], i)) \in Nat /\ Len(Events(y, i)) \in Nat
      BY <1>2, <1>3, EventsLength
    <3>2. EarnedBy(zones[zn], i, S)
      BY <2>2, <2>3
    <3>3. EarnedBy(y, i, S)
      BY <1>4, <3>1, <3>2, EarnedStays
    <3> QED
      BY <1>6, <2>2, <2>3, <3>3
  <2>4. CASE z # zn
    BY <1>6, <2>2, <2>4
  <2> QED
    BY <2>3, <2>4
<1>10. \A z \in Zone, i \in Key : EarnedBy(zones'[z], i, CountedFor(req', z, i))
  BY <1>7, <1>9
<1> QED
  BY <1>1, <1>3, <1>5, <1>10, ZoneStep

\* A zone is changed by record(), and the request has been counted for it if
\* it has a node.
LEMMA RecordedStep ==
    ASSUME IInv, NEW r \in Request, NEW s, req' = [req EXCEPT ![r] = s],
           NEW zn \in Zone, NEW k \in Key, NEW y,
           y = Record(zones[zn], k, clock),
           zones' = [zones EXCEPT ![zn] = y],
           UNCHANGED clock, ReqInv(s), TellsTrue(s, zones', clock),
           req[r].hit = "none", s.client = k, s.hit_zone = zn,
           s.hit \in {"OK", "BUSY"} <=> k \in DOMAIN y.node
    PROVE  IInv'
<1>1. ZoneInv(zones[zn], clock, 0) /\ CachedAt(clock, clock, 0)
  BY ClockFacts DEF IInv
<1>2. ZoneInv(y, clock, 0)
  BY <1>1, RecordFacts DEF Updates
<1>3. ASSUME NEW j
      PROVE  /\ j # k => NoMore(zones[zn], y, j)
             /\ Until(zones[zn], j) > clock => Until(y, j) = Until(zones[zn], j)
             /\ j = k =>
                    /\ Len(Events(y, k)) <= Len(Events(zones[zn], k)) + 1
                    /\ Until(y, k) # 0 =>
                           \/ Until(zones[zn], k) # 0
                           \/ Len(Events(zones[zn], k)) + 1 >= Threshold
             /\ k \notin DOMAIN y.node => NoMore(zones[zn], y, k)
  BY <1>1, RecordKeeps
<1>4. KeepsBans(zones[zn], y, clock)
  BY <1>3 DEF KeepsBans
<1>5. \A z \in Zone : zones'[z] = IF z = zn THEN y ELSE zones[z]
  BY DEF IInv, ZonesOf
<1>6. PICK ws : ws = req'
  OBVIOUS
<1>7. \A i \in Request : ws[i] = IF i = r THEN s ELSE req[i]
  <2>1. s \in Req
    BY DEF ReqInv
  <2> QED
    BY <1>6, <2>1 DEF IInv
<1>8. ASSUME NEW z \in Zone, NEW i \in Key
      PROVE  EarnedBy(zones'[z], i, CountedFor(ws, z, i))
  <2>1. PICK S : S = CountedFor(req, z, i)
    OBVIOUS
  <2>2. EarnedBy(zones[z], i, S) /\ r \notin S
    BY <2>1 DEF IInv, CountedFor
  <2>3. CASE z = zn /\ i = k /\ k \in DOMAIN y.node
    <3>1. CountedFor(ws, z, i) = S \cup {r}
      BY <1>7, <2>1, <2>3 DEF CountedFor
    <3>2. Len(Events(zones[zn], k)) \in Nat /\ Len(Events(y, k)) \in Nat
      BY <1>1, <1>2, EventsLength
    <3>3. EarnedBy(zones[zn], k, S)
      BY <2>2, <2>3
    <3>4. EarnedBy(y, k, S \cup {r})
      BY <1>3, <2>2, <3>2, <3>3, EarnedGrows
    <3> QED
      BY <1>5, <2>3, <3>1, <3>4
  <2>4. CASE ~ (z = zn /\ i = k /\ k \in DOMAIN y.node)
    <3>1. CountedFor(ws, z, i) = S
      BY <1>7, <2>1, <2>4 DEF CountedFor
    <3>2. CASE z = zn
      <4>1. Len(Events(zones[zn], i)) \in Nat /\ Len(Events(y, i)) \in Nat
        BY <1>1, <1>2, EventsLength
      <4>2. EarnedBy(zones[zn], i, S) /\ NoMore(zones[zn], y, i)
        BY <1>3, <2>2, <2>4, <3>2
      <4>3. EarnedBy(y, i, S)
        BY <4>1, <4>2, EarnedStays
      <4> QED
        BY <1>5, <3>1, <3>2, <4>3
    <3>3. CASE z # zn
      BY <1>5, <2>2, <3>1, <3>3
    <3> QED
      BY <3>2, <3>3
  <2> QED
    BY <2>3, <2>4
<1>9. \A z \in Zone, i \in Key : EarnedBy(zones'[z], i, CountedFor(req', z, i))
  BY <1>6, <1>8
<1> QED
  BY <1>2, <1>4, <1>9, ZoneStep

\* preaccess lets a request without a zone go on, or fails it.
LEMMA UnidentifiedFacts ==
    ASSUME NEW q, ReqInv(q), q.phase = "rewrite", q.ctx.zone = NoZone,
           NEW ph \in {"content", "special"}, NEW st \in Status,
           NEW s, s = [q EXCEPT !.phase = ph, !.status = st]
    PROVE  /\ ReqInv(s) /\ SameHistory(q, s)
           /\ s.ctx.zone = NoZone /\ s.ctx.blocked_until = 0 /\ s.until = 0
<1>1. /\ q \in Req /\ q.ctx \in Ctx /\ ~ q.ctx.response_seen
      /\ Identified(q) /\ History(q) /\ Running(q)
  BY DEF ReqInv, Req
<1>2. /\ s \in Req /\ s.ctx = q.ctx /\ s.phase = ph /\ s.loc = q.loc
      /\ s.set = q.set /\ s.client = q.client /\ s.anchored = q.anchored
      /\ s.until = q.until
      /\ s.calls = q.calls /\ s.hit = q.hit
      /\ s.hit_zone = q.hit_zone /\ s.origin = q.origin
      /\ s.private = q.private
  BY <1>1 DEF Req, Phase
<1>3. Identified(s) /\ History(s) /\ Running(s)
  BY <1>1, <1>2 DEF Identified, History, Running
<1> QED
  BY <1>1, <1>2, <1>3 DEF ReqInv, SameHistory, Identified

\* preaccess.
LEMMA PreaccessStep ==
    ASSUME IInv, NEW r \in Request, Preaccess(r)
    PROVE  IInv'
<1>1. PICK q : q = req[r]
  OBVIOUS
<1>2. /\ ReqInv(q) /\ q.phase = "rewrite" /\ TellsTrue(q, zones, clock)
      /\ UNCHANGED clock
  BY <1>1 DEF IInv, Preaccess
<1>3. PICK p \in PrepareCtx(q) :
          \/ /\ p.null
             /\ req' = [req EXCEPT ![r] =
                          IF Conf[q.loc].enabled /\ Conf[q.loc].zone # NoZone
                          THEN [p.q EXCEPT !.phase = "special",
                                           !.status = "internal"]
                          ELSE [p.q EXCEPT !.phase = "content"]]
             /\ UNCHANGED zones
          \/ /\ ~ p.null /\ p.q.ctx.zone = NoZone
             /\ req' = [req EXCEPT ![r] = [p.q EXCEPT !.phase = "content"]]
             /\ UNCHANGED zones
          \/ LET z == IsBlocked(zones[p.q.ctx.zone], p.q.client, clock)
             IN  /\ ~ p.null /\ p.q.ctx.zone # NoZone
                 /\ req' = [req EXCEPT ![r] = Judge(p.q, z)]
                 /\ zones' = [zones EXCEPT ![p.q.ctx.zone] = z]
  BY <1>1 DEF Preaccess
<1>4. PICK a : a = p.q
  OBVIOUS
<1>5. Prepared(q, a) /\ (p.null => a.ctx.zone = NoZone)
  BY <1>2, <1>4, PrepareFacts
<1>6. ReqInv(a) /\ SameHistory(q, a) /\ a.phase = "rewrite" /\ a \in Req
  BY <1>2, <1>5 DEF Prepared, ReqInv
<1>7. SameCount(q, a) /\ a.client = q.client
  BY <1>6, HistoryCounts
<1>8. CASE a.ctx.zone = NoZone
  <2>1. PICK ph \in {"content", "special"}, st \in Status :
            req' = [req EXCEPT ![r] = [a EXCEPT !.phase = ph, !.status = st]]
    <3>1. a.status \in Status /\ "internal" \in Status
      BY <1>6 DEF Req, Status
    <3>2. [a EXCEPT !.phase = "content"]
              = [a EXCEPT !.phase = "content", !.status = a.status]
      BY <1>6 DEF Req
    <3> QED
      BY <1>3, <1>4, <1>8, <3>1, <3>2
  <2>2. PICK s : s = [a EXCEPT !.phase = ph, !.status = st]
    OBVIOUS
  <2>3. /\ ReqInv(s) /\ SameHistory(a, s)
        /\ s.ctx.blocked_until = 0 /\ s.until = 0
    BY <1>6, <1>8, <2>2, UnidentifiedFacts
  <2>4. SameCount(q, s)
    BY <1>6, <2>3 DEF SameHistory, SameCount
  <2>5. TellsTrue(s, zones, clock)
    BY <2>3, ClockFacts DEF TellsTrue
  <2>6. UNCHANGED zones
    BY <1>3, <1>4, <1>8
  <2> QED
    BY <1>1, <1>2, <2>1, <2>2, <2>3, <2>4, <2>5, <2>6, QuietStep
<1>9. CASE a.ctx.zone # NoZone
  <2>1. PICK zn \in Zone : zn = a.ctx.zone
    BY <1>6, <1>9 DEF Req, Ctx
  <2>2. a.client \in Key
    BY <1>6, <1>9 DEF ReqInv, Identified
  <2>3. PICK y : y = IsBlocked(zones[zn], a.client, clock)
    OBVIOUS
  <2>4. PICK s : s = Judge(a, y)
    OBVIOUS
  <2>5. /\ req' = [req EXCEPT ![r] = s]
        /\ zones' = [zones EXCEPT ![zn] = y]
    BY <1>3, <1>4, <1>5, <1>9, <2>1, <2>3, <2>4
  <2>6. ZoneInv(zones[zn], clock, 0) /\ CachedAt(clock, clock, 0) /\ clock \in Int
    BY ClockFacts DEF IInv
  <2>7. ZoneInv(y, clock, 0)
    BY <2>2, <2>3, <2>6, IsBlockedFacts DEF Updates
  <2>8. EffectiveDryRun(a) = Conf[a.origin].dry_run
    BY <1>5, <1>9 DEF Prepared
  <2>9. /\ ReqInv(s) /\ SameHistory(a, s)
        /\ s.phase \in {"content", "special"}
        /\ s.until = a.until
        /\ s.ctx.zone = a.ctx.zone
        /\ s.ctx.blocked_until = Until(y, a.client)
    BY <1>6, <1>9, <2>4, <2>6, <2>7, <2>8, JudgeFacts
  <2>10. SameCount(q, s) /\ s.client = a.client
    BY <1>6, <2>9 DEF SameHistory, SameCount
  <2>11. zones'[zn] = y
    BY <2>5 DEF IInv, ZonesOf
  <2>12. TellsTrue(s, zones', clock)
    <3>1. s.until = 0
      BY <2>9 DEF ReqInv, Running
    <3> QED
      BY <2>1, <2>9, <2>10, <2>11, <3>1, ClockFacts DEF TellsTrue
  <2> QED
    BY <1>1, <1>2, <2>2, <2>3, <2>5, <2>9, <2>10, <2>12, BlockedStep
<1> QED
  BY <1>8, <1>9

\* The header filter lets a response pass that it does not look at.
LEMMA PassedFacts ==
    ASSUME NEW q, ReqInv(q), q.phase = "header", q.ctx.zone = NoZone
    PROVE  LET s == Sent(q)
           IN  /\ ReqInv(s) /\ SameHistory(q, s) /\ s.phase = "done"
               /\ s.until = 0
<1>1. q \in Req /\ Identified(q) /\ History(q) /\ Running(q)
  BY DEF ReqInv
<1>2. q.hit = "none"
  BY <1>1 DEF History, Identified
<1>3. Over(q)
  BY <1>1, <1>2 DEF Over, Running, Identified
<1> QED
  BY <1>1, <1>3, SentFacts DEF Running

\* The header filter.
LEMMA HeaderFilterStep ==
    ASSUME IInv, NEW r \in Request, HeaderFilter(r)
    PROVE  IInv'
<1>1. PICK q0 : q0 = req[r]
  OBVIOUS
<1>2. /\ ReqInv(q0) /\ q0.phase = "header" /\ TellsTrue(q0, zones, clock)
      /\ UNCHANGED clock
  BY <1>1 DEF IInv, HeaderFilter
<1>3. PICK p \in PrepareCtx(q0) :
          LET q == Seen(p.q)
              z == ZoneAfter(q)
          IN  \/ /\ p.null \/ p.q.ctx.zone = NoZone \/ p.q.ctx.response_seen
                 /\ req' = [req EXCEPT ![r] = Sent(p.q)]
                 /\ UNCHANGED zones
              \/ /\ ~ p.null /\ p.q.ctx.zone # NoZone
                 /\ ~ p.q.ctx.response_seen
                 /\ \/ /\ NotCounted(q)
                       /\ \E s \in IF q.ctx.own_rejection
                                   THEN AddRejectHeaders(q) ELSE {Sent(q)} :
                             req' = [req EXCEPT ![r] = s]
                       /\ UNCHANGED zones
                    \/ /\ ~ NotCounted(q)
                       /\ req' = [req EXCEPT ![r] =
                                    IF q.ctx.dry_run THEN Observed(q)
                                                     ELSE Counted(q, z)]
                       /\ zones' = [zones EXCEPT ![q.ctx.zone] = z]
  BY <1>1 DEF HeaderFilter
<1>4. PICK a : a = p.q
  OBVIOUS
<1>5. Prepared(q0, a) /\ (p.null => a.ctx.zone = NoZone)
  BY <1>2, <1>4, PrepareFacts
<1>6. /\ ReqInv(a) /\ SameHistory(q0, a) /\ a.phase = "header" /\ a \in Req
      /\ ~ a.ctx.response_seen
  BY <1>2, <1>5 DEF Prepared, ReqInv
<1>7. SameCount(q0, a) /\ a.client = q0.client
  BY <1>6, HistoryCounts
<1>8. clock \in Int /\ clock \in Nat /\ clock \in Time
  BY ClockFacts
<1>9. ASSUME NEW s, s.phase = "done", s.until = 0
      PROVE  \A zs : TellsTrue(s, zs, clock)
  BY <1>8, <1>9 DEF TellsTrue
<1>10. CASE a.ctx.zone = NoZone
  <2>1. PICK s : s = Sent(a)
    OBVIOUS
  <2>2. req' = [req EXCEPT ![r] = s] /\ UNCHANGED zones
    BY <1>3, <1>4, <1>10, <2>1
  <2>3. /\ ReqInv(s) /\ SameHistory(a, s) /\ s.phase = "done"
        /\ s.until = 0
    BY <1>6, <1>10, <2>1, PassedFacts
  <2>4. SameCount(q0, s)
    BY <1>6, <2>3 DEF SameHistory, SameCount
  <2> QED
    BY <1>1, <1>2, <1>9, <2>2, <2>3, <2>4, QuietStep
<1>11. CASE a.ctx.zone # NoZone
  <2>1. PICK q : q = Seen(a)
    OBVIOUS
  <2>2. EffectiveDryRun(a) = Conf[a.origin].dry_run
    BY <1>5, <1>11 DEF Prepared
  <2>3. /\ Looked(q) /\ SameHistory(a, q) /\ q.until = a.until
        /\ q.ctx.zone = a.ctx.zone
        /\ q.ctx.blocked_until = a.ctx.blocked_until
    BY <1>6, <1>11, <2>1, <2>2, SeenFacts
  <2>4. SameCount(q0, q) /\ q.client = q0.client
    BY <1>6, <2>3 DEF SameHistory, SameCount
  <2>5. PICK zn \in Zone : zn = q.ctx.zone
    BY <2>3 DEF Looked, Req, Ctx
  <2>6. q.client \in Key /\ q.phase # "done"
    BY <2>3 DEF Looked, Identified
  <2>7. TellsTrue(q, zones, clock)
    <3>1. TellsTrue(a, zones, clock)
      BY <1>2, <1>5, <1>7, <1>8, PreparedTells
    <3> QED
      BY <1>6, <1>7, <2>3, <2>4, <3>1 DEF TellsTrue
  <2>8. PICK z : z = ZoneAfter(q)
    OBVIOUS
  <2>9. \/ /\ NotCounted(q)
           /\ \E s \in IF q.ctx.own_rejection
                       THEN AddRejectHeaders(q) ELSE {Sent(q)} :
                 req' = [req EXCEPT ![r] = s]
           /\ UNCHANGED zones
        \/ /\ ~ NotCounted(q)
           /\ req' = [req EXCEPT ![r] = IF q.ctx.dry_run THEN Observed(q)
                                                         ELSE Counted(q, z)]
           /\ zones' = [zones EXCEPT ![zn] = z]
    BY <1>3, <1>4, <1>5, <1>6, <1>11, <2>1, <2>5, <2>8
  <2>10. CASE NotCounted(q) /\ q.ctx.own_rejection
    <3>1. PICK s \in AddRejectHeaders(q) :
              req' = [req EXCEPT ![r] = s] /\ UNCHANGED zones
      BY <2>9, <2>10
    <3>2. /\ ReqInv(s) /\ SameHistory(q, s)
          /\ s.phase \in {"done", "aborted"}
          /\ s.ctx.zone = q.ctx.zone
          /\ s.phase # "done" => /\ s.ctx.blocked_until = q.ctx.blocked_until
                                 /\ s.until = 0
          /\ s.until # 0 => s.until = q.ctx.blocked_until
      BY <2>3, <2>10, RejectHeadersFacts
    <3>3. SameCount(q0, s) /\ s.client = q.client
      BY <2>4, <3>2 DEF SameHistory, SameCount
    <3>4. TellsTrue(s, zones, clock)
      <4>1. CASE s.phase # "done"
        BY <1>8, <2>6, <2>7, <3>2, <3>3, <4>1 DEF TellsTrue
      <4>2. CASE s.phase = "done" /\ s.until # 0
        BY <2>6, <2>7, <3>2, <3>3, <4>2 DEF TellsTrue
      <4>3. CASE s.phase = "done" /\ s.until = 0
        BY <1>9, <4>3
      <4> QED
        BY <4>1, <4>2, <4>3
    <3> QED
      BY <1>1, <1>2, <3>1, <3>2, <3>3, <3>4, QuietStep
  <2>11. CASE NotCounted(q) /\ ~ q.ctx.own_rejection
    <3>1. PICK s : s = Sent(q)
      OBVIOUS
    <3>2. req' = [req EXCEPT ![r] = s] /\ UNCHANGED zones
      BY <2>9, <2>11, <3>1
    <3>3. /\ ReqInv(s) /\ SameHistory(q, s) /\ s.phase = "done" /\ s.until = 0
      BY <2>3, <2>11, <3>1, NotCountedFacts
    <3>4. SameCount(q0, s)
      BY <2>4, <3>3 DEF SameHistory, SameCount
    <3> QED
      BY <1>1, <1>2, <1>9, <3>2, <3>3, <3>4, QuietStep
  <2>12. CASE ~ NotCounted(q) /\ q.ctx.dry_run
    <3>1. PICK s : s = Observed(q)
      OBVIOUS
    <3>2. /\ req' = [req EXCEPT ![r] = s]
          /\ zones' = [zones EXCEPT ![zn] = zones[zn]]
      BY <2>5, <2>8, <2>9, <2>12, <3>1 DEF ZoneAfter
    <3>3. UNCHANGED zones
      BY <3>2 DEF IInv, ZonesOf
    <3>4. /\ ReqInv(s) /\ SameHistory(q, s) /\ s.phase = "done" /\ s.until = 0
      <4>1. ZoneInv(zones[q.ctx.zone], clock, 0) /\ ~ q.ctx.own_rejection
        BY <2>5, <2>12 DEF IInv, NotCounted
      <4> QED
        BY <1>8, <2>3, <3>1, <4>1, ObservedFacts
    <3>5. SameCount(q0, s)
      BY <2>4, <3>4 DEF SameHistory, SameCount
    <3> QED
      BY <1>1, <1>2, <1>9, <3>2, <3>3, <3>4, <3>5, QuietStep
  <2>13. CASE ~ NotCounted(q) /\ ~ q.ctx.dry_run
    <3>1. PICK s : s = Counted(q, z)
      OBVIOUS
    <3>2. /\ req' = [req EXCEPT ![r] = s]
          /\ zones' = [zones EXCEPT ![zn] = z]
      BY <2>9, <2>13, <3>1
    <3>3. z = Record(zones[zn], q.client, clock)
      BY <2>5, <2>8, <2>13 DEF ZoneAfter
    <3>4. ~ q.ctx.own_rejection /\ q.ctx.state # "DRY_RUN"
      BY <2>13 DEF NotCounted
    <3>5. ZoneInv(z, clock, 0)
      <4>1. ZoneInv(zones[zn], clock, 0) /\ CachedAt(clock, clock, 0)
        BY ClockFacts DEF IInv
      <4> QED
        BY <2>6, <3>3, <4>1, RecordFacts DEF Updates
    <3>6. /\ ReqInv(s) /\ s.client = q.client /\ q.hit = "none"
          /\ s.hit_zone = q.ctx.zone /\ s.ctx.zone = q.ctx.zone
          /\ s.hit \in {"OK", "BUSY"} <=> q.client \in DOMAIN z.node
          /\ s.until = 0
          /\ s.phase # "done" => s.ctx.blocked_until = Until(z, q.client)
      BY <2>3, <2>13, <3>1, <3>4, <3>5, CountedFacts
    <3>7. zones'[zn] = z
      BY <3>2 DEF IInv, ZonesOf
    <3>8. TellsTrue(s, zones', clock)
      BY <1>8, <2>5, <3>6, <3>7 DEF TellsTrue
    <3>9. req[r].hit = "none"
      BY <1>1, <2>4, <3>6 DEF SameCount
    <3> QED
      BY <1>2, <2>5, <2>6, <3>2, <3>3, <3>6, <3>8, <3>9, RecordedStep
  <2> QED
    BY <2>10, <2>11, <2>12, <2>13
<1> QED
  BY <1>10, <1>11

LEMMA NextIInv == IInv /\ [Next]_vars => IInv'
<1> SUFFICES ASSUME IInv, [Next]_vars PROVE IInv'
  OBVIOUS
<1>1. CASE Tick
  BY <1>1, TickStep
<1>2. CASE \E r \in Request :
              \/ Arrive(r) \/ Preaccess(r) \/ HeaderFilter(r)
              \/ Respond(r) \/ SendSpecial(r) \/ Redirect(r)
  BY <1>2, ArriveStep, PreaccessStep, HeaderFilterStep, RespondStep,
     SendSpecialStep, RedirectStep
<1>3. CASE UNCHANGED vars
  BY <1>3 DEF vars, IInv
<1> QED
  BY <1>1, <1>2, <1>3 DEF Next

\* The invariant holds in every state of every run.
THEOREM Invariance == Spec => []IInv
BY InitIInv, NextIInv, PTL DEF Spec

-----------------------------------------------------------------------------
(***************************************************************************)
(* The properties.                                                         *)
(***************************************************************************)

\* Every handler leaves a request and its zones of the right types.
THEOREM TypeCorrect == Spec => []TypeOK
<1>1. IInv => TypeOK
  BY DEF IInv, TypeOK, ReqInv, Req, Ctx, ZoneInv, GoodZone
<1> QED
  BY <1>1, Invariance, PTL

\* No sequence of redirects and rejections counts a request twice, or counts a
\* rejection of the module.
THEOREM CountsOnce == Spec => []CountedOnce
<1>1. IInv => CountedOnce
  BY DEF IInv, CountedOnce, ReqInv, History
<1> QED
  BY <1>1, Invariance, PTL

\* A request counts for the zone of its origin, and only if that enforces.
THEOREM OriginAlwaysWins == Spec => []OriginWins
<1>1. IInv => OriginWins
  <2>1. ASSUME NEW q, ReqInv(q), q.calls > 0
        PROVE  /\ q.hit_zone = Conf[q.origin].zone
               /\ ~ Conf[q.origin].dry_run
    BY <2>1 DEF ReqInv, Identified, History
  <2> QED
    BY <2>1 DEF IInv, OriginWins
<1> QED
  BY <1>1, Invariance, PTL

\* Exactly the module's own rejections leave with private headers.
THEOREM RejectionsStayPrivate == Spec => []RejectionsArePrivate
<1>1. IInv => RejectionsArePrivate
  BY DEF IInv, RejectionsArePrivate, ReqInv, Over
<1> QED
  BY <1>1, Invariance, PTL

\* Retry-After names the deadline of the ban as long as it runs.
THEOREM RetryAfterStaysTrue == Spec => []RetryAfterIsTrue
<1>1. IInv => RetryAfterIsTrue
  BY DEF IInv, RetryAfterIsTrue, TellsTrue, Until
<1> QED
  BY <1>1, Invariance, PTL

\* A ban takes Threshold counted requests of its client in its zone.
THEOREM BansAreEarned == Spec => []BanIsEarned
<1>1. IInv => BanIsEarned
  BY DEF IInv, BanIsEarned, EarnedBy, CountedFor, Until
<1> QED
  BY <1>1, Invariance, PTL

\* The status variable tells what happened to the request.
THEOREM StatusStaysTrue == Spec => []StatusIsTrue
<1>1. IInv => StatusIsTrue
  BY DEF IInv, StatusIsTrue, ReqInv, Over
<1> QED
  BY <1>1, Invariance, PTL

\* Only preaccess lets a request through to the content phase.
LEMMA StoppedStep ==
    ASSUME IInv, [Next]_vars, NEW r \in Request,
           req[r].phase = "rewrite", req'[r].phase = "content",
           req'[r].ctx.zone # NoZone
    PROVE  \/ Conf[req'[r].origin].dry_run
           \/ ~ Banned(NodeOf(zones[req'[r].ctx.zone], req'[r].client), clock)
<1>0. req \in [Request -> Req]
  BY DEF IInv
<1>1. Preaccess(r)
  <2>1. CASE Tick \/ UNCHANGED vars
    BY <2>1 DEF Tick, vars
  <2>2. ASSUME NEW i \in Request,
               \/ Arrive(i) \/ HeaderFilter(i) \/ Respond(i)
               \/ SendSpecial(i) \/ Redirect(i)
        PROVE  FALSE
    <3>1. CASE i = r
      <4>1. CASE Arrive(r) \/ HeaderFilter(r) \/ SendSpecial(r) \/ Redirect(r)
        BY <4>1 DEF Arrive, HeaderFilter, SendSpecial, Redirect
      <4>2. CASE Respond(r)
        <5>1. PICK st :
                  req' = [req EXCEPT ![r] =
                            [req[r] EXCEPT !.status = st,
                                !.phase = IF st = "error" THEN "special"
                                                          ELSE "header"]]
          BY <4>2 DEF Respond
        <5> QED
          BY <1>0, <5>1 DEF Req
      <4> QED
        BY <2>2, <3>1, <4>1, <4>2
    <3>2. CASE i # r
      <4>1. \E s : req' = [req EXCEPT ![i] = s]
        BY <2>2 DEF Arrive, HeaderFilter, Respond, SendSpecial, Redirect
      <4> QED
        BY <1>0, <3>2, <4>1
    <3> QED
      BY <3>1, <3>2
  <2>3. ASSUME NEW i \in Request, Preaccess(i), i # r
        PROVE  FALSE
    <3>1. \E s : req' = [req EXCEPT ![i] = s]
      BY <2>3 DEF Preaccess
    <3> QED
      BY <1>0, <2>3, <3>1
  <2> QED
    BY <2>1, <2>2, <2>3 DEF Next
<1>2. PICK q : q = req[r] /\ ReqInv(q) /\ q.phase = "rewrite"
  BY DEF IInv
<1>3. PICK p \in PrepareCtx(q) :
          \/ /\ p.null
             /\ req' = [req EXCEPT ![r] =
                          IF Conf[q.loc].enabled /\ Conf[q.loc].zone # NoZone
                          THEN [p.q EXCEPT !.phase = "special",
                                           !.status = "internal"]
                          ELSE [p.q EXCEPT !.phase = "content"]]
          \/ /\ ~ p.null /\ p.q.ctx.zone = NoZone
             /\ req' = [req EXCEPT ![r] = [p.q EXCEPT !.phase = "content"]]
          \/ LET z == IsBlocked(zones[p.q.ctx.zone], p.q.client, clock)
             IN  /\ ~ p.null /\ p.q.ctx.zone # NoZone
                 /\ req' = [req EXCEPT ![r] = Judge(p.q, z)]
  BY <1>1, <1>2 DEF Preaccess
<1>4. PICK a : a = p.q
  OBVIOUS
<1>5. Prepared(q, a) /\ (p.null => a.ctx.zone = NoZone)
  BY <1>2, <1>4, PrepareFacts
<1>6. ReqInv(a) /\ a \in Req /\ a.phase = "rewrite"
  BY <1>2, <1>5 DEF Prepared, ReqInv
<1>7. CASE a.ctx.zone = NoZone
  <2>1. \/ req'[r] = [a EXCEPT !.phase = "special", !.status = "internal"]
        \/ req'[r] = [a EXCEPT !.phase = "content"]
    BY <1>0, <1>3, <1>4, <1>7
  <2>2. req'[r].ctx = a.ctx
    BY <1>6, <2>1 DEF Req
  <2> QED
    BY <1>7, <2>2
<1>8. CASE a.ctx.zone # NoZone
  <2>1. PICK zn \in Zone : zn = a.ctx.zone
    BY <1>6, <1>8 DEF Req, Ctx
  <2>2. a.client \in Key
    BY <1>6, <1>8 DEF ReqInv, Identified
  <2>3. PICK y : y = IsBlocked(zones[zn], a.client, clock)
    OBVIOUS
  <2>4. PICK s : s = Judge(a, y)
    OBVIOUS
  <2>5. req'[r] = s
    BY <1>0, <1>3, <1>4, <1>5, <1>8, <2>1, <2>3, <2>4
  <2>6. /\ ZoneInv(zones[zn], clock, 0) /\ CachedAt(clock, clock, 0)
        /\ clock \in Int
    BY ClockFacts DEF IInv
  <2>7. ZoneInv(y, clock, 0)
    BY <2>2, <2>3, <2>6, IsBlockedFacts DEF Updates
  <2>8. EffectiveDryRun(a) = Conf[a.origin].dry_run
    BY <1>5, <1>8 DEF Prepared
  <2>9. /\ SameHistory(a, s)
        /\ s.ctx.zone = a.ctx.zone
        /\ s.phase = "content" => \/ Conf[s.origin].dry_run
                                  \/ ~ Banned(NodeOf(y, a.client), clock)
    BY <1>6, <1>8, <2>4, <2>6, <2>7, <2>8, JudgeFacts
  <2>10. Until(zones[zn], a.client) > clock =>
             Until(y, a.client) = Until(zones[zn], a.client)
    BY <2>2, <2>3, <2>6, IsBlockedKeeps
  <2>11. Banned(NodeOf(zones[zn], a.client), clock) =>
             Banned(NodeOf(y, a.client), clock)
    BY <2>10 DEF Banned, Until
  <2> QED
    BY <2>1, <2>5, <2>9, <2>11 DEF SameHistory
<1> QED
  BY <1>7, <1>8

\* A banned client gets past preaccess only if its origin is in dry run.
THEOREM BannedStayStopped == Spec => BannedAreStopped
<1>1. ASSUME IInv, [Next]_vars
      PROVE  [\A r \in Request :
                 LET q == req'[r]
                 IN  /\ req[r].phase = "rewrite" /\ q.phase = "content"
                     /\ q.ctx.zone # NoZone
                     => \/ Conf[q.origin].dry_run
                        \/ ~ Banned(NodeOf(zones[q.ctx.zone], q.client),
                                    clock)]_vars
  BY <1>1, StoppedStep
<1> QED
  BY <1>1, Invariance, PTL DEF Spec, BannedAreStopped

=============================================================================
