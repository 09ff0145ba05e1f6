------------------------- MODULE ErrorAbuseRequest -------------------------
(***************************************************************************)
(* The life of main requests through nginx's phases: the preaccess handler *)
(* and the header filter of the module, the request context they share and *)
(* its anchor, over zones that several locations use.                      *)
(*                                                                         *)
(* nginx itself is the environment: it picks the location, runs the        *)
(* rewrite, preaccess and content phases in that order, may answer in the  *)
(* rewrite phase (then preaccess never runs), may redirect internally from *)
(* the content phase, and may answer an error with an error_page redirect. *)
(* Both redirects clear the module's slot in r->ctx and start the phases   *)
(* again in another location; the request's cleanup list survives them.    *)
(*                                                                         *)
(* Zones do not use Redis here (module ErrorAbuseRedis does), and all      *)
(* requests read one clock (ErrorAbuseZone has clocks that differ).        *)
(***************************************************************************)
EXTENDS ErrorAbuseZoneOps

CONSTANTS
    Request,       \* the main requests
    Location,      \* the locations
    Conf,          \* Conf[l]: the location's enabled, zone and dry_run
    Zone,          \* the zones
    OnFullReject,  \* OnFullReject[z]: the zone's on_full=reject
    Tracked,       \* the statuses all zones count
    AllocMayFail,  \* whether allocations from the request pool may fail
    MaxHops,       \* bound: redirects of a request
    MaxTime,       \* bound: the clock stops here
    NoZone, NoKey, NoLoc

VARIABLES clock, zones, req

vars == <<clock, zones, req>>

Status == {"ok", "error", "reject", "internal"}

ASSUME RequestParameters ==
    /\ \A l \in Location : Conf[l] \in
          [enabled : BOOLEAN, zone : Zone \cup {NoZone}, dry_run : BOOLEAN]
    /\ OnFullReject \in [Zone -> BOOLEAN]
    /\ Tracked \subseteq Status
    /\ AllocMayFail \in BOOLEAN
    /\ MaxHops \in Nat
    /\ MaxTime \in Nat \ {0}
    /\ MaxTime < TimeMax
    /\ NoZone \notin Zone /\ NoKey \notin Key /\ NoLoc \notin Location

\* ngx_http_error_abuse_req_ctx_t
NoCtx == [zone |-> NoZone, state |-> "BYPASSED", dry_run |-> FALSE,
          response_seen |-> FALSE, own_rejection |-> FALSE,
          from_anchor |-> FALSE, blocked_until |-> 0]

\* A request.  set: r->ctx points at the context; anchored: the cleanup list
\* does.  origin, calls, hit and hit_zone are history: the first location
\* that identified the client, the number of record() calls, what the last
\* one returned and for which zone.  private and until describe the
\* rejection headers sent, until being the deadline Retry-After stands for.
Fresh == [phase |-> "new", loc |-> NoLoc, client |-> NoKey, hops |-> 0,
          status |-> "ok", set |-> FALSE, anchored |-> FALSE, ctx |-> NoCtx,
          origin |-> NoLoc, calls |-> 0, hit |-> "none", hit_zone |-> NoZone,
          private |-> FALSE, until |-> 0]

Init ==
    /\ clock = 1
    /\ zones = [z \in Zone |-> EmptyZone]
    /\ req = [r \in Request |-> Fresh]

-----------------------------------------------------------------------------
(***************************************************************************)
(* The module.                                                             *)
(***************************************************************************)

\* find_anchor_ctx: the context a redirect has detached is found again.
FindAnchor(q) == q.anchored

\* register_anchor, after the context has been set.
RegisterAnchor(q) == [q EXCEPT !.anchored = TRUE]

\* A context built from the configuration of the current location, before
\* the identity has been hashed.
NewCtx(q) ==
    [q EXCEPT !.set = TRUE,
              !.ctx = [NoCtx EXCEPT !.dry_run = Conf[q.loc].dry_run]]

\* prepare_ctx: the requests it may leave behind, and whether it returns
\* NULL.  Evaluating the key, the anchor and the digest may each fail.
PrepareCtx(q) ==
    LET conf     == Conf[q.loc]
        anchored == RegisterAnchor(NewCtx(q))
        hashed   == IF q.client = NoKey
                    THEN anchored
                    ELSE [anchored EXCEPT
                             !.ctx.zone = conf.zone, !.ctx.state = "PASSED",
                             !.origin = IF @ = NoLoc THEN q.loc ELSE @]
        failed   == {q, NewCtx(q)} \cup
                        (IF q.client = NoKey THEN {} ELSE {anchored})
    IN  IF q.set
        THEN {[q |-> q, null |-> FALSE]}
        ELSE IF FindAnchor(q)
        THEN {[q |-> [q EXCEPT !.set = TRUE, !.ctx.from_anchor = TRUE],
               null |-> FALSE]}
        ELSE IF ~ conf.enabled \/ conf.zone = NoZone
        THEN {[q |-> q, null |-> TRUE]}
        ELSE {[q |-> hashed, null |-> FALSE]} \cup
                 (IF AllocMayFail THEN {[q |-> f, null |-> TRUE] : f \in failed}
                                  ELSE {})

\* The dry_run of the location a redirect ended in.
MutEffectiveDryRun(q) == Conf[q.loc].dry_run

\* effective_dry_run: the origin's setting wins after a redirect.
EffectiveDryRun(q) ==
    IF q.ctx.from_anchor THEN q.ctx.dry_run ELSE Conf[q.loc].dry_run

\* The rejection that does not show in $error_abuse_status.
MutJudge(q, z) ==
    LET answer == Report(z, q.client, clock)
        told   == [q EXCEPT !.ctx.blocked_until = answer.blocked_until]
    IN  IF ~ answer.banned
        THEN [told EXCEPT !.phase = "content"]
        ELSE IF EffectiveDryRun(q)
        THEN [told EXCEPT !.phase = "content", !.ctx.state = "DRY_RUN"]
        ELSE [told EXCEPT !.phase = "special", !.status = "reject",
                          !.ctx.own_rejection = TRUE]

\* What preaccess does with a request that has a context with a zone, once
\* is_blocked() has left the zone z.
Judge(q, z) ==
    LET answer == Report(z, q.client, clock)
        told   == [q EXCEPT !.ctx.blocked_until = answer.blocked_until]
    IN  IF ~ answer.banned
        THEN [told EXCEPT !.phase = "content"]
        ELSE IF EffectiveDryRun(q)
        THEN [told EXCEPT !.phase = "content", !.ctx.state = "DRY_RUN"]
        ELSE [told EXCEPT !.phase = "special", !.status = "reject",
                          !.ctx.state = "BLOCKED", !.ctx.own_rejection = TRUE]

\* The handler that asks the current location first whether it is enabled.
MutPreaccess(r) ==
    /\ req[r].phase = "rewrite"
    /\ \E p \in PrepareCtx(req[r]) :
          LET conf == Conf[req[r].loc]
              zn   == p.q.ctx.zone
              z    == IsBlocked(zones[zn], p.q.client, clock)
          IN  IF ~ conf.enabled \/ p.null \/ zn = NoZone
              THEN /\ req' = [req EXCEPT ![r] = [p.q EXCEPT !.phase = "content"]]
                   /\ UNCHANGED zones
              ELSE /\ req' = [req EXCEPT ![r] = Judge(p.q, z)]
                   /\ zones' = [zones EXCEPT ![zn] = z]
    /\ UNCHANGED clock

\* ngx_http_error_abuse_preaccess
Preaccess(r) ==
    /\ req[r].phase = "rewrite"
    /\ \E p \in PrepareCtx(req[r]) :
          LET conf == Conf[req[r].loc]
              zn   == p.q.ctx.zone
              z    == IsBlocked(zones[zn], p.q.client, clock)
          IN  \/ /\ p.null
                 /\ req' = [req EXCEPT ![r] =
                              IF conf.enabled /\ conf.zone # NoZone
                              THEN [p.q EXCEPT !.phase = "special",
                                               !.status = "internal"]
                              ELSE [p.q EXCEPT !.phase = "content"]]
                 /\ UNCHANGED zones
              \/ /\ ~ p.null /\ zn = NoZone
                 /\ req' = [req EXCEPT ![r] = [p.q EXCEPT !.phase = "content"]]
                 /\ UNCHANGED zones
              \/ /\ ~ p.null /\ zn # NoZone
                 /\ req' = [req EXCEPT ![r] = Judge(p.q, z)]
                 /\ zones' = [zones EXCEPT ![zn] = z]
    /\ UNCHANGED clock

\* The response leaves for the client and the request is closed.  What is
\* left is what the log phase reads and the history.
Sent(q) == [q EXCEPT !.phase = "done", !.loc = NoLoc, !.hops = 0,
                     !.status = "ok", !.set = FALSE, !.anchored = FALSE,
                     !.ctx.response_seen = FALSE, !.ctx.dry_run = FALSE,
                     !.ctx.from_anchor = FALSE]

\* The Retry-After that is the length of a ban, not what is left of it.
MutAddRejectHeaders(q) ==
    {Sent([q EXCEPT !.private = TRUE, !.until = clock + Block])}

\* add_reject_headers: Cache-Control always, Retry-After for a 429 or 503
\* while the ban runs.  A failed allocation aborts the response.
AddRejectHeaders(q) ==
    LET told == IF q.status = "reject" /\ q.ctx.blocked_until > clock
                THEN q.ctx.blocked_until ELSE 0
    IN  {Sent([q EXCEPT !.private = TRUE, !.until = told])} \cup
            (IF AllocMayFail THEN {[q EXCEPT !.phase = "aborted"]} ELSE {})

\* The rejection for want of room that leaves response_seen set.
MutRejectFull(q) ==
    [q EXCEPT !.phase = "special", !.status = "reject",
              !.ctx.state = "BLOCKED", !.ctx.own_rejection = TRUE]

\* The rejection for want of room that is not marked as the module's own.
MutRejectFullUnmarked(q) ==
    [q EXCEPT !.phase = "special", !.status = "reject",
              !.ctx.state = "BLOCKED", !.ctx.response_seen = FALSE]

\* on_full=reject: the response is replaced by a rejection, and the header
\* filter will see that rejection as a new response.
RejectFull(q) ==
    [q EXCEPT !.phase = "special", !.status = "reject",
              !.ctx.state = "BLOCKED", !.ctx.own_rejection = TRUE,
              !.ctx.response_seen = FALSE]

\* The header filter after record() has left the zone z.
Counted(q, z) ==
    LET answer == Report(z, q.client, clock)
        rc     == IF q.client \notin DOMAIN z.node THEN "ERROR"
                  ELSE IF answer.banned THEN "BUSY" ELSE "OK"
        told   == [q EXCEPT !.calls = @ + 1, !.hit = rc,
                            !.hit_zone = q.ctx.zone,
                            !.ctx.blocked_until = answer.blocked_until]
    IN  IF rc = "ERROR"
        THEN IF OnFullReject[q.ctx.zone] THEN RejectFull(told) ELSE Sent(told)
        ELSE Sent([told EXCEPT !.ctx.state =
                                  IF rc = "BUSY" THEN "BLOCKED" ELSE "COUNTED"])

\* The header filter's first look at a response: it marks it as seen and, if
\* no redirect happened, takes dry_run from the current location.
Seen(q) == [q EXCEPT !.ctx.response_seen = TRUE,
                     !.ctx.dry_run = EffectiveDryRun(q)]

\* The header filter that counts its own rejections.
MutNotCounted(q) ==
    \/ ~ q.ctx.own_rejection /\ q.ctx.state = "DRY_RUN"
    \/ q.status \notin Tracked

\* Responses that the header filter does not count although it sees them.
NotCounted(q) ==
    \/ q.ctx.own_rejection
    \/ q.ctx.state = "DRY_RUN"
    \/ q.status \notin Tracked

\* The dry run of a response that would count.
Observed(q) ==
    LET answer == Peek(zones[q.ctx.zone], q.client, clock)
    IN  Sent([q EXCEPT !.ctx.state = "DRY_RUN",
                       !.ctx.blocked_until = answer.blocked_until])

\* The header filter that counts a dry run too.
MutZoneAfter(q) == Record(zones[q.ctx.zone], q.client, clock)

\* The zone after the header filter has counted the response of q, or has only
\* looked at what counting it would do.
ZoneAfter(q) ==
    IF q.ctx.dry_run THEN zones[q.ctx.zone]
                     ELSE Record(zones[q.ctx.zone], q.client, clock)

\* ngx_http_error_abuse_header_filter
HeaderFilter(r) ==
    /\ req[r].phase = "header"
    /\ \E p \in PrepareCtx(req[r]) :
          LET q == Seen(p.q)
              z == ZoneAfter(q)
          IN  \/ /\ p.null \/ p.q.ctx.zone = NoZone \/ p.q.ctx.response_seen
                 /\ req' = [req EXCEPT ![r] = Sent(p.q)]
                 /\ UNCHANGED zones
              \/ /\ ~ p.null /\ p.q.ctx.zone # NoZone
                 /\ ~ p.q.ctx.response_seen
                 /\ \/ /\ NotCounted(q)
                       /\ \E s \in IF q.ctx.own_rejection
                                   THEN AddRejectHeaders(q) ELSE {Sent(q)} :
                             req' = [req EXCEPT ![r] = s]
                       /\ UNCHANGED zones
                    \/ /\ ~ NotCounted(q)
                       /\ req' = [req EXCEPT ![r] =
                                    IF q.ctx.dry_run THEN Observed(q)
                                                     ELSE Counted(q, z)]
                       /\ zones' = [zones EXCEPT ![q.ctx.zone] = z]
    /\ UNCHANGED clock

-----------------------------------------------------------------------------
(***************************************************************************)
(* nginx.                                                                  *)
(***************************************************************************)

Tick ==
    /\ clock < MaxTime
    /\ clock' = clock + 1
    /\ UNCHANGED <<zones, req>>

\* A request arrives; its key may be empty.
Arrive(r) ==
    /\ req[r].phase = "new"
    /\ \E l \in Location, k \in Key \cup {NoKey} :
          req' = [req EXCEPT ![r] = [@ EXCEPT !.phase = "rewrite", !.loc = l,
                                              !.client = k]]
    /\ UNCHANGED <<clock, zones>>

\* A handler of the rewrite or the content phase answers.  After an error
\* page redirect the answer may keep the status that led to it.
Respond(r) ==
    /\ req[r].phase \in {"rewrite", "content"}
    /\ \E s \in {"ok", "error", req[r].status} :
          req' = [req EXCEPT ![r] =
                    [@ EXCEPT !.status = s,
                              !.phase = IF s = "error" THEN "special"
                                                       ELSE "header"]]
    /\ UNCHANGED <<clock, zones>>

\* ngx_http_special_response_handler renders the error itself.
SendSpecial(r) ==
    /\ req[r].phase = "special"
    /\ req' = [req EXCEPT ![r].phase = "header"]
    /\ UNCHANGED <<clock, zones>>

\* An error_page redirect, or one from the content phase (index, try_files,
\* X-Accel-Redirect, named locations).
Redirect(r) ==
    /\ req[r].phase \in {"special", "content"}
    /\ req[r].hops < MaxHops
    /\ \E l \in Location :
          req' = [req EXCEPT ![r] = [@ EXCEPT !.phase = "rewrite", !.loc = l,
                                              !.set = FALSE,
                                              !.hops = req[r].hops + 1]]
    /\ UNCHANGED <<clock, zones>>

Next ==
    \/ Tick
    \/ \E r \in Request :
          \/ Arrive(r) \/ Preaccess(r) \/ HeaderFilter(r)
          \/ Respond(r) \/ SendSpecial(r) \/ Redirect(r)

Spec == Init /\ [][Next]_vars

-----------------------------------------------------------------------------
(***************************************************************************)
(* Properties.                                                             *)
(***************************************************************************)

Phase == {"new", "rewrite", "content", "special", "header", "done", "aborted"}

State == {"BYPASSED", "PASSED", "COUNTED", "BLOCKED", "DRY_RUN"}

\* Every variable has its type.
TypeOK ==
    /\ clock \in 1 .. MaxTime
    /\ \A z \in Zone : IsZone(zones[z]) /\ WellLinked(zones[z])
    /\ \A r \in Request :
          /\ req[r].phase \in Phase
          /\ req[r].status \in Status
          /\ req[r].client \in Key \cup {NoKey}
          /\ req[r].ctx.state \in State
          /\ req[r].ctx.zone \in Zone \cup {NoZone}
          /\ req[r].ctx.blocked_until \in Time

\* A request is counted once at most, through any number of redirects and
\* through the second run of the header filter that on_full=reject causes; and
\* the module's own rejections never count (README: "never counts its own ban
\* responses"): a request it rejects has not been counted, or the zone was full.
CountedOnce ==
    \A r \in Request :
        /\ req[r].calls <= 1
        /\ req[r].ctx.own_rejection => req[r].hit \in {"none", "ERROR"}

\* Only the first location that identified the client decides what a request counts
\* for: the error lands in the origin's zone and only if the origin enforces,
\* whatever location a redirect ends in.
OriginWins ==
    \A r \in Request :
        req[r].calls > 0 => /\ req[r].hit_zone = Conf[req[r].origin].zone
                            /\ ~ Conf[req[r].origin].dry_run

\* Every rejection that reaches the client is marked private and non-storable,
\* and nothing else is.
RejectionsArePrivate ==
    \A r \in Request :
        req[r].phase = "done" => (req[r].private <=> req[r].ctx.own_rejection)

\* The deadline a client is told stays the deadline of its ban as long as the
\* ban runs, whatever other requests do.
RetryAfterIsTrue ==
    \A r \in Request :
        req[r].until > clock =>
            NodeOf(zones[req[r].ctx.zone], req[r].client).blocked_until
                = req[r].until

\* A ban has been earned by Threshold counted requests of the same client in
\* the same zone: dry run, rejections and repeated passes of the filter add
\* nothing to it.
BanIsEarned ==
    \A z \in Zone, k \in Key :
        NodeOf(zones[z], k).blocked_until # 0 =>
            Cardinality({r \in Request : /\ req[r].client = k
                                         /\ req[r].hit_zone = z
                                         /\ req[r].hit \in {"OK", "BUSY"}})
                >= Threshold

\* $error_abuse_status tells what happened to the request.
StatusIsTrue ==
    \A r \in Request :
        LET q == req[r]
        IN  q.phase = "done" =>
                /\ q.ctx.state = "COUNTED" <=> q.hit = "OK"
                /\ q.ctx.state = "BLOCKED" <=>
                       (q.hit = "BUSY" \/ q.ctx.own_rejection)
                /\ q.ctx.state \in {"DRY_RUN", "BYPASSED"} => q.hit = "none"

\* A request passes preaccess while its client is banned in the zone of its
\* context only if the origin is in dry run.
BannedAreStopped ==
    [][\A r \in Request :
          LET q == req'[r]
          IN  /\ req[r].phase = "rewrite" /\ q.phase = "content"
              /\ q.ctx.zone # NoZone
              => \/ Conf[q.origin].dry_run
                 \/ ~ Banned(NodeOf(zones[q.ctx.zone], q.client), clock)]_vars

=============================================================================
