--------------------------- MODULE ErrorAbuseTime ---------------------------
(***************************************************************************)
(* ngx_http_error_abuse_time.h: times of day as time_t holds them.         *)
(***************************************************************************)
EXTENDS Integers

CONSTANT TimeMax  \* the largest time_t

ASSUME TimeRange == TimeMax \in Nat

Time == 0 .. TimeMax

\* The addition that runs past the largest time.
MutTimeAddSaturate(now, duration) == now + duration

\* ngx_http_error_abuse_time_add_saturate: addition that stops at TimeMax.
\* The durations it is given are never negative.
TimeAddSaturate(now, duration) ==
    IF now >= TimeMax \/ duration > TimeMax - now
    THEN TimeMax
    ELSE now + duration

=============================================================================
