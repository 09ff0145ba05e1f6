----------------------------- MODULE BanPolicy -----------------------------
(***************************************************************************)
(* What a zone of the error-abuse module promises, without nodes, lists,   *)
(* memory or locks.  Each identity has the hits that count against it and  *)
(* the deadline of its ban.  A call names an identity and reads a clock    *)
(* that may be up to Skew seconds late, because every worker process reads *)
(* its own cached copy of the time.                                        *)
(*                                                                         *)
(* The promises:                                                           *)
(*   - hits that are counted lie in the window, hits that are dropped lie  *)
(*     outside it (both up to Skew);                                       *)
(*   - the hit that makes Threshold starts a ban of Block seconds, and no  *)
(*     other step starts, lengthens or shortens one;                       *)
(*   - an identity that is still in use is lost only to make room for      *)
(*     another, one for each counted hit, and never while it is banned;    *)
(*   - a hit is refused only while another identity is banned;             *)
(*   - the reply to a call describes the state the call leaves behind.     *)
(***************************************************************************)
EXTENDS Integers, Sequences

CONSTANTS Key, Threshold, Interval, Block, Skew, TimeMax

VARIABLES
    clock,     \* the time
    window,    \* window[k]: the times of the hits that count against k
    deadline,  \* deadline[k]: the end of k's last ban, 0 if it has none
    reply      \* the reply to the last call

vars == <<clock, window, deadline, reply>>

NoReply == [op |-> "none"]

Reply(op, k, rc, count, until) ==
    [op |-> op, key |-> k, rc |-> rc, count |-> count, blocked_until |-> until]

Init ==
    /\ clock = 1
    /\ window = [k \in Key |-> <<>>]
    /\ deadline = [k \in Key |-> 0]
    /\ reply = NoReply

BanEnd(t) == IF t + Block > TimeMax THEN TimeMax ELSE t + Block

Same(k) == window'[k] = window[k] /\ deadline'[k] = deadline[k]

Forgotten(k) == window'[k] = <<>> /\ deadline'[k] = 0

\* Nothing about k matters any more at time t.
Dead(k, t) ==
    /\ deadline[k] <= t
    /\ \A i \in 1 .. Len(window[k]) : window[k][i] <= t - Interval + Skew

Lost(k, t) == ~ Same(k) /\ ~ Dead(k, t)

\* The identities a call at time t for k is not about.
Bystanders(k, t) ==
    \A j \in Key \ {k} : Same(j) \/ (Forgotten(j) /\ deadline[j] <= t)

\* The first d hits of k leave the window at time t and the others stay.
Slides(k, t, d) ==
    /\ \A i \in 1 .. d : window[k][i] <= t - Interval + Skew
    /\ \A i \in d + 1 .. Len(window[k]) : window[k][i] > t - Interval - Skew

Rest(k, d) == SubSeq(window[k], d + 1, Len(window[k]))

\* A call for a banned identity changes nothing about it.
Hold(k, t, op, rc) ==
    /\ deadline[k] > t
    /\ Same(k)
    /\ reply' = Reply(op, k, rc, Threshold, deadline[k])

\* A hit that is counted, with or without the ban it causes.
Count(k, t) ==
    /\ deadline[k] <= t
    /\ \E d \in 0 .. Len(window[k]) :
          /\ Slides(k, t, d)
          /\ IF Len(Rest(k, d)) + 1 >= Threshold
             THEN /\ window'[k] = <<>>
                  /\ deadline'[k] = BanEnd(t)
                  /\ reply' = Reply("record", k, "BUSY", Threshold, BanEnd(t))
             ELSE /\ window'[k] = Append(Rest(k, d), t)
                  /\ deadline'[k] = 0
                  /\ reply' = Reply("record", k, "OK", Len(Rest(k, d)) + 1, 0)

\* A hit that is refused for want of room.
Refuse(k, t) ==
    /\ Dead(k, t)
    /\ Forgotten(k)
    /\ \E j \in Key \ {k} : deadline[j] > t /\ Same(j)
    /\ reply' = Reply("record", k, "ERROR", 0, 0)

\* A question about an identity that is not banned.
Look(k, t) ==
    /\ deadline[k] <= t
    /\ \E d \in 0 .. Len(window[k]) :
          /\ Slides(k, t, d)
          /\ window'[k] = Rest(k, d)
          /\ deadline'[k] = 0
          /\ reply' = Reply("is_blocked", k, "DECLINED", Len(Rest(k, d)), 0)

RecordCall(k, t) ==
    /\ Hold(k, t, "record", "BUSY") \/ Count(k, t) \/ Refuse(k, t)
    /\ \A i, j \in Key \ {k} : Lost(i, t) /\ Lost(j, t) => i = j

IsBlockedCall(k, t) ==
    /\ Hold(k, t, "is_blocked", "OK") \/ Look(k, t)
    /\ \A j \in Key \ {k} : ~ Lost(j, t)

Call ==
    /\ \E k \in Key, t \in clock - Skew .. clock :
          /\ RecordCall(k, t) \/ IsBlockedCall(k, t)
          /\ Bystanders(k, t)
    /\ clock' = clock

Tick ==
    /\ clock' = clock + 1
    /\ UNCHANGED <<window, deadline, reply>>

Next == Call \/ Tick

Spec == Init /\ [][Next]_vars

=============================================================================
