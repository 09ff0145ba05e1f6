------------------------ MODULE MCErrorAbuseRequest ------------------------
(* Small instances of ErrorAbuseRequest. *)
EXTENDS ErrorAbuseRequest

CONSTANTS za, zb

\* One location of each kind: enforcing, off, dry run, and another zone.
MCConf ==
    [l \in Location |->
        CASE l = "on"    -> [enabled |-> TRUE,  zone |-> za, dry_run |-> FALSE]
          [] l = "off"   -> [enabled |-> FALSE, zone |-> NoZone, dry_run |-> FALSE]
          [] l = "dry"   -> [enabled |-> TRUE,  zone |-> za, dry_run |-> TRUE]
          [] l = "other" -> [enabled |-> TRUE,  zone |-> zb, dry_run |-> FALSE]]

\* The first zone fails closed when it is full, the second open.
MCOnFullReject == [z \in Zone |-> z = za]

\* Requests are interchangeable, and so are identities.
RequestKeySymmetry == Permutations(Request) \cup Permutations(Key)

=============================================================================
