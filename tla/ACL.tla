-------------------------------- MODULE ACL --------------------------------
(* ACL of package security: allow and deny lists, global and per zone.        *)
(* A list of networks is the set of addresses it contains.  Names are         *)
(* sequences of labels.                                                       *)
EXTENDS Integers, Sequences

CONSTANTS
    GlobalACL,      \* [allow, deny]: acl.allow and acl.deny
    ZoneACLs        \* acl.zones: a set of [zone, allow, deny]

\* The zone "" (the root) contains no name but itself.
inZoneOrEqual(n, z) ==
    n = z \/ (z # << >> /\ Len(z) < Len(n) /\ SubSeq(n, Len(n) - Len(z) + 1, Len(n)) = z)

\* Deny is checked first; an empty allow list allows everyone else.
checkNets(ip, r) == ip \notin r.deny /\ (r.allow = {} \/ ip \in r.allow)

\* The rules of the most specific zone that contains the name, if any.
matchZone(n) ==
    LET above == {za \in ZoneACLs : inZoneOrEqual(n, za.zone)}
    IN  {za \in above : \A zb \in above : Len(zb.zone) <= Len(za.zone)}

Check(ip) == checkNets(ip, GlobalACL)

CheckWithZone(ip, n) ==
    IF matchZone(n) = {} THEN Check(ip) ELSE \A za \in matchZone(n) : checkNets(ip, za)
=============================================================================
