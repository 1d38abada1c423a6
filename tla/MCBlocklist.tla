---------------------------- MODULE MCBlocklist ----------------------------
(* Small instances of Blocklist: the name x and its child s.x, a list of      *)
(* domains and a response policy zone.                                        *)
EXTENDS Blocklist

X == <<"x">>
SX == <<"s", "x">>
TwoNames == {X, SX}
OnlySX == {SX}

NoRules == [exact |-> {}, wildcards |-> {}, whitelist |-> {}, wildcardWhitelist |-> {}]

\* The domain list blocks x, the zone s.x through a wildcard at x.
Disjoint == [hosts |-> [NoRules EXCEPT !.exact = {X}],
             rpz |-> [NoRules EXCEPT !.wildcards = {X}, !.whitelist = {X}]]
=============================================================================
