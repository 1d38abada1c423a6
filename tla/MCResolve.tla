------------------------------ MODULE MCResolve ------------------------------
(* Local zones of four types, a forward zone inside a stub zone and one for a *)
(* special-use name, two root servers of which one also serves the stub zone. *)
EXTENDS Resolve

CONSTANTS r1, r2, f1, f2, b1

L == <<"lan">>
Host == <<"h", "lan">>
Free == <<"x", "t", "lan">>
Inner == <<"w", "in", "corp">>
Outer == <<"w", "corp">>
Public == <<"w", "com">>

Query(n, t) == [name |-> n, type |-> t, class |-> "IN"]
MCQueries ==
    {Query(n, "AAAA") : n \in {Host, Free, Inner, Outer, Public, <<"x", "onion">>, <<"y", "home", "arpa">>}}
    \cup {Query(<<"y", "lan">>, "A"), Query(<<"z", "deny", "lan">>, "A"), [Query(Host, "A") EXCEPT !.class = "CH"]}
MCLocalZones ==
    {[name |-> L, type |-> "static", records |-> {<<Host, "A">>}],
     [name |-> <<"t", "lan">>, type |-> "transparent", records |-> {<<Free, "A">>}],
     [name |-> <<"deny", "lan">>, type |-> "deny", records |-> {}],
     [name |-> <<"home", "arpa">>, type |-> "redirect", records |-> {<< <<"home", "arpa">>, "AAAA">>}]}
MCSpecialUse == {<<"onion">>, <<"home", "arpa">>}
MCForwardZones ==
    {[name |-> <<"in", "corp">>, addrs |-> <<f1, f2>>, stub |-> FALSE], [name |-> <<"corp">>, addrs |-> <<r2>>, stub |-> TRUE],
     [name |-> <<"onion">>, addrs |-> <<f2>>, stub |-> FALSE]}
MCRootServers == <<r1, r2>>

Good == [match |-> TRUE, tc |-> FALSE, rcode |-> "NOERROR", answers |-> TRUE, ad |-> TRUE]
MCReplies ==
    {Good, [Good EXCEPT !.answers = FALSE], [Good EXCEPT !.match = FALSE], [Good EXCEPT !.tc = TRUE],
     [Good EXCEPT !.rcode = "NXDOMAIN", !.answers = FALSE], [Good EXCEPT !.rcode = "SERVFAIL", !.answers = FALSE],
     [Good EXCEPT !.rcode = "FORMERR", !.answers = FALSE], [Good EXCEPT !.rcode = "REFUSED", !.answers = FALSE]}
MCRTT == [s \in {r1, r2, f1, f2, b1} |-> IF s = r1 THEN 20 ELSE 200]
=============================================================================
