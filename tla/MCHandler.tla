----------------------------- MODULE MCHandler -----------------------------
(* Instances of Handler.                                                      *)
EXTENDS Handler, TLC

CONSTANTS c1, c2, c3, w1, w2

Rec(t, d) == [type |-> t, data |-> d]
Ask(c, n, t) == [client |-> c, name |-> n, type |-> t, defect |-> None, edns |-> TRUE, do |-> FALSE,
                 cd |-> FALSE, udpSize |-> 1232, ecs |-> None]
ECS(a, n) == [addr |-> a, len |-> n]
Www == <<"www", "z">>
Res(rc, rrs, st, sc) == [rcode |-> rc, answers |-> rrs, status |-> st, scope |-> sc, err |-> FALSE]

MCGlobalACL == [allow |-> {}, deny |-> {c3}]
MCZoneACLs == {[zone |-> <<"z">>, allow |-> {}, deny |-> {c2}],
               [zone |-> Www, allow |-> {c1, c2}, deny |-> {}]}
MCPrefix == [c \in Clients |-> 0]
MCRRSize == [t \in {"A", "RRSIG", "HINFO"} |-> IF t = "RRSIG" THEN 600 ELSE 400]

\* A network of one part with two clients in it, and a client without ECS.
MCQueries ==
    {[Ask(c1, Www, "A") EXCEPT !.ecs = ECS(<<1, 1>>, 2), !.do = TRUE],
     [Ask(c2, Www, "A") EXCEPT !.ecs = ECS(<<1, 2>>, 1), !.cd = TRUE],
     [Ask(c1, Www, "A") EXCEPT !.edns = FALSE]}
MCResults ==
    {Res("NOERROR", {Rec("A", "public"), Rec("A", "private")}, "secure", 2),
     Res("NOERROR", {Rec("A", "private"), Rec("RRSIG", "sig")}, "secure", 0),
     [Res("SERVFAIL", {}, "", None) EXCEPT !.err = TRUE]}
MCGlue == {[name |-> Www, type |-> "A", answers |-> {Rec("A", "private")}]}
MCConfigs == {[filter |-> TRUE, ecs |-> TRUE], [filter |-> FALSE, ecs |-> TRUE]}

\* One query of each kind the checks tell apart.
MCMixed ==
    {Ask(c1, Www, "A"), Ask(c2, Www, "A"), Ask(c3, Www, "A"), Ask(c2, <<"z">>, "A"), Ask(c1, <<"ads">>, "A"), Ask(c1, Www, "ANY")}
    \cup {[Ask(c1, Www, "A") EXCEPT !.defect = d] : d \in {"response", "FORMERR", "BADVERS"}}
MCOutcomes == {Res("NOERROR", {Rec("A", "public")}, "insecure", None),
               Res("SERVFAIL", {}, "bogus", None)}
MCKeys == {<<0, n, rc>> : n \in {q.name : q \in MCMixed}, rc \in {"NOERROR", "SERVFAIL"}}
MCBlocked == {<<"ads">>}
MCPlain == {[filter |-> TRUE, ecs |-> FALSE]}
Symmetry == Permutations(Workers)
=============================================================================
