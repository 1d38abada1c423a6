----------------------------- MODULE MCService -----------------------------
(* Instances of Service: two PIDs, four connections, one or two places per    *)
(* server, and what the environment does by scenario; and, in a scenario of   *)
(* its own, the messages the listeners read and write.                        *)
EXTENDS Service, Wire

CONSTANTS p1, p2, t1, t2, d1, h1

MCPids == {p1, p2}
MCConns == {t1, t2, d1, h1}
MCKind == [c \in MCConns |-> IF c = d1 THEN "dot" ELSE IF c = h1 THEN "doh" ELSE "tcp"]

Nothing == [packets |-> 0, failures |-> 0, panics |-> 0, conns |-> {}, starts |-> 1, kills |-> 0, others |-> 0, stops |-> 0, messages |-> 0]
MCScenarios ==
    {[Nothing EXCEPT !.packets = 3, !.panics = 2, !.failures = 1, !.stops = 1],
     [Nothing EXCEPT !.conns = {t1, t2}, !.panics = 1, !.stops = 1],
     [Nothing EXCEPT !.conns = {d1, h1}, !.panics = 1, !.stops = 1],
     [Nothing EXCEPT !.starts = 2, !.kills = 1, !.others = 1, !.stops = 2],
     [Nothing EXCEPT !.starts = 0, !.messages = 1]}

\* Names that share suffixes, of one label, two and three.
A == <<97>>
B == <<98, 97>>
MCNames == {<< >>, <<A>>, <<B, A>>, <<A, B, A>>}
Numbers == <<9, 9, 9, 9, 9>>
RData(t, n, o) ==
    CASE t = 2 -> encodePlainName(n)
      [] t = 15 -> <<9>> \o encodePlainName(n)
      [] t = 33 -> <<9, 9, 9>> \o encodePlainName(n)
      [] t = 6 -> encodePlainName(n) \o encodePlainName(o) \o Numbers
      [] t = 46 -> <<9, 9>> \o Numbers \o encodePlainName(n) \o <<8, 8>>
      [] t = 47 -> encodePlainName(n) \o <<8>>
      [] OTHER -> <<1, 97>>
RR(n, t, d) == [name |-> n, type |-> t, ttl |-> 3, rdata |-> d]
OneName == {RR(n, t, RData(t, o, o)) : n \in MCNames, o \in MCNames, t \in {1, 2, 15, 33, 46, 47}}
TwoNames == {RR(n, 6, RData(6, o, p)) : n \in {<<A>>, <<B, A>>}, o \in MCNames, p \in MCNames}
Delegations == {RR(n, 2, RData(2, o, o)) : n \in MCNames, o \in MCNames}
MCPacked ==
    {[questions |-> <<[name |-> n, type |-> 2]>>, records |-> rs] :
        n \in MCNames, rs \in {<<r>> : r \in OneName} \cup {<<r, l>> : r \in OneName \cup TwoNames, l \in Delegations}}
MCReceived == [1 .. 6 -> {0, 1, 2, 3, 97, 192}]

MCVars == <<serviceVars, wire>>
Message == Spend("messages") /\ WireNext /\ UNCHANGED <<process, cmd, listeners, background, serviceGhosts>>
MCInit == ServiceInit /\ WireInit
MCSpec == MCInit /\ [][(ServiceNext /\ UNCHANGED wire) \/ Message]_MCVars /\ Fairness
=============================================================================
