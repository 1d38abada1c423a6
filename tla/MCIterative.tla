---------------------------- MODULE MCIterative ----------------------------
(* Iterative for TLC: the zones "t" and "e.t", four servers, and the messages *)
(* they may send.  A host "n.t" has glue, the hosts of "o" never have.        *)
EXTENDS Iterative, TLC

CONSTANTS a1, a2, a3, a4

W == <<"w", "e", "t">>
C == <<"c", "e", "t">>
D == <<"d", "e", "t">>
T == <<"t">>
E == <<"e", "t">>
N1 == <<"n1", "t">>
N2 == <<"n2", "t">>
O1 == <<"n1", "o">>
O2 == <<"n2", "o">>
R == <<"r">>

MCQuestions == {<<W, "A">>}
MCHostAddrs == (R :> {a1}) @@ (N1 :> {a1, a2}) @@ (N2 :> {a3}) @@ (O1 :> {a3}) @@ (O2 :> {a4})
MCRootServers == {[host |-> R, ipv4 |-> a1, ipv6 |-> NoAddr]}

RR(n, t, d) == [owner |-> n, type |-> t, data |-> d]
Ans(rrs) == [Message EXCEPT !.answers = rrs]
Ref(ns, glue) == [Message EXCEPT !.aa = FALSE, !.authority = ns, !.additional = glue]

\* Referrals: with glue of both families, without glue, and with glue the
\* servers of "e.t" have no say in.
RefT == Ref({RR(T, "NS", N1), RR(T, "NS", N2)}, {RR(N1, "A", a1), RR(N1, "AAAA", a2), RR(N2, "A", a3)})
RefE == Ref({RR(E, "NS", O1), RR(E, "NS", O2)}, {RR(O1, "A", a3)})
RefE6 == Ref({RR(E, "NS", N1), RR(E, "NS", N2)}, {RR(N1, "AAAA", a2)})

AnsW == Ans({RR(W, "A", "data")})
AnsC == Ans({RR(C, "A", "data")})
NotAuth == [AnsW EXCEPT !.aa = FALSE]
CnameWC == Ans({RR(W, "CNAME", C)})
CnameCD == Ans({RR(C, "CNAME", D)})
CnameCC == Ans({RR(C, "CNAME", C)})
DnameE == Ans({RR(E, "DNAME", <<"o">>)})
SOA(z) == {RR(z, "SOA", "data")}
NxE == [Message EXCEPT !.rcode = "NXDOMAIN", !.authority = SOA(E)]
NoDataE == [Message EXCEPT !.authority = SOA(E)]
Fail == [Message EXCEPT !.rcode = "SERVFAIL"]

MCMessages == {RefT, RefE, RefE6, AnsW, AnsC, NotAuth, CnameWC, CnameCD, CnameCC, DnameE, NxE, NoDataE, Fail}
============================================================================
