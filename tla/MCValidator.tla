----------------------------- MODULE MCValidator -----------------------------
(* The root, a zone that rolls its key, and a signed zone without a DS record  *)
(* whose name server's address lies in the first.                             *)
EXTENDS Validator, TLC

CONSTANTS g1, g2

root == << >>
z == <<9>>
island == <<8>>

MCPublished ==
    root :> <<[keys |-> {"kr"}, ds |-> {}]>> @@
    z :> <<[keys |-> {"k1", "s"}, ds |-> {"d1"}], [keys |-> {"k1", "k2", "s"}, ds |-> {"d1"}],
           [keys |-> {"k1", "k2", "s"}, ds |-> {"d2", "weak"}]>> @@
    island :> <<[keys |-> {"ki"}, ds |-> {}]>>
MCKSKs == {"kr", "k1", "k2", "ki"}
MCKeyOf == [d \in {"dr", "d1", "d2", "weak"} |->
               CASE d = "dr" -> "kr" [] d = "d1" -> "k1" [] OTHER -> "k2"]

Sig(zone, k) ==
    [signer |-> zone, key |-> k, alg |-> "good", time |-> "now", over |-> None, covers |-> TRUE, intact |-> TRUE]
Answer(n, sigs, honest) ==
    [qname |-> n, qtype |-> "A", rcode |-> "NOERROR", proof |-> {}, sigs |-> sigs, honest |-> honest]
a == <<1, 9>>
InZ == Answer(a, {Sig(z, "s")}, TRUE)
InIsland == Answer(<<1, 8>>, {Sig(island, "ki")}, TRUE)
MCAnswers ==
    {InZ, Answer(a, {[Sig(z, "k1") EXCEPT !.intact = FALSE], Sig(z, "k2")}, FALSE)}
MCAlone ==
    {InIsland, Answer(a, {Sig(z, "k1"), Sig(z, "k2")}, TRUE),
     Answer(a, {[Sig(z, "s") EXCEPT !.time = "expired"]}, FALSE),
     Answer(a, {[Sig(z, "s") EXCEPT !.alg = "weak"]}, FALSE),
     Answer(a, {[Sig(z, "s") EXCEPT !.covers = FALSE], Sig(island, "ki")}, FALSE)}
MCNSHost == island :> InZ

Below == {<<9>>} \cup {<<x, 9>> : x \in 0 .. 2} \cup {<<x, y, 9>> : x, y \in 0 .. 2}
MCUniverse == {n \in Below : \A i \in 2 .. Len(n) : n[i] # Star}
Code(n) == IF Len(n) = 1 THEN 0 ELSE IF Len(n) = 2 THEN 1 + n[1] ELSE 4 + 3 * n[1] + n[2]
MCHash == [n \in Below |-> (5 * Code(n) + 3) % 13]
ZoneOf(f) == <<9>> :> {"SOA", "NS"} @@ f
MCHome == ZoneOf(a :> {"A"})
MCContents ==
    {ZoneOf([n \in S |-> {"A"}]) : S \in SUBSET {<<0, 9>>, a, <<2, 9>>, <<1, 2, 9>>, <<2, 1, 9>>}}
    \cup {ZoneOf(a :> t @@ <<1, 2, 9>> :> {"TXT"}) : t \in {{"CNAME"}, {"NS"}, {"A", "TXT"}}}

ASSUME ZonesAssumption == RollsByTheBook /\ NoHostCycle

Symmetry == Permutations({g1, g2})
=============================================================================
