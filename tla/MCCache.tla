------------------------------ MODULE MCCache ------------------------------
(* Instances of Cache for TLC.  The names are a domain and a name below it.   *)
EXTENDS Cache

\* "sub" is a name below "dom".
MCParent == [n \in Names |-> IF n = "sub" THEN "dom" ELSE NoName]

\* Both names in the first shard.
OneShard == [n \in Names |-> 0]

\* The two names in different shards.
TwoShards == [n \in Names |-> IF n = "sub" THEN 1 ELSE 0]

\* The clock advances by one second at a time.
Second == {1}
=============================================================================
