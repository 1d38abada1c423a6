------------------------------ MODULE MCConsole ------------------------------
(* Instances of Console: two goroutines, two passwords, an editor that keeps   *)
(* the first password or has another one, a server with and without a config   *)
(* file at the first start, and requests by scenario.                          *)
EXTENDS Console, TLC

CONSTANTS w1, w2, d1, d2, n1, n2, n3

MCWorkers == {w1, w2}
MCPasswords == {"p", "q"}
Configured == [hash |-> "p", body |-> 1, layout |-> 0]
MCEdits == {[hash |-> "p", body |-> 2, layout |-> 0], [hash |-> "q", body |-> 2, layout |-> 0]}
MCFiles == {None, Configured}

Quietly == [k \in Kinds \cup {"query", "stream", "fallback", "snapshot", "crash", "tick", "release"} |-> 0]
Restarts == [Quietly EXCEPT !.crash = 1]
MCBudgets ==
    {[Restarts EXCEPT !.login = 6, !.tick = 4],
     [Restarts EXCEPT !.login = 1, !.change = 2, !.save = 1],
     [Restarts EXCEPT !.login = 1, !.save = 1, !.layout = 1, !.change = 1],
     [Restarts EXCEPT !.setup = 2, !.layout = 1],
     [Quietly EXCEPT !.crash = 2, !.login = 1, !.layout = 2, !.setup = 1],
     [Restarts EXCEPT !.login = 1, !.update = 2, !.layout = 1, !.release = 2],
     [Restarts EXCEPT !.query = 4],
     [Quietly EXCEPT !.query = 3, !.stream = 1],
     [Quietly EXCEPT !.query = 2, !.snapshot = 1, !.fallback = 1, !.tick = 3]}

Symmetry == Permutations(MCWorkers) \cup Permutations(Recorders) \cup Permutations(Names)
=============================================================================
