----------------------------- MODULE MCInflight -----------------------------
(* Inflight for TLC: the constants are model values.  No symmetry is used,    *)
(* because liveness is checked.                                               *)
EXTENDS Inflight
=============================================================================
