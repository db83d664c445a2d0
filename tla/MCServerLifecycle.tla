------------------------- MODULE MCServerLifecycle --------------------------
(* Model-checking instance of ServerLifecycle: two workers and three       *)
(* client connections as model values.                                     *)
EXTENDS ServerLifecycle

CONSTANTS w1, w2, c1, c2, c3

MCWorkers == {w1, w2}
MCConns == {c1, c2, c3}
=============================================================================
