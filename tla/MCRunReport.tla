----------------------------- MODULE MCRunReport -----------------------------
(***************************************************************************)
(* Two workers and three slots: a record under way at every point of a     *)
(* line, latencies that come in the wrong order, and a percentile whose    *)
(* rank is no whole number.                                                *)
(***************************************************************************)
EXTENDS RunReport

CONSTANTS w1, w2

MCWorkers   == {w1, w2}
MCLatencies == {1, 2}
=============================================================================
