----------------------------- MODULE MCTelemetry -----------------------------
(* A scaled-down batcher and server: caps of two and three rows stand for 500 and 5000. *)
EXTENDS Telemetry
CONSTANT t1
\* One hot tuple, recorded twice; the others once.
MCMaxRecords == [t \in Tuples |-> IF t = t1 THEN 2 ELSE 1]
=============================================================================
