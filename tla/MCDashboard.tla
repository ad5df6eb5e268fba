---------------------------- MODULE MCDashboard ----------------------------
(* A small instance of the dashboard for TLC. *)
EXTENDS Dashboard

CONSTANTS a, b

Num(t) == [type |-> "number", v |-> <<t>>]
Rule(op, vs, s) == [operator |-> op, values |-> vs, serve |-> s]
MCWires == [k \in {"rules"} |-> {<<Rule("in", <<Num("1")>>, TRUE)>>}]
MCDrafts == [k \in {"rules"} |-> {<<[operator |-> "gt", text |-> <<"1">>, serve |-> TRUE]>>}]
Symmetry == Permutations(Flags)
=============================================================================
