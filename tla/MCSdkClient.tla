----------------------------- MODULE MCSdkClient -----------------------------
(* A client of one or two flags against a server that changes at most twice. *)
EXTENDS SdkClient
CONSTANT c1
=============================================================================
