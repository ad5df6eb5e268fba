-------------------------------- MODULE MCBff --------------------------------
(* One login that succeeds and two that fail, in any order. *)
EXTENDS Bff, TLC
CONSTANTS s1, s2, s3, q1
MCSubmitted == (s1 :> {TRUE}) @@ (s2 :> {FALSE}) @@ (s3 :> {FALSE})
MCAsked == q1 :> {"PATCH config", "POST preview", "POST flags"}
Deploy(public, readOnly, allowWrites) ==
  [public |-> public, readOnly |-> readOnly, allowWrites |-> allowWrites]
MCConfigs ==
  {Deploy(FALSE, FALSE, FALSE), Deploy(TRUE, TRUE, FALSE), Deploy(TRUE, FALSE, FALSE)}
=============================================================================
