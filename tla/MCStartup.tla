------------------------------ MODULE MCStartup ------------------------------
(* Two instances, an old and a new binary, and one whose first migration was edited. *)
EXTENDS Startup, TLC

CONSTANTS k1, k2, bad

MCEnvSeq == <<"development", "production">>
File(v, c) == [version |-> v, checksum |-> c]
Raw(dev, prod) == ("development" :> dev) @@ ("production" :> prod)
Deploy(files, admin, server, demo) ==
  [migrations |-> files, admin |-> admin, server |-> server, demo |-> demo]

MCDeployments ==
  {Deploy(<<File(1, "a"), File(2, "a")>>, k1, Raw(k2, None), FALSE),
   Deploy(<<File(1, "a"), File(2, "a"), File(3, "a")>>, k1, Raw(None, k2), TRUE),
   Deploy(<<File(1, "b"), File(2, "a")>>, k1, Raw(None, bad), FALSE),
   Deploy(<<File(1, "a")>>, None, Raw(None, None), FALSE)}
=============================================================================
