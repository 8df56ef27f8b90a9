------------------------------ MODULE MCHttpServer ------------------------------
(* Two clients that initialize, or one that ends its session, around a      *)
(* message that runs a tool; or an initialize among plain requests, one of  *)
(* them a HEAD whose client may leave. One request may be answered unread.  *)
(* A request arms one session at most.                                      *)
EXTENDS HttpServer, TLC

CONSTANTS a, b, c

Mix(x, y, z) == (a :> x) @@ (b :> y) @@ (c :> z)

MCAsks ==
    {Mix("initialize", "message", "initialize"), Mix("initialize", "message", "delete"),
     Mix("initialize", "plain", "plain")}
=============================================================================
