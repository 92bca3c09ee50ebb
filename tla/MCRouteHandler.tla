--------------------------- MODULE MCRouteHandler ---------------------------
(* Small instances of RouteHandler for TLC. *)
EXTENDS RouteHandler
=============================================================================
