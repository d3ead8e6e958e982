---------------------------- MODULE MCNodeEgress ----------------------------
(* Two paths over two bearers; path p2 knows an address on each bearer.     *)
EXTENDS NodeEgress, TLC

CONSTANTS b1, b2, p1, p2, data, fin

MCOneRoute == p1 :> <<b1>>
MCRoutes == p1 :> <<b1>> @@ p2 :> <<b2, b1>>
=============================================================================
