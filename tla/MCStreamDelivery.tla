-------------------------- MODULE MCStreamDelivery --------------------------
(***************************************************************************)
(* Two streams.  A server has one slot of ordered delivery for both, a     *)
(* client one for each.                                                    *)
(***************************************************************************)
EXTENDS StreamDelivery, TLC

CONSTANTS s1, s2

MCStreams == {s1, s2}
MCMaxPending == ("server" :> 1) @@ ("client" :> 2)

\* A client with fewer slots than streams.
MCFewSlots == ("server" :> 1) @@ ("client" :> 1)
=============================================================================
