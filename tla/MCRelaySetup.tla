---------------------------- MODULE MCRelaySetup ----------------------------
(***************************************************************************)
(* Small relays for TLC.                                                   *)
(***************************************************************************)
EXTENDS RelaySetup, TLC

CONSTANTS a, b, d, q1, q2, q3, q4

\* Opener a asks for q1 and, after a restart, reuses its transaction id for
\* q2, which this node answers itself; opener b asks for q4, which has no
\* route, and for q3.  The table holds two of their three transactions, and
\* the two that are forwarded to d have different ids.
MCSendable ==
  {<<<<a, 1>>, q1>>, <<<<a, 1>>, q2>>, <<<<b, 2>>, q3>>, <<<<b, 1>>, q4>>}
MCRoute == (q1 :> d) @@ (q2 :> Here) @@ (q3 :> d) @@ (q4 :> None)

\* Two openers that have just started both use transaction id 1.
MCSameIds == {<<<<a, 1>>, q1>>, <<<<b, 1>>, q3>>}
============================================================================
