-------------------------- MODULE MCCreditExchange --------------------------
(***************************************************************************)
(* A longer stream, then shorter ones, more than the sender may open       *)
(* before it hears of another MAX_STREAMS.                                 *)
(***************************************************************************)
EXTENDS CreditExchange

MCLength == [s \in 0 .. StreamTotal - 1 |-> IF s = 0 THEN 2 ELSE 1]
=============================================================================
