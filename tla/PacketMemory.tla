---------------------------- MODULE PacketMemory ----------------------------
(***************************************************************************)
(* What an endpoint promises about the packet numbers it acknowledges: it  *)
(* claims only packets it received, it forgets from below only, and it     *)
(* never forgets the newest, from which truncated numbers are restored.    *)
(***************************************************************************)
EXTENDS Integers

VARIABLES
  received,   \* every packet number that was accepted
  known       \* the numbers an ACK claims and a duplicate is recognised by

vars == <<received, known>>

Init == received = {} /\ known = {}

\* T is what S holds from some number of S on.
KeepsTop(S, T) == \E f \in S : T = {m \in S : m >= f}

Remember ==
  \E n \in received' :
    /\ received' = received \cup {n}
    /\ KeepsTop(known \cup {n}, known')

Forget ==
  /\ KeepsTop(known, known')
  /\ UNCHANGED received

Next == Remember \/ Forget

Spec == Init /\ [][Next]_vars
=============================================================================
