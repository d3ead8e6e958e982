-------------------------- MODULE ReliableStreams ---------------------------
(***************************************************************************)
(* What a stream promises its reader: the bytes that were written, each    *)
(* once and in order, then the end, and nothing after it.                  *)
(***************************************************************************)
EXTENDS Integers, Sequences

CONSTANT Streams

VARIABLES
  length,     \* bytes written to a stream
  closed,     \* whether its writer has finished
  delivered   \* what its reader was given: positions of bytes, then -1 for the end

vars == <<length, closed, delivered>>

\* All that a reader will ever be given of a stream of n bytes.
Whole(n, end) == [i \in 1 .. n |-> i - 1] \o (IF end THEN <<-1>> ELSE <<>>)

Init ==
  /\ length = [s \in Streams |-> 0]
  /\ closed = [s \in Streams |-> FALSE]
  /\ delivered = [s \in Streams |-> <<>>]

Write(s) ==
  /\ ~closed[s]
  /\ length'[s] >= length[s]
  /\ \A t \in Streams \ {s} : length'[t] = length[t] /\ closed'[t] = closed[t]
  /\ UNCHANGED delivered

\* The reader of s is given the next part.
Read(s) ==
  LET whole == Whole(length[s], closed[s])
  IN  /\ Len(delivered[s]) < Len(whole)
      /\ \E n \in Len(delivered[s]) .. Len(whole) :
           delivered' = [delivered EXCEPT ![s] = SubSeq(whole, 1, n)]
      /\ UNCHANGED <<length, closed>>

Next == \E s \in Streams : Write(s) \/ Read(s)

Spec == Init /\ [][Next]_vars
=============================================================================
