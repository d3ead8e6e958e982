-------------------------- MODULE OrderedDelivery ---------------------------
(***************************************************************************)
(* Ordered delivery of one stream to an application callback (callback.rs, *)
(* OrderedStream and CallbackStreams).  A range is a STREAM frame's        *)
(* [offset, len, fin]; its bytes are their positions.  A stream keeps the  *)
(* cursor of the application and the ranges that wait behind a gap or      *)
(* behind an application that took only part.  The peer repeats a range    *)
(* with its first boundaries, so two ranges overlap only when they are the *)
(* same, and the final size is the same in every frame that carries it.    *)
(*                                                                         *)
(* `room' is what the application accepts in one turn.                     *)
(***************************************************************************)
EXTENDS Integers, FiniteSets, FiniteSetsExt

EndOf(f) == f.offset + f.len

Bytes(f) == f.offset .. EndOf(f) - 1

NewStream == [consumed |-> 0, retained |-> {}]

RetainedAt(o, position) == \E i \in o.retained : i.offset = position

\* What is left of range f for a cursor at c.
After(f, c) ==
  IF c <= f.offset THEN f
  ELSE [offset |-> c, len |-> EndOf(f) - c, fin |-> f.fin]

\* Where the retained ranges that start at the cursor end.
Reach(o) ==
  LET held == UNION {Bytes(i) : i \in o.retained}
  IN  CHOOSE x \in {o.consumed} \cup {EndOf(i) : i \in o.retained} :
        x >= o.consumed /\ x \notin held /\ o.consumed .. x - 1 \subseteq held

\* The result of one delivery: the stream, the bytes the application took,
\* the bytes put into and taken out of retention, whether FIN was delivered
\* and whether there was no capacity.
Outcome(o, took, stored, released, ended, refused) ==
  [stream |-> o, took |-> took, stored |-> stored, released |-> released,
   ended |-> ended, refused |-> refused]

\* resume_copying: chunk after chunk from the cursor, until the application
\* takes less than a chunk, a gap comes or the stream ends.  An empty FIN
\* needs no room.
Resume(o, room) ==
  LET n == Min({room, Reach(o) - o.consumed})
      c == o.consumed + n
      ended == \E i \in o.retained : i.fin /\ EndOf(i) = c
      left == {i \in o.retained : EndOf(i) > c}
  IN  Outcome([consumed |-> c, retained |-> {After(i, c) : i \in left}],
              n, 0, n, ended, FALSE)

Refused(o, took) == Outcome(o, took, 0, 0, FALSE, TRUE)

\* Mutant: the whole frame is counted although its head was taken.
DirectCountsFrame(o, f, room, memory, available) ==
  LET k == Min({room, f.len})
      rest == After(f, f.offset + k)
  IN  IF rest.len <= available /\ memory
        THEN Outcome([consumed |-> rest.offset, retained |-> o.retained \cup {rest}],
                     k, f.len, 0, FALSE, FALSE)
        ELSE Refused([o EXCEPT !.consumed = rest.offset], k)

\* Mutant: FIN ends the stream although the application took only the head.
DirectEndsEarly(o, f, room, memory, available) ==
  LET k == Min({room, f.len})
      rest == After(f, f.offset + k)
  IN  IF f.fin THEN Outcome(o, k, 0, 0, TRUE, FALSE)
      ELSE IF rest.len <= available /\ memory
        THEN Outcome([consumed |-> rest.offset, retained |-> o.retained \cup {rest}],
                     k, rest.len, 0, FALSE, FALSE)
        ELSE Refused([o EXCEPT !.consumed = rest.offset], k)

\* The application took the head of a frame at its cursor; the rest is
\* retained, or refused with the head taken.
Direct(o, f, room, memory, available) ==
  LET k == Min({room, f.len})
      rest == After(f, f.offset + k)
  IN  IF rest.len <= available /\ memory
        THEN Outcome([consumed |-> rest.offset, retained |-> o.retained \cup {rest}],
                     k, rest.len, 0, FALSE, FALSE)
        ELSE Refused([o EXCEPT !.consumed = rest.offset], k)

\* A frame at the cursor that the application takes whole; it may close the
\* gap before retained ranges.
DirectWhole(o, f, room) ==
  LET next == [o EXCEPT !.consumed = EndOf(f)]
      more == Resume(next, room - f.len)
  IN  IF f.fin \/ o.retained = {}
        THEN Outcome(next, f.len, 0, 0, f.fin, FALSE)
        ELSE [more EXCEPT !.took = @ + f.len]

\* Nothing in f is new: it lies before the cursor or it is retained.
Old(o, f) ==
  \/ EndOf(f) <= o.consumed /\ ~(f.len = 0 /\ f.fin /\ f.offset = o.consumed)
  \/ \E i \in o.retained :
       i.offset = After(f, o.consumed).offset /\ i.len = After(f, o.consumed).len

\* receive_copying and insert: f is retained first, then the cursor moves.
\* The copy of the payload is made before the range is looked at; an empty
\* payload needs no memory, and memory for the list entry is assumed.
Retain(o, f, room, memory, available) ==
  LET new == After(f, o.consumed)
      grown == [o EXCEPT !.retained = @ \cup {new}]
  IN  IF ~memory /\ f.len > 0 THEN Refused(o, 0)
      ELSE IF Old(o, f) THEN Resume(o, room)
      ELSE IF new.len > available THEN Refused(o, 0)
      ELSE [Resume(grown, room) EXCEPT !.stored = new.len]

\* try_receive_copying_range: only a frame exactly at the cursor is handed
\* to the application without being retained.
Deliver(o, f, room, memory, available) ==
  IF f.offset # o.consumed \/ RetainedAt(o, o.consumed)
    THEN Retain(o, f, room, memory, available)
  ELSE IF room >= f.len THEN DirectWhole(o, f, room)
  ELSE Direct(o, f, room, memory, available)
=============================================================================
