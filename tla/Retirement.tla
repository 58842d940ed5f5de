----------------------------- MODULE Retirement -----------------------------
(***************************************************************************)
(* The retirement window of Ring.finish: the IDs of the operations that     *)
(* completed last, kept so that a duplicate CQE that arrives soon is told   *)
(* from one with an ID the ring never used.  `set` is the map               *)
(* Ring.completed, `ids` the slice Ring.retiredIDs and `next` the cursor    *)
(* Ring.retiredNext (counted from 1) that picks the ID to evict.            *)
(***************************************************************************)
EXTENDS Integers, Sequences, FiniteSets

\* What NewWithOptions builds: an empty map, a nil slice, a zero cursor.
EmptyWindow == [ids |-> <<>>, next |-> 1, set |-> {}]

\* The map has room for another ID.
EvictsOneTooSoon(w, cap) == Cardinality(w.set) + 1 < cap
HasRoom(w, cap) == Cardinality(w.set) < cap

\* The ID to evict when it has not.
Newest(w) == w.ids[Len(w.ids)]
Oldest(w) == w.ids[w.next]

\* The window after an operation with this ID retired.
Retire(w, id, cap) ==
  IF HasRoom(w, cap)
  THEN [w EXCEPT !.ids = Append(@, id), !.set = @ \cup {id}]
  ELSE [ids  |-> [w.ids EXCEPT ![w.next] = id],
        next |-> (w.next % Len(w.ids)) + 1,
        set  |-> (w.set \ {Oldest(w)}) \cup {id}]
=============================================================================
