--------------------------- MODULE MCReproduction ---------------------------
(* Instances of Reproduction for TLC. *)
EXTENDS Reproduction

\* The runs the comparison looks at, which may measure either of two values; and a
\* slow one before, between and after them.
MCCompared == {Resident(m) : m \in {"blocking", "normal", "default"}}
MCItems == MCCompared \cup {Slow("blocking")}
MCValues == [item \in Items |-> IF item \in MCCompared THEN {1, 2} ELSE {1}]

MCSlowAndResident == {Slow("blocking"), Resident("normal")}

\* Each of the three orders has each run of the script once.
MCAllItems ==
  MCCompared \cup {Slow(m) : m \in {"blocking", "normal"}}
  \cup {Resident(m) : m \in {"U1", "U2", "U4", "U8", "U16"}}
ASSUME OrdersAreComplete ==
  \A rep \in 1 .. 3 : Len(Orders[rep]) = 10 /\ ToSet(Orders[rep]) = MCAllItems
=============================================================================
