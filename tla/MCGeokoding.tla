----------------------------- MODULE MCGeokoding -----------------------------
(* Small instances of Geokoding: of the road addresses one has a cadastral    *)
(* unit and a building, one a building without a number, and two have the    *)
(* same number in two streets of the same name.                             *)
EXTENDS Geokoding

CONSTANTS t1, t2, t3, t4, v1, v2, v3, v4

To == [w1 |-> "A", w2 |-> "B", w3 |-> "B"]
Gater == [t \in Tekst |-> IF t = t2 THEN "B" ELSE "A"]
Numre == [t \in Tekst |-> IF t = t3 THEN 2 ELSE 1]

V(w, n, e, b) == [veg |-> w, nummer |-> n, enhet |-> e, bygg |-> b]

Register == [v \in Sted |-> CASE v = v1 -> V("w1", 1, "e", <<7>>)
                             [] v = v2 -> V("w2", 1, "e", <<7>>)
                             [] v = v3 -> V("w3", 1, Ingen, <<7, 8>>)
                             [] v = v4 -> V("w1", 2, Ingen, <<Ingen>>)]
=============================================================================
