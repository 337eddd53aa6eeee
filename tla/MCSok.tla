-------------------------------- MODULE MCSok --------------------------------
(***************************************************************************)
(* Three resources of two kommuner and three buildings, with equal names    *)
(* and distances so that only the id orders them.                           *)
(***************************************************************************)
EXTENDS Sok

CONSTANTS k1, k2, nr, bergen, lt, a1, a2, f1, f2, ord

TreEiere == [r \in Ressurs |-> IF r = 3 THEN k2 ELSE k1]
Navnelike == [b \in Bygg |-> 1]
EnUtenPosisjon == [b \in Bygg |-> IF b = 2 THEN Ingen ELSE 2]

R(navn, bygg, type, akt, fas, rang) ==
  [synlig |-> TRUE, navn |-> navn, bygg |-> bygg, lokaletype |-> type,
   aktivitet |-> akt, fasilitet |-> fas, tekst |-> [o \in Ord |-> rang]]

Utgaver ==
  [r \in Ressurs |->
     CASE r = 1 -> {R(1, 1, lt, {a1}, {f1, f2}, 1), R(1, 2, Ingen, {}, {f1}, 0)}
       [] r = 2 -> {R(1, 1, lt, {a2}, {f1}, 0)}
       [] r = 3 -> {R(1, 3, lt, {a1, a2}, {}, Ingen), R(1, Ingen, lt, {}, {f2}, 1)}]

Alle == [q |-> Ingen, kommune |-> {}, lokaletype |-> {}, aktivitet |-> {}, fasilitet |-> {},
         punkt |-> "ingen", radius |-> Ingen, sorter |-> Ingen, side |-> Ingen, storrelse |-> Ingen]

\* What is answered with 400: each check of normaliser in turn.
Avviste ==
  {[Alle EXCEPT !.kommune = {k1, bergen}], [Alle EXCEPT !.punkt = "ett", !.radius = 5],
   [Alle EXCEPT !.punkt = "helt"], [Alle EXCEPT !.radius = 5],
   [Alle EXCEPT !.punkt = "utenfor", !.radius = 5],
   [Alle EXCEPT !.punkt = "helt", !.radius = 0], [Alle EXCEPT !.punkt = "helt", !.radius = 6],
   [Alle EXCEPT !.sorter = "avstand"], [Alle EXCEPT !.sorter = "annet"]}

\* Page 22 of 3: 66 is 2 in six bits, on the hits again; page 11 of 3: 33 is -31.
Foresporsler ==
  { Alle,
    [Alle EXCEPT !.storrelse = 1, !.side = -1, !.sorter = "relevans"],
    [Alle EXCEPT !.storrelse = 0, !.q = ord, !.sorter = "relevans"],
    [Alle EXCEPT !.storrelse = 9, !.aktivitet = {a1, a2}],
    [Alle EXCEPT !.storrelse = 1, !.fasilitet = {f1, f2}],
    [Alle EXCEPT !.kommune = {k1}, !.q = ord],
    [Alle EXCEPT !.punkt = "helt", !.radius = 5, !.storrelse = 1],
    [Alle EXCEPT !.punkt = "helt", !.radius = 1, !.kommune = {k2, nr}],
    [Alle EXCEPT !.lokaletype = {lt}, !.side = 1],
    [Alle EXCEPT !.side = 22, !.storrelse = 3],
    [Alle EXCEPT !.side = 11, !.storrelse = 3] }
  \cup Avviste
=============================================================================
