---------------------------- MODULE MCInnlasting ----------------------------
(***************************************************************************)
(* Extracts for Innlasting.  Those of the overlap runs order the same        *)
(* buildings or resources differently, so that their loads wait for each    *)
(* other in a circle; any two of them share a resource.                     *)
(***************************************************************************)
EXTENDS Innlasting

CONSTANTS k1, k2, b1, b2, r1, r2, c1, c2, cx, v1, v2, g1, g2

B(b, v, g)       == [id |-> b, verdi |-> v, gate |-> g, myk |-> FALSE, feil |-> FALSE]
Defekt(b)        == [id |-> b, verdi |-> v1, gate |-> Ingen, myk |-> FALSE, feil |-> TRUE]
R(r, v, lt)      == [id |-> r, verdi |-> v, lt |-> lt, myk |-> FALSE]
P(b, r)          == [b |-> b, r |-> r]
L(r, c)          == [r |-> r, kode |-> c]

Data(bygg, ressurs, plass, lenker) ==
  [bygg |-> bygg, ressurs |-> ressurs, plass |-> plass, lenker |-> lenker]

U1 == Data(<<B(b1, v1, g1), B(b2, v1, Ingen)>>, <<R(r1, v1, c1)>>,
              <<P(b1, r1)>>, <<L(r1, c1)>>)
U2 == Data(<<B(b2, v2, Ingen), B(b1, v2, g2)>>, <<R(r1, v2, cx)>>,
              <<P(b2, r1), P(b1, r1)>>, <<L(r1, c2)>>)
U3 == Data(<<>>, <<R(r1, v1, Ingen), R(r2, v1, c1)>>,
              <<P(b2, r1)>>, <<L(r1, c1), L(r2, c1)>>)
U4 == Data(<<>>, <<R(r2, v2, c1), R(r1, v2, c1)>>, <<>>, <<L(r2, c2), L(r1, cx)>>)
U5 == Data(<<Defekt(b1), B(Ingen, v1, Ingen)>>, <<R(r1, v2, c1), R(Ingen, v1, Ingen)>>,
              <<P(b1, r1)>>, <<L(r1, c2), L(r2, c1), L(r1, Ingen), L(Ingen, c1)>>)
U6 == Data(<<B(b1, v2, g2)>>, <<R(r1, v2, c1), R(r2, ForStor, c1)>>,
              <<P(b1, r1)>>, <<L(r1, c2)>>)
U7 == Data(<<B(b1, v2, g2)>>, <<R(r1, v2, c1)>>, <<P(b1, r1)>>, <<>>)

FilerOverlapp == [Kommune -> {U1, U2, U3, U4}]
FilerFeil     == [Kommune -> {Feilet, U1, U5, U6, U7}]

EnRekke == <<k1>>
ToRekke == <<k1, k2>>

ASSUME FellesRessurs /\ EntydigeId /\ ByggEnGang
=============================================================================
