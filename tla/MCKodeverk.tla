----------------------------- MODULE MCKodeverk -----------------------------
(***************************************************************************)
(* Small instances of Kodeverk: three ids, three names, two kommuner, and   *)
(* collections picked so that they disagree, are incomplete or malformed.   *)
(***************************************************************************)
EXTENDS Kodeverk

CONSTANTS i1, i2, i3, n1, n2, n3

R(i, n, f) == [id |-> i, navn |-> n, forelder |-> f]

\* Acyclic one by one, in conflict with each other: i1 under i2 in the first and
\* i2 under i1 in the second, a name that moves between ids, a parent that is
\* absent, an id that recurs, rows that cannot be read, an empty id.
Uenige ==
  { <<R(i1, n1, i2), R(i2, n2, Ingen)>>,
    <<R(i2, n2, i1), R(i1, n1, Ingen), R(i3, n3, i2)>>,
    <<R(i1, n1, i3)>>,
    <<R(i3, n3, i1), R(i3, n2, Ingen)>>,
    <<R(i2, n3, Ingen), R(i3, n3, i2)>>,
    <<R(Ingen, n1, Ingen), R(i2, Ingen, i1), R(i1, n2, i2)>>,
    <<R(i1, n1, Ingen), R(Tom, n2, Ingen)>>,
    <<R(Tom, Ingen, Ingen), R(i2, n2, Ingen)>> }
ASSUME KontraktAsyklisk
=============================================================================
