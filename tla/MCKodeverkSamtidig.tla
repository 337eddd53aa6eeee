-------------------------- MODULE MCKodeverkSamtidig --------------------------
(***************************************************************************)
(* Two sessions, two sources; collections that contradict each other, that   *)
(* name the same new concepts in opposite orders, or that agree.            *)
(***************************************************************************)
EXTENDS KodeverkSamtidig

CONSTANTS i1, i2, i3, n1, n2, n3

R(x, n, f) == [id |-> x, navn |-> n, forelder |-> f]

Samlinger ==
  { <<R(i1, n1, i2)>>,
    <<R(i2, n2, i1)>>,
    <<R(i1, n2, Ingen), R(i3, n3, i1)>>,
    <<R(i1, n1, Ingen), R(i2, n2, i1)>>,
    <<R(i3, n3, i2), R(i2, n2, i1), R(i1, n1, Ingen)>>,
    <<R(i2, Ingen, i1), R(i3, n1, Ingen)>> }
ASSUME K!KontraktAsyklisk
=============================================================================
