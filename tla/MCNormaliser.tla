----------------------------- MODULE MCNormaliser -----------------------------
(***************************************************************************)
(* Three releases that keep the rules of etl/README.md (an id is never      *)
(* changed or reused): the second adds a concept, the third puts it first,  *)
(* maps other names and names a concept its vocabulary lacks.               *)
(***************************************************************************)
EXTENDS Normaliser, TLC

CONSTANTS i1, i2, i3, i4, n1, n2, n3, n4, x1, x2, s1, s2, s3, s4, a1, a2, a3, r1, r2

B(n, i, b, f) == [navn |-> n, id |-> i, bredere |-> b, fasett |-> f]
K(a, s) == [id |-> a, navn |-> s]

Stengt == B(x1, i4, Ingen, "exclude")

Utgavene ==
  << [vokabular |-> <<B(n2, i2, n1, "activity"), B(n1, i1, Ingen, "activity"), Stengt>>,
      kart      |-> (s1 :> {n1} @@ s2 :> {n1, n2} @@ s3 :> {x1}),
      andre     |-> {}],
     [vokabular |-> <<B(n2, i2, n1, "activity"), B(n1, i1, Ingen, "activity"), Stengt, B(n3, i3, n2, "event")>>,
      kart      |-> (s1 :> {n1, x1} @@ s2 :> {n1, n2} @@ s3 :> {n3}),
      andre     |-> {x2}],
     [vokabular |-> <<B(n3, i3, n2, "event"), B(n1, i1, Ingen, "activity"), B(n2, i2, n1, "activity"), Stengt>>,
      kart      |-> (s1 :> {n2, n3, x2} @@ s2 :> {n3} @@ s3 :> {x1} @@ s4 :> {n4}),
      andre     |-> {x2}] >>

\* A link to a code not listed, a code listed twice, one without a name.
Svarene ==
  { [koder |-> <<K(a1, s1), K(a2, s2)>>, lenker |-> {<<r1, a1>>, <<r1, a2>>, <<r2, a2>>}],
    [koder |-> <<K(a1, s1), K(a1, s3), K(a2, Ingen), K(Ingen, s2)>>, lenker |-> {<<r1, a1>>, <<r2, a2>>, <<r2, a3>>}],
    [koder |-> <<K(a1, s4), K(a2, s2)>>, lenker |-> {<<r1, a1>>, <<r2, a2>>}] }

Samlinger == {SamlingAv[u] : u \in DOMAIN Utgavene}
ASSUME Kontrakt
=============================================================================
