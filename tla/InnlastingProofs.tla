--------------------------- MODULE InnlastingProofs ---------------------------
(***************************************************************************)
(* For any number of sessions, kommuner and files, with lock waits, lock     *)
(* circles, rejected rows, aborts and crashes at any step: the links of a    *)
(* kommune are those of one extract, nothing of the latest load is lost      *)
(* without a deviation, a settled address is left alone, a bad record costs  *)
(* its own kommune only, and a load that commits has done at that moment     *)
(* what it would have done undivided.                                      *)
(***************************************************************************)
EXTENDS Innlasting, WellFoundedInduction, TLAPS

(* Induction over the natural numbers, as a fact about sets.               *)

Mindre == {p \in Nat \X Nat : p[1] < p[2]}

\* The natural numbers are well-founded.
LEMMA MindreVelfundert == IsWellFoundedOn(Mindre, Nat)
  BY NatLessThanWellFounded DEF OpToRel, Mindre

\* A nonempty set of natural numbers has a least member.
LEMMA MinsteTall ==
  ASSUME NEW T, T \subseteq Nat, T # {}
  PROVE  \E m \in T : \A n \in T : m <= n
<1>1. PICK m \in T : \A n \in T : <<n, m>> \notin Mindre
  BY MindreVelfundert, WFMin
<1>2. \A n \in T : m <= n
  <2> TAKE n \in T
  <2>1. n \in Nat /\ m \in Nat
    OBVIOUS
  <2>2. <<n, m>> \notin Mindre
    BY <1>1
  <2>3. ~ (n < m)
    BY <2>1, <2>2 DEF Mindre
  <2> QED
    BY <2>1, <2>3
<1> QED
  BY <1>2

\* A set with 0 and the successor of each member has every natural number.
LEMMA Induksjon ==
  ASSUME NEW T, 0 \in T, \A n \in Nat : n \in T => n + 1 \in T
  PROVE  Nat \subseteq T
<1> SUFFICES ASSUME Nat \ T # {} PROVE FALSE
  OBVIOUS
<1>1. PICK m \in Nat \ T : \A n \in Nat \ T : m <= n
  BY MinsteTall
<1> QED
  BY <1>1

----------------------------------------------------------------------------
(* What Utvalg returns.                                                    *)

Neste(g, s, S, i) == IF s[i] \in S THEN Append(g[i - 1], s[i]) ELSE g[i - 1]

\* g is the function that Utvalg defines.
ErUtvalg(g, s, S) == g = [i \in 0..Len(s) |-> IF i = 0 THEN <<>>
        ELSE IF s[i] \in S THEN Append(g[i - 1], s[i]) ELSE g[i - 1]]

\* There is such a function.
LEMMA UtvalgFinnes ==
  ASSUME NEW X, NEW s \in Seq(X), NEW S
  PROVE \E g : ErUtvalg(g, s, S)
<1> DEFINE Def(g, n) == /\ g = [i \in 0..n |-> g[i]]
                        /\ g[0] = <<>>
                        /\ \A i \in 1..n : g[i] = Neste(g, s, S, i)
           T == {n \in Nat : \E g : Def(g, n)}
<1>1. 0 \in T
  <2>1. Def([i \in 0..0 |-> <<>>], 0)
    OBVIOUS
  <2> QED BY <2>1
<1>2. ASSUME NEW n \in Nat, n \in T PROVE n+1 \in T
  <2>1. PICK g : Def(g, n)
    BY <1>2
  <2> DEFINE h == [i \in 0..(n+1) |-> IF i <= n THEN g[i] ELSE Neste(g, s, S, i)]
  <2>2. \A i \in 0..n : h[i] = g[i]
    OBVIOUS
  <2>3. h[n+1] = Neste(g, s, S, n+1)
    OBVIOUS
  <2>4. \A i \in 1..(n+1) : h[i] = Neste(h, s, S, i)
    <3> TAKE i \in 1..(n+1)
    <3>1. h[i-1] = g[i-1]
      BY <2>2
    <3>2. Neste(h, s, S, i) = Neste(g, s, S, i)
      BY <3>1 DEF Neste
    <3>3. CASE i = n+1
      BY <3>2, <2>3, <3>3
    <3>4. CASE i \in 1..n
      BY <3>2, <2>1, <2>2, <3>4
    <3> HIDE DEF h
    <3> QED BY <3>3, <3>4
  <2>5. h[0] = <<>>
    BY <2>1, <2>2
  <2>6. h = [i \in 0..(n+1) |-> h[i]]
    OBVIOUS
  <2>7. Def(h, n+1)
    <3> HIDE DEF h
    <3> QED BY <2>4, <2>5, <2>6
  <2> HIDE DEF Def
  <2> QED BY <2>7
<1>3. Len(s) \in T
  <2> HIDE DEF T
  <2> QED BY <1>1, <1>2, Induksjon
<1>4. PICK g : Def(g, Len(s))
  BY <1>3
<1>5. ErUtvalg(g, s, S)
  <2>1. \A i \in 0..Len(s) : g[i] = IF i = 0 THEN <<>>
        ELSE IF s[i] \in S THEN Append(g[i - 1], s[i]) ELSE g[i - 1]
    BY <1>4 DEF Neste
  <2>2. g = [i \in 0..Len(s) |-> g[i]]
    BY <1>4
  <2> HIDE DEF Def
  <2> QED BY <2>1, <2>2, Zenon DEF ErUtvalg
<1> QED BY <1>5

\* What is chosen is a sequence of the members of s that are in S.
LEMMA UtvalgVerdier ==
  ASSUME NEW X, NEW s \in Seq(X), NEW S
  PROVE /\ Utvalg(s, S) \in Seq(X)
        /\ Verdier(Utvalg(s, S)) = Verdier(s) \cap S
<1> DEFINE g == CHOOSE g : ErUtvalg(g, s, S)
<1>1. ErUtvalg(g, s, S)
  BY UtvalgFinnes, Zenon
<1>2. Utvalg(s, S) = g[Len(s)]
  BY Zenon DEF Utvalg, ErUtvalg
<1> HIDE DEF g
<1>3. g[0] = <<>> /\ \A i \in 1..Len(s) : g[i] = Neste(g, s, S, i)
  <2>1. \A i \in 0..Len(s) : g[i] = IF i = 0 THEN <<>>
        ELSE IF s[i] \in S THEN Append(g[i - 1], s[i]) ELSE g[i - 1]
    BY <1>1, Zenon DEF ErUtvalg
  <2>2. Len(s) \in Nat
    OBVIOUS
  <2> QED BY <2>1, <2>2 DEF Neste
<1> DEFINE P(n) == /\ g[n] \in Seq(X)
                   /\ Verdier(g[n]) = {s[i] : i \in 1..n} \cap S
           T == {n \in Nat : n <= Len(s) => P(n)}
<1>4. 0 \in T
  <2>1. Verdier(<<>>) = {} /\ <<>> \in Seq(X)
    BY DEF Verdier
  <2>2. {s[i] : i \in 1..0} = {}
    OBVIOUS
  <2> QED BY <1>3, <2>1, <2>2
<1>5. ASSUME NEW n \in Nat, n \in T PROVE n+1 \in T
  <2> SUFFICES ASSUME n+1 <= Len(s) PROVE P(n+1)
    OBVIOUS
  <2>1. P(n)
    BY <1>5
  <2>2. g[n+1] = IF s[n+1] \in S THEN Append(g[n], s[n+1]) ELSE g[n]
    BY <1>3 DEF Neste
  <2>3. s[n+1] \in X
    OBVIOUS
  <2>4. g[n+1] \in Seq(X)
    BY <2>1, <2>2, <2>3
  <2>5. \A q \in Seq(X), x \in X : Verdier(Append(q, x)) = Verdier(q) \cup {x}
    <3> TAKE q \in Seq(X), x \in X
    <3>1. /\ DOMAIN Append(q, x) = 1..(Len(q) + 1)
          /\ DOMAIN q = 1..Len(q)
          /\ Append(q, x)[Len(q) + 1] = x
          /\ \A i \in 1..Len(q) : Append(q, x)[i] = q[i]
      OBVIOUS
    <3> QED BY <3>1 DEF Verdier
  <2>6. {s[i] : i \in 1..(n+1)} = {s[i] : i \in 1..n} \cup {s[n+1]}
    OBVIOUS
  <2>7. Verdier(g[n+1]) = {s[i] : i \in 1..(n+1)} \cap S
    <3>1. CASE s[n+1] \in S
      BY <2>1, <2>2, <2>3, <2>5, <2>6, <3>1
    <3>2. CASE s[n+1] \notin S
      BY <2>1, <2>2, <2>6, <3>2
    <3> QED BY <3>1, <3>2
  <2> QED BY <2>4, <2>7
<1>6. Len(s) \in T
  <2> HIDE DEF T
  <2> QED BY <1>4, <1>5, Induksjon
<1> QED BY <1>2, <1>6 DEF Verdier

\* MedId keeps the rows with an id.
LEMMA MedIdVerdier ==
  ASSUME NEW X, NEW s \in Seq(X)
  PROVE  /\ MedId(s) \in Seq(X)
         /\ Verdier(MedId(s)) = {rad \in Verdier(s) : rad.id # Ingen}
<1> DEFINE S == {rad \in Verdier(s) : rad.id # Ingen}
<1>1. MedId(s) = Utvalg(s, S)
  BY DEF MedId
<1> HIDE DEF S
<1>2. Utvalg(s, S) \in Seq(X) /\ Verdier(Utvalg(s, S)) = Verdier(s) \cap S
  BY UtvalgVerdier
<1> QED
  BY <1>1, <1>2 DEF S

\* Lastbare keeps the links to a resource of the extract that have a code.
LEMMA LastbareVerdier ==
  ASSUME NEW u \in Uttrekk
  PROVE  /\ Lastbare(u) \in Seq(LenkeRad)
         /\ Verdier(Lastbare(u)) \subseteq Verdier(u.lenker)
         /\ \A l \in Verdier(Lastbare(u)) : l.r \in KjenteRessurser(u) /\ l.kode # Ingen
<1> DEFINE S == {l \in Verdier(u.lenker) : l.r \in KjenteRessurser(u) /\ l.kode # Ingen}
<1>1. Lastbare(u) = Utvalg(u.lenker, S)
  BY DEF Lastbare
<1>2. u.lenker \in Seq(LenkeRad)
  BY DEF Uttrekk
<1> HIDE DEF S
<1>3. Utvalg(u.lenker, S) \in Seq(LenkeRad) /\ Verdier(Utvalg(u.lenker, S)) = Verdier(u.lenker) \cap S
  BY <1>2, UtvalgVerdier
<1> QED
  BY <1>1, <1>3 DEF S

----------------------------------------------------------------------------
(* The text of a kommune's transaction.                                    *)

Av(type, rader) == [i \in DOMAIN rader |-> Setning(type, rader[i])]

\* The rows of the statements of one type among the first n of t.
RaderAv(t, type, n) == {t[j].rad : j \in {i \in 1..n : t[i].type = type}}

\* The order of the statements: what is in each part, and what has been done when one is reached.
Ordnet(t, u) ==
  /\ Len(t) \in Nat /\ DOMAIN t = 1..Len(t) /\ Len(t) >= 2
  /\ t[1].type = "registrer"
  /\ \A i \in 1..Len(t) : /\ t[i].type = "registrer" => i = 1
                          /\ t[i].type = "commit" <=> i = Len(t)
                          /\ t[i].type \in {"registrer", "bygg", "ressurs", "slett", "lenke", "commit"}
                          /\ t[i].type = "bygg" => t[i].rad \in Verdier(MedId(u.bygg))
                          /\ t[i].type = "ressurs" => t[i].rad \in Verdier(MedId(u.ressurs))
                          /\ t[i].type = "lenke" => t[i].rad \in Verdier(Lastbare(u))
  /\ \A i \in 1..Len(t) : t[i].type = "bygg" =>
       /\ i - 1 \in DOMAIN MedId(u.bygg) /\ t[i].rad = MedId(u.bygg)[i - 1]
       /\ \A j \in 1..i : t[j].type \in {"registrer", "bygg"}
  /\ \A i \in 1..Len(t) : t[i].type \in {"ressurs", "slett", "lenke", "commit"} =>
       RaderAv(t, "bygg", i - 1) = Verdier(MedId(u.bygg))
  /\ \A i \in 1..Len(t) : t[i].type \in {"slett", "lenke", "commit"} =>
       RaderAv(t, "ressurs", i - 1) = Verdier(MedId(u.ressurs))
  /\ RaderAv(t, "lenke", Len(t) - 1) = Verdier(Lastbare(u))
  /\ \E n \in 1..Len(t) : /\ t[n].type = "slett"
                          /\ \A i \in 1..Len(t) : t[i].type = "slett" => i = n
                          /\ \A i \in 1..Len(t) : t[i].type \in {"lenke", "commit"} => i > n
                          /\ \A i \in 1..Len(t) : t[i].type \in {"registrer", "bygg", "ressurs"} => i < n

\* r has the members of p and then those of q.
Sammensatt(p, q, r) == /\ Len(r) = Len(p) + Len(q)
                       /\ \A i \in 1..Len(p) : r[i] = p[i]
                       /\ \A i \in 1..Len(q) : r[Len(p) + i] = q[i]

\* The members of two sequences in a row.
LEMMA Sammen == \A X : \A p, q \in Seq(X) : p \o q \in Seq(X) /\ Sammensatt(p, q, p \o q)
  BY DEF Sammensatt

\* Three parts, of x, y and z statements, between four single ones.
LEMMA SetningerDeler ==
  ASSUME NEW u \in Uttrekk, u # Feilet
  PROVE  LET bygg    == MedId(u.bygg)
             ressurs == MedId(u.ressurs)
             lenker  == Lastbare(u)
             t       == Setninger(u)
             p1      == 1 + Len(bygg)
             p2      == p1 + Len(ressurs)
             p3      == p2 + 1
             p4      == p3 + Len(lenker)
         IN    /\ DOMAIN t = 1..(p4 + 1) /\ Len(t) = p4 + 1
               /\ t[1] = Setning("registrer", Ingen)
               /\ \A i \in 1..Len(bygg) : t[1 + i] = Setning("bygg", bygg[i])
               /\ \A i \in 1..Len(ressurs) : t[p1 + i] = Setning("ressurs", ressurs[i])
               /\ t[p2 + 1] = Setning("slett", Ingen)
               /\ \A i \in 1..Len(lenker) : t[p3 + i] = Setning("lenke", lenker[i])
               /\ t[p4 + 1] = Setning("commit", Ingen)
<1> DEFINE bygg    == MedId(u.bygg)
           ressurs == MedId(u.ressurs)
           lenker  == Lastbare(u)
           t       == Setninger(u)
           x == Len(bygg)
           y == Len(ressurs)
           z == Len(lenker)
           p1 == 1 + x
           p2 == p1 + y
           p3 == p2 + 1
           p4 == p3 + z
           Typer == {"registrer", "bygg", "ressurs", "slett", "lenke", "commit"}
           X == {Setning(type, rad) : type \in Typer, rad \in ByggRad \cup RessursRad \cup LenkeRad \cup {Ingen}}
           a == Av("bygg", bygg)
           b == Av("ressurs", ressurs)
           c == Av("lenke", lenker)
           r == <<Setning("registrer", Ingen)>>
           d == <<Setning("slett", Ingen)>>
           e == <<Setning("commit", Ingen)>>
           q1 == r \o a
           q2 == q1 \o b
           q3 == q2 \o d
           q4 == q3 \o c
           q5 == q4 \o e
<1>1. /\ bygg \in Seq(ByggRad) /\ ressurs \in Seq(RessursRad) /\ lenker \in Seq(LenkeRad)
  BY MedIdVerdier, LastbareVerdier DEF Uttrekk
<1>2. t = q5
  BY DEF Setninger, Av
<1> HIDE DEF bygg, ressurs, lenker, t
<1>3. /\ x \in Nat /\ DOMAIN bygg = 1..x /\ \A i \in 1..x : bygg[i] \in ByggRad
      /\ y \in Nat /\ DOMAIN ressurs = 1..y /\ \A i \in 1..y : ressurs[i] \in RessursRad
      /\ z \in Nat /\ DOMAIN lenker = 1..z /\ \A i \in 1..z : lenker[i] \in LenkeRad
  BY <1>1
<1>4. /\ \A i \in 1..x : Setning("bygg", bygg[i]) \in X
      /\ \A i \in 1..y : Setning("ressurs", ressurs[i]) \in X
      /\ \A i \in 1..z : Setning("lenke", lenker[i]) \in X
      /\ \A type \in Typer : Setning(type, Ingen) \in X
  BY <1>3
<1>5. /\ p1 \in Nat /\ p2 \in Nat /\ p3 \in Nat /\ p4 \in Nat
      /\ 1 + x = p1 /\ p1 + y = p2 /\ p2 + 1 = p3 /\ p3 + z = p4
  BY <1>3
<1> HIDE DEF X, x, y, z, p1, p2, p3, p4
<1>6. /\ r \in Seq(X) /\ Len(r) = 1 /\ r[1] = Setning("registrer", Ingen)
      /\ d \in Seq(X) /\ Len(d) = 1 /\ d[1] = Setning("slett", Ingen)
      /\ e \in Seq(X) /\ Len(e) = 1 /\ e[1] = Setning("commit", Ingen)
  BY <1>4
<1>7. /\ a \in Seq(X) /\ Len(a) = x /\ \A i \in 1..x : a[i] = Setning("bygg", bygg[i])
  BY <1>3, <1>4 DEF Av
<1>8. /\ b \in Seq(X) /\ Len(b) = y /\ \A i \in 1..y : b[i] = Setning("ressurs", ressurs[i])
  BY <1>3, <1>4 DEF Av
<1>9. /\ c \in Seq(X) /\ Len(c) = z /\ \A i \in 1..z : c[i] = Setning("lenke", lenker[i])
  BY <1>3, <1>4 DEF Av
<1> HIDE DEF a, b, c, r, d, e
<1>10. /\ q1 \in Seq(X) /\ Len(q1) = p1
       /\ \A i \in 1..1 : q1[i] = r[i]
       /\ \A i \in 1..x : q1[1 + i] = a[i]
  <2>1. q1 \in Seq(X) /\ Sammensatt(r, a, q1)
    BY <1>3, <1>5, <1>6, <1>7, Sammen, Zenon
  <2> HIDE DEF q1
  <2> QED
    BY <1>3, <1>5, <1>6, <1>7, <2>1 DEF Sammensatt
<1> HIDE DEF q1
<1>11. /\ q2 \in Seq(X) /\ Len(q2) = p2
       /\ \A i \in 1..p1 : q2[i] = q1[i]
       /\ \A i \in 1..y : q2[p1 + i] = b[i]
  <2>1. q2 \in Seq(X) /\ Sammensatt(q1, b, q2)
    BY <1>3, <1>5, <1>8, <1>10, Sammen, Zenon
  <2> HIDE DEF q2
  <2> QED
    BY <1>3, <1>5, <1>8, <1>10, <2>1 DEF Sammensatt
<1> HIDE DEF q2
<1>12. /\ q3 \in Seq(X) /\ Len(q3) = p3
       /\ \A i \in 1..p2 : q3[i] = q2[i]
       /\ \A i \in 1..1 : q3[p2 + i] = d[i]
  <2>1. q3 \in Seq(X) /\ Sammensatt(q2, d, q3)
    BY <1>5, <1>6, <1>11, Sammen, Zenon
  <2> HIDE DEF q3
  <2> QED
    BY <1>5, <1>6, <1>11, <2>1 DEF Sammensatt
<1> HIDE DEF q3
<1>13. /\ q4 \in Seq(X) /\ Len(q4) = p4
       /\ \A i \in 1..p3 : q4[i] = q3[i]
       /\ \A i \in 1..z : q4[p3 + i] = c[i]
  <2>1. q4 \in Seq(X) /\ Sammensatt(q3, c, q4)
    BY <1>3, <1>5, <1>9, <1>12, Sammen, Zenon
  <2> HIDE DEF q4
  <2> QED
    BY <1>3, <1>5, <1>9, <1>12, <2>1 DEF Sammensatt
<1> HIDE DEF q4
<1>14. /\ q5 \in Seq(X) /\ Len(q5) = p4 + 1
       /\ \A i \in 1..p4 : q5[i] = q4[i]
       /\ \A i \in 1..1 : q5[p4 + i] = e[i]
  <2>1. q5 \in Seq(X) /\ Sammensatt(q4, e, q5)
    BY <1>5, <1>6, <1>13, Sammen, Zenon
  <2> HIDE DEF q5
  <2> QED
    BY <1>5, <1>6, <1>13, <2>1 DEF Sammensatt
<1> HIDE DEF q5
<1>15. DOMAIN t = 1..(p4 + 1) /\ Len(t) = p4 + 1
  BY <1>2, <1>14
<1>16. \A i \in 1..x : t[1 + i] = Setning("bygg", bygg[i])
  <2> TAKE i \in 1..x
  <2>1. 1 + i \in 1..p1 /\ 1 + i \in 1..p2 /\ 1 + i \in 1..p3 /\ 1 + i \in 1..p4
    BY <1>3, <1>5
  <2> QED
    BY <2>1, <1>2, <1>7, <1>10, <1>11, <1>12, <1>13, <1>14
<1>17. \A i \in 1..y : t[p1 + i] = Setning("ressurs", ressurs[i])
  <2> TAKE i \in 1..y
  <2>1. p1 + i \in 1..p2 /\ p1 + i \in 1..p3 /\ p1 + i \in 1..p4
    BY <1>3, <1>5
  <2> QED
    BY <2>1, <1>2, <1>8, <1>11, <1>12, <1>13, <1>14
<1>18. \A i \in 1..z : t[p3 + i] = Setning("lenke", lenker[i])
  <2> TAKE i \in 1..z
  <2>1. p3 + i \in 1..p4
    BY <1>3, <1>5
  <2> QED
    BY <2>1, <1>2, <1>9, <1>13, <1>14
<1>19. /\ t[1] = Setning("registrer", Ingen)
       /\ t[p2 + 1] = Setning("slett", Ingen)
       /\ t[p4 + 1] = Setning("commit", Ingen)
  <2>1. 1 \in 1..p1 /\ 1 \in 1..p2 /\ 1 \in 1..p3 /\ 1 \in 1..p4 /\ p2 + 1 \in 1..p3 /\ p2 + 1 \in 1..p4
    BY <1>3, <1>5
  <2> QED
    BY <2>1, <1>2, <1>5, <1>6, <1>10, <1>11, <1>12, <1>13, <1>14
<1> QED
  BY <1>5, <1>15, <1>16, <1>17, <1>18, <1>19, Zenon DEF bygg, ressurs, lenker, t, x, y, z, p1, p2, p3, p4

\* The statements of an extract stand in their parts.
LEMMA SetningerOrdnet ==
  ASSUME NEW u \in Uttrekk, u # Feilet
  PROVE  Ordnet(Setninger(u), u)
<1> DEFINE bygg    == MedId(u.bygg)
           ressurs == MedId(u.ressurs)
           lenker  == Lastbare(u)
           t  == Setninger(u)
           x  == Len(bygg)
           y  == Len(ressurs)
           z  == Len(lenker)
           p1 == 1 + x
           p2 == p1 + y
           p3 == p2 + 1
           p4 == p3 + z
<1>1. /\ DOMAIN t = 1..(p4 + 1) /\ Len(t) = p4 + 1
      /\ t[1] = Setning("registrer", Ingen)
      /\ \A i \in 1..x : t[1 + i] = Setning("bygg", bygg[i])
      /\ \A i \in 1..y : t[p1 + i] = Setning("ressurs", ressurs[i])
      /\ t[p2 + 1] = Setning("slett", Ingen)
      /\ \A i \in 1..z : t[p3 + i] = Setning("lenke", lenker[i])
      /\ t[p4 + 1] = Setning("commit", Ingen)
  BY SetningerDeler, Zenon
<1>2. /\ bygg \in Seq(ByggRad) /\ ressurs \in Seq(RessursRad) /\ lenker \in Seq(LenkeRad)
  BY MedIdVerdier, LastbareVerdier DEF Uttrekk
<1> HIDE DEF bygg, ressurs, lenker, t
<1>3. /\ x \in Nat /\ DOMAIN bygg = 1..x
      /\ y \in Nat /\ DOMAIN ressurs = 1..y
      /\ z \in Nat /\ DOMAIN lenker = 1..z
  BY <1>2
<1> HIDE DEF x, y, z
<1>4. /\ Verdier(bygg) = {bygg[i] : i \in 1..x}
      /\ Verdier(ressurs) = {ressurs[i] : i \in 1..y}
      /\ Verdier(lenker) = {lenker[i] : i \in 1..z}
  BY <1>3 DEF Verdier
<1>5. /\ p1 \in Nat /\ p2 \in Nat /\ p3 \in Nat /\ p4 \in Nat
      /\ 1 <= p1 /\ p1 <= p2 /\ p3 = p2 + 1 /\ p3 <= p4
      /\ p1 = 1 + x /\ p2 = p1 + y /\ p4 = p3 + z
  BY <1>3
<1> HIDE DEF p1, p2, p3, p4
<1>6. /\ t[1].type = "registrer"
      /\ \A i \in 2..p1 : t[i].type = "bygg" /\ t[i].rad = bygg[i - 1]
      /\ \A i \in (p1 + 1)..p2 : t[i].type = "ressurs" /\ t[i].rad = ressurs[i - p1]
      /\ t[p3].type = "slett"
      /\ \A i \in (p3 + 1)..p4 : t[i].type = "lenke" /\ t[i].rad = lenker[i - p3]
      /\ t[p4 + 1].type = "commit"
  <2>1. \A i \in 2..p1 : t[i].type = "bygg" /\ t[i].rad = bygg[i - 1]
    <3> TAKE i \in 2..p1
    <3>1. PICK j \in 1..x : j = i - 1 /\ i = 1 + j
      BY <1>3, <1>5
    <3>2. t[1 + j] = Setning("bygg", bygg[j])
      BY <1>1, <3>1, Zenon
    <3> QED
      BY <3>1, <3>2 DEF Setning
  <2>2. \A i \in (p1 + 1)..p2 : t[i].type = "ressurs" /\ t[i].rad = ressurs[i - p1]
    <3> TAKE i \in (p1 + 1)..p2
    <3>1. PICK j \in 1..y : j = i - p1 /\ i = p1 + j
      BY <1>3, <1>5
    <3>2. t[p1 + j] = Setning("ressurs", ressurs[j])
      BY <1>1, <3>1, Zenon
    <3> QED
      BY <1>5, <3>1, <3>2 DEF Setning
  <2>3. \A i \in (p3 + 1)..p4 : t[i].type = "lenke" /\ t[i].rad = lenker[i - p3]
    <3> TAKE i \in (p3 + 1)..p4
    <3>1. PICK j \in 1..z : j = i - p3 /\ i = p3 + j
      BY <1>3, <1>5
    <3>2. t[p3 + j] = Setning("lenke", lenker[j])
      BY <1>1, <3>1, Zenon
    <3> QED
      BY <1>5, <3>1, <3>2 DEF Setning
  <2>4. t[1].type = "registrer" /\ t[p3].type = "slett" /\ t[p4 + 1].type = "commit"
    BY <1>1, <1>5 DEF Setning
  <2> QED
    BY <2>1, <2>2, <2>3, <2>4
\* The part a statement stands in.
<1>7. \A i \in 1..(p4 + 1) : \/ i = 1
                             \/ i \in 2..p1
                             \/ i \in (p1 + 1)..p2
                             \/ i = p3
                             \/ i \in (p3 + 1)..p4
                             \/ i = p4 + 1
  BY <1>5
<1>8. \A i \in 1..(p4 + 1) :
        /\ t[i].type \in {"registrer", "bygg", "ressurs", "slett", "lenke", "commit"}
        /\ t[i].type = "registrer" <=> i = 1
        /\ t[i].type = "bygg" <=> i \in 2..p1
        /\ t[i].type = "ressurs" <=> i \in (p1 + 1)..p2
        /\ t[i].type = "slett" <=> i = p3
        /\ t[i].type = "lenke" <=> i \in (p3 + 1)..p4
        /\ t[i].type = "commit" <=> i = p4 + 1
  BY <1>6, <1>5, <1>7
<1>9. \A i \in 1..(p4 + 1) : /\ t[i].type = "bygg" => t[i].rad \in Verdier(bygg)
                             /\ t[i].type = "ressurs" => t[i].rad \in Verdier(ressurs)
                             /\ t[i].type = "lenke" => t[i].rad \in Verdier(lenker)
  <2> TAKE i \in 1..(p4 + 1)
  <2>1. CASE i \in 2..p1
    <3>1. i - 1 \in 1..x
      BY <1>5, <2>1, <1>3
    <3> QED
      BY <3>1, <2>1, <1>4, <1>6, <1>8
  <2>2. CASE i \in (p1 + 1)..p2
    <3>1. i - p1 \in 1..y
      BY <1>5, <2>2, <1>3
    <3> QED
      BY <3>1, <2>2, <1>4, <1>6, <1>8
  <2>3. CASE i \in (p3 + 1)..p4
    <3>1. i - p3 \in 1..z
      BY <1>5, <2>3, <1>3
    <3> QED
      BY <3>1, <2>3, <1>4, <1>6, <1>8
  <2> QED
    BY <2>1, <2>2, <2>3, <1>8
<1>10. \A n \in 0..p4 : p1 <= n => RaderAv(t, "bygg", n) = Verdier(bygg)
  <2> SUFFICES ASSUME NEW n \in 0..p4, p1 <= n PROVE RaderAv(t, "bygg", n) = Verdier(bygg)
    OBVIOUS
  <2>1. RaderAv(t, "bygg", n) \subseteq Verdier(bygg)
    BY <1>5, <1>9 DEF RaderAv
  <2>2. ASSUME NEW i \in 1..x PROVE bygg[i] \in RaderAv(t, "bygg", n)
    <3>1. i + 1 \in 2..p1 /\ (i + 1) - 1 = i /\ i + 1 \in 1..n
      BY <1>3, <1>5
    <3>2. t[i + 1].type = "bygg" /\ t[i + 1].rad = bygg[i]
      BY <3>1, <1>6
    <3> QED
      BY <3>1, <3>2 DEF RaderAv
  <2> QED
    BY <2>1, <2>2, <1>4
<1>11. \A n \in 0..p4 : p2 <= n => RaderAv(t, "ressurs", n) = Verdier(ressurs)
  <2> SUFFICES ASSUME NEW n \in 0..p4, p2 <= n PROVE RaderAv(t, "ressurs", n) = Verdier(ressurs)
    OBVIOUS
  <2>1. RaderAv(t, "ressurs", n) \subseteq Verdier(ressurs)
    BY <1>5, <1>9 DEF RaderAv
  <2>2. ASSUME NEW i \in 1..y PROVE ressurs[i] \in RaderAv(t, "ressurs", n)
    <3>1. p1 + i \in (p1 + 1)..p2 /\ (p1 + i) - p1 = i /\ p1 + i \in 1..n
      BY <1>3, <1>5
    <3>2. t[p1 + i].type = "ressurs" /\ t[p1 + i].rad = ressurs[i]
      BY <3>1, <1>6
    <3> QED
      BY <3>1, <3>2 DEF RaderAv
  <2> QED
    BY <2>1, <2>2, <1>4
<1>12. RaderAv(t, "lenke", p4) = Verdier(lenker)
  <2>1. RaderAv(t, "lenke", p4) \subseteq Verdier(lenker)
    BY <1>5, <1>9 DEF RaderAv
  <2>2. ASSUME NEW i \in 1..z PROVE lenker[i] \in RaderAv(t, "lenke", p4)
    <3>1. p3 + i \in (p3 + 1)..p4 /\ (p3 + i) - p3 = i /\ p3 + i \in 1..p4
      BY <1>3, <1>5
    <3>2. t[p3 + i].type = "lenke" /\ t[p3 + i].rad = lenker[i]
      BY <3>1, <1>6
    <3> QED
      BY <3>1, <3>2 DEF RaderAv
  <2> QED
    BY <2>1, <2>2, <1>4
<1>13. Len(t) = p4 + 1 /\ DOMAIN t = 1..(p4 + 1)
  BY <1>1, <1>5 DEF p1, p2, p3, p4
<1>14. \A i \in 1..Len(t) :
         /\ t[i].type \in {"ressurs", "slett", "lenke", "commit"} => i - 1 \in 0..p4 /\ p1 <= i - 1
         /\ t[i].type \in {"slett", "lenke", "commit"} => i - 1 \in 0..p4 /\ p2 <= i - 1
  BY <1>5, <1>8, <1>13
<1>15. /\ p3 \in 1..Len(t) /\ t[p3].type = "slett"
       /\ \A i \in 1..Len(t) : /\ t[i].type = "slett" => i = p3
                               /\ t[i].type \in {"lenke", "commit"} => i > p3
                               /\ t[i].type \in {"registrer", "bygg", "ressurs"} => i < p3
  BY <1>5, <1>8, <1>13
<1>16. \A i \in 1..Len(t) : /\ t[i].type \in {"ressurs", "slett", "lenke", "commit"} =>
                                 RaderAv(t, "bygg", i - 1) = Verdier(bygg)
                            /\ t[i].type \in {"slett", "lenke", "commit"} =>
                                 RaderAv(t, "ressurs", i - 1) = Verdier(ressurs)
  BY <1>10, <1>11, <1>14
<1>17. RaderAv(t, "lenke", Len(t) - 1) = Verdier(lenker)
  BY <1>5, <1>12, <1>13
<1>18. /\ Len(t) \in Nat /\ DOMAIN t = 1..Len(t) /\ Len(t) >= 2 /\ t[1].type = "registrer"
       /\ \A i \in 1..Len(t) : /\ t[i].type = "registrer" => i = 1
                               /\ t[i].type = "commit" <=> i = Len(t)
                               /\ t[i].type \in {"registrer", "bygg", "ressurs", "slett", "lenke", "commit"}
  BY <1>5, <1>8, <1>13
<1>19. \A i \in 1..Len(t) : t[i].type = "bygg" =>
         /\ i - 1 \in DOMAIN bygg /\ t[i].rad = bygg[i - 1]
         /\ \A j \in 1..i : t[j].type \in {"registrer", "bygg"}
  <2> SUFFICES ASSUME NEW i \in 1..(p4 + 1), t[i].type = "bygg"
               PROVE  /\ i - 1 \in DOMAIN bygg /\ t[i].rad = bygg[i - 1]
                      /\ \A j \in 1..i : t[j].type \in {"registrer", "bygg"}
    BY <1>13
  <2>1. i \in 2..p1
    BY <1>8
  <2>2. i - 1 \in 1..x
    BY <1>3, <1>5, <2>1
  <2>3. ASSUME NEW j \in 1..i PROVE t[j].type \in {"registrer", "bygg"}
    <3>1. j = 1 \/ j \in 2..p1
      BY <1>5, <2>1
    <3> QED
      BY <1>6, <3>1
  <2> QED
    BY <1>3, <1>6, <2>1, <2>2, <2>3
<1> QED
  <2>1. Ordnet(t, u)
    BY <1>9, <1>13, <1>15, <1>16, <1>17, <1>18, <1>19 DEF Ordnet, bygg, ressurs, lenker
  <2> QED
    BY <2>1 DEF t

----------------------------------------------------------------------------
(* The inductive invariant.                                                *)

Laster(s) == ko[s] # <<>>

\* The rows of the statements of one type that the open transaction has behind it.
Gjort(s, type) == RaderAv(Tekst[U(s)], type, pos[s] - 1)

SlettGjort(s) == \E i \in 1..(pos[s] - 1) : Tekst[U(s)][i].type = "slett"

OktType(s) ==
  /\ ko[s] \in Seq(Kommune)
  /\ pos[s] \in Nat
  /\ DOMAIN ny[s] \subseteq Rader
  /\ \A x \in DOMAIN ny[s] : AvTabellen(x, ny[s][x])
  /\ ko[s] = <<>> => ny[s] = <<>> /\ logg[s] = {} /\ ~ Ventende(s)
  /\ ko[s] # <<>> => fil[s] \in Filer /\ pos[s] \in 1..Len(Tekst[U(s)])

Domener == /\ DOMAIN db = Rader
           /\ DOMAIN ny = Okt /\ DOMAIN ser = Okt
           /\ DOMAIN ko = Okt /\ DOMAIN fil = Okt /\ DOMAIN pos = Okt /\ DOMAIN logg = Okt
           /\ DOMAIN lastet = Kommune /\ DOMAIN avvik = Kommune

IType == /\ Domener
         /\ \A rad \in Rader : AvTabellen(rad, db[rad])
         /\ \A s \in Okt : OktType(s)
         /\ LaasEksklusiv

\* The rows held are those of the kommune; links only when the old ones are gone, and
\* nothing but the kommune when the fetch failed.
EgneRader(s) ==
  \A x \in DOMAIN ny[s] : /\ x[2] = K(s)
                          /\ x[1] = "lenke" => SlettGjort(s)
                          /\ U(s) = Feilet => x[1] = "kommune"

RessurseneHoldes(s) ==
  Laster(s) => \A rad \in Gjort(s, "ressurs") : RRessurs(K(s), rad.id) \in DOMAIN ny[s]

\* The links as the session sees them once it has deleted the old ones.
EgneLenker(s) ==
  Laster(s) /\ SlettGjort(s) =>
    {x \in Lenkerader(K(s)) : Verdi(s, x) # Ingen}
      = UNION {Lenkerad(K(s), l) : l \in Gjort(s, "lenke")}

IEgne == \A s \in Okt : EgneRader(s) /\ RessurseneHoldes(s)

OktKobling(s) == EgneLenker(s) /\ (Er(s, "slett") => ~ Ventende(s))

IKobling == (\A s \in Okt : OktKobling(s)) /\ KoblingerErEttUttrekks


----------------------------------------------------------------------------
(* What a session reads in its file.                                       *)

\* The text of a file's kommune is that of its extract.
LEMMA TekstSlaaOpp ==
  ASSUME NEW f \in Filer, NEW k \in Kommune
  PROVE  /\ Tekst[f[k]] = Setninger(f[k])
         /\ f[k] \in Uttrekk \cup {Feilet}
<1>1. f \in [Kommune -> Uttrekk \cup {Feilet}]
  BY Uttrekkene
<1>2. f[k] \in UNION {{g[j] : j \in Kommune} : g \in Filer}
  OBVIOUS
<1>3. f[k] \in Uttrekk \cup {Feilet}
  BY <1>1
<1>4. Tekst[f[k]] = Setninger(f[k])
  BY <1>2, Zenon DEF Tekst
<1> QED
  BY <1>3, <1>4

\* After a failed fetch the text registers and commits.
LEMMA TekstFeilet ==
  /\ Len(Setninger(Feilet)) = 2
  /\ DOMAIN Setninger(Feilet) = 1..2
  /\ Setninger(Feilet)[1] = Setning("registrer", Ingen)
  /\ Setninger(Feilet)[2] = Setning("commit", Ingen)
<1>1. Setninger(Feilet) = <<Setning("registrer", Ingen), Setning("commit", Ingen)>>
  BY Zenon DEF Setninger
<1> HIDE DEF Setninger
<1> QED
  BY <1>1

\* The text a session reads.
LEMMA OktTekst ==
  ASSUME NEW s \in Okt, OktType(s), Laster(s)
  PROVE  /\ K(s) \in Kommune
         /\ U(s) \in Uttrekk \cup {Feilet}
         /\ Tekst[U(s)] = Setninger(U(s))
         /\ U(s) # Feilet => U(s) \in Uttrekk /\ Ordnet(Tekst[U(s)], U(s))
         /\ DOMAIN Tekst[U(s)] = 1..Len(Tekst[U(s)]) /\ Len(Tekst[U(s)]) \in Nat
<1>1. K(s) \in Kommune
  BY DEF OktType, Laster, K
<1>2. fil[s] \in Filer
  BY DEF OktType, Laster
<1>3. Tekst[U(s)] = Setninger(U(s)) /\ U(s) \in Uttrekk \cup {Feilet}
  BY <1>1, <1>2, TekstSlaaOpp, Zenon DEF U
<1>4. ASSUME U(s) # Feilet PROVE U(s) \in Uttrekk /\ Ordnet(Tekst[U(s)], U(s))
  <2>1. U(s) \in Uttrekk
    BY <1>3, <1>4, Zenon
  <2> QED
    BY <1>3, <1>4, <2>1, SetningerOrdnet, Zenon
<1>5. DOMAIN Tekst[U(s)] = 1..Len(Tekst[U(s)]) /\ Len(Tekst[U(s)]) \in Nat
  <2>1. CASE U(s) = Feilet
    BY <1>3, <2>1, TekstFeilet
  <2>2. CASE U(s) # Feilet
    BY <1>4, <2>2, Zenon DEF Ordnet
  <2> QED
    BY <2>1, <2>2
<1> QED
  BY <1>1, <1>3, <1>4, <1>5, Zenon

\* A building that is loaded has an id.
LEMMA ByggMedId ==
  ASSUME NEW u \in Uttrekk, NEW rad \in Verdier(MedId(u.bygg))
  PROVE  rad \in ByggRad /\ rad.id \in ByggId /\ rad.id # Ingen
<1>1. u.bygg \in Seq(ByggRad)
  BY DEF Uttrekk
<1>2. rad \in Verdier(u.bygg) /\ rad.id # Ingen
  BY <1>1, MedIdVerdier
<1>3. rad \in ByggRad
  BY <1>1, <1>2 DEF Verdier
<1> QED
  BY <1>2, <1>3 DEF ByggRad

\* A resource that is loaded has an id.
LEMMA RessursMedId ==
  ASSUME NEW u \in Uttrekk, NEW rad \in Verdier(MedId(u.ressurs))
  PROVE  rad \in RessursRad /\ rad.id \in RessursId /\ rad.id # Ingen
<1>1. u.ressurs \in Seq(RessursRad)
  BY DEF Uttrekk
<1>2. rad \in Verdier(u.ressurs) /\ rad.id # Ingen
  BY <1>1, MedIdVerdier
<1>3. rad \in RessursRad
  BY <1>1, <1>2 DEF Verdier
<1> QED
  BY <1>2, <1>3 DEF RessursRad

\* A link that is loaded has a resource and a code.
LEMMA LenkeMedKode ==
  ASSUME NEW u \in Uttrekk, NEW l \in Verdier(Lastbare(u))
  PROVE  l.r \in RessursId \cup {Ingen} /\ l.kode \in Kode \cup Fremmed
<1>1. l \in Verdier(u.lenker) /\ l.kode # Ingen
  BY LastbareVerdier, Zenon
<1>2. u.lenker \in Seq(LenkeRad)
  BY DEF Uttrekk
<1>3. l \in LenkeRad
  BY <1>1, <1>2 DEF Verdier
<1> QED
  BY <1>1, <1>3 DEF LenkeRad

\* The statement the session has reached.
LEMMA NaHva ==
  ASSUME NEW s \in Okt, OktType(s), Laster(s)
  PROVE  /\ Na(s).type \in {"registrer", "bygg", "ressurs", "slett", "lenke", "commit"}
         /\ U(s) = Feilet => Na(s).type \in {"registrer", "commit"}
         /\ Na(s).type = "commit" <=> pos[s] = Len(Tekst[U(s)])
         /\ Na(s).type = "registrer" => pos[s] = 1
         /\ Na(s).type = "bygg" => /\ Na(s).rad \in Verdier(MedId(U(s).bygg))
                                   /\ Na(s).rad \in ByggRad /\ Na(s).rad.id \in ByggId
         /\ Na(s).type = "ressurs" => /\ Na(s).rad \in Verdier(MedId(U(s).ressurs))
                                      /\ Na(s).rad \in RessursRad /\ Na(s).rad.id \in RessursId
         /\ Na(s).type = "lenke" => /\ Na(s).rad \in Verdier(Lastbare(U(s)))
                                    /\ Na(s).rad.r \in RessursId \cup {Ingen}
                                    /\ Na(s).rad.kode \in Kode \cup Fremmed
<1>1. pos[s] \in 1..Len(Tekst[U(s)])
  BY DEF OktType, Laster
<1>2. CASE U(s) = Feilet
  <2>1. /\ Len(Tekst[U(s)]) = 2
        /\ Tekst[U(s)][1].type = "registrer" /\ Tekst[U(s)][2].type = "commit"
    BY <1>2, OktTekst, TekstFeilet DEF Setning
  <2> QED
    BY <1>1, <1>2, <2>1 DEF Na
<1>3. CASE U(s) # Feilet
  <2>1. U(s) \in Uttrekk /\ Ordnet(Tekst[U(s)], U(s))
    BY <1>3, OktTekst, Zenon
  <2>2. /\ Na(s).type \in {"registrer", "bygg", "ressurs", "slett", "lenke", "commit"}
        /\ Na(s).type = "commit" <=> pos[s] = Len(Tekst[U(s)])
        /\ Na(s).type = "registrer" => pos[s] = 1
        /\ Na(s).type = "bygg" => Na(s).rad \in Verdier(MedId(U(s).bygg))
        /\ Na(s).type = "ressurs" => Na(s).rad \in Verdier(MedId(U(s).ressurs))
        /\ Na(s).type = "lenke" => Na(s).rad \in Verdier(Lastbare(U(s)))
    BY <1>1, <2>1, Zenon DEF Ordnet, Na
  <2> QED
    BY <1>3, <2>1, <2>2, ByggMedId, RessursMedId, LenkeMedKode, Zenon
<1> QED
  BY <1>2, <1>3

\* One statement further there is one more row.
LEMMA RaderAvNeste ==
  ASSUME NEW t, NEW type, NEW n \in Nat, n >= 1
  PROVE  RaderAv(t, type, n) = RaderAv(t, type, n - 1) \cup (IF t[n].type = type THEN {t[n].rad} ELSE {})
<1>1. 1..n = 1..(n - 1) \cup {n}
  OBVIOUS
<1> DEFINE D == 1..n
           E == 1..(n - 1)
<1>2. D = E \cup {n}
  BY <1>1
<1> HIDE DEF D, E
<1>3. {t[j].rad : j \in {i \in D : t[i].type = type}}
        = {t[j].rad : j \in {i \in E : t[i].type = type}} \cup (IF t[n].type = type THEN {t[n].rad} ELSE {})
  BY <1>2
<1> QED
  BY <1>3 DEF RaderAv, D, E

----------------------------------------------------------------------------
(* What the steps do.                                                      *)

\* Nothing of the session changes.
Lik(t) == /\ ko'[t] = ko[t] /\ fil'[t] = fil[t] /\ pos'[t] = pos[t] /\ logg'[t] = logg[t]
          /\ ny'[t] = ny[t] /\ ser'[t] = ser[t]

AndreLike(s) == \A t \in Okt \ {s} : Lik(t)

\* A statement of s that is not the last of its transaction writes the rows of f.
Trinn(s, f) ==
  /\ Laster(s) /\ Na(s).type # "commit"
  /\ AndreLike(s)
  /\ UNCHANGED <<db, lastet, avvik>>
  /\ ko'[s] = ko[s] /\ fil'[s] = fil[s] /\ pos'[s] = pos[s] + 1
  /\ ser'[s] = Ingen
  /\ DOMAIN ny'[s] = DOMAIN f \cup DOMAIN ny[s]
  /\ \A x \in DOMAIN f : ny'[s][x] = f[x]
  /\ \A x \in DOMAIN ny[s] \ DOMAIN f : ny'[s][x] = ny[s][x]
  /\ \A t \in Okt \ {s} : DOMAIN f \cap DOMAIN ny[t] = {}

\* The transaction ends with nothing written.
Slutt(s) ==
  /\ Laster(s)
  /\ AndreLike(s)
  /\ UNCHANGED <<db, lastet, avvik>>
  /\ ko'[s] \in {Tail(ko[s]), <<>>} /\ fil'[s] = fil[s] /\ pos'[s] = 1 /\ logg'[s] = {}
  /\ ser'[s] = Ingen /\ ny'[s] = <<>>

\* A statement that is carried out writes its rows and goes on.
LEMMA SkrivTrinn ==
  ASSUME Domener, NEW s \in Okt, NEW f, Laster(s), Na(s).type # "commit",
         Skriv(s, f), Videre(s), UNCHANGED <<ko, fil, lastet, avvik>>,
         \A t \in Okt \ {s} : logg'[t] = logg[t]
  PROVE  Trinn(s, f)
<1>1. /\ ny' = [ny EXCEPT ![s] = Over(f, ny[s])]
      /\ ser' = [ser EXCEPT ![s] = Ingen] /\ db' = db
      /\ Opptatt(s, DOMAIN f) = {}
  BY DEF Skriv
<1>2. ny'[s] = Over(f, ny[s])
  BY <1>1 DEF Domener
<1>3. /\ DOMAIN Over(f, ny[s]) = DOMAIN f \cup DOMAIN ny[s]
      /\ \A x \in DOMAIN f : Over(f, ny[s])[x] = f[x]
      /\ \A x \in DOMAIN ny[s] \ DOMAIN f : Over(f, ny[s])[x] = ny[s][x]
  BY Zenon DEF Over
<1>4. \A t \in Okt \ {s} : DOMAIN f \cap DOMAIN ny[t] = {}
  BY <1>1 DEF Opptatt
<1>5. AndreLike(s)
  BY <1>1 DEF AndreLike, Lik, Videre, Domener
<1>6. ser'[s] = Ingen /\ pos'[s] = pos[s] + 1
  BY <1>1 DEF Videre, Domener
<1>7. UNCHANGED <<db, lastet, avvik>> /\ ko'[s] = ko[s] /\ fil'[s] = fil[s]
  BY <1>1
<1> QED
  BY <1>2, <1>3, <1>4, <1>5, <1>6, <1>7 DEF Trinn

\* What a step that goes on has done after it.
LEMMA TrinnGjort ==
  ASSUME NEW s \in Okt, OktType(s), NEW f, Trinn(s, f)
  PROVE  /\ K(s)' = K(s) /\ U(s)' = U(s) /\ Laster(s)'
         /\ pos'[s] \in 1..Len(Tekst[U(s)])
         /\ \A type : Gjort(s, type)'
              = Gjort(s, type) \cup (IF Na(s).type = type THEN {Na(s).rad} ELSE {})
         /\ SlettGjort(s)' <=> SlettGjort(s) \/ Na(s).type = "slett"
<1>1. K(s)' = K(s) /\ U(s)' = U(s) /\ Laster(s)'
  BY DEF K, U, Laster, Trinn
<1>2. pos[s] \in 1..Len(Tekst[U(s)]) /\ Len(Tekst[U(s)]) \in Nat /\ pos[s] # Len(Tekst[U(s)])
  BY OktTekst, NaHva DEF OktType, Trinn, Laster
<1>3. pos'[s] = pos[s] + 1 /\ pos'[s] - 1 = pos[s] /\ pos[s] \in Nat /\ pos[s] >= 1
  BY <1>2 DEF Trinn
<1>4. pos'[s] \in 1..Len(Tekst[U(s)])
  BY <1>2, <1>3
<1>5. ASSUME NEW type
      PROVE  Gjort(s, type)' = Gjort(s, type) \cup (IF Na(s).type = type THEN {Na(s).rad} ELSE {})
  <2>1. Gjort(s, type)' = RaderAv(Tekst[U(s)], type, pos[s])
    BY <1>1, <1>3 DEF Gjort
  <2>2. RaderAv(Tekst[U(s)], type, pos[s])
          = RaderAv(Tekst[U(s)], type, pos[s] - 1) \cup (IF Na(s).type = type THEN {Na(s).rad} ELSE {})
    <3> DEFINE n == pos[s]
    <3>1. n \in Nat /\ n >= 1
      BY <1>3
    <3> HIDE DEF n
    <3>2. RaderAv(Tekst[U(s)], type, n)
            = RaderAv(Tekst[U(s)], type, n - 1)
              \cup (IF Tekst[U(s)][n].type = type THEN {Tekst[U(s)][n].rad} ELSE {})
      BY <3>1, RaderAvNeste, Zenon
    <3> QED
      BY <3>2, Zenon DEF n, Na
  <2> QED
    BY <2>1, <2>2, Zenon DEF Gjort
<1>6. SlettGjort(s)' <=> SlettGjort(s) \/ Na(s).type = "slett"
  <2>1. SlettGjort(s)' <=> \E i \in 1..pos[s] : Tekst[U(s)][i].type = "slett"
    BY <1>1, <1>3 DEF SlettGjort
  <2>2. 1..pos[s] = 1..(pos[s] - 1) \cup {pos[s]}
    BY <1>3
  <2> QED
    BY <2>1, <2>2, Zenon DEF SlettGjort, Na
<1> QED
  BY <1>1, <1>4, <1>5, <1>6, Zenon

\* The rows each statement needs.
LEMMA TrengerHva ==
  ASSUME NEW s, Laster(s)
  PROVE  /\ Na(s).type = "registrer" => Trenger(s) = {RKommune(K(s))} \ {x \in Rader : db[x] # Ingen}
         /\ Na(s).type = "bygg" =>
              Trenger(s) = {RByggnad(K(s), Na(s).rad.id)}
                \cup (IF Na(s).rad.gate = Ingen THEN {} ELSE {RAdresse(K(s), Na(s).rad.id)})
         /\ Na(s).type = "ressurs" => Trenger(s) = {RRessurs(K(s), Na(s).rad.id)}
         /\ Na(s).type = "slett" => Trenger(s) = Slettes(s)
         /\ Na(s).type = "lenke" => Trenger(s) = Lenkerad(K(s), Na(s).rad)
         /\ Na(s).type = "commit" => Trenger(s) = {}
<1>1. \A type : Er(s, type) <=> Na(s).type = type
  BY DEF Er, Laster
<1> QED
  BY <1>1, Zenon DEF Trenger

\* The rows the statements write.
SannF(s) == [x \in Trenger(s) |-> TRUE]

ByggF(s) ==
  [x \in Trenger(s) |-> IF x = RAdresse(K(s), Na(s).rad.id)
                        THEN NyAdresse(Verdi(s, RAdresse(K(s), Na(s).rad.id)), Na(s).rad.gate)
                        ELSE Na(s).rad.verdi]

Funnet(s) ==
  LET b == ByggFor(U(s), Na(s).rad.id)
  IN  IF b # Ingen /\ RByggnad(K(s), b) \in Oyeblikk(s) THEN b ELSE Ingen

RessursF(s) == [x \in Trenger(s) |-> NyRessurs(Na(s).rad, Funnet(s))]

SlettF(s) == [x \in {y \in Trenger(s) : Verdi(s, y) # Ingen} |-> Ingen]

\* The forms a step takes.
TrinnRegistrer(s) == Na(s).type = "registrer" /\ Trinn(s, SannF(s)) /\ logg'[s] = Leseavvik(U(s))
TrinnBygg(s) == /\ Na(s).type = "bygg" /\ Trinn(s, ByggF(s)) /\ logg'[s] = logg[s]
                /\ ~ Na(s).rad.feil
TrinnByggFeil(s) == /\ Na(s).type = "bygg" /\ Trinn(s, <<>>)
                    /\ logg'[s] = logg[s] \cup {<<"db_feil", Na(s).rad.id>>}
TrinnRessurs(s) == /\ Na(s).type = "ressurs" /\ Trinn(s, RessursF(s)) /\ logg'[s] = logg[s]
                   /\ Na(s).rad.verdi # ForStor
TrinnSlett(s) == /\ Na(s).type = "slett" /\ Trinn(s, SlettF(s)) /\ logg'[s] = logg[s]
TrinnLenke(s) == Na(s).type = "lenke" /\ Trinn(s, SannF(s)) /\ logg'[s] = logg[s]

\* Registrer writes the row of the kommune and starts the log.
LEMMA RegistrerForm ==
  ASSUME Domener, NEW s \in Okt, Registrer(s)
  PROVE  TrinnRegistrer(s)
<1>1. Laster(s) /\ Na(s).type = "registrer"
  BY DEF Registrer, Er, Laster
<1>2. Skriv(s, SannF(s)) /\ Videre(s) /\ UNCHANGED <<ko, fil, lastet, avvik>>
  BY Zenon DEF Registrer, SannF
<1>3. logg'[s] = Leseavvik(U(s)) /\ \A t \in Okt \ {s} : logg'[t] = logg[t]
  <2>1. logg' = [logg EXCEPT ![s] = Leseavvik(U(s))]
    BY DEF Registrer
  <2> QED
    BY <2>1 DEF Domener
<1> QED
  BY <1>1, <1>2, <1>3, SkrivTrinn DEF TrinnRegistrer

\* LastBygg writes the building and its address.
LEMMA LastByggForm ==
  ASSUME Domener, NEW s \in Okt, LastBygg(s)
  PROVE  TrinnBygg(s)
<1>1. Laster(s) /\ Na(s).type = "bygg"
  BY DEF LastBygg, Er, Laster
<1>2. /\ Skriv(s, ByggF(s)) /\ Videre(s) /\ UNCHANGED <<ko, fil, logg, lastet, avvik>>
      /\ ~ Na(s).rad.feil
  BY Zenon DEF LastBygg, ByggF
<1> QED
  BY <1>1, <1>2, SkrivTrinn DEF TrinnBygg

\* ByggFeiler writes nothing and logs.
LEMMA ByggFeilerForm ==
  ASSUME Domener, NEW s \in Okt, Er(s, "bygg"), ByggFeiler(s)
  PROVE  TrinnByggFeil(s)
<1>1. Laster(s) /\ Na(s).type = "bygg"
  BY DEF Er, Laster
<1>2. Skriv(s, <<>>) /\ Videre(s) /\ UNCHANGED <<ko, fil, lastet, avvik>>
  BY Zenon DEF ByggFeiler
<1>3. /\ logg'[s] = logg[s] \cup {<<"db_feil", Na(s).rad.id>>}
      /\ \A t \in Okt \ {s} : logg'[t] = logg[t]
  <2>1. logg' = [logg EXCEPT ![s] = @ \cup {<<"db_feil", Na(s).rad.id>>}]
    BY DEF ByggFeiler
  <2> QED
    BY <2>1 DEF Domener
<1> QED
  BY <1>1, <1>2, <1>3, SkrivTrinn DEF TrinnByggFeil

\* LastRessurs writes the resource with the building it found.
LEMMA LastRessursForm ==
  ASSUME Domener, NEW s \in Okt, LastRessurs(s)
  PROVE  TrinnRessurs(s)
<1>1. Laster(s) /\ Na(s).type = "ressurs" /\ Na(s).rad.verdi # ForStor
  BY DEF LastRessurs, Er, Laster
<1>2. Skriv(s, RessursF(s)) /\ Videre(s) /\ UNCHANGED <<ko, fil, logg, lastet, avvik>>
  BY Zenon DEF LastRessurs, RessursF, Funnet
<1> QED
  BY <1>1, <1>2, SkrivTrinn DEF TrinnRessurs

\* SlettLenker deletes the links it sees.
LEMMA SlettLenkerForm ==
  ASSUME Domener, NEW s \in Okt, SlettLenker(s)
  PROVE  TrinnSlett(s)
<1>1. Laster(s) /\ Na(s).type = "slett"
  BY DEF SlettLenker, Er, Laster
<1>2. Skriv(s, SlettF(s)) /\ Videre(s) /\ UNCHANGED <<ko, fil, logg, lastet, avvik>>
  BY Zenon DEF SlettLenker, SlettF
<1> QED
  BY <1>1, <1>2, SkrivTrinn DEF TrinnSlett

\* LastLenke writes one link, or none.
LEMMA LastLenkeForm ==
  ASSUME Domener, NEW s \in Okt, LastLenke(s)
  PROVE  TrinnLenke(s)
<1>1. Laster(s) /\ Na(s).type = "lenke"
  BY DEF LastLenke, Er, Laster
<1>2. Skriv(s, SannF(s)) /\ Videre(s) /\ UNCHANGED <<ko, fil, logg, lastet, avvik>>
  BY Zenon DEF LastLenke, SannF
<1> QED
  BY <1>1, <1>2, SkrivTrinn DEF TrinnLenke

\* Avbryt ends the transaction, and the file goes on with the next kommune.
LEMMA AvbrytForm ==
  ASSUME Domener, NEW s \in Okt, Laster(s), Avbryt(s)
  PROVE  Slutt(s) /\ ko'[s] = Tail(ko[s])
  BY DEF Avbryt, Tilbakerull, NesteKommune, Slutt, AndreLike, Lik, Domener

\* Krasj ends the transaction.
LEMMA KrasjForm ==
  ASSUME Domener, NEW s \in Okt, Krasj(s)
  PROVE  Slutt(s)
  BY DEF Krasj, Tilbakerull, Slutt, AndreLike, Lik, Domener, Laster

\* COMMIT.
TrinnFullfor(s) ==
  /\ Laster(s) /\ Na(s).type = "commit"
  /\ AndreLike(s)
  /\ ko'[s] = Tail(ko[s]) /\ fil'[s] = fil[s] /\ pos'[s] = 1 /\ logg'[s] = {}
  /\ ser'[s] = Ingen /\ ny'[s] = <<>>
  /\ db' = Over(ny[s], db)
  /\ DOMAIN db' = DOMAIN ny[s] \cup DOMAIN db
  /\ \A x \in DOMAIN ny[s] : db'[x] = ny[s][x]
  /\ \A x \in DOMAIN db \ DOMAIN ny[s] : db'[x] = db[x]
  /\ IF U(s) = Feilet THEN UNCHANGED <<lastet, avvik>>
     ELSE /\ lastet' = [lastet EXCEPT ![K(s)] = U(s)]
          /\ avvik' = [avvik EXCEPT ![K(s)] = logg[s] \cup UkjenteId(U(s))]

\* Fullfor commits the rows held.
LEMMA FullforForm ==
  ASSUME Domener, NEW s \in Okt, Fullfor(s)
  PROVE  TrinnFullfor(s)
<1>1. Laster(s) /\ Na(s).type = "commit"
  BY DEF Fullfor, Er, Laster
<1>2. /\ ny' = [ny EXCEPT ![s] = <<>>] /\ ser' = [ser EXCEPT ![s] = Ingen]
      /\ ko' = [ko EXCEPT ![s] = Tail(@)] /\ pos' = [pos EXCEPT ![s] = 1]
      /\ logg' = [logg EXCEPT ![s] = {}] /\ fil' = fil
  BY DEF Fullfor, Commit, NesteKommune
<1>3. db' = Over(ny[s], db)
  BY DEF Fullfor, Commit
<1>4. /\ DOMAIN Over(ny[s], db) = DOMAIN ny[s] \cup DOMAIN db
      /\ \A x \in DOMAIN ny[s] : Over(ny[s], db)[x] = ny[s][x]
      /\ \A x \in DOMAIN db \ DOMAIN ny[s] : Over(ny[s], db)[x] = db[x]
  BY Zenon DEF Over
<1>5. AndreLike(s)
  BY <1>2 DEF AndreLike, Lik, Domener
<1>6. /\ ko'[s] = Tail(ko[s]) /\ fil'[s] = fil[s] /\ pos'[s] = 1 /\ logg'[s] = {}
      /\ ser'[s] = Ingen /\ ny'[s] = <<>>
  BY <1>2 DEF Domener
<1>7. IF U(s) = Feilet THEN UNCHANGED <<lastet, avvik>>
      ELSE /\ lastet' = [lastet EXCEPT ![K(s)] = U(s)]
           /\ avvik' = [avvik EXCEPT ![K(s)] = logg[s] \cup UkjenteId(U(s))]
  BY DEF Fullfor
<1> QED
  BY <1>1, <1>3, <1>4, <1>5, <1>6, <1>7, Zenon DEF TrinnFullfor

TrinnVent(s) == /\ Laster(s) /\ ~ Ventende(s)
                /\ Opptatt(s, Trenger(s)) # {}
                /\ ser' = [ser EXCEPT ![s] = Synlige(s)]
                /\ UNCHANGED <<db, ny, ko, fil, pos, logg, lastet, avvik>>

\* The geocoder or an editor.
TrinnAdresse ==
  \E k \in Kommune, b \in ByggId :
    \E g \in {"matrikkel", "manuell", "feilet"} :
      /\ SettStatus(k, b, g)
      /\ g = "feilet" => db[RAdresse(k, b)].geokoding = "ukjent"

Former ==
  \/ UNCHANGED vars
  \/ TrinnAdresse
  \/ \E s \in Okt : \/ \E f \in Filer : Start(s, f)
                    \/ TrinnRegistrer(s)
                    \/ TrinnBygg(s)
                    \/ TrinnByggFeil(s)
                    \/ TrinnRessurs(s)
                    \/ TrinnSlett(s)
                    \/ TrinnLenke(s)
                    \/ TrinnFullfor(s)
                    \/ TrinnVent(s)
                    \/ Slutt(s)

\* Every step has one of them.
LEMMA StegFormer ==
  ASSUME Domener, [Last \/ Adressearbeid]_vars
  PROVE  Former
<1>1. CASE UNCHANGED vars
  BY <1>1 DEF Former
<1>2. CASE Adressearbeid
  <2>1. TrinnAdresse
    BY <1>2, Zenon DEF Adressearbeid, Geokodet, SattForHand, TrinnAdresse
  <2> QED
    BY <2>1 DEF Former
<1>3. CASE Last
  <2>1. PICK s \in Okt : (\E f \in Filer : Start(s, f)) \/ Steg(s) \/ Krasj(s)
    BY <1>3 DEF Last
  <2>2. CASE Krasj(s)
    BY <2>2, KrasjForm DEF Former
  <2>3. CASE \E f \in Filer : Start(s, f)
    BY <2>3 DEF Former
  <2>4. CASE Steg(s)
    <3>1. CASE Registrer(s)
      BY <3>1, RegistrerForm DEF Former
    <3>2. CASE LastBygg(s)
      BY <3>2, LastByggForm DEF Former
    <3>3. CASE ByggAvvises(s)
      BY <3>3, ByggFeilerForm DEF Former, ByggAvvises
    <3>4. CASE LastRessurs(s)
      BY <3>4, LastRessursForm DEF Former
    <3>5. CASE RessursAvvises(s)
      BY <3>5, AvbrytForm DEF Former, RessursAvvises, Er, Laster
    <3>6. CASE SlettLenker(s)
      BY <3>6, SlettLenkerForm DEF Former
    <3>7. CASE LastLenke(s)
      BY <3>7, LastLenkeForm DEF Former
    <3>8. CASE Fullfor(s)
      BY <3>8, FullforForm DEF Former
    <3>9. CASE VentPaLaas(s)
      <4>1. TrinnVent(s)
        BY <3>9 DEF VentPaLaas, Vent, TrinnVent, Laster, oktvars
      <4> QED
        BY <4>1 DEF Former
    <3>10. CASE Vranglaas(s)
      <4>1. PICK t \in Okt \ {s} : VenterPa(s, t) /\ VenterPa(t, s)
        BY <3>10 DEF Vranglaas
      <4>2. CASE Er(s, "bygg")
        BY <3>10, <4>2, ByggFeilerForm DEF Former, Vranglaas
      <4>3. CASE ~ Er(s, "bygg") /\ Laster(s)
        BY <3>10, <4>3, AvbrytForm DEF Former, Vranglaas
      <4>4. CASE ~ Laster(s)
        <5>1. \A type : ~ Er(s, type)
          BY <4>4 DEF Er, Laster
        <5>2. Trenger(s) = {}
          BY <5>1, Zenon DEF Trenger
        <5> QED
          BY <4>1, <5>2 DEF VenterPa
      <4> QED
        BY <4>2, <4>3, <4>4
    <3> QED
      BY <2>4, <3>1, <3>2, <3>3, <3>4, <3>5, <3>6, <3>7, <3>8, <3>9, <3>10 DEF Steg
  <2> QED
    BY <2>1, <2>2, <2>3, <2>4
<1> QED
  BY <1>1, <1>2, <1>3

----------------------------------------------------------------------------
(* Types.                                                                  *)

\* Every step keeps the domains.
LEMMA DomenerSteg ==
  ASSUME Domener, \A s \in Okt : DOMAIN ny[s] \subseteq Rader, [Last \/ Adressearbeid]_vars
  PROVE  Domener'
<1>1. CASE UNCHANGED vars
  BY <1>1 DEF vars, Domener
<1>2. CASE Adressearbeid
  <2>1. PICK k \in Kommune, b \in ByggId : \E g : SettStatus(k, b, g)
    BY <1>2, Zenon DEF Adressearbeid, Geokodet, SattForHand
  <2>2. PICK g : SettStatus(k, b, g)
    BY <2>1
  <2>3. DOMAIN db' = DOMAIN db
    BY <2>2 DEF SettStatus
  <2>4. UNCHANGED <<ny, ser, ko, fil, pos, logg, lastet, avvik>>
    BY <2>2 DEF SettStatus, oktvars
  <2> QED
    BY <2>3, <2>4 DEF Domener
<1>3. CASE Last
  <2>1. PICK s \in Okt : (\E f \in Filer : Start(s, f)) \/ Steg(s) \/ Krasj(s)
    BY <1>3 DEF Last
  <2>2. CASE \E f \in Filer : Start(s, f)
    BY <2>2 DEF Start, txvars, Domener
  <2>3. CASE Krasj(s)
    BY <2>3 DEF Krasj, Tilbakerull, Domener
  <2>4. ASSUME NEW f, Skriv(s, f)
        PROVE  DOMAIN ny' = DOMAIN ny /\ DOMAIN ser' = DOMAIN ser /\ db' = db
    BY <2>4 DEF Skriv
  <2>5. ASSUME Avbryt(s) PROVE Domener'
    BY <2>5 DEF Avbryt, Tilbakerull, NesteKommune, Domener
  <2>6. ASSUME ByggFeiler(s) PROVE Domener'
    BY <2>4, <2>6 DEF ByggFeiler, Videre, Domener
  <2>7. CASE Steg(s)
    <3>1. CASE Registrer(s)
      <4>1. \E f : Skriv(s, f)
        BY <3>1 DEF Registrer
      <4> QED
        BY <2>4, <3>1, <4>1 DEF Registrer, Videre, Domener
    <3>2. CASE LastBygg(s)
      <4>1. \E f : Skriv(s, f)
        BY <3>2, Zenon DEF LastBygg
      <4> QED
        BY <2>4, <3>2, <4>1 DEF LastBygg, Videre, Domener
    <3>3. CASE ByggAvvises(s)
      BY <2>6, <3>3 DEF ByggAvvises
    <3>4. CASE LastRessurs(s)
      <4>1. \E f : Skriv(s, f)
        BY <3>4, Zenon DEF LastRessurs
      <4> QED
        BY <2>4, <3>4, <4>1 DEF LastRessurs, Videre, Domener
    <3>5. CASE RessursAvvises(s)
      BY <2>5, <3>5 DEF RessursAvvises
    <3>6. CASE SlettLenker(s)
      <4>1. \E f : Skriv(s, f)
        BY <3>6, Zenon DEF SlettLenker
      <4> QED
        BY <2>4, <3>6, <4>1 DEF SlettLenker, Videre, Domener
    <3>7. CASE LastLenke(s)
      <4>1. \E f : Skriv(s, f)
        BY <3>7, Zenon DEF LastLenke
      <4> QED
        BY <2>4, <3>7, <4>1 DEF LastLenke, Videre, Domener
    <3>8. CASE Fullfor(s)
      <4>1. DOMAIN db' = DOMAIN ny[s] \cup DOMAIN db
        BY <3>8, FullforForm, Zenon DEF TrinnFullfor
      <4>2. DOMAIN ny' = DOMAIN ny /\ DOMAIN ser' = DOMAIN ser
        BY <3>8 DEF Fullfor, Commit
      <4>3. /\ DOMAIN ko' = DOMAIN ko /\ DOMAIN pos' = DOMAIN pos
            /\ DOMAIN logg' = DOMAIN logg /\ fil' = fil
        BY <3>8 DEF Fullfor, NesteKommune
      <4>4. DOMAIN lastet' = DOMAIN lastet /\ DOMAIN avvik' = DOMAIN avvik
        BY <3>8 DEF Fullfor
      <4> QED
        BY <4>1, <4>2, <4>3, <4>4 DEF Domener
    <3>9. CASE VentPaLaas(s)
      BY <3>9 DEF VentPaLaas, Vent, oktvars, Domener
    <3>10. CASE Vranglaas(s)
      BY <2>5, <2>6, <3>10 DEF Vranglaas
    <3> QED
      BY <2>7, <3>1, <3>2, <3>3, <3>4, <3>5, <3>6, <3>7, <3>8, <3>9, <3>10 DEF Steg
  <2> QED
    BY <2>1, <2>2, <2>3, <2>7
<1> QED
  BY <1>1, <1>2, <1>3

\* The rows of a kommune are rows of the database.
LEMMA Radene ==
  ASSUME NEW k \in Kommune
  PROVE  /\ RKommune(k) \in Rader
         /\ \A b \in ByggId : RByggnad(k, b) \in Rader /\ RAdresse(k, b) \in Rader
         /\ \A r \in RessursId : RRessurs(k, r) \in Rader
         /\ Lenkerader(k) \subseteq Rader
         /\ \A l : l.r \in RessursId \cup {Ingen} => Lenkerad(k, l) \subseteq Lenkerader(k)
<1>1. \A l : l.r \in RessursId \cup {Ingen} => Lenkerad(k, l) \subseteq Lenkerader(k)
  BY DEF Lenkerad, Lenkerader
<1>3. Lenkerader(k) \subseteq Rader
  BY DEF Rader, Lenkerader
<1>4. RKommune(k) \in Rader
  BY DEF Rader
<1>5. \A b \in ByggId : RByggnad(k, b) \in Rader
  BY DEF Rader
<1>6. \A b \in ByggId : RAdresse(k, b) \in Rader
  BY DEF Rader
<1>7. \A r \in RessursId : RRessurs(k, r) \in Rader
  BY DEF Rader
<1> QED
  BY <1>1, <1>3, <1>4, <1>5, <1>6, <1>7, Zenon

\* What the first field says of a row.
LEMMA RadType ==
  /\ \A k, b : RByggnad(k, b)[1] = "bygning" /\ RByggnad(k, b)[2] = k
  /\ \A k, b : RAdresse(k, b)[1] = "adresse" /\ RAdresse(k, b)[2] = k
  /\ \A k, r : RRessurs(k, r)[1] = "ressurs" /\ RRessurs(k, r)[2] = k
  /\ \A k : RKommune(k)[1] = "kommune" /\ RKommune(k)[2] = k
  /\ \A k : \A x \in Lenkerader(k) : x[1] = "lenke" /\ x[2] = k
  BY DEF RByggnad, RAdresse, RRessurs, RKommune, Lenkerader, RLenke

\* An address written by a load has its status kept, and its text if it is settled.
LEMMA NyAdresseType ==
  ASSUME NEW gammel, gammel # Ingen => gammel \in Adresser, NEW gate \in Gate
  PROVE  /\ NyAdresse(gammel, gate) \in Adresser
         /\ \/ NyAdresse(gammel, gate).tekst = gate
            \/ NyAdresse(gammel, gate).geokoding \notin {"ukjent", "feilet"}
         /\ gammel # Ingen =>
              /\ NyAdresse(gammel, gate).geokoding = gammel.geokoding
              /\ gammel.geokoding \notin {"ukjent", "feilet"} =>
                   NyAdresse(gammel, gate).tekst = gammel.tekst
  BY DEF NyAdresse, Adresser

\* The building found for a resource is one of the extract.
LEMMA ByggForKjent ==
  ASSUME NEW u \in Uttrekk, NEW r, ByggFor(u, r) # Ingen
  PROVE  /\ ByggFor(u, r) \in KjenteBygg(u)
         /\ \E rad \in Verdier(MedId(u.bygg)) : rad.id = ByggFor(u, r)
         /\ ByggFor(u, r) \in ByggId
<1> DEFINE treff == {i \in DOMAIN u.plass : u.plass[i].r = r /\ u.plass[i].b \in KjenteBygg(u)}
<1>1. treff # {} /\ ByggFor(u, r) = u.plass[CHOOSE i \in treff : \A j \in treff : i <= j].b
  BY Zenon DEF ByggFor
<1>2. treff \subseteq Nat
  BY DEF Uttrekk
<1>3. \E i \in treff : \A j \in treff : i <= j
  <2> HIDE DEF treff
  <2> QED
    BY <1>1, <1>2, MinsteTall
<1>4. (CHOOSE i \in treff : \A j \in treff : i <= j) \in treff
  BY <1>3, Zenon
<1>5. ByggFor(u, r) \in KjenteBygg(u)
  BY <1>1, <1>4
<1>6. PICK rad \in Verdier(u.bygg) : rad.id = ByggFor(u, r)
  BY <1>5 DEF KjenteBygg
<1>7. rad \in Verdier(MedId(u.bygg))
  BY <1>6, MedIdVerdier DEF Uttrekk
<1> QED
  BY <1>5, <1>6, <1>7, ByggMedId

\* Every text has a first statement.
LEMMA TekstBegynner ==
  ASSUME NEW f \in Filer, NEW k \in Kommune
  PROVE  1 \in 1..Len(Tekst[f[k]])
<1>1. Tekst[f[k]] = Setninger(f[k]) /\ f[k] \in Uttrekk \cup {Feilet}
  BY TekstSlaaOpp
<1>2. CASE f[k] = Feilet
  BY <1>1, <1>2, TekstFeilet
<1>3. CASE f[k] # Feilet
  <2>1. f[k] \in Uttrekk
    BY <1>1, <1>3
  <2>2. Ordnet(Setninger(f[k]), f[k])
    BY <1>3, <2>1, SetningerOrdnet
  <2> QED
    BY <1>1, <2>2 DEF Ordnet
<1> QED
  BY <1>2, <1>3

\* A session that does nothing keeps its type.
LEMMA LikType ==
  ASSUME NEW t, OktType(t), Lik(t)
  PROVE  OktType(t)'
<1>1. U(t)' = U(t)
  BY DEF Lik, U, K
<1> QED
  BY <1>1 DEF OktType, Lik, Ventende

\* A session at the start of a transaction, or done.
LEMMA BegynnerType ==
  ASSUME NEW s, ko'[s] \in Seq(Kommune), ko'[s] # <<>> => fil'[s] \in Filer,
         pos'[s] = 1, ny'[s] = <<>>, logg'[s] = {}, ser'[s] = Ingen
  PROVE  OktType(s)'
<1>1. ASSUME ko'[s] # <<>> PROVE pos'[s] \in 1..Len(Tekst[U(s)'])
  <2>1. K(s)' \in Kommune
    BY <1>1 DEF K
  <2> QED
    BY <1>1, <2>1, TekstBegynner, Zenon DEF U
<1>2. DOMAIN ny'[s] = {}
  OBVIOUS
<1> QED
  BY <1>1, <1>2 DEF OktType, Ventende

\* A statement keeps the types if the rows it writes have theirs.
LEMMA TrinnType ==
  ASSUME IType, Domener', NEW s \in Okt, NEW f, Trinn(s, f), DOMAIN f \subseteq Rader,
         \A x \in DOMAIN f : AvTabellen(x, f[x])
  PROVE  IType'
<1>1. OktType(s)
  BY DEF IType
<1>2. K(s)' = K(s) /\ U(s)' = U(s) /\ Laster(s)' /\ pos'[s] \in 1..Len(Tekst[U(s)])
  BY <1>1, TrinnGjort
<1>3. DOMAIN ny'[s] \subseteq Rader /\ \A x \in DOMAIN ny'[s] : AvTabellen(x, ny'[s][x])
  <2>1. /\ DOMAIN ny'[s] = DOMAIN f \cup DOMAIN ny[s]
        /\ \A x \in DOMAIN f : ny'[s][x] = f[x]
        /\ \A x \in DOMAIN ny[s] \ DOMAIN f : ny'[s][x] = ny[s][x]
    BY DEF Trinn
  <2> QED
    BY <1>1, <2>1 DEF OktType
<1>4. OktType(s)'
  <2>1. ko'[s] = ko[s] /\ fil'[s] = fil[s] /\ ko[s] # <<>>
    BY DEF Trinn, Laster
  <2>2. pos'[s] \in Nat
    BY <1>2, <1>1 DEF Trinn, OktType
  <2> QED
    BY <1>1, <1>2, <1>3, <2>1, <2>2 DEF OktType
<1>5. \A t \in Okt \ {s} : OktType(t)'
  BY LikType DEF Trinn, AndreLike, IType
<1>6. db' = db
  BY DEF Trinn
<1>7. LaasEksklusiv'
  <2>1. /\ DOMAIN ny'[s] = DOMAIN f \cup DOMAIN ny[s]
        /\ \A t \in Okt \ {s} : DOMAIN f \cap DOMAIN ny[t] = {} /\ ny'[t] = ny[t]
    BY DEF Trinn, AndreLike, Lik
  <2>2. \A t \in Okt \ {s} : DOMAIN ny'[s] \cap DOMAIN ny'[t] = {}
    BY <2>1 DEF IType, LaasEksklusiv
  <2> QED
    BY <2>1, <2>2 DEF IType, LaasEksklusiv
<1> QED
  BY <1>4, <1>5, <1>6, <1>7 DEF IType

\* A session that lets go of its rows.
LEMMA SlipperLaas ==
  ASSUME LaasEksklusiv, NEW s \in Okt, AndreLike(s), ny'[s] = <<>>
  PROVE  LaasEksklusiv'
<1>1. \A t \in Okt \ {s} : DOMAIN ny'[t] = DOMAIN ny[t]
  BY DEF AndreLike, Lik
<1>2. DOMAIN ny'[s] = {}
  OBVIOUS
<1> QED
  BY <1>1, <1>2 DEF LaasEksklusiv

\* What is left of a file after its first kommune.
LEMMA KoType ==
  ASSUME NEW q \in Seq(Kommune), q # <<>>
  PROVE  /\ Tail(q) \in Seq(Kommune)
         /\ Head(q) \in Kommune
         /\ Verdier(q) = {Head(q)} \cup Verdier(Tail(q))
<1>1. /\ Len(q) \in Nat /\ Len(q) >= 1 /\ DOMAIN q = 1..Len(q)
      /\ DOMAIN Tail(q) = 1..(Len(q) - 1)
      /\ Tail(q) \in Seq(Kommune) /\ Head(q) = q[1] /\ Head(q) \in Kommune
      /\ \A i \in 1..(Len(q) - 1) : Tail(q)[i] = q[i + 1]
  OBVIOUS
<1>2. ASSUME NEW i \in 1..Len(q), i # 1 PROVE q[i] \in Verdier(Tail(q))
  <2>1. i - 1 \in 1..(Len(q) - 1) /\ (i - 1) + 1 = i
    BY <1>1, <1>2
  <2> QED
    BY <1>1, <2>1 DEF Verdier
<1>3. \A i \in 1..(Len(q) - 1) : i + 1 \in 1..Len(q)
  BY <1>1
<1> QED
  BY <1>1, <1>2, <1>3 DEF Verdier

\* Every step keeps the types.
LEMMA TypeSteg ==
  ASSUME IType, [Last \/ Adressearbeid]_vars
  PROVE  IType'
<1>1. Former /\ Domener'
  BY StegFormer, DomenerSteg DEF IType, OktType
<1>2. CASE UNCHANGED vars
  <2>1. \A t \in Okt : Lik(t)
    BY <1>2 DEF Lik, vars
  <2> QED
    BY <1>1, <1>2, <2>1, LikType DEF IType, LaasEksklusiv, vars
<1>3. CASE TrinnAdresse
  <2>1. PICK k \in Kommune, b \in ByggId, g \in {"matrikkel", "manuell", "feilet"} : SettStatus(k, b, g)
    BY <1>3 DEF TrinnAdresse
  <2> DEFINE a == RAdresse(k, b)
  <2>2. /\ db[a] # Ingen /\ db' = [db EXCEPT ![a].geokoding = g]
        /\ UNCHANGED <<ny, ser, ko, fil, pos, logg>>
    BY <2>1 DEF SettStatus, oktvars
  <2>3. a \in Rader /\ a[1] = "adresse"
    BY Radene, RadType
  <2> HIDE DEF a
  <2>4. \A t \in Okt : Lik(t)
    BY <2>2 DEF Lik
  <2>5. db[a] \in Adresser
    BY <2>2, <2>3 DEF IType, AvTabellen
  <2>6. db'[a] = [db[a] EXCEPT !.geokoding = g] /\ \A x \in Rader \ {a} : db'[x] = db[x]
    BY <2>2, <2>3 DEF IType, Domener
  <2>7. db'[a] \in Adresser
    BY <2>5, <2>6 DEF Adresser
  <2>8. \A x \in Rader : AvTabellen(x, db'[x])
    BY <2>3, <2>6, <2>7 DEF IType, AvTabellen
  <2> QED
    BY <1>1, <2>2, <2>4, <2>8, LikType DEF IType, LaasEksklusiv
<1>4. ASSUME NEW s \in Okt, NEW f \in Filer, Start(s, f) PROVE IType'
  <2>1. /\ ko[s] = <<>> /\ db' = db /\ AndreLike(s)
        /\ ko'[s] = Rekke /\ fil'[s] = f /\ pos'[s] = 1
        /\ ny'[s] = ny[s] /\ logg'[s] = logg[s] /\ ser'[s] = ser[s]
    BY <1>4 DEF Start, IType, Domener, txvars, AndreLike, Lik
  <2>2. ny[s] = <<>> /\ logg[s] = {} /\ ser[s] = Ingen
    BY <2>1 DEF IType, OktType, Ventende
  <2>3. OktType(s)'
    BY <2>1, <2>2, BegynnerType, Uttrekkene
  <2>4. LaasEksklusiv'
    BY <2>1, <2>2, SlipperLaas DEF IType
  <2> QED
    BY <1>1, <2>1, <2>3, <2>4, LikType DEF IType, AndreLike
<1>5. ASSUME NEW s \in Okt, TrinnRegistrer(s) PROVE IType'
  <2>1. Laster(s) /\ OktType(s)
    BY <1>5 DEF TrinnRegistrer, Trinn, IType
  <2>2. DOMAIN SannF(s) \subseteq {RKommune(K(s))} /\ \A x \in DOMAIN SannF(s) : SannF(s)[x] = TRUE
    BY <1>5, <2>1, TrengerHva DEF TrinnRegistrer, SannF
  <2>3. DOMAIN SannF(s) \subseteq Rader
    BY <2>1, <2>2, Radene, OktTekst
  <2>4. \A x \in DOMAIN SannF(s) : AvTabellen(x, SannF(s)[x])
    BY <2>2, RadType DEF AvTabellen
  <2> QED
    BY <1>1, <1>5, <2>3, <2>4, TrinnType DEF TrinnRegistrer
<1>6. ASSUME NEW s \in Okt, TrinnBygg(s) PROVE IType'
  <2> DEFINE rad == Na(s).rad
             k   == K(s)
             adr == RAdresse(k, rad.id)
  <2>1. Laster(s) /\ OktType(s) /\ Na(s).type = "bygg" /\ Trinn(s, ByggF(s))
    BY <1>6 DEF TrinnBygg, Trinn, IType
  <2>2. rad \in ByggRad /\ rad.id \in ByggId /\ k \in Kommune
    BY <2>1, NaHva, OktTekst
  <2>3. rad.verdi \in Innhold /\ rad.gate \in Gate \cup {Ingen}
    BY <2>2 DEF ByggRad
  <2>4. RByggnad(k, rad.id) \in Rader /\ adr \in Rader
    BY <2>2, Radene
  <2>5. DOMAIN ByggF(s) = Trenger(s) /\ \A x \in DOMAIN ByggF(s) :
          ByggF(s)[x] = IF x = adr THEN NyAdresse(Verdi(s, adr), rad.gate) ELSE rad.verdi
    BY DEF ByggF
  <2>6. Trenger(s) = {RByggnad(k, rad.id)} \cup (IF rad.gate = Ingen THEN {} ELSE {adr})
    BY <2>1, TrengerHva
  <2>7. RByggnad(k, rad.id)[1] = "bygning" /\ adr[1] = "adresse"
    BY RadType
  <2>8. ASSUME adr \in Trenger(s) PROVE AvTabellen(adr, NyAdresse(Verdi(s, adr), rad.gate))
    <3>1. rad.gate # Ingen
      BY <2>6, <2>7, <2>8
    <3>2. rad.gate \in Gate
      BY <2>3, <3>1
    <3>3. Verdi(s, adr) # Ingen => Verdi(s, adr) \in Adresser
      BY <2>1, <2>4, <2>7 DEF Verdi, IType, OktType, AvTabellen
    <3>4. NyAdresse(Verdi(s, adr), rad.gate) \in Adresser
      BY <3>2, <3>3, NyAdresseType
    <3> QED
      BY <2>7, <3>4 DEF AvTabellen
  <2>9. AvTabellen(RByggnad(k, rad.id), rad.verdi)
    BY <2>3, <2>7 DEF AvTabellen
  <2> HIDE DEF rad, k, adr
  <2>10. DOMAIN ByggF(s) \subseteq Rader
    BY <2>4, <2>5, <2>6
  <2>11. \A x \in DOMAIN ByggF(s) : AvTabellen(x, ByggF(s)[x])
    BY <2>5, <2>6, <2>8, <2>9
  <2> QED
    BY <1>1, <2>1, <2>10, <2>11, TrinnType
<1>7. ASSUME NEW s \in Okt, TrinnByggFeil(s) PROVE IType'
  <2>1. Trinn(s, <<>>)
    BY <1>7 DEF TrinnByggFeil
  <2>2. DOMAIN <<>> = {}
    OBVIOUS
  <2>3. DOMAIN <<>> \subseteq Rader /\ \A x \in DOMAIN <<>> : AvTabellen(x, <<>>[x])
    BY <2>2
  <2> QED
    BY <1>1, <2>1, <2>3, TrinnType, Zenon
<1>8. ASSUME NEW s \in Okt, TrinnRessurs(s) PROVE IType'
  <2> DEFINE rad == Na(s).rad
             x   == RRessurs(K(s), rad.id)
  <2>1. /\ Laster(s) /\ OktType(s) /\ Na(s).type = "ressurs" /\ Trinn(s, RessursF(s))
        /\ rad.verdi # ForStor
    BY <1>8 DEF TrinnRessurs, Trinn, IType
  <2>2. rad \in RessursRad /\ rad.id \in RessursId /\ K(s) \in Kommune
    BY <2>1, NaHva, OktTekst
  <2>3. x \in Rader /\ x[1] = "ressurs"
    BY <2>2, Radene, RadType
  <2>4. DOMAIN RessursF(s) = {x} /\ RessursF(s)[x] = NyRessurs(rad, Funnet(s))
    BY <2>1, TrengerHva DEF RessursF
  <2>5. U(s) \in Uttrekk
    BY <2>1, OktTekst, NaHva
  <2>6. Funnet(s) \in ByggId \cup {Ingen}
    BY <2>5, ByggForKjent, Zenon DEF Funnet
  <2>7. rad.verdi \in Innhold
    BY <2>1, <2>2 DEF RessursRad
  <2> HIDE DEF rad, x
  <2>8. NyRessurs(rad, Funnet(s)) \in Ressurser
    BY <2>6, <2>7 DEF NyRessurs, Ressurser
  <2>9. AvTabellen(x, NyRessurs(rad, Funnet(s)))
    BY <2>3, <2>8 DEF AvTabellen
  <2> QED
    BY <1>1, <2>1, <2>3, <2>4, <2>9, TrinnType
<1>9. ASSUME NEW s \in Okt, TrinnSlett(s) PROVE IType'
  <2>1. Laster(s) /\ OktType(s) /\ Na(s).type = "slett" /\ Trinn(s, SlettF(s))
    BY <1>9 DEF TrinnSlett, Trinn, IType
  <2>2. K(s) \in Kommune
    BY <2>1, OktTekst
  <2>3. Trenger(s) \subseteq Lenkerader(K(s))
    BY <2>1, TrengerHva DEF Slettes
  <2>4. DOMAIN SlettF(s) \subseteq Trenger(s) /\ \A x \in DOMAIN SlettF(s) : SlettF(s)[x] = Ingen
    BY DEF SlettF
  <2>5. DOMAIN SlettF(s) \subseteq Rader
    BY <2>2, <2>3, <2>4, Radene
  <2>6. \A x \in DOMAIN SlettF(s) : AvTabellen(x, SlettF(s)[x])
    BY <2>4 DEF AvTabellen
  <2> QED
    BY <1>1, <2>1, <2>5, <2>6, TrinnType
<1>10. ASSUME NEW s \in Okt, TrinnLenke(s) PROVE IType'
  <2>1. Laster(s) /\ OktType(s) /\ Na(s).type = "lenke" /\ Trinn(s, SannF(s))
    BY <1>10 DEF TrinnLenke, Trinn, IType
  <2>2. K(s) \in Kommune /\ Na(s).rad.r \in RessursId \cup {Ingen}
    BY <2>1, OktTekst, NaHva
  <2>3. DOMAIN SannF(s) = Lenkerad(K(s), Na(s).rad) /\ \A x \in DOMAIN SannF(s) : SannF(s)[x] = TRUE
    BY <2>1, TrengerHva DEF SannF
  <2>4. DOMAIN SannF(s) \subseteq Lenkerader(K(s)) /\ Lenkerader(K(s)) \subseteq Rader
    BY <2>2, <2>3, Radene
  <2>5. \A x \in DOMAIN SannF(s) : AvTabellen(x, SannF(s)[x])
    BY <2>3, <2>4, RadType DEF AvTabellen
  <2> QED
    BY <1>1, <2>1, <2>4, <2>5, TrinnType
<1>11. ASSUME NEW s \in Okt, TrinnFullfor(s) PROVE IType'
  <2>1. Laster(s) /\ OktType(s) /\ AndreLike(s)
    BY <1>11 DEF TrinnFullfor, IType
  <2>2. /\ ko'[s] = Tail(ko[s]) /\ fil'[s] = fil[s] /\ pos'[s] = 1 /\ logg'[s] = {}
        /\ ser'[s] = Ingen /\ ny'[s] = <<>>
        /\ \A x \in DOMAIN ny[s] : db'[x] = ny[s][x]
        /\ \A x \in DOMAIN db \ DOMAIN ny[s] : db'[x] = db[x]
    BY <1>11 DEF TrinnFullfor
  <2>3. OktType(s)'
    <3>1. ko'[s] \in Seq(Kommune) /\ fil'[s] \in Filer
      BY <2>1, <2>2, KoType DEF OktType, Laster
    <3> QED
      BY <2>2, <3>1, BegynnerType
  <2>4. \A x \in Rader : AvTabellen(x, db'[x])
    BY <2>1, <2>2 DEF IType, Domener, OktType
  <2>5. LaasEksklusiv'
    BY <2>1, <2>2, SlipperLaas DEF IType
  <2> QED
    BY <1>1, <2>1, <2>3, <2>4, <2>5, LikType DEF IType, AndreLike
<1>12. ASSUME NEW s \in Okt, TrinnVent(s) PROVE IType'
  <2>1. /\ Laster(s) /\ UNCHANGED <<db, ny, ko, fil, pos, logg>>
        /\ \A t \in Okt \ {s} : ser'[t] = ser[t]
    BY <1>12 DEF TrinnVent, IType, Domener
  <2>2. \A t \in Okt \ {s} : Lik(t)
    BY <2>1 DEF Lik
  <2>3. OktType(s)'
    <3>1. U(s)' = U(s)
      BY <2>1 DEF U, K
    <3> QED
      BY <2>1, <3>1 DEF IType, OktType, Laster
  <2> QED
    BY <1>1, <2>1, <2>2, <2>3, LikType DEF IType, LaasEksklusiv
<1>13. ASSUME NEW s \in Okt, Slutt(s) PROVE IType'
  <2>1. /\ Laster(s) /\ OktType(s) /\ AndreLike(s) /\ db' = db
        /\ ko'[s] \in {Tail(ko[s]), <<>>} /\ fil'[s] = fil[s] /\ pos'[s] = 1 /\ logg'[s] = {}
        /\ ser'[s] = Ingen /\ ny'[s] = <<>>
    BY <1>13 DEF Slutt, IType
  <2>2. OktType(s)'
    <3>1. ko'[s] \in Seq(Kommune) /\ fil'[s] \in Filer
      <4>1. Tail(ko[s]) \in Seq(Kommune) /\ <<>> \in Seq(Kommune) /\ fil[s] \in Filer
        BY <2>1, KoType DEF OktType, Laster
      <4> QED
        BY <2>1, <4>1
    <3> QED
      BY <2>1, <3>1, BegynnerType
  <2>3. LaasEksklusiv'
    BY <2>1, SlipperLaas DEF IType
  <2> QED
    BY <1>1, <2>1, <2>2, <2>3, LikType DEF IType, AndreLike
<1> QED
  BY <1>1, <1>2, <1>3, <1>4, <1>5, <1>6, <1>7, <1>8, <1>9, <1>10, <1>11, <1>12, <1>13 DEF Former

\* The types hold at the start.
LEMMA TypeInit == Init => IType
<1> SUFFICES ASSUME Init PROVE IType
  OBVIOUS
<1>1. Domener
  BY DEF Init, TxInit, Domener
<1>2. \A x \in Rader : AvTabellen(x, db[x])
  BY DEF Init, TxInit, AvTabellen
<1>3. \A s \in Okt : ny[s] = <<>> /\ DOMAIN ny[s] = {}
  BY DEF Init, TxInit
<1>4. \A s \in Okt : OktType(s)
  BY <1>3 DEF Init, TxInit, OktType, Ventende
<1> QED
  BY <1>1, <1>2, <1>3, <1>4 DEF IType, LaasEksklusiv

\* The types hold in every state.
LEMMA ITypeAlltid == SpecMedAdresser => []IType
<1>1. IType /\ [Last \/ Adressearbeid]_vars => IType'
  BY TypeSteg
<1> QED
  BY <1>1, TypeInit, PTL DEF SpecMedAdresser

\* The loads alone are loads with a geocoder and editors who do nothing.
LEMMA UtenAdressearbeid == Spec => SpecMedAdresser
<1>1. [Last]_vars => [Last \/ Adressearbeid]_vars
  OBVIOUS
<1> QED
  BY <1>1, PTL DEF Spec, SpecMedAdresser

\* Whatever the sessions, the geocoder and the editors do, every row of the database and of
\* an open transaction has a value of its table, a session stands at a statement of its
\* file, and no row is held by two sessions.
THEOREM TypeKorrekt == SpecMedAdresser => []TypeOK
<1>1. IType => TypeOK
  <2> SUFFICES ASSUME IType PROVE TypeOK
    OBVIOUS
  <2>1. ASSUME NEW s \in Okt, ko[s] # <<>> PROVE pos[s] \in DOMAIN Tekst[U(s)]
    BY <2>1, OktTekst DEF IType, OktType, Laster
  <2> QED
    BY <2>1 DEF TypeOK, IType, OktType
<1> QED
  BY <1>1, ITypeAlltid, PTL

----------------------------------------------------------------------------
(* The rows a session holds.                                               *)

\* What is behind a session, by the statement it has reached.
LEMMA GjortNaar ==
  ASSUME NEW s \in Okt, OktType(s), Laster(s)
  PROVE  /\ SlettGjort(s) => U(s) # Feilet /\ Na(s).type \in {"lenke", "commit"}
         /\ U(s) # Feilet /\ Na(s).type \in {"ressurs", "slett", "lenke", "commit"} =>
              Gjort(s, "bygg") = Verdier(MedId(U(s).bygg))
         /\ U(s) # Feilet /\ Na(s).type \in {"slett", "lenke", "commit"} =>
              Gjort(s, "ressurs") = Verdier(MedId(U(s).ressurs))
         /\ U(s) # Feilet /\ Na(s).type \in {"lenke", "commit"} => SlettGjort(s)
         /\ Na(s).type = "slett" => Gjort(s, "lenke") = {}
         /\ U(s) # Feilet /\ Na(s).type = "commit" => Gjort(s, "lenke") = Verdier(Lastbare(U(s)))
<1> DEFINE t == Tekst[U(s)]
           p == pos[s]
<1>1. p \in 1..Len(t) /\ Len(t) \in Nat
  BY OktTekst DEF OktType, Laster
<1>2. Na(s) = t[p] /\ \A type : Gjort(s, type) = RaderAv(t, type, p - 1)
  BY DEF Na, Gjort
<1>3. SlettGjort(s) <=> \E i \in 1..(p - 1) : t[i].type = "slett"
  BY DEF SlettGjort
<1>4. CASE U(s) = Feilet
  <2>1. Len(t) = 2 /\ t[1].type = "registrer" /\ t[2].type = "commit"
    BY <1>4, OktTekst, TekstFeilet DEF Setning
  <2> HIDE DEF t, p
  <2>2. ~ SlettGjort(s)
    BY <1>1, <1>3, <2>1
  <2>3. Na(s).type # "slett"
    BY <1>1, <1>2, <2>1
  <2> QED
    BY <1>4, <2>2, <2>3
<1>5. CASE U(s) # Feilet
  <2>1. Ordnet(t, U(s))
    BY <1>5, OktTekst
  <2> HIDE DEF t, p
  <2>2. PICK n \in 1..Len(t) : /\ t[n].type = "slett"
                               /\ \A i \in 1..Len(t) : t[i].type = "slett" => i = n
                               /\ \A i \in 1..Len(t) : t[i].type \in {"lenke", "commit"} => i > n
                               /\ \A i \in 1..Len(t) : t[i].type \in {"registrer", "bygg", "ressurs"} => i < n
    BY <2>1, Zenon DEF Ordnet
  <2>3. /\ \A i \in 1..Len(t) : t[i].type \in {"registrer", "bygg", "ressurs", "slett", "lenke", "commit"}
        /\ t[p].type \in {"ressurs", "slett", "lenke", "commit"} =>
             RaderAv(t, "bygg", p - 1) = Verdier(MedId(U(s).bygg))
        /\ t[p].type \in {"slett", "lenke", "commit"} =>
             RaderAv(t, "ressurs", p - 1) = Verdier(MedId(U(s).ressurs))
        /\ t[p].type = "commit" => p = Len(t)
        /\ RaderAv(t, "lenke", Len(t) - 1) = Verdier(Lastbare(U(s)))
    BY <1>1, <2>1, Zenon DEF Ordnet
  <2>4. SlettGjort(s) => t[p].type \in {"lenke", "commit"}
    <3> SUFFICES ASSUME NEW i \in 1..(p - 1), t[i].type = "slett"
                 PROVE  t[p].type \in {"lenke", "commit"}
      BY <1>3
    <3>1. i \in 1..Len(t) /\ i < p
      BY <1>1
    <3>2. i = n
      BY <2>2, <3>1
    <3> QED
      BY <1>1, <2>2, <2>3, <3>1, <3>2
  <2>5. t[p].type \in {"lenke", "commit"} => SlettGjort(s)
    <3> SUFFICES ASSUME t[p].type \in {"lenke", "commit"} PROVE SlettGjort(s)
      OBVIOUS
    <3>1. p > n
      BY <1>1, <2>2
    <3>2. n \in 1..(p - 1)
      BY <1>1, <3>1
    <3> QED
      BY <1>3, <2>2, <3>2
  <2>6. t[p].type = "slett" => RaderAv(t, "lenke", p - 1) = {}
    <3> SUFFICES ASSUME t[p].type = "slett", NEW j \in 1..(p - 1), t[j].type = "lenke" PROVE FALSE
      BY DEF RaderAv
    <3>1. p = n /\ j \in 1..Len(t) /\ j < p
      BY <1>1, <2>2
    <3> QED
      BY <2>2, <3>1
  <2> QED
    BY <1>2, <1>5, <2>3, <2>4, <2>5, <2>6
<1> QED
  BY <1>4, <1>5

\* A transaction that has just begun has done nothing.
LEMMA Begynner ==
  ASSUME NEW s, pos'[s] = 1, ny'[s] = <<>>, ser'[s] = Ingen
  PROVE  /\ DOMAIN ny'[s] = {} /\ ~ SlettGjort(s)' /\ \A type : Gjort(s, type)' = {}
         /\ EgneRader(s)' /\ RessurseneHoldes(s)' /\ OktKobling(s)'
<1>1. DOMAIN ny'[s] = {}
  OBVIOUS
<1>2. 1..(pos'[s] - 1) = {}
  OBVIOUS
<1>3. ~ SlettGjort(s)' /\ \A type : Gjort(s, type)' = {}
  BY <1>2 DEF SlettGjort, Gjort, RaderAv
<1> QED
  BY <1>1, <1>3 DEF OktKobling, EgneRader, RessurseneHoldes, EgneLenker, Ventende

\* A session that does nothing holds the same rows.
LEMMA LikEgne ==
  ASSUME NEW t, EgneRader(t), RessurseneHoldes(t), Lik(t)
  PROVE  EgneRader(t)' /\ RessurseneHoldes(t)'
<1>1. /\ K(t)' = K(t) /\ U(t)' = U(t) /\ (Laster(t)' <=> Laster(t)) /\ ny'[t] = ny[t]
      /\ (SlettGjort(t)' <=> SlettGjort(t)) /\ \A type : Gjort(t, type)' = Gjort(t, type)
  BY DEF Lik, K, U, Laster, SlettGjort, Gjort
<1>2. EgneRader(t)'
  BY <1>1 DEF EgneRader
<1> QED
  BY <1>1, <1>2 DEF RessurseneHoldes

\* A statement writes rows of its own kommune.
LEMMA TrinnEgne ==
  ASSUME IType, IEgne, NEW s \in Okt, NEW f, Trinn(s, f),
         \A x \in DOMAIN f : /\ x[2] = K(s)
                             /\ x[1] = "lenke" => SlettGjort(s) \/ Na(s).type = "slett"
                             /\ U(s) = Feilet => x[1] = "kommune",
         Na(s).type = "ressurs" => RRessurs(K(s), Na(s).rad.id) \in DOMAIN f
  PROVE  IEgne'
<1>1. OktType(s) /\ Laster(s) /\ EgneRader(s) /\ RessurseneHoldes(s)
  BY DEF IType, IEgne, Trinn
<1>2. /\ K(s)' = K(s) /\ U(s)' = U(s) /\ Laster(s)'
      /\ \A type : Gjort(s, type)'
              = Gjort(s, type) \cup (IF Na(s).type = type THEN {Na(s).rad} ELSE {})
      /\ SlettGjort(s)' <=> SlettGjort(s) \/ Na(s).type = "slett"
  BY <1>1, TrinnGjort
<1>3. DOMAIN ny'[s] = DOMAIN f \cup DOMAIN ny[s]
  BY DEF Trinn
<1>4. EgneRader(s)'
  BY <1>1, <1>2, <1>3 DEF EgneRader
<1>5. RessurseneHoldes(s)'
  <2>1. ASSUME NEW rad \in Gjort(s, "ressurs")' PROVE RRessurs(K(s), rad.id) \in DOMAIN ny'[s]
    <3>1. CASE rad \in Gjort(s, "ressurs")
      BY <1>1, <1>3, <3>1 DEF RessurseneHoldes
    <3>2. CASE Na(s).type = "ressurs" /\ rad = Na(s).rad
      BY <1>3, <3>2
    <3> QED
      BY <1>2, <2>1, <3>1, <3>2
  <2> QED
    BY <1>2, <2>1 DEF RessurseneHoldes
<1> QED
  BY <1>4, <1>5, LikEgne DEF IEgne, Trinn, AndreLike

\* Every step keeps the rows held to the session's own kommune.
LEMMA EgneSteg ==
  ASSUME IType, IEgne, [Last \/ Adressearbeid]_vars
  PROVE  IEgne'
<1>1. Former
  BY StegFormer DEF IType, OktType
<1>2. ASSUME \A t \in Okt : ko'[t] = ko[t] /\ fil'[t] = fil[t] /\ pos'[t] = pos[t] /\ ny'[t] = ny[t]
      PROVE  IEgne'
  <2> SUFFICES ASSUME NEW t \in Okt PROVE EgneRader(t)' /\ RessurseneHoldes(t)'
    BY DEF IEgne
  <2>1. /\ K(t)' = K(t) /\ U(t)' = U(t) /\ (Laster(t)' <=> Laster(t)) /\ ny'[t] = ny[t]
        /\ (SlettGjort(t)' <=> SlettGjort(t)) /\ \A type : Gjort(t, type)' = Gjort(t, type)
    BY <1>2 DEF K, U, Laster, SlettGjort, Gjort
  <2>2. EgneRader(t)'
    BY <2>1 DEF IEgne, EgneRader
  <2> QED
    BY <2>1, <2>2 DEF IEgne, RessurseneHoldes
<1>3. CASE UNCHANGED vars
  BY <1>2, <1>3 DEF vars
<1>4. CASE TrinnAdresse
  BY <1>2, <1>4 DEF TrinnAdresse, SettStatus, oktvars
<1>5. ASSUME NEW s \in Okt, NEW f \in Filer, Start(s, f) PROVE IEgne'
  <2>1. ko[s] = <<>> /\ AndreLike(s) /\ pos'[s] = 1 /\ ny'[s] = ny[s] /\ ser'[s] = ser[s]
    BY <1>5 DEF Start, IType, Domener, txvars, AndreLike, Lik
  <2>2. ny[s] = <<>> /\ ser[s] = Ingen
    BY <2>1 DEF IType, OktType, Ventende
  <2> QED
    BY <2>1, <2>2, Begynner, LikEgne DEF IEgne, AndreLike
<1>6. ASSUME NEW s \in Okt, TrinnRegistrer(s) PROVE IEgne'
  <2>1. Laster(s) /\ Na(s).type = "registrer" /\ Trinn(s, SannF(s))
    BY <1>6 DEF TrinnRegistrer, Trinn
  <2>2. DOMAIN SannF(s) \subseteq {RKommune(K(s))}
    BY <2>1, TrengerHva DEF SannF
  <2>3. \A x \in DOMAIN SannF(s) : x[1] = "kommune" /\ x[2] = K(s)
    BY <2>2, RadType
  <2> QED
    BY <2>1, <2>3, TrinnEgne
<1>7. ASSUME NEW s \in Okt, TrinnBygg(s) \/ TrinnByggFeil(s) PROVE IEgne'
  <2>1. /\ Laster(s) /\ OktType(s) /\ Na(s).type = "bygg"
        /\ Trinn(s, ByggF(s)) \/ Trinn(s, <<>>)
    BY <1>7 DEF TrinnBygg, TrinnByggFeil, Trinn, IType
  <2>2. U(s) # Feilet
    BY <2>1, NaHva
  <2>3. DOMAIN ByggF(s) = Trenger(s)
    BY DEF ByggF
  <2>4. \A x \in DOMAIN ByggF(s) : x[1] \in {"bygning", "adresse"} /\ x[2] = K(s)
    BY <2>1, <2>3, TrengerHva, RadType
  <2>5. DOMAIN <<>> = {}
    OBVIOUS
  <2>6. CASE Trinn(s, ByggF(s))
    BY <2>1, <2>2, <2>4, <2>6, TrinnEgne
  <2>7. CASE Trinn(s, <<>>)
    BY <2>1, <2>5, <2>7, TrinnEgne
  <2> QED
    BY <2>1, <2>6, <2>7
<1>8. ASSUME NEW s \in Okt, TrinnRessurs(s) PROVE IEgne'
  <2>1. Laster(s) /\ OktType(s) /\ Na(s).type = "ressurs" /\ Trinn(s, RessursF(s))
    BY <1>8 DEF TrinnRessurs, Trinn, IType
  <2>2. U(s) # Feilet
    BY <2>1, NaHva
  <2>3. DOMAIN RessursF(s) = {RRessurs(K(s), Na(s).rad.id)}
    BY <2>1, TrengerHva DEF RessursF
  <2>4. \A x \in DOMAIN RessursF(s) : x[1] = "ressurs" /\ x[2] = K(s)
    BY <2>3, RadType
  <2> QED
    BY <2>1, <2>2, <2>3, <2>4, TrinnEgne
<1>9. ASSUME NEW s \in Okt, TrinnSlett(s) PROVE IEgne'
  <2>1. Laster(s) /\ OktType(s) /\ Na(s).type = "slett" /\ Trinn(s, SlettF(s))
    BY <1>9 DEF TrinnSlett, Trinn, IType
  <2>2. U(s) # Feilet
    BY <2>1, NaHva
  <2>3. \A x \in DOMAIN SlettF(s) : x[1] = "lenke" /\ x[2] = K(s)
    BY <2>1, TrengerHva, RadType DEF SlettF, Slettes
  <2> QED
    BY <2>1, <2>2, <2>3, TrinnEgne
<1>10. ASSUME NEW s \in Okt, TrinnLenke(s) PROVE IEgne'
  <2>1. Laster(s) /\ OktType(s) /\ Na(s).type = "lenke" /\ Trinn(s, SannF(s))
    BY <1>10 DEF TrinnLenke, Trinn, IType
  <2>2. U(s) # Feilet /\ K(s) \in Kommune /\ Na(s).rad.r \in RessursId \cup {Ingen}
    BY <2>1, NaHva, OktTekst
  <2>3. SlettGjort(s)
    BY <2>1, <2>2, GjortNaar
  <2>4. DOMAIN SannF(s) = Lenkerad(K(s), Na(s).rad)
    BY <2>1, TrengerHva DEF SannF
  <2>5. \A x \in DOMAIN SannF(s) : x[1] = "lenke" /\ x[2] = K(s)
    BY <2>2, <2>4, Radene, RadType
  <2> QED
    BY <2>1, <2>2, <2>3, <2>5, TrinnEgne
<1>11. ASSUME NEW s \in Okt, TrinnFullfor(s) \/ Slutt(s) PROVE IEgne'
  <2>1. AndreLike(s) /\ pos'[s] = 1 /\ ser'[s] = Ingen /\ ny'[s] = <<>>
    BY <1>11 DEF TrinnFullfor, Slutt
  <2> QED
    BY <2>1, Begynner, LikEgne DEF IEgne, AndreLike
<1>12. ASSUME NEW s \in Okt, TrinnVent(s) PROVE IEgne'
  BY <1>2, <1>12 DEF TrinnVent
<1> QED
  BY <1>1, <1>3, <1>4, <1>5, <1>6, <1>7, <1>8, <1>9, <1>10, <1>11, <1>12 DEF Former

\* So it is in every state.
LEMMA IEgneAlltid == SpecMedAdresser => []IEgne
<1>1. Init => IEgne
  <2> SUFFICES ASSUME Init PROVE IEgne
    OBVIOUS
  <2>1. \A s \in Okt : DOMAIN ny[s] = {} /\ ~ Laster(s)
    BY DEF Init, TxInit, Laster
  <2> QED
    BY <2>1 DEF IEgne, EgneRader, RessurseneHoldes
<1>2. IType /\ IEgne /\ [Last \/ Adressearbeid]_vars => IEgne'
  BY EgneSteg
<1> QED
  BY <1>1, <1>2, ITypeAlltid, PTL DEF SpecMedAdresser

----------------------------------------------------------------------------
(* The links.                                                              *)

\* A session that does nothing sees the same links, if no one commits over them.
LEMMA LikKobling ==
  ASSUME NEW t, OktKobling(t), Lik(t),
         Laster(t) /\ SlettGjort(t) => \A x \in Lenkerader(K(t)) : db'[x] = db[x]
  PROVE  OktKobling(t)'
<1>1. /\ K(t)' = K(t) /\ U(t)' = U(t) /\ (Laster(t)' <=> Laster(t)) /\ ny'[t] = ny[t]
      /\ (SlettGjort(t)' <=> SlettGjort(t)) /\ \A type : Gjort(t, type)' = Gjort(t, type)
      /\ (Er(t, "slett")' <=> Er(t, "slett")) /\ (Ventende(t)' <=> Ventende(t))
  BY DEF Lik, K, U, Laster, SlettGjort, Gjort, Er, Na, Ventende
<1>2. ASSUME Laster(t), SlettGjort(t), NEW x \in Lenkerader(K(t)) PROVE Verdi(t, x)' = Verdi(t, x)
  BY <1>1, <1>2 DEF Verdi
<1>3. EgneLenker(t)'
  <2> SUFFICES ASSUME Laster(t), SlettGjort(t)
               PROVE  {x \in Lenkerader(K(t)) : Verdi(t, x)' # Ingen}
                        = UNION {Lenkerad(K(t), l) : l \in Gjort(t, "lenke")}
    BY <1>1 DEF EgneLenker
  <2>1. {x \in Lenkerader(K(t)) : Verdi(t, x)' # Ingen} = {x \in Lenkerader(K(t)) : Verdi(t, x) # Ingen}
    BY <1>2
  <2> QED
    BY <2>1 DEF OktKobling, EgneLenker
<1> QED
  BY <1>1, <1>3 DEF OktKobling

\* One session at a time is past the resources of a kommune: two would hold the same one.
LEMMA Enerett ==
  ASSUME FellesRessurs, IType, NEW s \in Okt, NEW t \in Okt, s # t,
         RessurseneHoldes(s), RessurseneHoldes(t), Laster(s), Laster(t), K(s) = K(t),
         U(s) # Feilet, U(t) # Feilet,
         Na(s).type \in {"slett", "lenke", "commit"}, Na(t).type \in {"slett", "lenke", "commit"}
  PROVE  FALSE
<1>1. OktType(s) /\ OktType(t)
  BY DEF IType
<1>2. /\ Gjort(s, "ressurs") = Verdier(MedId(U(s).ressurs))
      /\ Gjort(t, "ressurs") = Verdier(MedId(U(t).ressurs))
  BY <1>1, GjortNaar
<1>3. fil[s] \in Filer /\ fil[t] \in Filer /\ K(s) \in Kommune
      /\ U(s) = fil[s][K(s)] /\ U(t) = fil[t][K(s)]
  BY <1>1, OktTekst DEF OktType, Laster, U
<1>4. PICK a \in Verdier(U(s).ressurs), b \in Verdier(U(t).ressurs) : a.id = b.id /\ a.id # Ingen
  BY <1>3, Zenon DEF FellesRessurs
<1>5. a \in Verdier(MedId(U(s).ressurs)) /\ b \in Verdier(MedId(U(t).ressurs))
  <2>1. U(s).ressurs \in Seq(RessursRad) /\ U(t).ressurs \in Seq(RessursRad)
    BY <1>1, OktTekst DEF Uttrekk
  <2> QED
    BY <1>4, <2>1, MedIdVerdier
<1>6. /\ RRessurs(K(s), a.id) \in DOMAIN ny[s]
      /\ RRessurs(K(s), a.id) \in DOMAIN ny[t]
  BY <1>2, <1>4, <1>5 DEF RessurseneHoldes
<1> QED
  BY <1>6 DEF IType, LaasEksklusiv

\* A statement other than those of the links leaves them.
LEMMA TrinnKobling ==
  ASSUME IType, IKobling, NEW s \in Okt, NEW f, Trinn(s, f),
         Na(s).type \in {"slett", "lenke"} => EgneLenker(s)'
  PROVE  IKobling'
<1>1. OktType(s) /\ Laster(s) /\ Na(s).type # "commit"
  BY DEF IType, Trinn
<1>2. Na(s).type \notin {"slett", "lenke"} => ~ SlettGjort(s)'
  BY <1>1, TrinnGjort, GjortNaar
<1>3. EgneLenker(s)'
  BY <1>2 DEF EgneLenker
<1>4. OktKobling(s)'
  BY <1>3 DEF OktKobling, Ventende, Trinn
<1>5. \A t \in Okt \ {s} : OktKobling(t)'
  BY LikKobling DEF IKobling, Trinn, AndreLike
<1>6. KoblingerErEttUttrekks'
  BY DEF IKobling, KoblingerErEttUttrekks, Trinn
<1> QED
  BY <1>4, <1>5, <1>6 DEF IKobling

\* No one holds links that are to be deleted, so that the snapshot is the latest.
LEMMA SlettLedig ==
  ASSUME FellesRessurs, IType, IEgne, NEW s \in Okt, Laster(s), Na(s).type = "slett"
  PROVE  Opptatt(s, Trenger(s)) = {}
<1> SUFFICES ASSUME NEW x \in Trenger(s), NEW t \in Okt \ {s}, x \in DOMAIN ny[t]
             PROVE  FALSE
  BY DEF Opptatt
<1>1. OktType(s) /\ OktType(t) /\ EgneRader(t) /\ RessurseneHoldes(s) /\ RessurseneHoldes(t)
  BY DEF IType, IEgne
<1>2. x \in Lenkerader(K(s))
  BY TrengerHva DEF Slettes
<1>3. x[1] = "lenke" /\ x[2] = K(s)
  BY <1>2, RadType
<1>4. SlettGjort(t) /\ K(t) = K(s)
  BY <1>1, <1>3 DEF EgneRader
<1>5. Laster(t)
  <2>1. ny[t] # <<>>
    OBVIOUS
  <2> QED
    BY <1>1, <2>1 DEF OktType, Laster
<1>6. U(t) # Feilet /\ Na(t).type \in {"lenke", "commit"}
  BY <1>1, <1>4, <1>5, GjortNaar
<1>7. U(s) # Feilet
  BY <1>1, NaHva
<1> QED
  BY <1>1, <1>4, <1>5, <1>6, <1>7, Enerett

\* After the delete the session sees no link.
LEMMA SlettKobling ==
  ASSUME IType, IKobling, NEW s \in Okt, TrinnSlett(s)
  PROVE  IKobling'
<1>1. Laster(s) /\ OktType(s) /\ OktKobling(s) /\ Na(s).type = "slett" /\ Trinn(s, SlettF(s))
  BY DEF TrinnSlett, Trinn, IType, IKobling
<1>2. U(s) # Feilet
  BY <1>1, NaHva
<1>3. Trenger(s) = Lenkerader(K(s)) \cap Synlige(s)
  <2>1. ~ Ventende(s)
    BY <1>1 DEF OktKobling, Er, Laster
  <2> QED
    BY <1>1, <2>1, TrengerHva DEF Slettes, Oyeblikk
<1>4. \A x \in DOMAIN SlettF(s) : SlettF(s)[x] = Ingen
  BY DEF SlettF
<1>5. \A x \in Lenkerader(K(s)) : Verdi(s, x) # Ingen => x \in DOMAIN SlettF(s)
  <2>1. Lenkerader(K(s)) \subseteq Rader
    BY <1>1, OktTekst, Radene
  <2> QED
    BY <1>3, <2>1 DEF Synlige, SlettF
<1>6. EgneLenker(s)'
  <2>1. K(s)' = K(s) /\ Gjort(s, "lenke")' = {}
    BY <1>1, TrinnGjort, GjortNaar
  <2>2. ASSUME NEW x \in Lenkerader(K(s)) PROVE Verdi(s, x)' = Ingen
    <3>1. CASE x \in DOMAIN SlettF(s)
      BY <1>1, <1>4, <3>1 DEF Trinn, Verdi
    <3>2. CASE x \notin DOMAIN SlettF(s)
      <4>1. Verdi(s, x)' = Verdi(s, x)
        BY <1>1, <3>2 DEF Trinn, Verdi
      <4> QED
        BY <1>5, <3>2, <4>1
    <3> QED
      BY <3>1, <3>2
  <2> QED
    BY <2>1, <2>2 DEF EgneLenker
<1> QED
  BY <1>1, <1>6, TrinnKobling

\* After a link the session sees the links behind it in its file.
LEMMA LenkeKobling ==
  ASSUME IType, IKobling, NEW s \in Okt, TrinnLenke(s)
  PROVE  IKobling'
<1>1. Laster(s) /\ OktType(s) /\ OktKobling(s) /\ Na(s).type = "lenke" /\ Trinn(s, SannF(s))
  BY DEF TrinnLenke, Trinn, IType, IKobling
<1>2. U(s) # Feilet /\ K(s) \in Kommune /\ Na(s).rad.r \in RessursId \cup {Ingen}
  BY <1>1, NaHva, OktTekst
<1>3. SlettGjort(s)
  BY <1>1, <1>2, GjortNaar
<1> DEFINE nye == Lenkerad(K(s), Na(s).rad)
<1>4. DOMAIN SannF(s) = nye /\ \A x \in DOMAIN SannF(s) : SannF(s)[x] = TRUE
  BY <1>1, TrengerHva DEF SannF
<1>5. nye \subseteq Lenkerader(K(s))
  BY <1>2, Radene
<1>6. EgneLenker(s)'
  <2>1. K(s)' = K(s) /\ Gjort(s, "lenke")' = Gjort(s, "lenke") \cup {Na(s).rad}
    BY <1>1, TrinnGjort
  <2>2. ASSUME NEW x \in Lenkerader(K(s))
        PROVE  Verdi(s, x)' # Ingen <=> x \in nye \/ Verdi(s, x) # Ingen
    <3>1. CASE x \in nye
      <4>1. Verdi(s, x)' = TRUE
        BY <1>1, <1>4, <3>1 DEF Trinn, Verdi
      <4>2. TRUE # Ingen
        BY IngenTom
      <4> QED
        BY <3>1, <4>1, <4>2
    <3>2. CASE x \notin nye
      <4>1. Verdi(s, x)' = Verdi(s, x)
        BY <1>1, <1>4, <3>2 DEF Trinn, Verdi
      <4> QED
        BY <3>2, <4>1
    <3> QED
      BY <3>1, <3>2
  <2>3. {x \in Lenkerader(K(s)) : Verdi(s, x)' # Ingen}
          = nye \cup {x \in Lenkerader(K(s)) : Verdi(s, x) # Ingen}
    BY <1>5, <2>2
  <2>4. {x \in Lenkerader(K(s)) : Verdi(s, x) # Ingen} = UNION {Lenkerad(K(s), l) : l \in Gjort(s, "lenke")}
    BY <1>1, <1>3 DEF OktKobling, EgneLenker
  <2>5. UNION {Lenkerad(K(s), l) : l \in Gjort(s, "lenke") \cup {Na(s).rad}}
          = nye \cup UNION {Lenkerad(K(s), l) : l \in Gjort(s, "lenke")}
    OBVIOUS
  <2> QED
    BY <2>1, <2>3, <2>4, <2>5 DEF EgneLenker
<1> QED
  BY <1>1, <1>6, TrinnKobling

\* A commit replaces all the links of a kommune, and no one else is at them.
LEMMA FullforKobling ==
  ASSUME FellesRessurs, IType, IEgne, IKobling, NEW s \in Okt, TrinnFullfor(s)
  PROVE  IKobling'
<1>1. /\ Laster(s) /\ OktType(s) /\ EgneRader(s) /\ RessurseneHoldes(s) /\ OktKobling(s)
      /\ Na(s).type = "commit" /\ K(s) \in Kommune
  BY OktTekst DEF TrinnFullfor, IType, IEgne, IKobling
<1>2. /\ AndreLike(s) /\ pos'[s] = 1 /\ ser'[s] = Ingen /\ ny'[s] = <<>>
  BY DEF TrinnFullfor
<1>3. \A x \in Rader : db'[x] = Verdi(s, x)
  BY <1>1 DEF TrinnFullfor, Verdi, IType, Domener, OktType
<1>4. ASSUME NEW x \in Rader, x[1] = "lenke", x[2] # K(s) \/ U(s) = Feilet PROVE db'[x] = db[x]
  BY <1>1, <1>3, <1>4 DEF EgneRader, Verdi
<1>5. ASSUME NEW t \in Okt \ {s}, Laster(t), SlettGjort(t), NEW x \in Lenkerader(K(t))
      PROVE  db'[x] = db[x]
  <2>1. OktType(t) /\ RessurseneHoldes(t)
    BY DEF IType, IEgne
  <2>2. U(t) # Feilet /\ Na(t).type \in {"lenke", "commit"} /\ K(t) \in Kommune
    BY <1>5, <2>1, GjortNaar, OktTekst
  <2>3. x \in Rader /\ x[1] = "lenke" /\ x[2] = K(t)
    BY <2>2, Radene, RadType
  <2>4. K(t) # K(s) \/ U(s) = Feilet
    BY <1>1, <1>5, <2>1, <2>2, Enerett
  <2> QED
    BY <1>4, <2>3, <2>4
<1>6. \A t \in Okt \ {s} : OktKobling(t)'
  BY <1>2, <1>5, LikKobling DEF IKobling, AndreLike
<1>7. OktKobling(s)'
  BY <1>2, Begynner
<1>8. ASSUME NEW k \in Kommune, lastet'[k] # Ingen
      PROVE  {x \in Lenkerader(k) : db'[x] # Ingen}
               = UNION {Lenkerad(k, l) : l \in Verdier(Lastbare(lastet'[k]))}
  <2>1. Lenkerader(k) \subseteq Rader /\ \A x \in Lenkerader(k) : x[1] = "lenke" /\ x[2] = k
    BY Radene, RadType
  <2>2. CASE k # K(s) \/ U(s) = Feilet
    <3>1. \A x \in Lenkerader(k) : db'[x] = db[x]
      BY <1>4, <2>1, <2>2
    <3>2. lastet'[k] = lastet[k]
      BY <2>2 DEF TrinnFullfor, IType, Domener
    <3>3. {x \in Lenkerader(k) : db[x] # Ingen} = UNION {Lenkerad(k, l) : l \in Verdier(Lastbare(lastet[k]))}
      BY <1>8, <3>2 DEF IKobling, KoblingerErEttUttrekks
    <3>4. {x \in Lenkerader(k) : db'[x] # Ingen} = {x \in Lenkerader(k) : db[x] # Ingen}
      BY <3>1
    <3> QED
      BY <3>2, <3>3, <3>4
  <2>3. CASE k = K(s) /\ U(s) # Feilet
    <3>1. lastet'[k] = U(s)
      BY <1>1, <2>3 DEF TrinnFullfor, IType, Domener
    <3>2. SlettGjort(s) /\ Gjort(s, "lenke") = Verdier(Lastbare(U(s)))
      BY <1>1, <2>3, GjortNaar
    <3>3. {x \in Lenkerader(k) : Verdi(s, x) # Ingen} = UNION {Lenkerad(k, l) : l \in Gjort(s, "lenke")}
      BY <1>1, <2>3, <3>2 DEF OktKobling, EgneLenker
    <3>4. {x \in Lenkerader(k) : db'[x] # Ingen} = {x \in Lenkerader(k) : Verdi(s, x) # Ingen}
      BY <1>3, <2>1
    <3> QED
      BY <3>1, <3>2, <3>3, <3>4
  <2> QED
    BY <2>2, <2>3
<1>9. KoblingerErEttUttrekks'
  BY <1>8 DEF KoblingerErEttUttrekks
<1> QED
  BY <1>6, <1>7, <1>9 DEF IKobling

\* Every step keeps the links to one extract.
LEMMA KoblingSteg ==
  ASSUME FellesRessurs, IType, IEgne, IKobling, [Last \/ Adressearbeid]_vars
  PROVE  IKobling'
<1>1. Former
  BY StegFormer DEF IType, OktType
<1>2. CASE UNCHANGED vars
  <2>1. \A t \in Okt : Lik(t)
    BY <1>2 DEF Lik, vars
  <2> QED
    BY <1>2, <2>1, LikKobling DEF IKobling, KoblingerErEttUttrekks, vars
<1>3. CASE TrinnAdresse
  <2>1. PICK k \in Kommune, b \in ByggId, g \in {"matrikkel", "manuell", "feilet"} : SettStatus(k, b, g)
    BY <1>3 DEF TrinnAdresse
  <2>2. /\ db' = [db EXCEPT ![RAdresse(k, b)].geokoding = g]
        /\ UNCHANGED <<ny, ser, ko, fil, pos, logg, lastet>>
    BY <2>1 DEF SettStatus, oktvars
  <2>3. \A j \in Kommune : \A x \in Lenkerader(j) : db'[x] = db[x]
    <3> TAKE j \in Kommune
    <3> TAKE x \in Lenkerader(j)
    <3>1. x \in Rader /\ x # RAdresse(k, b)
      BY Radene, RadType
    <3> QED
      BY <2>2, <3>1 DEF IType, Domener
  <2>4. \A t \in Okt : Lik(t) /\ (Laster(t) => K(t) \in Kommune)
    BY <2>2, OktTekst DEF Lik, IType
  <2>5. KoblingerErEttUttrekks'
    BY <2>2, <2>3 DEF IKobling, KoblingerErEttUttrekks
  <2> QED
    BY <2>3, <2>4, <2>5, LikKobling DEF IKobling
<1>4. ASSUME NEW s \in Okt, NEW f \in Filer, Start(s, f) PROVE IKobling'
  <2>1. /\ ko[s] = <<>> /\ db' = db /\ lastet' = lastet /\ AndreLike(s)
        /\ pos'[s] = 1 /\ ny'[s] = ny[s] /\ ser'[s] = ser[s]
    BY <1>4 DEF Start, IType, Domener, txvars, AndreLike, Lik
  <2>2. ny[s] = <<>> /\ ser[s] = Ingen
    BY <2>1 DEF IType, OktType, Ventende
  <2>3. OktKobling(s)'
    BY <2>1, <2>2, Begynner
  <2> QED
    BY <2>1, <2>3, LikKobling DEF IKobling, KoblingerErEttUttrekks, AndreLike
<1>5. ASSUME NEW s \in Okt, TrinnVent(s) PROVE IKobling'
  <2>1. /\ UNCHANGED <<db, ny, ko, fil, pos, logg, lastet>>
        /\ \A t \in Okt \ {s} : ser'[t] = ser[t]
    BY <1>5 DEF TrinnVent, IType, Domener
  <2>2. \A t \in Okt \ {s} : OktKobling(t)'
    BY <2>1, LikKobling DEF IKobling, Lik
  <2>3. Na(s).type # "slett"
    BY <1>5, SlettLedig DEF TrinnVent
  <2>4. OktKobling(s)'
    <3>1. /\ K(s)' = K(s) /\ U(s)' = U(s) /\ (Laster(s)' <=> Laster(s)) /\ ny'[s] = ny[s]
          /\ (SlettGjort(s)' <=> SlettGjort(s)) /\ \A type : Gjort(s, type)' = Gjort(s, type)
          /\ (Er(s, "slett")' <=> Er(s, "slett"))
      BY <2>1 DEF K, U, Laster, SlettGjort, Gjort, Er, Na
    <3>2. \A x : Verdi(s, x)' = Verdi(s, x)
      BY <2>1 DEF Verdi
    <3>3. EgneLenker(s)'
      BY <3>1, <3>2 DEF IKobling, OktKobling, EgneLenker
    <3> QED
      BY <2>3, <3>1, <3>3 DEF OktKobling, Er
  <2> QED
    BY <2>1, <2>2, <2>4 DEF IKobling, KoblingerErEttUttrekks
<1>6. ASSUME NEW s \in Okt, Slutt(s) PROVE IKobling'
  BY <1>6, Begynner, LikKobling DEF Slutt, AndreLike, IKobling, KoblingerErEttUttrekks
<1>7. ASSUME NEW s \in Okt, TrinnRegistrer(s) \/ TrinnBygg(s) \/ TrinnByggFeil(s) \/ TrinnRessurs(s)
      PROVE  IKobling'
  <2>1. Na(s).type \notin {"slett", "lenke"} /\ \E f : Trinn(s, f)
    BY <1>7 DEF TrinnRegistrer, TrinnBygg, TrinnByggFeil, TrinnRessurs
  <2> QED
    BY <2>1, TrinnKobling
<1> QED
  BY <1>1, <1>2, <1>3, <1>4, <1>5, <1>6, <1>7, SlettKobling, LenkeKobling, FullforKobling DEF Former

\* The links the sessions see and those of the latest loads, in every state.
LEMMA IKoblingAlltid ==
  ASSUME FellesRessurs
  PROVE  SpecMedAdresser => []IKobling
<1>1. Init => IKobling
  <2> SUFFICES ASSUME Init PROVE IKobling
    OBVIOUS
  <2>1. \A s \in Okt : /\ DOMAIN ny[s] = {} /\ ~ Laster(s) /\ ser[s] = Ingen
    BY DEF Init, TxInit, Laster
  <2>2. \A k \in Kommune : lastet[k] = Ingen
    BY DEF Init
  <2> QED
    BY <2>1, <2>2 DEF IKobling, OktKobling, EgneLenker, Ventende, KoblingerErEttUttrekks
<1>2. IType /\ IEgne /\ IKobling /\ [Last \/ Adressearbeid]_vars => IKobling'
  BY KoblingSteg
<1> QED
  BY <1>1, <1>2, ITypeAlltid, IEgneAlltid, PTL DEF SpecMedAdresser

\* However loads of a kommune overlap, wait, are broken off and crash, its links are those of
\* one extract, the latest one committed, provided its extracts share a resource: that row
\* keeps two loads from deleting and writing links at the same time.
THEOREM KoblingerErEttUttrekksAlltid ==
  ASSUME FellesRessurs
  PROVE  SpecMedAdresser => []KoblingerErEttUttrekks
<1>1. IKobling => KoblingerErEttUttrekks
  BY DEF IKobling
<1> QED
  BY <1>1, IKoblingAlltid, PTL

----------------------------------------------------------------------------
(* The addresses.                                                          *)

\* An address the session holds keeps the status of the one in the database, and its text
\* if that is settled.
AdresserHoldt(s) ==
  \A x \in DOMAIN ny[s] : x[1] = "adresse" =>
    /\ ny[s][x] # Ingen
    /\ db[x] # Ingen => /\ ny[s][x].geokoding = db[x].geokoding
                        /\ db[x].geokoding \notin {"ukjent", "feilet"} => ny[s][x].tekst = db[x].tekst

IAdresse == \A s \in Okt : AdresserHoldt(s)

\* The step of one session, or of a session that holds nothing afterwards.
LEMMA TrinnAdresser ==
  ASSUME IType, IAdresse, NEW s \in Okt, NEW f, Trinn(s, f),
         \A x \in DOMAIN f : x[1] = "adresse" =>
           /\ f[x] # Ingen
           /\ Verdi(s, x) # Ingen =>
                /\ f[x].geokoding = Verdi(s, x).geokoding
                /\ Verdi(s, x).geokoding \notin {"ukjent", "feilet"} => f[x].tekst = Verdi(s, x).tekst
  PROVE  IAdresse'
<1>1. /\ db' = db /\ DOMAIN ny'[s] = DOMAIN f \cup DOMAIN ny[s]
      /\ \A x \in DOMAIN f : ny'[s][x] = f[x]
      /\ \A x \in DOMAIN ny[s] \ DOMAIN f : ny'[s][x] = ny[s][x]
      /\ \A t \in Okt \ {s} : ny'[t] = ny[t]
  BY DEF Trinn, AndreLike, Lik
<1>2. ASSUME NEW x \in DOMAIN f, x[1] = "adresse"
      PROVE  /\ f[x] # Ingen
             /\ db[x] # Ingen => /\ f[x].geokoding = db[x].geokoding
                                 /\ db[x].geokoding \notin {"ukjent", "feilet"} => f[x].tekst = db[x].tekst
  <2>1. CASE x \in DOMAIN ny[s]
    <3>1. Verdi(s, x) = ny[s][x]
      BY <2>1 DEF Verdi
    <3>2. /\ ny[s][x] # Ingen
          /\ db[x] # Ingen => /\ ny[s][x].geokoding = db[x].geokoding
                              /\ db[x].geokoding \notin {"ukjent", "feilet"} => ny[s][x].tekst = db[x].tekst
      BY <1>2, <2>1 DEF IAdresse, AdresserHoldt
    <3> QED
      BY <1>2, <3>1, <3>2
  <2>2. CASE x \notin DOMAIN ny[s]
    BY <1>2, <2>2 DEF Verdi
  <2> QED
    BY <2>1, <2>2
<1>3. AdresserHoldt(s)'
  BY <1>1, <1>2 DEF IAdresse, AdresserHoldt
<1>4. \A t \in Okt \ {s} : AdresserHoldt(t)'
  BY <1>1 DEF IAdresse, AdresserHoldt
<1> QED
  BY <1>3, <1>4 DEF IAdresse

\* Every step keeps the settled addresses that are held.
LEMMA AdresseSteg ==
  ASSUME IType, IAdresse, [Last \/ Adressearbeid]_vars
  PROVE  IAdresse'
<1>1. Former
  BY StegFormer DEF IType, OktType
<1>2. ASSUME UNCHANGED <<db, ny>> PROVE IAdresse'
  BY <1>2 DEF IAdresse, AdresserHoldt
<1>3. CASE UNCHANGED vars
  BY <1>2, <1>3 DEF vars
<1>4. CASE TrinnAdresse
  <2>1. PICK k \in Kommune, b \in ByggId, g \in {"matrikkel", "manuell", "feilet"} : SettStatus(k, b, g)
    BY <1>4 DEF TrinnAdresse
  <2> DEFINE a == RAdresse(k, b)
  <2>2. /\ \A t \in Okt : a \notin DOMAIN ny[t]
        /\ db' = [db EXCEPT ![a].geokoding = g] /\ ny' = ny
    BY <2>1 DEF SettStatus
  <2> HIDE DEF a
  <2>3. \A x \in Rader \ {a} : db'[x] = db[x]
    BY <2>2 DEF IType, Domener
  <2>4. ASSUME NEW t \in Okt PROVE AdresserHoldt(t)'
    <3>1. \A x \in DOMAIN ny[t] : db'[x] = db[x]
      BY <2>2, <2>3 DEF IType, OktType
    <3> QED
      BY <2>2, <3>1 DEF IAdresse, AdresserHoldt
  <2> QED
    BY <2>4 DEF IAdresse
<1>5. ASSUME NEW s \in Okt, NEW f \in Filer, Start(s, f) PROVE IAdresse'
  BY <1>2, <1>5 DEF Start, txvars
<1>6. ASSUME NEW s \in Okt, TrinnBygg(s) PROVE IAdresse'
  <2> DEFINE rad == Na(s).rad
             adr == RAdresse(K(s), rad.id)
  <2>1. Laster(s) /\ OktType(s) /\ Na(s).type = "bygg" /\ Trinn(s, ByggF(s))
    BY <1>6 DEF TrinnBygg, Trinn, IType
  <2>2. rad \in ByggRad /\ rad.id \in ByggId /\ K(s) \in Kommune
    BY <2>1, NaHva, OktTekst
  <2>3. adr \in Rader /\ adr[1] = "adresse" /\ RByggnad(K(s), rad.id)[1] = "bygning"
    BY <2>2, Radene, RadType
  <2>4. Trenger(s) = {RByggnad(K(s), rad.id)} \cup (IF rad.gate = Ingen THEN {} ELSE {adr})
    BY <2>1, TrengerHva
  <2>5. ASSUME NEW x \in DOMAIN ByggF(s), x[1] = "adresse"
        PROVE  /\ x = adr /\ rad.gate \in Gate
               /\ ByggF(s)[x] = NyAdresse(Verdi(s, adr), rad.gate)
    <3>1. x = adr /\ rad.gate # Ingen
      BY <2>3, <2>4, <2>5 DEF ByggF
    <3>2. rad.gate \in Gate
      BY <2>2, <3>1 DEF ByggRad
    <3>3. ByggF(s)[x] = NyAdresse(Verdi(s, adr), rad.gate)
      BY <2>5, <3>1 DEF ByggF
    <3> QED
      BY <3>1, <3>2, <3>3
  <2>6. Verdi(s, adr) # Ingen => Verdi(s, adr) \in Adresser
    BY <2>1, <2>3 DEF Verdi, IType, OktType, AvTabellen
  <2>7. \A y \in Adresser : y # Ingen
    BY IngenTom
  <2> HIDE DEF rad, adr
  <2>8. \A x \in DOMAIN ByggF(s) : x[1] = "adresse" =>
           /\ ByggF(s)[x] # Ingen
           /\ Verdi(s, x) # Ingen =>
                /\ ByggF(s)[x].geokoding = Verdi(s, x).geokoding
                /\ Verdi(s, x).geokoding \notin {"ukjent", "feilet"} =>
                     ByggF(s)[x].tekst = Verdi(s, x).tekst
    BY <2>5, <2>6, <2>7, NyAdresseType
  <2> QED
    BY <2>1, <2>8, TrinnAdresser
<1>7. ASSUME NEW s \in Okt, NEW f, Trinn(s, f), \A x \in DOMAIN f : x[1] # "adresse" PROVE IAdresse'
  BY <1>7, TrinnAdresser
<1>8. ASSUME NEW s \in Okt, TrinnRegistrer(s) PROVE IAdresse'
  <2>1. Laster(s) /\ Na(s).type = "registrer" /\ Trinn(s, SannF(s))
    BY <1>8 DEF TrinnRegistrer, Trinn
  <2>2. DOMAIN SannF(s) \subseteq {RKommune(K(s))}
    BY <2>1, TrengerHva DEF SannF
  <2> QED
    BY <1>7, <2>1, <2>2, RadType
<1>9. ASSUME NEW s \in Okt, TrinnByggFeil(s) PROVE IAdresse'
  <2>1. DOMAIN <<>> = {}
    OBVIOUS
  <2> QED
    BY <1>7, <1>9, <2>1 DEF TrinnByggFeil
<1>10. ASSUME NEW s \in Okt, TrinnRessurs(s) PROVE IAdresse'
  <2>1. Laster(s) /\ Na(s).type = "ressurs" /\ Trinn(s, RessursF(s))
    BY <1>10 DEF TrinnRessurs, Trinn
  <2>2. DOMAIN RessursF(s) = {RRessurs(K(s), Na(s).rad.id)}
    BY <2>1, TrengerHva DEF RessursF
  <2> QED
    BY <1>7, <2>1, <2>2, RadType
<1>11. ASSUME NEW s \in Okt, TrinnSlett(s) PROVE IAdresse'
  <2>1. Laster(s) /\ Na(s).type = "slett" /\ Trinn(s, SlettF(s))
    BY <1>11 DEF TrinnSlett, Trinn
  <2>2. \A x \in DOMAIN SlettF(s) : x[1] = "lenke"
    BY <2>1, TrengerHva, RadType DEF SlettF, Slettes
  <2> QED
    BY <1>7, <2>1, <2>2
<1>12. ASSUME NEW s \in Okt, TrinnLenke(s) PROVE IAdresse'
  <2>1. Laster(s) /\ OktType(s) /\ Na(s).type = "lenke" /\ Trinn(s, SannF(s))
    BY <1>12 DEF TrinnLenke, Trinn, IType
  <2>2. K(s) \in Kommune /\ Na(s).rad.r \in RessursId \cup {Ingen}
    BY <2>1, NaHva, OktTekst
  <2>3. DOMAIN SannF(s) = Lenkerad(K(s), Na(s).rad)
    BY <2>1, TrengerHva DEF SannF
  <2>4. \A x \in DOMAIN SannF(s) : x[1] = "lenke"
    BY <2>2, <2>3, Radene, RadType
  <2> QED
    BY <1>7, <2>1, <2>4
<1>13. ASSUME NEW s \in Okt, TrinnFullfor(s) PROVE IAdresse'
  <2>1. /\ \A t \in Okt \ {s} : ny'[t] = ny[t] /\ DOMAIN ny[s] \cap DOMAIN ny[t] = {}
        /\ \A x \in Rader \ DOMAIN ny[s] : db'[x] = db[x]
        /\ ny'[s] = <<>>
    BY <1>13 DEF TrinnFullfor, AndreLike, Lik, IType, LaasEksklusiv, Domener
  <2>2. ASSUME NEW t \in Okt \ {s} PROVE AdresserHoldt(t)'
    <3>1. \A x \in DOMAIN ny[t] : db'[x] = db[x]
      BY <2>1 DEF IType, OktType
    <3> QED
      BY <2>1, <3>1 DEF IAdresse, AdresserHoldt
  <2>3. DOMAIN ny'[s] = {}
    BY <2>1
  <2> QED
    BY <2>2, <2>3 DEF IAdresse, AdresserHoldt
<1>14. ASSUME NEW s \in Okt, Slutt(s) PROVE IAdresse'
  <2>1. db' = db /\ (\A t \in Okt \ {s} : ny'[t] = ny[t]) /\ DOMAIN ny'[s] = {}
    BY <1>14 DEF Slutt, AndreLike, Lik
  <2> QED
    BY <2>1 DEF IAdresse, AdresserHoldt
<1>15. ASSUME NEW s \in Okt, TrinnVent(s) PROVE IAdresse'
  BY <1>2, <1>15 DEF TrinnVent
<1> QED
  BY <1>1, <1>3, <1>4, <1>5, <1>6, <1>8, <1>9, <1>10, <1>11, <1>12, <1>13, <1>14, <1>15 DEF Former

\* So it is in every state.
LEMMA IAdresseAlltid == SpecMedAdresser => []IAdresse
<1>1. Init => IAdresse
  <2> SUFFICES ASSUME Init PROVE IAdresse
    OBVIOUS
  <2>1. \A s \in Okt : DOMAIN ny[s] = {}
    BY DEF Init, TxInit
  <2> QED
    BY <2>1 DEF IAdresse, AdresserHoldt
<1>2. IType /\ IAdresse /\ [Last \/ Adressearbeid]_vars => IAdresse'
  BY AdresseSteg
<1> QED
  BY <1>1, <1>2, ITypeAlltid, PTL DEF SpecMedAdresser

\* What a step does to a settled address of the database.
LEMMA AdresseUrort ==
  ASSUME IType, IAdresse, [Last \/ Adressearbeid]_vars, NEW k \in Kommune, NEW b \in ByggId,
         db[RAdresse(k, b)] # Ingen, db[RAdresse(k, b)].geokoding \notin {"ukjent", "feilet"}
  PROVE  db'[RAdresse(k, b)] # Ingen /\ db'[RAdresse(k, b)].tekst = db[RAdresse(k, b)].tekst
<1> DEFINE a == RAdresse(k, b)
<1>1. a \in Rader /\ a[1] = "adresse"
  BY Radene, RadType
<1>2. Former
  BY StegFormer DEF IType, OktType
<1>3. db[a] # Ingen /\ db[a].geokoding \notin {"ukjent", "feilet"}
  OBVIOUS
<1> SUFFICES db'[a] # Ingen /\ db'[a].tekst = db[a].tekst
  OBVIOUS
<1> HIDE DEF a
<1>4. CASE db' = db
  BY <1>3, <1>4
<1>5. CASE TrinnAdresse
  <2>1. PICK j \in Kommune, c \in ByggId, g \in {"matrikkel", "manuell", "feilet"} : SettStatus(j, c, g)
    BY <1>5 DEF TrinnAdresse
  <2> DEFINE d == RAdresse(j, c)
  <2>2. db' = [db EXCEPT ![d].geokoding = g]
    BY <2>1 DEF SettStatus
  <2> HIDE DEF d
  <2>3. CASE d # a
    BY <1>1, <1>3, <2>2, <2>3 DEF IType, Domener
  <2>4. CASE d = a
    <3>1. db[a] \in Adresser
      BY <1>1, <1>3 DEF IType, AvTabellen
    <3>2. db'[a] = [db[a] EXCEPT !.geokoding = g]
      BY <1>1, <2>2, <2>4 DEF IType, Domener
    <3>3. db'[a] \in Adresser /\ db'[a].tekst = db[a].tekst
      BY <3>1, <3>2 DEF Adresser
    <3> QED
      BY <3>3, IngenTom
  <2> QED
    BY <2>3, <2>4
<1>6. ASSUME NEW s \in Okt, TrinnFullfor(s) PROVE db'[a] # Ingen /\ db'[a].tekst = db[a].tekst
  <2>1. /\ a \in DOMAIN ny[s] => db'[a] = ny[s][a]
        /\ a \notin DOMAIN ny[s] => db'[a] = db[a]
    BY <1>1, <1>6 DEF TrinnFullfor, IType, Domener
  <2>2. a \in DOMAIN ny[s] => ny[s][a] # Ingen /\ ny[s][a].tekst = db[a].tekst
    BY <1>1, <1>3 DEF IAdresse, AdresserHoldt
  <2> QED
    BY <1>3, <2>1, <2>2
<1>7. db' = db \/ TrinnAdresse \/ \E s \in Okt : TrinnFullfor(s)
  BY <1>2 DEF Former, vars, Start, txvars, TrinnRegistrer, TrinnBygg, TrinnByggFeil, TrinnRessurs,
              TrinnSlett, TrinnLenke, TrinnVent, Trinn, Slutt
<1> QED
  BY <1>4, <1>5, <1>6, <1>7

\* A load never rewrites the text of an address that is geocoded or manual, also when the
\* geocoder or an editor settles it while the load is under way.
THEOREM AdresseVernetAlltid == SpecMedAdresser => AdresseVernet
<1>1. IType /\ IAdresse /\ [Last \/ Adressearbeid]_vars =>
        [\A k \in Kommune, b \in ByggId :
           LET a == RAdresse(k, b)
           IN  db[a] # Ingen /\ db[a].geokoding \notin {"ukjent", "feilet"} =>
                 db'[a] # Ingen /\ db'[a].tekst = db[a].tekst]_vars
  BY AdresseUrort
<1> QED
  BY <1>1, ITypeAlltid, IAdresseAlltid, PTL DEF SpecMedAdresser, AdresseVernet

----------------------------------------------------------------------------
(* Nothing of the latest load is lost without a deviation.                 *)

\* The rows of a building in rader, which are those of a session or of the database.
ByggStaar(rader, k, rad) ==
  /\ rader[RByggnad(k, rad.id)] = rad.verdi
  /\ rad.gate # Ingen =>
       /\ rader[RAdresse(k, rad.id)] # Ingen
       /\ \/ rader[RAdresse(k, rad.id)].tekst = rad.gate
          \/ rader[RAdresse(k, rad.id)].geokoding \notin {"ukjent", "feilet"}

ByggGjort(s, rad) ==
  \/ /\ RByggnad(K(s), rad.id) \in DOMAIN ny[s]
     /\ rad.gate # Ingen => RAdresse(K(s), rad.id) \in DOMAIN ny[s]
     /\ ByggStaar(ny[s], K(s), rad)
  \/ <<"db_feil", rad.id>> \in logg[s]

RessursStaar(lagret, u, rad, avvikene) ==
  /\ lagret # Ingen
  /\ lagret.verdi = rad.verdi
  /\ \/ lagret.bygg = ByggFor(u, rad.id)
     \/ <<"db_feil", ByggFor(u, rad.id)>> \in avvikene
  /\ lagret.lt = IF rad.lt \in Kode THEN rad.lt ELSE Ingen

RessursGjort(s, rad) ==
  /\ RRessurs(K(s), rad.id) \in DOMAIN ny[s]
  /\ RessursStaar(ny[s][RRessurs(K(s), rad.id)], U(s), rad, logg[s])

OktLogg(s) ==
  Laster(s) /\ U(s) # Feilet =>
    /\ \A rad \in Gjort(s, "bygg") : ByggGjort(s, rad)
    /\ \A rad \in Gjort(s, "ressurs") : RessursGjort(s, rad)
    /\ Ventende(s) => \A x \in DOMAIN ny[s] : ny[s][x] # Ingen => x \in ser[s]

LastetSom(k) ==
  lastet[k] # Ingen =>
    /\ \E f \in Filer : lastet[k] = f[k] /\ f[k] # Feilet
    /\ UkjenteId(lastet[k]) \subseteq avvik[k]
    /\ \A rad \in Verdier(MedId(lastet[k].bygg)) :
         ByggStaar(db, k, rad) \/ <<"db_feil", rad.id>> \in avvik[k]
    /\ \A rad \in Verdier(MedId(lastet[k].ressurs)) :
         RessursStaar(db[RRessurs(k, rad.id)], lastet[k], rad, avvik[k])

ILogg == /\ \A s \in Okt : OktLogg(s)
         /\ \A k \in Kommune : LastetSom(k)

\* The statements behind a session are of its extract.
LEMMA GjortDel ==
  ASSUME NEW s \in Okt, OktType(s), Laster(s), U(s) # Feilet
  PROVE  /\ Gjort(s, "bygg") \subseteq Verdier(MedId(U(s).bygg))
         /\ Gjort(s, "ressurs") \subseteq Verdier(MedId(U(s).ressurs))
<1> DEFINE t == Tekst[U(s)]
           n == pos[s] - 1
<1>1. Ordnet(t, U(s)) /\ 1..n \subseteq 1..Len(t)
  BY OktTekst DEF OktType, Laster
<1>2. \A i \in 1..Len(t) : /\ t[i].type = "bygg" => t[i].rad \in Verdier(MedId(U(s).bygg))
                           /\ t[i].type = "ressurs" => t[i].rad \in Verdier(MedId(U(s).ressurs))
  BY <1>1, Zenon DEF Ordnet
<1> HIDE DEF t, n
<1>3. \A i \in 1..n : /\ t[i].type = "bygg" => t[i].rad \in Verdier(MedId(U(s).bygg))
                      /\ t[i].type = "ressurs" => t[i].rad \in Verdier(MedId(U(s).ressurs))
  BY <1>1, <1>2
<1>4. \A type : Gjort(s, type) = {t[j].rad : j \in {i \in 1..n : t[i].type = type}}
  BY DEF Gjort, RaderAv, t, n
<1> QED
  BY <1>3, <1>4

\* Rows of different buildings or resources are different.
LEMMA RadUlik ==
  \A k, a, b : a # b => /\ RByggnad(k, a) # RByggnad(k, b)
                        /\ RAdresse(k, a) # RAdresse(k, b)
                        /\ RRessurs(k, a) # RRessurs(k, b)
  BY DEF RByggnad, RAdresse, RRessurs

\* A session that does nothing has nothing to account for.
LEMMA LikLogg ==
  ASSUME NEW t, OktLogg(t), Lik(t)
  PROVE  OktLogg(t)'
<1>1. /\ K(t)' = K(t) /\ U(t)' = U(t) /\ (Laster(t)' <=> Laster(t)) /\ ny'[t] = ny[t]
      /\ logg'[t] = logg[t] /\ ser'[t] = ser[t] /\ (Ventende(t)' <=> Ventende(t))
      /\ \A type : Gjort(t, type)' = Gjort(t, type)
  BY DEF Lik, K, U, Laster, Gjort, Ventende
<1>2. \A rad : ByggGjort(t, rad)' <=> ByggGjort(t, rad)
  BY <1>1 DEF ByggGjort, ByggStaar
<1>3. \A rad : RessursGjort(t, rad)' <=> RessursGjort(t, rad)
  BY <1>1 DEF RessursGjort
<1> QED
  BY <1>1, <1>2, <1>3 DEF OktLogg

\* What was done with a building stays done unless its rows are written again.
LEMMA ByggBevares ==
  ASSUME NEW s, NEW f, Trinn(s, f), logg[s] \subseteq logg'[s], K(s)' = K(s), NEW rad,
         ByggGjort(s, rad),
         RByggnad(K(s), rad.id) \notin DOMAIN f, RAdresse(K(s), rad.id) \notin DOMAIN f
  PROVE  ByggGjort(s, rad)'
<1>1. /\ DOMAIN ny[s] \subseteq DOMAIN ny'[s]
      /\ \A x \in DOMAIN ny[s] \ DOMAIN f : ny'[s][x] = ny[s][x]
  BY DEF Trinn
<1> DEFINE x == RByggnad(K(s), rad.id)
           a == RAdresse(K(s), rad.id)
<1>2. x \notin DOMAIN f /\ a \notin DOMAIN f
  OBVIOUS
<1>3. CASE <<"db_feil", rad.id>> \in logg[s]
  BY <1>3 DEF ByggGjort
<1>4. CASE /\ x \in DOMAIN ny[s]
           /\ rad.gate # Ingen => a \in DOMAIN ny[s]
           /\ ny[s][x] = rad.verdi
           /\ rad.gate # Ingen =>
                ny[s][a] # Ingen /\ (ny[s][a].tekst = rad.gate \/ ny[s][a].geokoding \notin {"ukjent", "feilet"})
  <2> HIDE DEF x, a
  <2>1. /\ x \in DOMAIN ny'[s]
        /\ rad.gate # Ingen => a \in DOMAIN ny'[s]
        /\ ny'[s][x] = rad.verdi
        /\ rad.gate # Ingen =>
             ny'[s][a] # Ingen /\ (ny'[s][a].tekst = rad.gate \/ ny'[s][a].geokoding \notin {"ukjent", "feilet"})
    BY <1>1, <1>2, <1>4
  <2> QED
    BY <2>1 DEF x, a, ByggGjort, ByggStaar
<1> QED
  BY <1>3, <1>4 DEF ByggGjort, ByggStaar

\* What was done with a resource stays done unless its row is written again.
LEMMA RessursBevares ==
  ASSUME NEW s, NEW f, Trinn(s, f), logg[s] \subseteq logg'[s], K(s)' = K(s), U(s)' = U(s), NEW rad,
         RessursGjort(s, rad), RRessurs(K(s), rad.id) \notin DOMAIN f
  PROVE  RessursGjort(s, rad)'
<1> DEFINE x == RRessurs(K(s), rad.id)
<1>1. x \in DOMAIN ny[s] /\ RessursStaar(ny[s][x], U(s), rad, logg[s])
  BY DEF RessursGjort
<1>2. x \in DOMAIN ny'[s] /\ ny'[s][x] = ny[s][x]
  BY <1>1 DEF Trinn
<1> HIDE DEF x
<1>3. RessursStaar(ny'[s][x], U(s), rad, logg'[s])
  BY <1>1, <1>2 DEF RessursStaar
<1> QED
  BY <1>2, <1>3 DEF RessursGjort, x

\* A statement accounts for its own row and disturbs no other.
LEMMA TrinnLogg ==
  ASSUME EntydigeId, IType, ILogg, NEW s \in Okt, NEW f, Trinn(s, f), logg[s] \subseteq logg'[s],
         \A x \in DOMAIN f :
           /\ x[1] \in {"bygning", "adresse"} =>
                Na(s).type = "bygg" /\ x \in {RByggnad(K(s), Na(s).rad.id), RAdresse(K(s), Na(s).rad.id)}
           /\ x[1] = "ressurs" => Na(s).type = "ressurs" /\ x = RRessurs(K(s), Na(s).rad.id),
         \A rad : rad = Na(s).rad => /\ Na(s).type = "bygg" => ByggGjort(s, rad)'
                                     /\ Na(s).type = "ressurs" => RessursGjort(s, rad)'
  PROVE  ILogg'
<1>1. OktType(s) /\ Laster(s) /\ OktLogg(s)
  BY DEF IType, ILogg, Trinn
<1>2. /\ K(s)' = K(s) /\ U(s)' = U(s) /\ Laster(s)'
      /\ \A type : Gjort(s, type)'
              = Gjort(s, type) \cup (IF Na(s).type = type THEN {Na(s).rad} ELSE {})
  BY <1>1, TrinnGjort
<1>3. ASSUME U(s) # Feilet, NEW rad \in Gjort(s, "bygg")' PROVE ByggGjort(s, rad)'
  <2>1. CASE Na(s).type = "bygg" /\ rad = Na(s).rad
    BY <2>1
  <2>2. CASE ~ (Na(s).type = "bygg" /\ rad = Na(s).rad)
    <3>1. rad \in Gjort(s, "bygg")
      BY <1>2, <1>3, <2>2
    <3>2. ByggGjort(s, rad)
      BY <1>1, <1>3, <3>1 DEF OktLogg
    <3>3. Na(s).type = "bygg" => rad.id # Na(s).rad.id
      <4>1. rad \in Verdier(MedId(U(s).bygg))
        BY <1>1, <1>3, <3>1, GjortDel
      <4>2. Na(s).type = "bygg" => Na(s).rad \in Verdier(MedId(U(s).bygg))
        BY <1>1, NaHva
      <4>3. \A a, b \in Verdier(MedId(U(s).bygg)) : a.id = b.id => a = b
        BY <1>1, <1>3, OktTekst, Zenon DEF EntydigeId, U, OktType, Laster
      <4> QED
        BY <2>2, <4>1, <4>2, <4>3
    <3>4. RByggnad(K(s), rad.id) \notin DOMAIN f /\ RAdresse(K(s), rad.id) \notin DOMAIN f
      BY <3>3, RadType, RadUlik
    <3> QED
      BY <1>2, <3>2, <3>4, ByggBevares
  <2> QED
    BY <2>1, <2>2
<1>4. ASSUME U(s) # Feilet, NEW rad \in Gjort(s, "ressurs")' PROVE RessursGjort(s, rad)'
  <2>1. CASE Na(s).type = "ressurs" /\ rad = Na(s).rad
    BY <2>1
  <2>2. CASE ~ (Na(s).type = "ressurs" /\ rad = Na(s).rad)
    <3>1. rad \in Gjort(s, "ressurs")
      BY <1>2, <1>4, <2>2
    <3>2. RessursGjort(s, rad)
      BY <1>1, <1>4, <3>1 DEF OktLogg
    <3>3. Na(s).type = "ressurs" => rad.id # Na(s).rad.id
      <4>1. rad \in Verdier(MedId(U(s).ressurs))
        BY <1>1, <1>4, <3>1, GjortDel
      <4>2. Na(s).type = "ressurs" => Na(s).rad \in Verdier(MedId(U(s).ressurs))
        BY <1>1, NaHva
      <4>3. \A a, b \in Verdier(MedId(U(s).ressurs)) : a.id = b.id => a = b
        BY <1>1, <1>4, OktTekst, Zenon DEF EntydigeId, U, OktType, Laster
      <4> QED
        BY <2>2, <4>1, <4>2, <4>3
    <3>4. RRessurs(K(s), rad.id) \notin DOMAIN f
      BY <3>3, RadType, RadUlik
    <3> QED
      BY <1>2, <3>2, <3>4, RessursBevares
  <2> QED
    BY <2>1, <2>2
<1>5. ~ Ventende(s)'
  BY DEF Trinn, Ventende
<1>6. OktLogg(s)'
  BY <1>2, <1>3, <1>4, <1>5 DEF OktLogg
<1>7. \A t \in Okt \ {s} : OktLogg(t)'
  BY LikLogg DEF ILogg, Trinn, AndreLike
<1>8. \A k \in Kommune : LastetSom(k)'
  BY DEF ILogg, LastetSom, ByggStaar, Trinn
<1> QED
  BY <1>6, <1>7, <1>8 DEF ILogg

\* The first statement has nothing behind it.
LEMMA RegistrerLogg ==
  ASSUME IType, ILogg, NEW s \in Okt, TrinnRegistrer(s)
  PROVE  ILogg'
<1>1. OktType(s) /\ Laster(s) /\ Na(s).type = "registrer" /\ Trinn(s, SannF(s))
  BY DEF TrinnRegistrer, Trinn, IType
<1>2. pos[s] = 1
  BY <1>1, NaHva
<1>3. 1..(pos[s] - 1) = {}
  BY <1>2
<1>4. \A type : Gjort(s, type) = {}
  BY <1>3 DEF Gjort, RaderAv
<1>5. Gjort(s, "bygg")' = {} /\ Gjort(s, "ressurs")' = {}
  BY <1>1, <1>4, TrinnGjort
<1>6. OktLogg(s)'
  BY <1>1, <1>5 DEF OktLogg, Trinn, Ventende
<1>7. \A t \in Okt \ {s} : OktLogg(t)'
  BY <1>1, LikLogg DEF ILogg, Trinn, AndreLike
<1>8. \A k \in Kommune : LastetSom(k)'
  BY <1>1 DEF ILogg, LastetSom, ByggStaar, Trinn
<1> QED
  BY <1>6, <1>7, <1>8 DEF ILogg

\* A building that is loaded is accounted for.
LEMMA ByggLogg ==
  ASSUME EntydigeId, IType, ILogg, NEW s \in Okt, TrinnBygg(s)
  PROVE  ILogg'
<1> PICK rad : rad = Na(s).rad
  OBVIOUS
<1> PICK k : k = K(s)
  OBVIOUS
<1> DEFINE x   == RByggnad(k, rad.id)
           adr == RAdresse(k, rad.id)
<1>1. /\ Laster(s) /\ OktType(s) /\ Na(s).type = "bygg" /\ Trinn(s, ByggF(s))
      /\ logg'[s] = logg[s]
  BY DEF TrinnBygg, Trinn, IType
<1>2. rad \in ByggRad /\ rad.id \in ByggId /\ K(s) \in Kommune /\ K(s)' = K(s)
  BY <1>1, NaHva, OktTekst, TrinnGjort
<1>3. adr \in Rader /\ adr[1] = "adresse" /\ x[1] = "bygning"
  BY <1>2, Radene, RadType
<1>4. DOMAIN ByggF(s) = {x} \cup (IF rad.gate = Ingen THEN {} ELSE {adr})
  BY <1>1, TrengerHva DEF ByggF
<1>5. /\ ByggF(s)[x] = rad.verdi
      /\ rad.gate # Ingen => ByggF(s)[adr] = NyAdresse(Verdi(s, adr), rad.gate)
  BY <1>1, <1>3, TrengerHva DEF ByggF
<1>6. rad.gate # Ingen => /\ NyAdresse(Verdi(s, adr), rad.gate) # Ingen
                          /\ \/ NyAdresse(Verdi(s, adr), rad.gate).tekst = rad.gate
                             \/ NyAdresse(Verdi(s, adr), rad.gate).geokoding \notin {"ukjent", "feilet"}
  <2> SUFFICES ASSUME rad.gate # Ingen
               PROVE  /\ NyAdresse(Verdi(s, adr), rad.gate) # Ingen
                      /\ \/ NyAdresse(Verdi(s, adr), rad.gate).tekst = rad.gate
                         \/ NyAdresse(Verdi(s, adr), rad.gate).geokoding \notin {"ukjent", "feilet"}
    OBVIOUS
  <2>1. rad.gate \in Gate
    BY <1>2 DEF ByggRad
  <2>2. Verdi(s, adr) # Ingen => Verdi(s, adr) \in Adresser
    BY <1>1, <1>3 DEF Verdi, IType, OktType, AvTabellen
  <2>3. \A y \in Adresser : y # Ingen
    BY IngenTom
  <2> HIDE DEF adr
  <2> QED
    BY <2>1, <2>2, <2>3, NyAdresseType
<1> HIDE DEF x, adr
<1>7. /\ x \in DOMAIN ny'[s] /\ ny'[s][x] = rad.verdi
      /\ rad.gate # Ingen => adr \in DOMAIN ny'[s] /\ ny'[s][adr] = NyAdresse(Verdi(s, adr), rad.gate)
  BY <1>1, <1>4, <1>5 DEF Trinn
<1>8. ByggGjort(s, rad)'
  BY <1>2, <1>6, <1>7 DEF ByggGjort, ByggStaar, x, adr
<1>9. \A y \in DOMAIN ByggF(s) : y[1] \in {"bygning", "adresse"} /\ y \in {x, adr}
  BY <1>3, <1>4
<1> QED
  BY <1>1, <1>8, <1>9, TrinnLogg DEF x, adr

\* A building that is given up is in the log.
LEMMA ByggFeilLogg ==
  ASSUME EntydigeId, IType, ILogg, NEW s \in Okt, TrinnByggFeil(s)
  PROVE  ILogg'
<1>1. /\ Na(s).type = "bygg" /\ Trinn(s, <<>>)
      /\ logg'[s] = logg[s] \cup {<<"db_feil", Na(s).rad.id>>}
  BY DEF TrinnByggFeil
<1>2. DOMAIN <<>> = {}
  OBVIOUS
<1>3. \A rad : rad = Na(s).rad => ByggGjort(s, rad)'
  BY <1>1 DEF ByggGjort
<1> QED
  BY <1>1, <1>2, <1>3, TrinnLogg

\* A building of the extract that the resource's statement does not see was logged.
LEMMA FunnetEllerLogget ==
  ASSUME IType, ILogg, NEW s \in Okt, Laster(s), Na(s).type = "ressurs"
  PROVE  LET b == ByggFor(U(s), Na(s).rad.id)
         IN  Funnet(s) = b \/ <<"db_feil", b>> \in logg[s]
<1> DEFINE b == ByggFor(U(s), Na(s).rad.id)
<1>1. OktType(s) /\ OktLogg(s) /\ U(s) \in Uttrekk /\ U(s) # Feilet /\ K(s) \in Kommune
  BY OktTekst, NaHva DEF IType, ILogg
<1>2. CASE b = Ingen \/ RByggnad(K(s), b) \in Oyeblikk(s)
  BY <1>2, Zenon DEF Funnet
<1>3. CASE b # Ingen /\ RByggnad(K(s), b) \notin Oyeblikk(s)
  <2>1. PICK rad \in Verdier(MedId(U(s).bygg)) : rad.id = b
    BY <1>1, <1>3, ByggForKjent
  <2>2. rad \in Gjort(s, "bygg")
    BY <1>1, <2>1, GjortNaar
  <2>3. ByggGjort(s, rad)
    BY <1>1, <2>2 DEF OktLogg
  <2>4. rad.verdi \in Innhold /\ rad.id \in ByggId
    BY <1>1, <2>1, ByggMedId DEF ByggRad
  <2> DEFINE x == RByggnad(K(s), b)
  <2>5. x \in Rader
    BY <1>1, <2>1, <2>4, Radene
  <2>6. ~ (x \in DOMAIN ny[s] /\ ny[s][x] = rad.verdi)
    <3> SUFFICES ASSUME x \in DOMAIN ny[s], ny[s][x] = rad.verdi PROVE FALSE
      OBVIOUS
    <3>1. ny[s][x] # Ingen
      BY <2>4, IngenTom
    <3> HIDE DEF x
    <3>2. CASE Ventende(s)
      <4>1. x \in ser[s]
        BY <1>1, <3>1, <3>2 DEF OktLogg
      <4> QED
        BY <1>3, <3>2, <4>1 DEF Oyeblikk, x
    <3>3. CASE ~ Ventende(s)
      <4>1. x \in Synlige(s)
        BY <2>5, <3>1 DEF Synlige, Verdi
      <4> QED
        BY <1>3, <3>3, <4>1 DEF Oyeblikk, x
    <3> QED
      BY <3>2, <3>3
  <2>7. <<"db_feil", b>> \in logg[s]
    BY <2>1, <2>3, <2>6 DEF ByggGjort, ByggStaar
  <2> QED
    BY <2>7
<1> QED
  BY <1>2, <1>3

\* A resource written by a load has its type.
LEMMA NyRessursType ==
  ASSUME IType, NEW s \in Okt, TrinnRessurs(s)
  PROVE  /\ NyRessurs(Na(s).rad, Funnet(s)) \in Ressurser
         /\ NyRessurs(Na(s).rad, Funnet(s)) # Ingen
<1> DEFINE rad == Na(s).rad
<1>1. Laster(s) /\ OktType(s) /\ Na(s).type = "ressurs" /\ rad.verdi # ForStor
  BY DEF TrinnRessurs, Trinn, IType
<1>2. rad \in RessursRad /\ U(s) \in Uttrekk
  BY <1>1, NaHva, OktTekst
<1>3. Funnet(s) \in ByggId \cup {Ingen}
  BY <1>2, ByggForKjent, Zenon DEF Funnet
<1>4. rad.verdi \in Innhold
  BY <1>1, <1>2 DEF RessursRad
<1> HIDE DEF rad
<1>5. NyRessurs(rad, Funnet(s)) \in Ressurser
  BY <1>3, <1>4 DEF NyRessurs, Ressurser
<1> QED
  BY <1>5, IngenTom DEF rad

\* A resource that is loaded is accounted for.
LEMMA RessursLogg ==
  ASSUME EntydigeId, IType, ILogg, NEW s \in Okt, TrinnRessurs(s)
  PROVE  ILogg'
<1> PICK rad : rad = Na(s).rad
  OBVIOUS
<1> PICK ny0 : ny0 = NyRessurs(rad, Funnet(s))
  OBVIOUS
<1> DEFINE x == RRessurs(K(s), rad.id)
<1>1. /\ Laster(s) /\ OktType(s) /\ Na(s).type = "ressurs" /\ Trinn(s, RessursF(s))
      /\ logg'[s] = logg[s]
  BY DEF TrinnRessurs, Trinn, IType
<1>2. DOMAIN RessursF(s) = {x} /\ RessursF(s)[x] = ny0
  BY <1>1, TrengerHva DEF RessursF
<1>3. RessursStaar(ny0, U(s), rad, logg[s])
  <2>1. ny0 # Ingen
    BY NyRessursType
  <2>2. /\ ny0.verdi = rad.verdi /\ ny0.bygg = Funnet(s)
        /\ ny0.lt = IF rad.lt \in Kode THEN rad.lt ELSE Ingen
    BY DEF NyRessurs
  <2>3. Funnet(s) = ByggFor(U(s), rad.id) \/ <<"db_feil", ByggFor(U(s), rad.id)>> \in logg[s]
    BY <1>1, FunnetEllerLogget
  <2> QED
    BY <2>1, <2>2, <2>3 DEF RessursStaar
<1>4. K(s)' = K(s) /\ U(s)' = U(s)
  BY <1>1, TrinnGjort
<1>5. x \in DOMAIN ny'[s] /\ ny'[s][x] = ny0
  BY <1>1, <1>2 DEF Trinn
<1>6. RessursGjort(s, rad)'
  BY <1>1, <1>3, <1>4, <1>5 DEF RessursGjort
<1>7. x[1] = "ressurs"
  BY RadType
<1> HIDE DEF x
<1>8. \A y \in DOMAIN RessursF(s) : y[1] = "ressurs" /\ y = x
  BY <1>2, <1>7
<1> QED
  BY <1>1, <1>6, <1>8, TrinnLogg DEF x

\* The links disturb no building and no resource.
LEMMA LenkeneLogg ==
  ASSUME EntydigeId, IType, ILogg, NEW s \in Okt, TrinnSlett(s) \/ TrinnLenke(s)
  PROVE  ILogg'
<1>1. OktType(s) /\ logg'[s] = logg[s]
  BY DEF TrinnSlett, TrinnLenke, IType
<1>2. CASE TrinnSlett(s)
  <2>1. Laster(s) /\ Na(s).type = "slett" /\ Trinn(s, SlettF(s))
    BY <1>2 DEF TrinnSlett, Trinn
  <2>2. \A x \in DOMAIN SlettF(s) : x[1] = "lenke"
    BY <2>1, TrengerHva, RadType DEF SlettF, Slettes
  <2> QED
    BY <1>1, <2>1, <2>2, TrinnLogg
<1>3. CASE TrinnLenke(s)
  <2>1. Laster(s) /\ Na(s).type = "lenke" /\ Trinn(s, SannF(s))
    BY <1>3 DEF TrinnLenke, Trinn
  <2>2. K(s) \in Kommune /\ Na(s).rad.r \in RessursId \cup {Ingen}
    BY <1>1, <2>1, NaHva, OktTekst
  <2>3. DOMAIN SannF(s) = Lenkerad(K(s), Na(s).rad)
    BY <2>1, TrengerHva DEF SannF
  <2>4. \A x \in DOMAIN SannF(s) : x[1] = "lenke"
    BY <2>2, <2>3, Radene, RadType
  <2> QED
    BY <1>1, <2>1, <2>4, TrinnLogg
<1> QED
  BY <1>2, <1>3

\* The rows of an extract are rows of the database.
LEMMA UttrekketsRader ==
  ASSUME NEW k \in Kommune, NEW u \in Uttrekk
  PROVE  /\ \A rad \in Verdier(MedId(u.bygg)) : RByggnad(k, rad.id) \in Rader /\ RAdresse(k, rad.id) \in Rader
         /\ \A rad \in Verdier(MedId(u.ressurs)) : RRessurs(k, rad.id) \in Rader
  BY Radene, ByggMedId, RessursMedId

\* A load that was committed stays accounted for while its rows stay.
LEMMA LastetBevares ==
  ASSUME NEW k \in Kommune, LastetSom(k), lastet'[k] = lastet[k], avvik'[k] = avvik[k],
         \A x \in Rader : x[2] = k /\ x[1] # "kommune" => db'[x] = db[x]
  PROVE  LastetSom(k)'
<1> SUFFICES ASSUME lastet[k] # Ingen PROVE LastetSom(k)'
  BY DEF LastetSom
<1> DEFINE u == lastet[k]
<1>1. u \in Uttrekk
  BY TekstSlaaOpp DEF LastetSom
<1>2. \A rad \in Verdier(MedId(u.bygg)) : ByggStaar(db, k, rad)' <=> ByggStaar(db, k, rad)
  BY <1>1, UttrekketsRader, RadType DEF ByggStaar
<1>3. \A rad \in Verdier(MedId(u.ressurs)) : db'[RRessurs(k, rad.id)] = db[RRessurs(k, rad.id)]
  BY <1>1, UttrekketsRader, RadType
<1> HIDE DEF u
<1>4. u = lastet[k] /\ u = lastet'[k]
  BY DEF u
<1> QED
  BY <1>2, <1>3, <1>4 DEF LastetSom

\* What a session accounts for is accounted for when it commits.
LEMMA FullforLogg ==
  ASSUME IType, IEgne, ILogg, NEW s \in Okt, TrinnFullfor(s)
  PROVE  ILogg'
<1>1. /\ Laster(s) /\ OktType(s) /\ EgneRader(s) /\ OktLogg(s)
      /\ Na(s).type = "commit" /\ K(s) \in Kommune
  BY OktTekst DEF TrinnFullfor, IType, IEgne, ILogg
<1>2. AndreLike(s) /\ pos'[s] = 1 /\ ser'[s] = Ingen /\ ny'[s] = <<>>
  BY DEF TrinnFullfor
<1>3. /\ \A x \in DOMAIN ny[s] : db'[x] = ny[s][x]
      /\ \A x \in Rader \ DOMAIN ny[s] : db'[x] = db[x]
  BY DEF TrinnFullfor, IType, Domener
<1>4. OktLogg(s)'
  BY <1>2, Begynner DEF OktLogg, Ventende
<1>5. \A t \in Okt \ {s} : OktLogg(t)'
  BY <1>2, LikLogg DEF ILogg, AndreLike
<1>6. ASSUME NEW k \in Kommune, k # K(s) \/ U(s) = Feilet PROVE LastetSom(k)'
  <2>1. lastet'[k] = lastet[k] /\ avvik'[k] = avvik[k]
    BY <1>6 DEF TrinnFullfor, IType, Domener
  <2>2. \A x \in Rader : x[2] = k /\ x[1] # "kommune" => db'[x] = db[x]
    BY <1>1, <1>3, <1>6 DEF EgneRader
  <2> QED
    BY <2>1, <2>2, LastetBevares DEF ILogg
<1>7. ASSUME U(s) # Feilet, NEW k, k = K(s) PROVE LastetSom(k)'
  <2> DEFINE u == U(s)
  <2>1. lastet'[k] = u /\ avvik'[k] = logg[s] \cup UkjenteId(u)
    BY <1>1, <1>7 DEF TrinnFullfor, IType, Domener
  <2>2. \E f \in Filer : u = f[k] /\ f[k] # Feilet
    BY <1>1, <1>7 DEF U, OktType, Laster
  <2>3. ASSUME NEW rad \in Verdier(MedId(u.bygg))
        PROVE  ByggStaar(db, k, rad)' \/ <<"db_feil", rad.id>> \in avvik'[k]
    <3>1. rad \in Gjort(s, "bygg")
      BY <1>1, <1>7, GjortNaar
    <3>2. ByggGjort(s, rad)
      BY <1>1, <1>7, <3>1 DEF OktLogg
    <3> QED
      BY <1>3, <1>7, <2>1, <3>2 DEF ByggGjort, ByggStaar
  <2>4. ASSUME NEW rad \in Verdier(MedId(u.ressurs))
        PROVE  RessursStaar(db'[RRessurs(k, rad.id)], u, rad, avvik'[k])
    <3>1. rad \in Gjort(s, "ressurs")
      BY <1>1, <1>7, GjortNaar
    <3>2. RessursGjort(s, rad)
      BY <1>1, <1>7, <3>1 DEF OktLogg
    <3> QED
      BY <1>3, <1>7, <2>1, <3>2 DEF RessursGjort, RessursStaar
  <2> HIDE DEF u
  <2> QED
    BY <2>1, <2>2, <2>3, <2>4 DEF LastetSom
<1> QED
  BY <1>4, <1>5, <1>6, <1>7 DEF ILogg

\* A geocoder or an editor changes nothing a load accounts for.
LEMMA AdresseLogg ==
  ASSUME IType, ILogg, TrinnAdresse
  PROVE  ILogg'
<1>1. PICK j \in Kommune, c \in ByggId, g \in {"matrikkel", "manuell", "feilet"} :
        /\ SettStatus(j, c, g)
        /\ g = "feilet" => db[RAdresse(j, c)].geokoding = "ukjent"
  BY DEF TrinnAdresse
<1> DEFINE a == RAdresse(j, c)
<1>2. /\ db[a] # Ingen /\ db' = [db EXCEPT ![a].geokoding = g]
      /\ UNCHANGED <<ny, ser, ko, fil, pos, logg, lastet, avvik>>
  BY <1>1 DEF SettStatus, oktvars
<1>3. a \in Rader /\ a[1] = "adresse"
  BY Radene, RadType
<1>4. g = "feilet" => db[a].geokoding = "ukjent"
  BY <1>1
<1> HIDE DEF a
<1>5. db[a] \in Adresser
  BY <1>2, <1>3 DEF IType, AvTabellen
<1>6. db'[a] = [db[a] EXCEPT !.geokoding = g] /\ \A x \in Rader \ {a} : db'[x] = db[x]
  BY <1>2, <1>3 DEF IType, Domener
<1>7. db'[a] \in Adresser /\ db'[a].tekst = db[a].tekst /\ db'[a].geokoding = g
  BY <1>5, <1>6 DEF Adresser
<1>8. db'[a] # Ingen
  BY <1>7, IngenTom
<1>9. \A t \in Okt : OktLogg(t)'
  BY <1>2, LikLogg DEF ILogg, Lik
<1>10. ASSUME NEW k \in Kommune, lastet[k] # Ingen PROVE LastetSom(k)'
  <2> DEFINE u == lastet[k]
  <2>1. u \in Uttrekk
    BY <1>10, TekstSlaaOpp DEF ILogg, LastetSom
  <2>2. ASSUME NEW rad \in Verdier(MedId(u.bygg)), ByggStaar(db, k, rad) PROVE ByggStaar(db, k, rad)'
    <3> DEFINE x == RByggnad(k, rad.id)
               d == RAdresse(k, rad.id)
    <3>1. x \in Rader /\ d \in Rader /\ x[1] = "bygning"
      BY <2>1, UttrekketsRader, RadType
    <3>2. /\ db[x] = rad.verdi
          /\ rad.gate # Ingen => /\ db[d] # Ingen
                                 /\ db[d].tekst = rad.gate \/ db[d].geokoding \notin {"ukjent", "feilet"}
      BY <2>2 DEF ByggStaar
    <3> HIDE DEF x, d
    <3>3. db'[x] = rad.verdi
      BY <1>3, <1>6, <3>1, <3>2
    <3>4. CASE d # a
      <4>1. db'[d] = db[d]
        BY <1>6, <3>1, <3>4
      <4> QED
        BY <3>2, <3>3, <4>1 DEF ByggStaar, x, d
    <3>5. CASE d = a
      <4>1. rad.gate # Ingen => /\ db'[d] # Ingen
                                /\ db'[d].tekst = rad.gate \/ db'[d].geokoding \notin {"ukjent", "feilet"}
        BY <1>4, <1>7, <1>8, <3>2, <3>5
      <4> QED
        BY <3>3, <4>1 DEF ByggStaar, x, d
    <3> QED
      BY <3>4, <3>5
  <2>3. \A rad \in Verdier(MedId(u.ressurs)) : db'[RRessurs(k, rad.id)] = db[RRessurs(k, rad.id)]
    <3> TAKE rad \in Verdier(MedId(u.ressurs))
    <3>1. RRessurs(k, rad.id) \in Rader /\ RRessurs(k, rad.id)[1] = "ressurs"
      BY <2>1, UttrekketsRader, RadType
    <3> QED
      BY <1>3, <1>6, <3>1
  <2> HIDE DEF u
  <2>4. u = lastet[k] /\ u = lastet'[k] /\ avvik'[k] = avvik[k]
    BY <1>2 DEF u
  <2> QED
    BY <1>10, <2>2, <2>3, <2>4 DEF ILogg, LastetSom
<1>11. \A k \in Kommune : LastetSom(k)'
  BY <1>2, <1>10 DEF LastetSom
<1> QED
  BY <1>9, <1>11 DEF ILogg

\* Every step keeps the loads accounted for.
LEMMA LoggSteg ==
  ASSUME EntydigeId, IType, IEgne, ILogg, [Last \/ Adressearbeid]_vars
  PROVE  ILogg'
<1>1. Former
  BY StegFormer DEF IType, OktType
<1>2. ASSUME UNCHANGED <<db, lastet, avvik>> PROVE \A k \in Kommune : LastetSom(k)'
  BY <1>2 DEF ILogg, LastetSom, ByggStaar
<1>3. CASE UNCHANGED vars
  BY <1>2, <1>3, LikLogg DEF vars, Lik, ILogg
<1>4. ASSUME NEW s \in Okt, NEW f \in Filer, Start(s, f) PROVE ILogg'
  <2>1. /\ ko[s] = <<>> /\ AndreLike(s) /\ pos'[s] = 1 /\ ny'[s] = ny[s] /\ ser'[s] = ser[s]
        /\ UNCHANGED <<db, lastet, avvik>>
    BY <1>4 DEF Start, IType, Domener, txvars, AndreLike, Lik
  <2>2. ny[s] = <<>> /\ ser[s] = Ingen
    BY <2>1 DEF IType, OktType, Ventende
  <2>3. OktLogg(s)'
    BY <2>1, <2>2, Begynner DEF OktLogg, Ventende
  <2> QED
    BY <1>2, <2>1, <2>3, LikLogg DEF ILogg, AndreLike
<1>5. ASSUME NEW s \in Okt, Slutt(s) PROVE ILogg'
  <2>1. /\ AndreLike(s) /\ pos'[s] = 1 /\ ny'[s] = <<>> /\ ser'[s] = Ingen
        /\ UNCHANGED <<db, lastet, avvik>>
    BY <1>5 DEF Slutt
  <2>2. OktLogg(s)'
    BY <2>1, Begynner DEF OktLogg, Ventende
  <2> QED
    BY <1>2, <2>1, <2>2, LikLogg DEF ILogg, AndreLike
<1>6. ASSUME NEW s \in Okt, TrinnVent(s) PROVE ILogg'
  <2>1. /\ ser' = [ser EXCEPT ![s] = Synlige(s)]
        /\ UNCHANGED <<db, ny, ko, fil, pos, logg, lastet, avvik>>
    BY <1>6 DEF TrinnVent
  <2>2. \A t \in Okt \ {s} : OktLogg(t)'
    BY <2>1, LikLogg DEF IType, Domener, Lik, ILogg
  <2>3. OktLogg(s)'
    <3>1. /\ K(s)' = K(s) /\ U(s)' = U(s) /\ (Laster(s)' <=> Laster(s)) /\ ny'[s] = ny[s]
          /\ logg'[s] = logg[s] /\ ser'[s] = Synlige(s)
          /\ \A type : Gjort(s, type)' = Gjort(s, type)
      BY <2>1 DEF K, U, Laster, Gjort, IType, Domener
    <3>2. \A rad : /\ ByggGjort(s, rad)' <=> ByggGjort(s, rad)
                   /\ RessursGjort(s, rad)' <=> RessursGjort(s, rad)
      BY <3>1 DEF ByggGjort, ByggStaar, RessursGjort
    <3>3. \A x \in DOMAIN ny[s] : ny[s][x] # Ingen => x \in Synlige(s)
      BY DEF Synlige, Verdi, IType, OktType
    <3> QED
      BY <3>1, <3>2, <3>3 DEF ILogg, OktLogg
  <2> QED
    BY <1>2, <2>1, <2>2, <2>3 DEF ILogg
<1> QED
  BY <1>1, <1>3, <1>4, <1>5, <1>6, AdresseLogg, RegistrerLogg, ByggLogg, ByggFeilLogg, RessursLogg,
     LenkeneLogg, FullforLogg DEF Former

\* Loads that are accounted for lose nothing silently.
LEMMA LoggGir ==
  ASSUME ILogg
  PROVE  LastetEllerLogget
<1> SUFFICES ASSUME NEW k \in Kommune, lastet[k] # Ingen
             PROVE  /\ \A rad \in Verdier(MedId(lastet[k].bygg)) :
                         \/ /\ db[RByggnad(k, rad.id)] = rad.verdi
                            /\ rad.gate # Ingen =>
                                 /\ db[RAdresse(k, rad.id)] # Ingen
                                 /\ \/ db[RAdresse(k, rad.id)].tekst = rad.gate
                                    \/ db[RAdresse(k, rad.id)].geokoding \notin {"ukjent", "feilet"}
                         \/ <<"db_feil", rad.id>> \in avvik[k]
                    /\ \A rad \in Verdier(MedId(lastet[k].ressurs)) :
                         LET lagret == db[RRessurs(k, rad.id)]
                             b == ByggFor(lastet[k], rad.id)
                         IN  /\ lagret # Ingen
                             /\ lagret.verdi = rad.verdi
                             /\ lagret.bygg = b \/ <<"db_feil", b>> \in avvik[k]
                             /\ lagret.lt = rad.lt \/ <<"ukjent_id", rad.lt>> \in avvik[k]
  BY Zenon DEF LastetEllerLogget
<1>1. LastetSom(k)
  BY DEF ILogg
<1>2. \A rad \in Verdier(MedId(lastet[k].bygg)) :
        ByggStaar(db, k, rad) \/ <<"db_feil", rad.id>> \in avvik[k]
  BY <1>1 DEF LastetSom
<1>3. ASSUME NEW rad \in Verdier(MedId(lastet[k].ressurs))
      PROVE  /\ RessursStaar(db[RRessurs(k, rad.id)], lastet[k], rad, avvik[k])
             /\ rad.lt \in Kode \cup {Ingen} \/ <<"ukjent_id", rad.lt>> \in avvik[k]
  <2>1. RessursStaar(db[RRessurs(k, rad.id)], lastet[k], rad, avvik[k])
    BY <1>1 DEF LastetSom
  <2>2. lastet[k] # Feilet /\ UkjenteId(lastet[k]) \subseteq avvik[k]
    BY <1>1 DEF LastetSom
  <2>3. ASSUME rad.lt \notin Kode \cup {Ingen} PROVE <<"ukjent_id", rad.lt>> \in UkjenteId(lastet[k])
    <3>1. rad.lt \in {r.lt : r \in Verdier(MedId(lastet[k].ressurs))}
      OBVIOUS
    <3> QED
      BY <2>2, <2>3, <3>1 DEF UkjenteId
  <2> QED
    BY <2>1, <2>2, <2>3
<1> QED
  BY <1>2, <1>3 DEF ByggStaar, RessursStaar

\* What the sessions and the latest loads account for, in every state.
LEMMA ILoggAlltid ==
  ASSUME EntydigeId
  PROVE  SpecMedAdresser => []ILogg
<1>1. Init => ILogg
  <2> SUFFICES ASSUME Init PROVE ILogg
    OBVIOUS
  <2>1. (\A s \in Okt : ~ Laster(s)) /\ \A k \in Kommune : lastet[k] = Ingen
    BY DEF Init, Laster
  <2> QED
    BY <2>1 DEF ILogg, OktLogg, LastetSom
<1>2. IType /\ IEgne /\ ILogg /\ [Last \/ Adressearbeid]_vars => ILogg'
  BY LoggSteg
<1> QED
  BY <1>1, <1>2, ITypeAlltid, IEgneAlltid, PTL DEF SpecMedAdresser

\* Nothing of the latest committed load is lost silently, whatever other loads, the geocoder
\* and the editors do: what is not in the database as delivered is in the deviations of that
\* load.  The extract must have each id once: of two rows with one id the last one stands.
THEOREM LastetEllerLoggetAlltid ==
  ASSUME EntydigeId
  PROVE  SpecMedAdresser => []LastetEllerLogget
<1>1. ILogg => LastetEllerLogget
  BY LoggGir
<1> QED
  BY <1>1, ILoggAlltid, PTL

----------------------------------------------------------------------------
(* One session: what is behind it in its file.                             *)

\* The kommune is loaded from the file, or its own data is why not.
Avgjort(s, k) == \/ fil[s][k] = Feilet
                 \/ \E rad \in Verdier(fil[s][k].ressurs) : rad.verdi = ForStor
                 \/ lastet[k] = fil[s][k]

Rest(s) == \A k \in Kommune : k \in Verdier(ko[s]) \/ Avgjort(s, k)

IRest == \A s \in Okt : Okt = {s} /\ Laster(s) => Rest(s)

\* A step of the only session settles a kommune or leaves the rest.
LEMMA StegRest ==
  ASSUME IType, NEW s \in Okt, Okt = {s}, Rest(s), Steg(s)
  PROVE  Rest(s)'
<1>1. Domener /\ OktType(s)
  BY DEF IType
<1>2. ASSUME ko'[s] = ko[s], fil'[s] = fil[s], lastet' = lastet PROVE Rest(s)'
  BY <1>2 DEF Rest, Avgjort
<1>3. ASSUME NEW f, Trinn(s, f) PROVE Rest(s)'
  BY <1>2, <1>3 DEF Trinn
\* The kommune at the head is settled and the rest of the file is left.
<1>5. ASSUME NEW k, k = K(s), fil'[s] = fil[s],
             fil[s][k] = Feilet \/ (\E rad \in Verdier(fil[s][k].ressurs) : rad.verdi = ForStor)
               \/ lastet'[k] = fil[s][k],
             Laster(s), ko'[s] = Tail(ko[s]),
             \A j \in Kommune \ {k} : lastet'[j] = lastet[j]
      PROVE  Rest(s)'
  <2>1. Verdier(ko[s]) = {k} \cup Verdier(ko'[s])
    BY <1>1, <1>5, KoType DEF OktType, Laster, K
  <2>2. Avgjort(s, k)'
    BY <1>5 DEF Avgjort
  <2>3. ASSUME NEW j \in Kommune, j \notin Verdier(ko'[s]), j # k PROVE Avgjort(s, j)'
    <3>1. Avgjort(s, j)
      BY <2>1, <2>3 DEF Rest
    <3> QED
      BY <1>5, <2>3, <3>1 DEF Avgjort
  <2> QED
    BY <2>2, <2>3 DEF Rest
<1>6. CASE RessursAvvises(s)
  <2>1. Laster(s) /\ Na(s).type = "ressurs" /\ Na(s).rad.verdi = ForStor /\ Avbryt(s)
    BY <1>6 DEF RessursAvvises, Er, Laster
  <2>2. Slutt(s) /\ ko'[s] = Tail(ko[s])
    BY <1>1, <2>1, AvbrytForm
  <2>3. U(s) \in Uttrekk /\ Na(s).rad \in Verdier(MedId(U(s).ressurs))
    BY <1>1, <2>1, NaHva, OktTekst
  <2>4. Na(s).rad \in Verdier(U(s).ressurs)
    <3>1. U(s).ressurs \in Seq(RessursRad)
      BY <2>3 DEF Uttrekk
    <3> QED
      BY <2>3, <3>1, MedIdVerdier
  <2>5. PICK k : k = K(s)
    OBVIOUS
  <2>6. \E rad \in Verdier(fil[s][k].ressurs) : rad.verdi = ForStor
    BY <2>1, <2>4, <2>5 DEF U
  <2> QED
    BY <1>5, <2>1, <2>2, <2>5, <2>6 DEF Slutt
<1>7. CASE Fullfor(s)
  <2>1. TrinnFullfor(s) /\ K(s) \in Kommune
    BY <1>1, <1>7, FullforForm, OktTekst DEF TrinnFullfor
  <2>2. PICK k : k = K(s)
    OBVIOUS
  <2>3. fil[s][k] = Feilet \/ lastet'[k] = fil[s][k]
    BY <2>1, <2>2 DEF TrinnFullfor, U, IType, Domener
  <2>4. \A j \in Kommune \ {k} : lastet'[j] = lastet[j]
    BY <2>1, <2>2 DEF TrinnFullfor, IType, Domener
  <2> QED
    BY <1>5, <2>1, <2>2, <2>3, <2>4 DEF TrinnFullfor
<1>8. CASE VentPaLaas(s)
  BY <1>2, <1>8 DEF VentPaLaas, oktvars
<1>9. CASE Registrer(s)
  BY <1>1, <1>3, <1>9, RegistrerForm DEF TrinnRegistrer
<1>10. CASE LastBygg(s)
  BY <1>1, <1>3, <1>10, LastByggForm DEF TrinnBygg
<1>11. CASE ByggAvvises(s)
  BY <1>1, <1>3, <1>11, ByggFeilerForm DEF TrinnByggFeil, ByggAvvises
<1>12. CASE LastRessurs(s)
  BY <1>1, <1>3, <1>12, LastRessursForm DEF TrinnRessurs
<1>13. CASE SlettLenker(s)
  BY <1>1, <1>3, <1>13, SlettLenkerForm DEF TrinnSlett
<1>14. CASE LastLenke(s)
  BY <1>1, <1>3, <1>14, LastLenkeForm DEF TrinnLenke
<1>15. CASE Vranglaas(s)
  BY <1>15 DEF Vranglaas
<1> QED
  BY <1>6, <1>7, <1>8, <1>9, <1>10, <1>11, <1>12, <1>13, <1>14, <1>15 DEF Steg

\* Every step keeps what is behind the only session settled.
LEMMA RestSteg ==
  ASSUME IType, IRest, [Last \/ Adressearbeid]_vars
  PROVE  IRest'
<1> SUFFICES ASSUME NEW s \in Okt, Okt = {s}, Laster(s)' PROVE Rest(s)'
  BY DEF IRest
<1>1. ASSUME ko'[s] = ko[s], fil'[s] = fil[s], lastet' = lastet PROVE Rest(s)'
  BY <1>1 DEF IRest, Rest, Avgjort, Laster
<1>2. CASE UNCHANGED vars
  BY <1>1, <1>2 DEF vars
<1>3. CASE Adressearbeid
  BY <1>1, <1>3, Zenon DEF Adressearbeid, Geokodet, SattForHand, SettStatus, oktvars
<1>4. ASSUME NEW f \in Filer, Start(s, f) PROVE Rest(s)'
  <2>1. ko'[s] = Rekke
    BY <1>4 DEF Start, IType, Domener
  <2>2. Verdier(Rekke) = Kommune
    BY Uttrekkene DEF Verdier
  <2> QED
    BY <2>1, <2>2 DEF Rest
<1>5. CASE Krasj(s)
  <2>1. ko'[s] = <<>>
    BY <1>5 DEF Krasj, IType, Domener
  <2> QED
    BY <2>1 DEF Laster
<1>6. CASE Steg(s)
  <2>1. Laster(s)
    BY <1>6 DEF Steg, Registrer, LastBygg, ByggAvvises, LastRessurs, RessursAvvises, SlettLenker,
                LastLenke, Fullfor, VentPaLaas, Vranglaas, Er, Laster
  <2> QED
    BY <1>6, <2>1, StegRest DEF IRest
<1> QED
  BY <1>2, <1>3, <1>4, <1>5, <1>6 DEF Last

\* A record the database cannot take costs its own kommune only: when the last statement of a
\* file has run in the only session, every other kommune is loaded from that file.
THEOREM AndreKommunerLastesAlltid == SpecMedAdresser => AndreKommunerLastes
<1>1. Init => IRest
  BY DEF Init, IRest, Laster
<1>2. IType /\ IRest /\ [Last \/ Adressearbeid]_vars => IRest'
  BY RestSteg
<1>3. IType /\ IRest /\ [Last \/ Adressearbeid]_vars =>
        [\A s \in Okt : Okt = {s} /\ Steg(s) /\ ko'[s] = <<>> =>
           \A k \in Kommune :
             LET u == fil[s][k]
             IN  \/ u = Feilet
                 \/ \E rad \in Verdier(u.ressurs) : rad.verdi = ForStor
                 \/ lastet'[k] = u]_vars
  <2> SUFFICES ASSUME IType, IRest, NEW s \in Okt, Okt = {s}, Steg(s), ko'[s] = <<>>, NEW k \in Kommune
               PROVE  \/ fil[s][k] = Feilet
                      \/ \E rad \in Verdier(fil[s][k].ressurs) : rad.verdi = ForStor
                      \/ lastet'[k] = fil[s][k]
    OBVIOUS
  <2>1. Laster(s)
    BY DEF Steg, Registrer, LastBygg, ByggAvvises, LastRessurs, RessursAvvises, SlettLenker,
           LastLenke, Fullfor, VentPaLaas, Vranglaas, Er, Laster
  <2>2. Rest(s)'
    BY <2>1, StegRest DEF IRest
  <2>3. Verdier(ko'[s]) = {}
    BY DEF Verdier
  <2>4. fil'[s] = fil[s]
    BY DEF Steg, Registrer, LastBygg, ByggAvvises, ByggFeiler, LastRessurs, RessursAvvises, Avbryt,
           NesteKommune, SlettLenker, LastLenke, Fullfor, VentPaLaas, Vranglaas, oktvars
  <2> QED
    BY <2>2, <2>3, <2>4 DEF Rest, Avgjort
<1> QED
  BY <1>1, <1>2, <1>3, ITypeAlltid, PTL DEF SpecMedAdresser, AndreKommunerLastes

----------------------------------------------------------------------------
(* The load as one undivided step: what a session holds is what its extract  *)
(* says over the rows that are in the database.                            *)

\* The buildings the open transaction has given up, and those it has loaded.
Oppgitt(s) == {b \in ByggId : <<"db_feil", b>> \in logg[s]}
Ferdige(s) == {rad \in Gjort(s, "bygg") : rad.id \notin Oppgitt(s)}

\* A building it has loaded.
ByggHelt(s, rad) ==
  LET x == RByggnad(K(s), rad.id)
      a == RAdresse(K(s), rad.id)
  IN  /\ ~ rad.feil
      /\ x \in DOMAIN ny[s] /\ ny[s][x] = rad.verdi
      /\ rad.gate # Ingen => a \in DOMAIN ny[s] /\ ny[s][a] = NyAdresse(db[a], rad.gate)

\* A resource it has loaded: without its building only if that was given up, and with a
\* building that was given up only if an earlier load brought it.
RessursHel(s, rad) ==
  LET x == RRessurs(K(s), rad.id)
      b == ByggFor(U(s), rad.id)
  IN  /\ rad.verdi # ForStor
      /\ x \in DOMAIN ny[s]
      /\ \/ /\ ny[s][x] = NyRessurs(rad, b)
            /\ b \in Oppgitt(s) => db[RByggnad(K(s), b)] # Ingen
         \/ ny[s][x] = NyRessurs(rad, Ingen) /\ b \in Oppgitt(s)

\* The rows it may hold.
Skrevet(s, x) ==
  \/ x = RKommune(K(s))
  \/ x \in Lenkerader(K(s))
  \/ \E rad \in Gjort(s, "ressurs") : x = RRessurs(K(s), rad.id)
  \/ \E rad \in Ferdige(s) : x = RByggnad(K(s), rad.id)
  \/ \E rad \in Ferdige(s) : rad.gate # Ingen /\ x = RAdresse(K(s), rad.id)

\* Past the first statement of an extract.
Holder(s) ==
  /\ logg[s] = Leseavvik(U(s)) \cup {<<"db_feil", b>> : b \in Oppgitt(s)}
  /\ Oppgitt(s) \subseteq {rad.id : rad \in Gjort(s, "bygg")}
  /\ \A x \in DOMAIN ny[s] : Skrevet(s, x)
  /\ \A rad \in Ferdige(s) : ByggHelt(s, rad)
  /\ \A rad \in Gjort(s, "ressurs") : RessursHel(s, rad)
  /\ Ventende(s) => \A b \in ByggId :
                      RByggnad(K(s), b) \in ser[s] => Verdi(s, RByggnad(K(s), b)) # Ingen

OktHel(s) ==
  Laster(s) => /\ pos[s] = 1 => DOMAIN ny[s] = {}
               /\ pos[s] # 1 => Verdi(s, RKommune(K(s))) # Ingen
               /\ pos[s] # 1 /\ U(s) # Feilet => Holder(s)

\* Only links are deleted.
KunLenkerSlettes(s) == \A x \in DOMAIN ny[s] : ny[s][x] = Ingen => x[1] = "lenke"

IHel == \A s \in Okt : OktHel(s) /\ KunLenkerSlettes(s)

\* The first statement registers, and the buildings come before the resources, each once.
LEMMA ForstBygg ==
  ASSUME NEW s \in Okt, OktType(s), Laster(s)
  PROVE  /\ pos[s] = 1 <=> Na(s).type = "registrer"
         /\ Na(s).type = "bygg" => Gjort(s, "ressurs") = {}
         /\ ByggEnGang /\ Na(s).type = "bygg" => \A rad \in Gjort(s, "bygg") : rad.id # Na(s).rad.id
<1> DEFINE t == Tekst[U(s)]
           p == pos[s]
<1>1. p \in 1..Len(t) /\ Len(t) \in Nat
  BY OktTekst DEF OktType, Laster
<1>2. Na(s) = t[p] /\ \A type : Gjort(s, type) = RaderAv(t, type, p - 1)
  BY DEF Na, Gjort
<1>3. CASE U(s) = Feilet
  <2>1. Len(t) = 2 /\ t[1].type = "registrer" /\ t[2].type = "commit"
    BY <1>3, OktTekst, TekstFeilet DEF Setning
  <2> HIDE DEF t, p
  <2> QED
    BY <1>1, <1>2, <2>1 DEF p
<1>4. CASE U(s) # Feilet
  <2> DEFINE bygg == MedId(U(s).bygg)
  <2>1. Ordnet(t, U(s))
    BY <1>4, OktTekst
  <2>2. ByggEnGang => \A i, j \in DOMAIN bygg : bygg[i].id = bygg[j].id => i = j
    BY <1>4, OktTekst, Zenon DEF ByggEnGang, U, OktType, Laster
  <2> HIDE DEF t, p, bygg
  <2>3. /\ t[1].type = "registrer"
        /\ \A i \in 1..Len(t) : t[i].type = "registrer" => i = 1
        /\ \A i \in 1..Len(t) : t[i].type = "bygg" =>
             /\ i - 1 \in DOMAIN bygg /\ t[i].rad = bygg[i - 1]
             /\ \A j \in 1..i : t[j].type \in {"registrer", "bygg"}
    BY <2>1 DEF Ordnet, bygg
  <2>4. p = 1 <=> t[p].type = "registrer"
    BY <1>1, <2>3
  <2>5. t[p].type = "bygg" => RaderAv(t, "ressurs", p - 1) = {}
    BY <1>1, <2>3 DEF RaderAv
  <2>6. ASSUME ByggEnGang, t[p].type = "bygg", NEW rad \in RaderAv(t, "bygg", p - 1)
        PROVE  rad.id # t[p].rad.id
    <3>1. PICK j \in 1..(p - 1) : t[j].type = "bygg" /\ t[j].rad = rad
      BY DEF RaderAv
    <3>2. j \in 1..Len(t) /\ j # p
      BY <1>1
    <3>3. /\ j - 1 \in DOMAIN bygg /\ rad = bygg[j - 1]
          /\ p - 1 \in DOMAIN bygg /\ t[p].rad = bygg[p - 1]
      BY <1>1, <2>3, <2>6, <3>1, <3>2
    <3>4. j - 1 # p - 1
      BY <1>1, <3>2
    <3> DEFINE m == j - 1
               n == p - 1
    <3>5. m \in DOMAIN bygg /\ n \in DOMAIN bygg /\ m # n /\ rad = bygg[m] /\ t[p].rad = bygg[n]
      BY <3>3, <3>4
    <3> HIDE DEF m, n
    <3> QED
      BY <2>2, <2>6, <3>5
  <2> QED
    BY <1>2, <2>4, <2>5, <2>6 DEF p
<1> QED
  BY <1>3, <1>4

\* A session that does nothing holds what it held, if the rows it holds and those that are
\* there stay.
LEMMA LikHel ==
  ASSUME NEW t \in Okt, OktType(t), OktHel(t), KunLenkerSlettes(t), Lik(t),
         \A x \in DOMAIN ny[t] : db'[x] = db[x],
         \A x \in Rader : x[1] # "lenke" /\ db[x] # Ingen => db'[x] # Ingen
  PROVE  OktHel(t)' /\ KunLenkerSlettes(t)'
<1>1. /\ K(t)' = K(t) /\ U(t)' = U(t) /\ (Laster(t)' <=> Laster(t)) /\ ny'[t] = ny[t] /\ pos'[t] = pos[t]
      /\ logg'[t] = logg[t] /\ ser'[t] = ser[t] /\ (Ventende(t)' <=> Ventende(t))
      /\ \A type : Gjort(t, type)' = Gjort(t, type)
      /\ Oppgitt(t)' = Oppgitt(t) /\ Ferdige(t)' = Ferdige(t)
  BY DEF Lik, K, U, Laster, Gjort, Ventende, Oppgitt, Ferdige
<1>2. KunLenkerSlettes(t)'
  BY <1>1 DEF KunLenkerSlettes
<1>3. ASSUME NEW x \in Rader, x[1] # "lenke", Verdi(t, x) # Ingen PROVE Verdi(t, x)' # Ingen
  BY <1>1, <1>3 DEF Verdi
<1>4. ASSUME Laster(t), pos[t] # 1, Verdi(t, RKommune(K(t))) # Ingen
      PROVE  Verdi(t, RKommune(K(t)))' # Ingen
  <2>1. RKommune(K(t)) \in Rader /\ RKommune(K(t))[1] = "kommune"
    BY <1>4, OktTekst, Radene, RadType
  <2> QED
    BY <1>1, <1>3, <1>4, <2>1
<1>5. ASSUME Laster(t), pos[t] # 1, U(t) # Feilet, Holder(t) PROVE Holder(t)'
  <2>1. K(t) \in Kommune /\ U(t) \in Uttrekk
    BY <1>5, OktTekst
  <2>2. \A x \in DOMAIN ny'[t] : Skrevet(t, x)'
    BY <1>1, <1>5 DEF Holder, Skrevet
  <2>3. ASSUME NEW rad \in Ferdige(t) PROVE ByggHelt(t, rad)'
    BY <1>1, <1>5 DEF Holder, ByggHelt
  <2>4. ASSUME NEW rad \in Gjort(t, "ressurs") PROVE RessursHel(t, rad)'
    <3> DEFINE b == ByggFor(U(t), rad.id)
               x == RByggnad(K(t), b)
    <3>1. ASSUME b \in Oppgitt(t), db[x] # Ingen PROVE db'[x] # Ingen
      <4>1. x \in Rader /\ x[1] = "bygning"
        BY <2>1, <3>1, Radene, RadType DEF Oppgitt
      <4> HIDE DEF x
      <4> QED
        BY <3>1, <4>1
    <3>2. RessursHel(t, rad)
      BY <1>5 DEF Holder
    <3> QED
      BY <1>1, <3>1, <3>2 DEF RessursHel
  <2>5. ASSUME Ventende(t), NEW b \in ByggId, RByggnad(K(t), b) \in ser[t]
        PROVE  Verdi(t, RByggnad(K(t), b))' # Ingen
    <3>1. PICK x : x = RByggnad(K(t), b)
      OBVIOUS
    <3>2. x \in Rader /\ x[1] = "bygning" /\ Verdi(t, x) # Ingen
      BY <1>5, <2>1, <2>5, <3>1, Radene, RadType DEF Holder
    <3>3. Verdi(t, x)' # Ingen
      BY <1>3, <3>2
    <3> QED
      BY <1>1, <3>1, <3>3
  <2>6. /\ logg'[t] = Leseavvik(U(t)) \cup {<<"db_feil", b>> : b \in Oppgitt(t)}
        /\ Oppgitt(t) \subseteq {rad.id : rad \in Gjort(t, "bygg")}
    BY <1>1, <1>5 DEF Holder
  <2> QED
    BY <1>1, <2>2, <2>3, <2>4, <2>5, <2>6 DEF Holder
<1>6. OktHel(t)'
  BY <1>1, <1>4, <1>5 DEF OktHel
<1> QED
  BY <1>2, <1>6

\* The geocoder or an editor changes an address that no session holds.
LEMMA AdresseUholdt ==
  ASSUME IType, TrinnAdresse
  PROVE  /\ \A x \in Rader : db[x] # Ingen => db'[x] # Ingen
         /\ \A t \in Okt : \A x \in DOMAIN ny[t] : db'[x] = db[x]
         /\ \A t \in Okt : Lik(t)
<1>1. PICK j \in Kommune, c \in ByggId, g \in {"matrikkel", "manuell", "feilet"} : SettStatus(j, c, g)
  BY DEF TrinnAdresse
<1> DEFINE d == RAdresse(j, c)
<1>2. /\ d \in Rader /\ d[1] = "adresse" /\ db[d] # Ingen /\ db' = [db EXCEPT ![d].geokoding = g]
      /\ \A t \in Okt : d \notin DOMAIN ny[t]
      /\ UNCHANGED <<ny, ser, ko, fil, pos, logg>>
  BY <1>1, Radene, RadType DEF SettStatus, oktvars
<1> HIDE DEF d
<1>3. db[d] \in Adresser
  BY <1>2 DEF IType, AvTabellen
<1>4. db'[d] = [db[d] EXCEPT !.geokoding = g] /\ \A x \in Rader \ {d} : db'[x] = db[x]
  BY <1>2 DEF IType, Domener
<1>5. db'[d] \in Adresser
  BY <1>3, <1>4 DEF Adresser
<1>6. db'[d] # Ingen
  BY <1>5, IngenTom
<1>7. \A t \in Okt : \A x \in DOMAIN ny[t] : db'[x] = db[x]
  BY <1>2, <1>4 DEF IType, OktType
<1> QED
  BY <1>2, <1>4, <1>6, <1>7 DEF Lik

\* A commit changes no row that another session holds and removes nothing but links.
LEMMA FullforUholdt ==
  ASSUME IType, NEW s \in Okt, KunLenkerSlettes(s), TrinnFullfor(s)
  PROVE  /\ \A x \in Rader : x[1] # "lenke" /\ db[x] # Ingen => db'[x] # Ingen
         /\ \A t \in Okt \ {s} : \A x \in DOMAIN ny[t] : db'[x] = db[x]
<1>1. /\ \A x \in DOMAIN ny[s] : db'[x] = ny[s][x]
      /\ \A x \in Rader \ DOMAIN ny[s] : db'[x] = db[x]
  BY DEF TrinnFullfor, IType, Domener
<1>2. \A t \in Okt \ {s} : \A x \in DOMAIN ny[t] : x \in Rader \ DOMAIN ny[s]
  BY DEF IType, OktType, LaasEksklusiv
<1> QED
  BY <1>1, <1>2 DEF KunLenkerSlettes

\* A building that is loaded stays loaded unless its rows are written again.
LEMMA ByggHeltBevares ==
  ASSUME NEW s, NEW f, Trinn(s, f), K(s)' = K(s), NEW rad, ByggHelt(s, rad),
         RByggnad(K(s), rad.id) \notin DOMAIN f, RAdresse(K(s), rad.id) \notin DOMAIN f
  PROVE  ByggHelt(s, rad)'
<1>1. PICK x, a : x = RByggnad(K(s), rad.id) /\ a = RAdresse(K(s), rad.id)
  OBVIOUS
<1>2. /\ db' = db /\ DOMAIN ny[s] \subseteq DOMAIN ny'[s]
      /\ \A y \in DOMAIN ny[s] \ DOMAIN f : ny'[s][y] = ny[s][y]
  BY DEF Trinn
<1>3. /\ ~ rad.feil
      /\ x \in DOMAIN ny[s] /\ ny[s][x] = rad.verdi
      /\ rad.gate # Ingen => a \in DOMAIN ny[s] /\ ny[s][a] = NyAdresse(db[a], rad.gate)
  BY <1>1 DEF ByggHelt
<1>4. /\ ~ rad.feil
      /\ x \in DOMAIN ny'[s] /\ ny'[s][x] = rad.verdi
      /\ rad.gate # Ingen => a \in DOMAIN ny'[s] /\ ny'[s][a] = NyAdresse(db'[a], rad.gate)
  BY <1>1, <1>2, <1>3
<1> QED
  BY <1>1, <1>4 DEF ByggHelt

\* A resource that is loaded stays loaded unless its row is written again.
LEMMA RessursHelBevares ==
  ASSUME NEW s, NEW f, Trinn(s, f), logg'[s] = logg[s], K(s)' = K(s), U(s)' = U(s), NEW rad,
         RessursHel(s, rad), RRessurs(K(s), rad.id) \notin DOMAIN f
  PROVE  RessursHel(s, rad)'
<1>1. PICK x : x = RRessurs(K(s), rad.id)
  OBVIOUS
<1>2. /\ db' = db /\ Oppgitt(s)' = Oppgitt(s)
      /\ x \in DOMAIN ny[s] => x \in DOMAIN ny'[s] /\ ny'[s][x] = ny[s][x]
  BY <1>1 DEF Trinn, Oppgitt
<1> QED
  BY <1>1, <1>2 DEF RessursHel

\* A statement after the first that is carried out.
LEMMA TrinnHel ==
  ASSUME IType, IHel, NEW s \in Okt, NEW f, Trinn(s, f), Na(s).type # "registrer",
         logg'[s] = logg[s],
         \A x \in DOMAIN f : f[x] = Ingen => x[1] = "lenke",
         \A x \in DOMAIN f : Skrevet(s, x)',
         \A rad \in Ferdige(s)' : ByggHelt(s, rad)',
         \A rad \in Gjort(s, "ressurs")' : RessursHel(s, rad)'
  PROVE  IHel'
<1>1. OktType(s) /\ Laster(s) /\ Na(s).type # "commit" /\ OktHel(s) /\ KunLenkerSlettes(s)
  BY DEF IType, IHel, Trinn
<1>2. U(s) # Feilet /\ pos[s] # 1 /\ pos'[s] # 1 /\ K(s) \in Kommune
  BY <1>1, NaHva, ForstBygg, OktTekst DEF Trinn, OktType, Laster
<1>3. /\ K(s)' = K(s) /\ U(s)' = U(s) /\ Laster(s)'
      /\ \A type : Gjort(s, type) \subseteq Gjort(s, type)'
  BY <1>1, TrinnGjort
<1>4. Holder(s) /\ Verdi(s, RKommune(K(s))) # Ingen
  BY <1>1, <1>2 DEF OktHel
<1>5. /\ DOMAIN ny'[s] = DOMAIN f \cup DOMAIN ny[s]
      /\ \A x \in DOMAIN f : ny'[s][x] = f[x]
      /\ \A x \in DOMAIN ny[s] \ DOMAIN f : ny'[s][x] = ny[s][x]
      /\ db' = db /\ ser'[s] = Ingen
  BY DEF Trinn
<1>6. Oppgitt(s)' = Oppgitt(s) /\ Ferdige(s) \subseteq Ferdige(s)'
  BY <1>3 DEF Oppgitt, Ferdige
<1>7. KunLenkerSlettes(s)'
  BY <1>1, <1>5 DEF KunLenkerSlettes
<1>8. Verdi(s, RKommune(K(s)))' # Ingen
  <2>1. PICK x : x = RKommune(K(s))
    OBVIOUS
  <2>2. x[1] = "kommune" /\ Verdi(s, x) # Ingen
    BY <1>4, <2>1, RadType
  <2>3. Verdi(s, x)' # Ingen
    BY <1>5, <2>2 DEF Verdi
  <2> QED
    BY <1>3, <2>1, <2>3
<1>9. Holder(s)'
  <2>1. ASSUME NEW x, Skrevet(s, x) PROVE Skrevet(s, x)'
    BY <1>3, <1>6, <2>1 DEF Skrevet
  <2>2. \A x \in DOMAIN ny'[s] : Skrevet(s, x)'
    BY <1>4, <1>5, <2>1 DEF Holder
  <2>3. /\ logg'[s] = Leseavvik(U(s)) \cup {<<"db_feil", b>> : b \in Oppgitt(s)}
        /\ Oppgitt(s) \subseteq {rad.id : rad \in Gjort(s, "bygg")'}
    BY <1>3, <1>4 DEF Holder
  <2>4. ~ Ventende(s)'
    BY <1>5 DEF Ventende
  <2> QED
    BY <1>3, <1>6, <2>2, <2>3, <2>4 DEF Holder
<1>10. OktHel(s)'
  BY <1>2, <1>3, <1>8, <1>9 DEF OktHel
<1>11. ASSUME NEW t \in Okt \ {s} PROVE OktHel(t)' /\ KunLenkerSlettes(t)'
  <2>1. OktType(t) /\ OktHel(t) /\ KunLenkerSlettes(t) /\ Lik(t)
    BY DEF IType, IHel, Trinn, AndreLike
  <2> QED
    BY <1>5, <2>1, LikHel
<1> QED
  BY <1>7, <1>10, <1>11 DEF IHel

\* The first statement: the kommune is there, nothing else is held, the log begins.
LEMMA RegistrerHel ==
  ASSUME IType, IHel, NEW s \in Okt, TrinnRegistrer(s)
  PROVE  IHel'
<1>1. /\ OktType(s) /\ Laster(s) /\ Na(s).type = "registrer" /\ Trinn(s, SannF(s))
      /\ logg'[s] = Leseavvik(U(s)) /\ OktHel(s)
  BY DEF TrinnRegistrer, Trinn, IType, IHel
<1>2. pos[s] = 1 /\ pos'[s] # 1 /\ DOMAIN ny[s] = {} /\ K(s) \in Kommune
  BY <1>1, NaHva, OktTekst DEF Trinn, OktHel
<1>3. \A type : Gjort(s, type) = {}
  BY <1>2 DEF Gjort, RaderAv
<1>4. /\ Gjort(s, "bygg")' = {} /\ Gjort(s, "ressurs")' = {}
      /\ K(s)' = K(s) /\ U(s)' = U(s) /\ Laster(s)'
  BY <1>1, <1>3, TrinnGjort
<1>5. PICK r : r = RKommune(K(s))
  OBVIOUS
<1>6. r \in Rader
  BY <1>2, <1>5, Radene
<1>7. /\ DOMAIN SannF(s) = {r} \ {x \in Rader : db[x] # Ingen}
      /\ \A x \in DOMAIN SannF(s) : SannF(s)[x] = TRUE
  BY <1>1, <1>5, TrengerHva DEF SannF
<1>8. /\ DOMAIN ny'[s] = {r} \ {x \in Rader : db[x] # Ingen}
      /\ \A x \in DOMAIN ny'[s] : ny'[s][x] = TRUE
      /\ db' = db /\ ser'[s] = Ingen
  BY <1>1, <1>2, <1>7 DEF Trinn
<1>9. Verdi(s, RKommune(K(s)))' # Ingen
  BY <1>4, <1>5, <1>6, <1>8, IngenTom DEF Verdi
<1>10. KunLenkerSlettes(s)'
  BY <1>8, IngenTom DEF KunLenkerSlettes
<1>11. ASSUME U(s) # Feilet PROVE Holder(s)'
  <2>1. \A b : <<"db_feil", b>> \notin Leseavvik(U(s))
    BY <1>11 DEF Leseavvik
  <2>2. Oppgitt(s)' = {} /\ Ferdige(s)' = {}
    BY <1>1, <1>4, <2>1 DEF Oppgitt, Ferdige
  <2>3. \A x \in DOMAIN ny'[s] : Skrevet(s, x)'
    BY <1>4, <1>5, <1>8 DEF Skrevet
  <2> QED
    BY <1>1, <1>4, <1>8, <2>2, <2>3 DEF Holder, Ventende
<1>12. OktHel(s)'
  BY <1>2, <1>4, <1>9, <1>11 DEF OktHel
<1>13. ASSUME NEW t \in Okt \ {s} PROVE OktHel(t)' /\ KunLenkerSlettes(t)'
  <2>1. OktType(t) /\ OktHel(t) /\ KunLenkerSlettes(t) /\ Lik(t)
    BY <1>1 DEF IType, IHel, Trinn, AndreLike
  <2> QED
    BY <1>8, <2>1, LikHel
<1> QED
  BY <1>10, <1>12, <1>13 DEF IHel

\* The rows of a building are not held before its statement.
LEMMA ByggUholdt ==
  ASSUME ByggEnGang, IType, IHel, NEW s \in Okt, Laster(s), Na(s).type = "bygg"
  PROVE  /\ RByggnad(K(s), Na(s).rad.id) \notin DOMAIN ny[s]
         /\ RAdresse(K(s), Na(s).rad.id) \notin DOMAIN ny[s]
         /\ Na(s).rad.id \notin Oppgitt(s)
         /\ \A rad \in Ferdige(s) : rad.id # Na(s).rad.id
         /\ Gjort(s, "ressurs") = {}
<1>1. OktType(s) /\ OktHel(s)
  BY DEF IType, IHel
<1>2. Gjort(s, "ressurs") = {} /\ \A rad \in Gjort(s, "bygg") : rad.id # Na(s).rad.id
  BY <1>1, ForstBygg
<1>3. U(s) # Feilet /\ pos[s] # 1
  BY <1>1, NaHva, ForstBygg
<1>4. Holder(s)
  BY <1>1, <1>3 DEF OktHel
<1>5. \A rad \in Ferdige(s) : rad.id # Na(s).rad.id
  BY <1>2 DEF Ferdige
<1>6. Na(s).rad.id \notin Oppgitt(s)
  BY <1>2, <1>4 DEF Holder
<1>7. ~ Skrevet(s, RByggnad(K(s), Na(s).rad.id))
  <2>1. PICK b : b = Na(s).rad.id
    OBVIOUS
  <2>2. RByggnad(K(s), b)[1] = "bygning"
    BY RadType
  <2> QED
    BY <1>2, <1>5, <2>1, <2>2, RadType, RadUlik DEF Skrevet
<1>8. ~ Skrevet(s, RAdresse(K(s), Na(s).rad.id))
  <2>1. PICK b : b = Na(s).rad.id
    OBVIOUS
  <2>2. RAdresse(K(s), b)[1] = "adresse"
    BY RadType
  <2> QED
    BY <1>2, <1>5, <2>1, <2>2, RadType, RadUlik DEF Skrevet
<1> QED
  BY <1>2, <1>4, <1>5, <1>6, <1>7, <1>8 DEF Holder

\* A building that is loaded.
LEMMA ByggHel ==
  ASSUME ByggEnGang, IType, IHel, NEW s \in Okt, TrinnBygg(s)
  PROVE  IHel'
<1> PICK rad : rad = Na(s).rad
  OBVIOUS
<1> PICK x, a : x = RByggnad(K(s), rad.id) /\ a = RAdresse(K(s), rad.id)
  OBVIOUS
<1>1. /\ Laster(s) /\ OktType(s) /\ Na(s).type = "bygg" /\ Trinn(s, ByggF(s))
      /\ logg'[s] = logg[s] /\ ~ rad.feil
  BY DEF TrinnBygg, Trinn, IType
<1>2. rad \in ByggRad /\ rad.id \in ByggId /\ K(s)' = K(s)
  BY <1>1, NaHva, TrinnGjort
<1>3. a[1] = "adresse" /\ x[1] = "bygning"
  BY RadType
<1>4. DOMAIN ByggF(s) = {x} \cup (IF rad.gate = Ingen THEN {} ELSE {a})
  BY <1>1, TrengerHva DEF ByggF
<1>5. /\ ByggF(s)[x] = rad.verdi
      /\ rad.gate # Ingen => ByggF(s)[a] = NyAdresse(Verdi(s, a), rad.gate)
  BY <1>1, <1>3, TrengerHva DEF ByggF
<1>6. /\ x \notin DOMAIN ny[s] /\ a \notin DOMAIN ny[s] /\ rad.id \notin Oppgitt(s)
      /\ \A r \in Ferdige(s) : r.id # rad.id
      /\ Gjort(s, "ressurs") = {}
  BY <1>1, ByggUholdt
<1>7. Verdi(s, a) = db[a]
  BY <1>6 DEF Verdi
<1>8. \A y \in DOMAIN ByggF(s) : ByggF(s)[y] # Ingen
  <2>1. rad.verdi # Ingen
    BY <1>2, IngenTom DEF ByggRad
  <2>2. ASSUME rad.gate # Ingen PROVE NyAdresse(db[a], rad.gate) # Ingen
    <3>1. rad.gate \in Gate /\ K(s) \in Kommune
      BY <1>1, <1>2, <2>2, OktTekst DEF ByggRad
    <3>2. db[a] # Ingen => db[a] \in Adresser
      BY <1>2, <1>3, <3>1, Radene DEF IType, AvTabellen
    <3>3. NyAdresse(db[a], rad.gate) \in Adresser
      BY <3>1, <3>2, NyAdresseType
    <3> QED
      BY <3>3, IngenTom
  <2> QED
    BY <1>4, <1>5, <1>7, <2>1, <2>2
<1>9. /\ Gjort(s, "bygg")' = Gjort(s, "bygg") \cup {rad}
      /\ Gjort(s, "ressurs")' = Gjort(s, "ressurs")
  <2>1. \A type : Gjort(s, type)'
          = Gjort(s, type) \cup (IF Na(s).type = type THEN {Na(s).rad} ELSE {})
    BY <1>1, TrinnGjort
  <2> QED
    BY <1>1, <2>1
<1>10. Ferdige(s)' = Ferdige(s) \cup {rad}
  BY <1>1, <1>6, <1>9 DEF Ferdige, Oppgitt
<1>11. /\ x \in DOMAIN ny'[s] /\ ny'[s][x] = rad.verdi
       /\ rad.gate # Ingen => a \in DOMAIN ny'[s] /\ ny'[s][a] = NyAdresse(db[a], rad.gate)
       /\ db' = db
  BY <1>1, <1>4, <1>5, <1>7 DEF Trinn
<1>12. ByggHelt(s, rad)'
  BY <1>1, <1>2, <1>11 DEF ByggHelt
<1>13. ASSUME NEW r \in Ferdige(s) PROVE ByggHelt(s, r)'
  <2>1. ByggHelt(s, r)
    <3>1. U(s) # Feilet /\ pos[s] # 1
      BY <1>1, NaHva, ForstBygg
    <3> QED
      BY <1>1, <3>1 DEF IHel, OktHel, Holder
  <2>2. RByggnad(K(s), r.id) \notin DOMAIN ByggF(s) /\ RAdresse(K(s), r.id) \notin DOMAIN ByggF(s)
    BY <1>3, <1>4, <1>6, RadType, RadUlik
  <2> QED
    BY <1>1, <1>2, <2>1, <2>2, ByggHeltBevares
<1>14. \A y \in DOMAIN ByggF(s) : Skrevet(s, y)'
  BY <1>2, <1>4, <1>10 DEF Skrevet
<1> QED
  BY <1>1, <1>6, <1>8, <1>9, <1>10, <1>12, <1>13, <1>14, TrinnHel

\* A building that is given up: its rows are as they were, and it is in the log.
LEMMA ByggFeilHel ==
  ASSUME ByggEnGang, IType, IHel, NEW s \in Okt, TrinnByggFeil(s)
  PROVE  IHel'
<1> PICK b : b = Na(s).rad.id
  OBVIOUS
<1>1. /\ Laster(s) /\ OktType(s) /\ Na(s).type = "bygg" /\ Trinn(s, <<>>)
      /\ logg'[s] = logg[s] \cup {<<"db_feil", b>>}
      /\ OktHel(s) /\ KunLenkerSlettes(s)
  BY DEF TrinnByggFeil, Trinn, IType, IHel
<1>2. U(s) # Feilet /\ pos[s] # 1 /\ pos'[s] # 1 /\ b \in ByggId
  BY <1>1, NaHva, ForstBygg DEF Trinn, OktType, Laster
<1>3. Holder(s) /\ Verdi(s, RKommune(K(s))) # Ingen
  BY <1>1, <1>2 DEF OktHel
<1>4. /\ b \notin Oppgitt(s) /\ \A r \in Ferdige(s) : r.id # b
      /\ Gjort(s, "ressurs") = {}
  BY <1>1, ByggUholdt
<1>5. K(s)' = K(s) /\ U(s)' = U(s) /\ Laster(s)'
  BY <1>1, TrinnGjort
<1>6. Gjort(s, "bygg")' = Gjort(s, "bygg") \cup {Na(s).rad} /\ Gjort(s, "ressurs")' = {}
  <2>1. \A type : Gjort(s, type)'
          = Gjort(s, type) \cup (IF Na(s).type = type THEN {Na(s).rad} ELSE {})
    BY <1>1, TrinnGjort
  <2> QED
    BY <1>1, <1>4, <2>1
<1>7. DOMAIN ny'[s] = DOMAIN ny[s] /\ db' = db /\ ser'[s] = Ingen
      /\ \A x \in DOMAIN ny[s] : ny'[s][x] = ny[s][x]
  BY <1>1 DEF Trinn
<1>8. Oppgitt(s)' = Oppgitt(s) \cup {b}
  BY <1>1, <1>2 DEF Oppgitt
<1>9. Ferdige(s)' = Ferdige(s)
  BY <1>4, <1>6, <1>8 DEF Ferdige
<1>10. KunLenkerSlettes(s)'
  BY <1>1, <1>7 DEF KunLenkerSlettes
<1>11. Verdi(s, RKommune(K(s)))' # Ingen
  BY <1>3, <1>5, <1>7 DEF Verdi
<1>12. Holder(s)'
  <2>1. \A x \in DOMAIN ny'[s] : Skrevet(s, x)'
    BY <1>3, <1>4, <1>5, <1>7, <1>9 DEF Holder, Skrevet
  <2>2. \A r \in Ferdige(s)' : ByggHelt(s, r)'
    BY <1>3, <1>5, <1>7, <1>9 DEF Holder, ByggHelt
  <2>3. logg'[s] = Leseavvik(U(s)) \cup {<<"db_feil", c>> : c \in Oppgitt(s)'}
    BY <1>1, <1>3, <1>8 DEF Holder
  <2>4. Oppgitt(s)' \subseteq {rad.id : rad \in Gjort(s, "bygg")'}
    BY <1>3, <1>6, <1>8 DEF Holder
  <2> QED
    BY <1>5, <1>6, <1>7, <2>1, <2>2, <2>3, <2>4 DEF Holder, Ventende
<1>13. OktHel(s)'
  BY <1>2, <1>5, <1>11, <1>12 DEF OktHel
<1>14. ASSUME NEW t \in Okt \ {s} PROVE OktHel(t)' /\ KunLenkerSlettes(t)'
  <2>1. OktType(t) /\ OktHel(t) /\ KunLenkerSlettes(t) /\ Lik(t)
    BY <1>1 DEF IType, IHel, Trinn, AndreLike
  <2> QED
    BY <1>7, <2>1, LikHel
<1> QED
  BY <1>10, <1>13, <1>14 DEF IHel

\* The building a resource is given is the one of the extract, or none if that was given up;
\* one that was given up is in the database.
LEMMA FunnetHel ==
  ASSUME IType, ILogg, IHel, NEW s \in Okt, Laster(s), Na(s).type = "ressurs"
  PROVE  LET b == ByggFor(U(s), Na(s).rad.id)
         IN  \/ Funnet(s) = b /\ (b \in Oppgitt(s) => db[RByggnad(K(s), b)] # Ingen)
             \/ Funnet(s) = Ingen /\ b \in Oppgitt(s)
<1> PICK b : b = ByggFor(U(s), Na(s).rad.id)
  OBVIOUS
<1> PICK x : x = RByggnad(K(s), b)
  OBVIOUS
<1>1. /\ OktType(s) /\ U(s) \in Uttrekk /\ U(s) # Feilet /\ K(s) \in Kommune /\ pos[s] # 1
  BY OktTekst, NaHva, ForstBygg DEF IType
<1>2. Holder(s)
  BY <1>1 DEF IHel, OktHel
<1>3. Funnet(s) = IF b # Ingen /\ x \in Oyeblikk(s) THEN b ELSE Ingen
  BY Zenon DEF Funnet
<1>4. ASSUME Funnet(s) # b PROVE Funnet(s) = Ingen /\ b \in Oppgitt(s)
  <2>1. b # Ingen /\ Funnet(s) = Ingen
    BY <1>3, <1>4
  <2>2. b \in ByggId
    BY <1>1, <2>1, ByggForKjent
  <2>3. <<"db_feil", b>> \in logg[s]
    BY <1>4, FunnetEllerLogget
  <2> QED
    BY <2>1, <2>2, <2>3 DEF Oppgitt
<1>5. ASSUME Funnet(s) = b, b \in Oppgitt(s) PROVE db[x] # Ingen
  <2>1. b \in ByggId /\ b # Ingen /\ x \in Rader /\ x[1] = "bygning"
    BY <1>1, <1>5, IngenTom, Radene, RadType DEF Oppgitt
  <2>2. x \in Oyeblikk(s)
    BY <1>3, <1>5, <2>1
  <2>3. Verdi(s, x) # Ingen
    BY <1>2, <2>1, <2>2 DEF Holder, Oyeblikk, Synlige
  <2>4. x \notin DOMAIN ny[s]
    <3>1. ~ Skrevet(s, x)
      BY <1>5, <2>1, RadType, RadUlik DEF Skrevet, Ferdige
    <3> QED
      BY <1>2, <3>1 DEF Holder
  <2> QED
    BY <2>3, <2>4 DEF Verdi
<1> QED
  BY <1>4, <1>5

\* A statement that writes no building leaves those that are loaded.
LEMMA ByggeneBevares ==
  ASSUME IType, IHel, NEW s \in Okt, NEW f, Trinn(s, f), logg'[s] = logg[s],
         Na(s).type \in {"ressurs", "slett", "lenke"},
         \A x \in DOMAIN f : x[1] \notin {"bygning", "adresse"}
  PROVE  /\ Ferdige(s)' = Ferdige(s)
         /\ \A rad \in Ferdige(s)' : ByggHelt(s, rad)'
<1>1. OktType(s) /\ Laster(s)
  BY DEF IType, Trinn
<1>2. U(s) # Feilet /\ pos[s] # 1
  BY <1>1, NaHva, ForstBygg
<1>3. Holder(s)
  BY <1>1, <1>2 DEF IHel, OktHel
<1>4. K(s)' = K(s)
  BY <1>1, TrinnGjort
<1>5. Gjort(s, "bygg")' = Gjort(s, "bygg")
  <2>1. \A type : Gjort(s, type)'
          = Gjort(s, type) \cup (IF Na(s).type = type THEN {Na(s).rad} ELSE {})
    BY <1>1, TrinnGjort
  <2> QED
    BY <2>1
<1>6. Ferdige(s)' = Ferdige(s)
  BY <1>5 DEF Ferdige, Oppgitt
<1>7. ASSUME NEW rad \in Ferdige(s) PROVE ByggHelt(s, rad)'
  <2>1. ByggHelt(s, rad)
    BY <1>3 DEF Holder
  <2>2. RByggnad(K(s), rad.id) \notin DOMAIN f /\ RAdresse(K(s), rad.id) \notin DOMAIN f
    BY RadType
  <2> QED
    BY <1>4, <2>1, <2>2, ByggHeltBevares
<1> QED
  BY <1>6, <1>7

\* A resource that is loaded.
LEMMA RessursenHel ==
  ASSUME EntydigeId, IType, ILogg, IHel, NEW s \in Okt, TrinnRessurs(s)
  PROVE  IHel'
<1> PICK rad : rad = Na(s).rad
  OBVIOUS
<1> PICK x : x = RRessurs(K(s), rad.id)
  OBVIOUS
<1>1. /\ Laster(s) /\ OktType(s) /\ Na(s).type = "ressurs" /\ Trinn(s, RessursF(s))
      /\ logg'[s] = logg[s] /\ rad.verdi # ForStor
  BY DEF TrinnRessurs, Trinn, IType
<1>2. U(s) # Feilet /\ pos[s] # 1 /\ K(s)' = K(s) /\ U(s)' = U(s)
  BY <1>1, NaHva, ForstBygg, TrinnGjort
<1>3. Holder(s)
  BY <1>1, <1>2 DEF IHel, OktHel
<1>4. DOMAIN RessursF(s) = {x} /\ RessursF(s)[x] = NyRessurs(rad, Funnet(s))
  BY <1>1, TrengerHva DEF RessursF
<1>5. x[1] = "ressurs"
  BY RadType
<1>6. \A y \in DOMAIN RessursF(s) : RessursF(s)[y] # Ingen
  BY <1>4, NyRessursType
<1>7. Gjort(s, "ressurs")' = Gjort(s, "ressurs") \cup {rad}
  <2>1. \A type : Gjort(s, type)'
          = Gjort(s, type) \cup (IF Na(s).type = type THEN {Na(s).rad} ELSE {})
    BY <1>1, TrinnGjort
  <2> QED
    BY <1>1, <2>1
<1>8. /\ x \in DOMAIN ny'[s] /\ ny'[s][x] = NyRessurs(rad, Funnet(s))
      /\ db' = db
  BY <1>1, <1>4 DEF Trinn
<1>9. Oppgitt(s)' = Oppgitt(s)
  BY <1>1 DEF Oppgitt
<1>10. RessursHel(s, rad)'
  <2>1. LET b == ByggFor(U(s), rad.id)
        IN  \/ Funnet(s) = b /\ (b \in Oppgitt(s) => db[RByggnad(K(s), b)] # Ingen)
            \/ Funnet(s) = Ingen /\ b \in Oppgitt(s)
    BY <1>1, FunnetHel
  <2> QED
    BY <1>1, <1>2, <1>8, <1>9, <2>1 DEF RessursHel
<1>11. ASSUME NEW r \in Gjort(s, "ressurs"), r # rad PROVE RessursHel(s, r)'
  <2>1. r.id # rad.id
    <3>1. r \in Verdier(MedId(U(s).ressurs)) /\ rad \in Verdier(MedId(U(s).ressurs))
      BY <1>1, <1>2, GjortDel, NaHva
    <3>2. \A a, b \in Verdier(MedId(U(s).ressurs)) : a.id = b.id => a = b
      BY <1>1, <1>2, OktTekst, Zenon DEF EntydigeId, U, OktType, Laster
    <3> QED
      BY <1>11, <3>1, <3>2
  <2>2. RessursHel(s, r)
    BY <1>3 DEF Holder
  <2>3. RRessurs(K(s), r.id) \notin DOMAIN RessursF(s)
    BY <1>4, <2>1, RadUlik
  <2> QED
    BY <1>1, <1>2, <2>2, <2>3, RessursHelBevares
<1>12. \A y \in DOMAIN RessursF(s) : Skrevet(s, y)'
  BY <1>2, <1>4, <1>7 DEF Skrevet
<1>13. \A r \in Ferdige(s)' : ByggHelt(s, r)'
  BY <1>1, <1>4, <1>5, ByggeneBevares
<1> QED
  BY <1>1, <1>6, <1>7, <1>10, <1>11, <1>12, <1>13, TrinnHel

\* The links disturb no building and no resource.
LEMMA LenkeneHel ==
  ASSUME IType, IHel, NEW s \in Okt, TrinnSlett(s) \/ TrinnLenke(s)
  PROVE  IHel'
<1>1. \E f : /\ Trinn(s, f) /\ Na(s).type \in {"slett", "lenke"} /\ logg'[s] = logg[s]
             /\ \A x \in DOMAIN f : x \in Lenkerader(K(s))
  <2>1. CASE TrinnSlett(s)
    <3>1. Laster(s) /\ Na(s).type = "slett" /\ Trinn(s, SlettF(s)) /\ logg'[s] = logg[s]
      BY <2>1 DEF TrinnSlett, Trinn
    <3>2. \A x \in DOMAIN SlettF(s) : x \in Lenkerader(K(s))
      BY <3>1, TrengerHva DEF SlettF, Slettes
    <3> QED
      BY <3>1, <3>2
  <2>2. CASE TrinnLenke(s)
    <3>1. Laster(s) /\ OktType(s) /\ Na(s).type = "lenke" /\ Trinn(s, SannF(s)) /\ logg'[s] = logg[s]
      BY <2>2 DEF TrinnLenke, Trinn, IType
    <3>2. K(s) \in Kommune /\ Na(s).rad.r \in RessursId \cup {Ingen}
      BY <3>1, NaHva, OktTekst
    <3>3. DOMAIN SannF(s) = Lenkerad(K(s), Na(s).rad)
      BY <3>1, TrengerHva DEF SannF
    <3>4. \A x \in DOMAIN SannF(s) : x \in Lenkerader(K(s))
      BY <3>2, <3>3, Radene
    <3> QED
      BY <3>1, <3>4
  <2> QED
    BY <2>1, <2>2
<1>2. PICK f : /\ Trinn(s, f) /\ Na(s).type \in {"slett", "lenke"} /\ logg'[s] = logg[s]
               /\ \A x \in DOMAIN f : x \in Lenkerader(K(s))
  BY <1>1
<1>3. OktType(s) /\ Laster(s)
  BY <1>2 DEF IType, Trinn
<1>4. U(s) # Feilet /\ pos[s] # 1 /\ K(s)' = K(s) /\ U(s)' = U(s)
  BY <1>2, <1>3, NaHva, ForstBygg, TrinnGjort
<1>5. \A x \in DOMAIN f : x[1] = "lenke"
  BY <1>2, RadType
<1>6. Gjort(s, "ressurs")' = Gjort(s, "ressurs")
  <2>1. \A type : Gjort(s, type)'
          = Gjort(s, type) \cup (IF Na(s).type = type THEN {Na(s).rad} ELSE {})
    BY <1>2, <1>3, TrinnGjort
  <2> QED
    BY <1>2, <2>1
<1>7. ASSUME NEW r \in Gjort(s, "ressurs") PROVE RessursHel(s, r)'
  <2>1. RessursHel(s, r)
    BY <1>3, <1>4 DEF IHel, OktHel, Holder
  <2>2. RRessurs(K(s), r.id) \notin DOMAIN f
    BY <1>5, RadType
  <2> QED
    BY <1>2, <1>4, <2>1, <2>2, RessursHelBevares
<1>8. \A r \in Ferdige(s)' : ByggHelt(s, r)'
  BY <1>2, <1>5, ByggeneBevares
<1>9. \A x \in DOMAIN f : Skrevet(s, x)'
  BY <1>2, <1>4 DEF Skrevet
<1> QED
  BY <1>2, <1>5, <1>6, <1>7, <1>8, <1>9, TrinnHel

\* A statement that begins to wait sees the buildings that its snapshot has.
LEMMA VentHel ==
  ASSUME IType, IHel, NEW s \in Okt, TrinnVent(s)
  PROVE  IHel'
<1>1. /\ ser' = [ser EXCEPT ![s] = Synlige(s)]
      /\ UNCHANGED <<db, ny, ko, fil, pos, logg>>
      /\ OktType(s) /\ OktHel(s) /\ KunLenkerSlettes(s)
  BY DEF TrinnVent, IType, IHel
<1>2. /\ K(s)' = K(s) /\ U(s)' = U(s) /\ (Laster(s)' <=> Laster(s))
      /\ \A type : Gjort(s, type)' = Gjort(s, type)
      /\ Oppgitt(s)' = Oppgitt(s) /\ Ferdige(s)' = Ferdige(s) /\ ser'[s] = Synlige(s)
      /\ \A x : Verdi(s, x)' = Verdi(s, x)
  BY <1>1 DEF K, U, Laster, Gjort, Oppgitt, Ferdige, Verdi, IType, Domener
<1>3. ASSUME Holder(s) PROVE Holder(s)'
  <2>1. \A rad : /\ ByggHelt(s, rad)' <=> ByggHelt(s, rad)
                 /\ RessursHel(s, rad)' <=> RessursHel(s, rad)
    BY <1>1, <1>2 DEF ByggHelt, RessursHel
  <2>2. \A x : Skrevet(s, x)' <=> Skrevet(s, x)
    BY <1>2 DEF Skrevet
  <2>3. \A x \in Synlige(s) : Verdi(s, x) # Ingen
    BY DEF Synlige
  <2>4. \A b : RByggnad(K(s), b)' = RByggnad(K(s), b)
    BY <1>2
  <2> QED
    BY <1>1, <1>2, <1>3, <2>1, <2>2, <2>3, <2>4 DEF Holder
<1>4. OktHel(s)'
  <2>1. Verdi(s, RKommune(K(s)))' = Verdi(s, RKommune(K(s)))
    BY <1>2
  <2> QED
    BY <1>1, <1>2, <1>3, <2>1 DEF OktHel
<1>5. KunLenkerSlettes(s)'
  BY <1>1 DEF KunLenkerSlettes
<1>6. ASSUME NEW t \in Okt \ {s} PROVE OktHel(t)' /\ KunLenkerSlettes(t)'
  <2>1. OktType(t) /\ OktHel(t) /\ KunLenkerSlettes(t) /\ Lik(t)
    BY <1>1 DEF IType, IHel, Domener, Lik
  <2> QED
    BY <1>1, <2>1, LikHel
<1> QED
  BY <1>4, <1>5, <1>6 DEF IHel

\* A session at the start of a transaction, or done, while the others stay as they are.
LEMMA BegynnerHel ==
  ASSUME IType, IHel, NEW s \in Okt, pos'[s] = 1, DOMAIN ny'[s] = {}, AndreLike(s),
         \A t \in Okt \ {s} : \A x \in DOMAIN ny[t] : db'[x] = db[x],
         \A x \in Rader : x[1] # "lenke" /\ db[x] # Ingen => db'[x] # Ingen
  PROVE  IHel'
<1>1. OktHel(s)' /\ KunLenkerSlettes(s)'
  BY DEF OktHel, KunLenkerSlettes
<1>2. ASSUME NEW t \in Okt \ {s} PROVE OktHel(t)' /\ KunLenkerSlettes(t)'
  <2>1. OktType(t) /\ OktHel(t) /\ KunLenkerSlettes(t) /\ Lik(t)
    BY DEF IType, IHel, AndreLike
  <2> QED
    BY <2>1, LikHel
<1> QED
  BY <1>1, <1>2 DEF IHel

\* Every step keeps what the sessions hold.
LEMMA HelSteg ==
  ASSUME EntydigeId, ByggEnGang, IType, ILogg, IHel, [Last \/ Adressearbeid]_vars
  PROVE  IHel'
<1>1. Former
  BY StegFormer DEF IType, OktType
<1>2. CASE UNCHANGED vars
  <2>1. \A t \in Okt : OktType(t) /\ OktHel(t) /\ KunLenkerSlettes(t) /\ Lik(t)
    BY <1>2 DEF vars, IType, IHel, Lik
  <2>2. db' = db
    BY <1>2 DEF vars
  <2> QED
    BY <2>1, <2>2, LikHel DEF IHel
<1>3. CASE TrinnAdresse
  <2>1. \A t \in Okt : OktType(t) /\ OktHel(t) /\ KunLenkerSlettes(t)
    BY DEF IType, IHel
  <2> QED
    BY <1>3, <2>1, AdresseUholdt, LikHel DEF IHel
<1>4. ASSUME NEW s \in Okt, NEW f \in Filer, Start(s, f) PROVE IHel'
  <2>1. ko[s] = <<>> /\ pos'[s] = 1 /\ ny' = ny /\ db' = db /\ AndreLike(s)
    BY <1>4 DEF Start, IType, Domener, txvars, AndreLike, Lik
  <2>2. ny[s] = <<>>
    BY <2>1 DEF IType, OktType
  <2>3. DOMAIN ny'[s] = {}
    BY <2>1, <2>2
  <2> QED
    BY <2>1, <2>3, BegynnerHel
<1>5. ASSUME NEW s \in Okt, Slutt(s) PROVE IHel'
  <2>1. pos'[s] = 1 /\ ny'[s] = <<>> /\ db' = db /\ AndreLike(s)
    BY <1>5 DEF Slutt
  <2>2. DOMAIN ny'[s] = {}
    BY <2>1
  <2> QED
    BY <2>1, <2>2, BegynnerHel
<1>6. ASSUME NEW s \in Okt, TrinnFullfor(s) PROVE IHel'
  <2>1. pos'[s] = 1 /\ ny'[s] = <<>> /\ AndreLike(s)
    BY <1>6 DEF TrinnFullfor
  <2>2. DOMAIN ny'[s] = {}
    BY <2>1
  <2>3. KunLenkerSlettes(s)
    BY DEF IHel
  <2> QED
    BY <1>6, <2>1, <2>2, <2>3, FullforUholdt, BegynnerHel
<1> QED
  BY <1>1, <1>2, <1>3, <1>4, <1>5, <1>6, RegistrerHel, ByggHel, ByggFeilHel, RessursenHel, LenkeneHel,
     VentHel DEF Former

\* What the sessions hold, in every state.
LEMMA IHelAlltid ==
  ASSUME EntydigeId, ByggEnGang
  PROVE  SpecMedAdresser => []IHel
<1>1. Init => IHel
  <2> SUFFICES ASSUME Init PROVE IHel
    OBVIOUS
  <2>1. \A s \in Okt : ~ Laster(s) /\ DOMAIN ny[s] = {}
    BY DEF Init, TxInit, Laster
  <2> QED
    BY <2>1 DEF IHel, OktHel, KunLenkerSlettes
<1>2. IType /\ ILogg /\ IHel /\ [Last \/ Adressearbeid]_vars => IHel'
  BY HelSteg
<1> QED
  BY <1>1, <1>2, ITypeAlltid, ILoggAlltid, PTL DEF SpecMedAdresser

\* What UdeltLast says of an extract and of the rows is what Innlasting says.
LEMMA SammeRader ==
  /\ Hel!Rader = Rader
  /\ \A k, b : Hel!RByggnad(k, b) = RByggnad(k, b) /\ Hel!RAdresse(k, b) = RAdresse(k, b)
  /\ \A k, r : Hel!RRessurs(k, r) = RRessurs(k, r)
  /\ \A k : Hel!RKommune(k) = RKommune(k) /\ Hel!Lenkerader(k) = Lenkerader(k)
  /\ \A k, l : Hel!Lenkerad(k, l) = Lenkerad(k, l)
  BY DEF Hel!Rader, Rader, Hel!RByggnad, RByggnad, Hel!RAdresse, RAdresse, Hel!RRessurs, RRessurs,
         Hel!RKommune, RKommune, Hel!Lenkerader, Lenkerader, Hel!Lenkerad, Lenkerad, Hel!RLenke, RLenke

LEMMA SammeUttrekk ==
  /\ \A q : Hel!Verdier(q) = Verdier(q) /\ Hel!MedId(q) = MedId(q)
  /\ \A u : Hel!KjenteBygg(u) = KjenteBygg(u) /\ Hel!KjenteRessurser(u) = KjenteRessurser(u)
  /\ \A u : Hel!Lastbare(u) = Lastbare(u)
  /\ \A u, r : Hel!ByggFor(u, r) = ByggFor(u, r)
<1>1. \A q : Hel!Verdier(q) = Verdier(q)
  BY Zenon DEF Hel!Verdier, Verdier
<1>2. \A q : Hel!MedId(q) = MedId(q)
  BY Zenon DEF Hel!MedId, MedId, Hel!Utvalg, Utvalg, Hel!Verdier, Verdier
<1>3. \A u : Hel!KjenteBygg(u) = KjenteBygg(u) /\ Hel!KjenteRessurser(u) = KjenteRessurser(u)
  BY <1>1, Zenon DEF Hel!KjenteBygg, KjenteBygg, Hel!KjenteRessurser, KjenteRessurser
<1>4. \A u : Hel!Lastbare(u) = Lastbare(u)
  BY Zenon DEF Hel!Lastbare, Lastbare, Hel!Utvalg, Utvalg, Hel!Verdier, Verdier,
               Hel!KjenteRessurser, KjenteRessurser
<1>5. \A u, r : Hel!ByggFor(u, r) = ByggFor(u, r)
  BY Zenon DEF Hel!ByggFor, ByggFor, Hel!KjenteBygg, KjenteBygg, Hel!Verdier, Verdier
<1> QED
  BY <1>1, <1>2, <1>3, <1>4, <1>5, Zenon

LEMMA SammeVirkning ==
  /\ \A gammel, gate : Hel!NyAdresse(gammel, gate) = NyAdresse(gammel, gate)
  /\ \A rad, b : Hel!NyRessurs(rad, b) = NyRessurs(rad, b)
  /\ \A u : Hel!Leseavvik(u) = Leseavvik(u) /\ Hel!UkjenteId(u) = UkjenteId(u)
<1>1. \A u : Hel!Leseavvik(u) = Leseavvik(u)
  BY SammeUttrekk, Zenon DEF Hel!Leseavvik, Leseavvik
<1>2. \A u : Hel!UkjenteId(u) = UkjenteId(u)
  BY SammeUttrekk, Zenon DEF Hel!UkjenteId, UkjenteId
<1>3. \A gammel, gate : Hel!NyAdresse(gammel, gate) = NyAdresse(gammel, gate)
  BY Zenon DEF Hel!NyAdresse, NyAdresse
<1>4. \A rad, b : Hel!NyRessurs(rad, b) = NyRessurs(rad, b)
  BY Zenon DEF Hel!NyRessurs, NyRessurs
<1> QED
  BY <1>1, <1>2, <1>3, <1>4, Zenon

\* A commit is an undivided load of the extract, in which the buildings given up failed.
LEMMA FullforLast ==
  ASSUME IType, IType', IKobling, IHel, NEW s \in Okt, TrinnFullfor(s),
         U(s) # Feilet
  PROVE  Hel!Last(K(s), U(s))
<1> PICK k, u : k = K(s) /\ u = U(s)
  OBVIOUS
<1> PICK feilet : feilet = Oppgitt(s)
  OBVIOUS
<1> DEFINE bygg == Verdier(MedId(u.bygg))
           ressurs == Verdier(MedId(u.ressurs))
           ferdige == {rad \in bygg : rad.id \notin feilet}
<1>1. /\ Laster(s) /\ Na(s).type = "commit" /\ OktType(s) /\ k \in Kommune /\ u \in Uttrekk /\ u # Feilet
      /\ pos[s] # 1
  BY OktTekst, ForstBygg DEF TrinnFullfor, IType
<1>2. Holder(s) /\ Verdi(s, RKommune(k)) # Ingen /\ KunLenkerSlettes(s)
  BY <1>1 DEF IHel, OktHel
<1>3. Gjort(s, "bygg") = bygg /\ Gjort(s, "ressurs") = ressurs /\ Ferdige(s) = ferdige
  BY <1>1, GjortNaar DEF Ferdige
<1>4. /\ \A x \in DOMAIN ny[s] : db'[x] = ny[s][x]
      /\ \A x \in Rader \ DOMAIN ny[s] : db'[x] = db[x]
      /\ DOMAIN db' = Rader
      /\ lastet' = [lastet EXCEPT ![k] = u]
      /\ avvik' = [avvik EXCEPT ![k] = logg[s] \cup UkjenteId(u)]
  BY DEF TrinnFullfor, IType, Domener
<1>5. /\ \A x \in DOMAIN ny[s] : Skrevet(s, x)
      /\ \A rad \in ferdige : ByggHelt(s, rad)
      /\ \A rad \in ressurs : RessursHel(s, rad)
      /\ logg[s] = Leseavvik(u) \cup {<<"db_feil", b>> : b \in feilet}
      /\ feilet \subseteq {rad.id : rad \in bygg}
  BY <1>2, <1>3 DEF Holder
<1>6. /\ Hel!Verdier(Hel!MedId(u.bygg)) = bygg
      /\ Hel!Verdier(Hel!MedId(u.ressurs)) = ressurs
      /\ Hel!Lastede(u, feilet) = ferdige
  BY SammeUttrekk, Zenon DEF Hel!Lastede
<1> HIDE DEF bygg, ressurs, ferdige
<1>7. \A rad \in ressurs : rad.verdi # ForStor
  BY <1>5 DEF RessursHel
<1>8. \A rad \in ferdige : ~ rad.feil
  BY <1>5 DEF ByggHelt
<1>9. avvik' = [avvik EXCEPT ![k] = Leseavvik(u) \cup {<<"db_feil", b>> : b \in feilet} \cup UkjenteId(u)]
  BY <1>4, <1>5
<1>10. db'[RKommune(k)] = TRUE
  <2> DEFINE x == RKommune(k)
  <2>1. x \in Rader /\ x[1] = "kommune"
    BY <1>1, Radene, RadType
  <2>2. db'[x] # Ingen
    BY <1>2, <1>4, <2>1 DEF Verdi
  <2> HIDE DEF x
  <2>3. AvTabellen(x, db'[x])
    BY <2>1 DEF IType
  <2> QED
    BY <2>1, <2>2, <2>3 DEF AvTabellen, x
<1>11. Hel!Lenkes(k, u)
  <2>1. {x \in Lenkerader(k) : db'[x] # Ingen} = UNION {Lenkerad(k, l) : l \in Verdier(Lastbare(u))}
    <3>1. SlettGjort(s) /\ Gjort(s, "lenke") = Verdier(Lastbare(u))
      BY <1>1, GjortNaar
    <3>2. {x \in Lenkerader(k) : Verdi(s, x) # Ingen} = UNION {Lenkerad(k, l) : l \in Verdier(Lastbare(u))}
      BY <1>1, <3>1 DEF IKobling, OktKobling, EgneLenker
    <3>3. \A x \in Lenkerader(k) : db'[x] = Verdi(s, x)
      BY <1>1, <1>4, Radene DEF Verdi
    <3> QED
      BY <3>2, <3>3
  <2>2. \A x \in Lenkerader(k) : db'[x] # Ingen => db'[x] = TRUE
    BY <1>1, Radene, RadType DEF IType, AvTabellen
  <2>3. Hel!Lenkene(k, u) = UNION {Lenkerad(k, l) : l \in Verdier(Lastbare(u))}
    BY SammeUttrekk, SammeRader DEF Hel!Lenkene
  <2>4. Hel!Lenkerader(k) = Lenkerader(k)
    BY SammeRader
  <2> QED
    BY <2>1, <2>2, <2>3, <2>4 DEF Hel!Lenkes
<1>12. Hel!Byggene(k, u, feilet)
  <2> SUFFICES ASSUME NEW rad \in ferdige
               PROVE  /\ db'[RByggnad(k, rad.id)] = rad.verdi
                      /\ rad.gate # Ingen =>
                           db'[RAdresse(k, rad.id)] = NyAdresse(db[RAdresse(k, rad.id)], rad.gate)
    BY <1>6, SammeRader, SammeVirkning DEF Hel!Byggene
  <2> QED
    BY <1>4, <1>5 DEF ByggHelt
<1>13. Hel!Ressursene(k, u, feilet)
  <2> SUFFICES ASSUME NEW rad \in ressurs
               PROVE  \E b \in Hel!Bygget(k, ByggFor(u, rad.id), feilet) :
                        db'[RRessurs(k, rad.id)] = NyRessurs(rad, b)
    BY <1>6, SammeRader, SammeUttrekk, SammeVirkning DEF Hel!Ressursene
  <2> PICK b : b = ByggFor(u, rad.id)
    OBVIOUS
  <2>1. db'[RRessurs(k, rad.id)] = ny[s][RRessurs(k, rad.id)]
    BY <1>4, <1>5 DEF RessursHel
  <2>2. \/ /\ db'[RRessurs(k, rad.id)] = NyRessurs(rad, b)
           /\ b \in feilet => db[RByggnad(k, b)] # Ingen
        \/ db'[RRessurs(k, rad.id)] = NyRessurs(rad, Ingen) /\ b \in feilet
    BY <1>5, <2>1 DEF RessursHel
  <2>3. /\ b \notin feilet => b \in Hel!Bygget(k, b, feilet)
        /\ b \in feilet /\ db[RByggnad(k, b)] # Ingen => b \in Hel!Bygget(k, b, feilet)
        /\ b \in feilet => Ingen \in Hel!Bygget(k, b, feilet)
    BY SammeRader DEF Hel!Bygget
  <2> QED
    BY <2>2, <2>3
<1>14. \A x \in Rader \ Hel!Skrives(k, u, feilet) : db'[x] = db[x]
  <2>1. \A x : Skrevet(s, x) => x \in Hel!Skrives(k, u, feilet)
    BY <1>3, <1>6, SammeRader DEF Skrevet, Hel!Skrives
  <2> QED
    BY <1>4, <1>5, <2>1
<1>15. feilet \in SUBSET {rad.id : rad \in bygg}
  BY <1>5
<1>16. /\ Hel!Leseavvik(u) = Leseavvik(u) /\ Hel!UkjenteId(u) = UkjenteId(u)
       /\ Hel!Rader = Rader /\ Hel!RKommune(k) = RKommune(k)
  BY SammeVirkning, SammeRader
<1> QED
  BY <1>4, <1>6, <1>7, <1>8, <1>9, <1>10, <1>11, <1>12, <1>13, <1>14, <1>15, <1>16, Zenon DEF Hel!Last

\* A commit after a failed fetch registers the kommune and changes nothing else.
LEMMA FullforIkkeHentet ==
  ASSUME IType, IType', IEgne, IHel, NEW s \in Okt, TrinnFullfor(s), U(s) = Feilet
  PROVE  Hel!IkkeHentet(K(s))
<1> PICK k, r : k = K(s) /\ r = RKommune(k)
  OBVIOUS
<1>1. /\ Laster(s) /\ Na(s).type = "commit" /\ OktType(s) /\ k \in Kommune /\ pos[s] # 1 /\ EgneRader(s)
  BY OktTekst, ForstBygg DEF TrinnFullfor, IType, IEgne
<1>2. Verdi(s, r) # Ingen
  BY <1>1 DEF IHel, OktHel
<1>3. /\ \A x \in DOMAIN ny[s] : db'[x] = ny[s][x]
      /\ \A x \in Rader \ DOMAIN ny[s] : db'[x] = db[x]
      /\ DOMAIN db' = Rader /\ DOMAIN db = Rader
      /\ UNCHANGED avvik
  BY DEF TrinnFullfor, IType, Domener
<1>4. r \in Rader /\ r[1] = "kommune"
  BY <1>1, Radene, RadType
<1>5. db'[r] = TRUE
  <2>1. db'[r] # Ingen
    BY <1>2, <1>3, <1>4 DEF Verdi
  <2> QED
    BY <1>4, <2>1 DEF IType, AvTabellen
<1>6. \A x \in DOMAIN ny[s] : x = r
  <2> SUFFICES ASSUME NEW x \in DOMAIN ny[s] PROVE x = r
    OBVIOUS
  <2>1. x \in Rader /\ x[1] = "kommune" /\ x[2] = k
    BY <1>1 DEF EgneRader, OktType
  <2> QED
    BY <2>1 DEF Rader, RByggnad, RAdresse, RRessurs, RLenke, RKommune
<1>7. \A x \in Rader \ {r} : db'[x] = db[x]
  BY <1>3, <1>6
<1>8. db' = [db EXCEPT ![r] = TRUE]
  <2>1. /\ db' = [x \in DOMAIN ny[s] \cup DOMAIN db |-> IF x \in DOMAIN ny[s] THEN ny[s][x] ELSE db[x]]
        /\ DOMAIN ny[s] \cup DOMAIN db = Rader
    BY <1>3 DEF TrinnFullfor, Over
  <2>2. db' = [x \in Rader |-> db'[x]]
    BY <2>1
  <2> QED
    BY <1>3, <1>4, <1>5, <1>7, <2>2
<1> QED
  BY <1>3, <1>8, SammeRader DEF Hel!IkkeHentet

\* Every step is an undivided load, work on an address, or neither.
LEMMA UdeltSteg ==
  ASSUME IType, IType', IEgne, IKobling, IHel, [Last \/ Adressearbeid]_vars
  PROVE  [Hel!Next]_<<db, avvik>>
<1>1. Former
  BY StegFormer DEF IType, OktType
<1>2. CASE TrinnAdresse
  <2>1. PICK j \in Kommune, c \in ByggId, g \in {"matrikkel", "manuell", "feilet"} : SettStatus(j, c, g)
    BY <1>2 DEF TrinnAdresse
  <2>2. Hel!SettStatus(j, c, g)
    BY <2>1, SammeRader DEF SettStatus, Hel!SettStatus
  <2> QED
    BY <2>2 DEF Hel!Next
<1>3. ASSUME NEW s \in Okt, TrinnFullfor(s) PROVE Hel!Next
  <2>1. OktType(s) /\ Laster(s) /\ K(s) \in Kommune
    BY <1>3, OktTekst DEF IType, TrinnFullfor
  <2>2. U(s) \in {f[K(s)] : f \in Filer}
    BY <2>1 DEF U, OktType, Laster
  <2>3. CASE U(s) = Feilet
    BY <1>3, <2>1, <2>2, <2>3, FullforIkkeHentet DEF Hel!Next
  <2>4. CASE U(s) # Feilet
    BY <1>3, <2>1, <2>2, <2>4, FullforLast DEF Hel!Next
  <2> QED
    BY <2>3, <2>4
<1>4. UNCHANGED <<db, avvik>> \/ TrinnAdresse \/ \E s \in Okt : TrinnFullfor(s)
  BY <1>1 DEF Former, vars, Start, txvars, TrinnRegistrer, TrinnBygg, TrinnByggFeil, TrinnRessurs,
              TrinnSlett, TrinnLenke, TrinnVent, Trinn, Slutt
<1> QED
  BY <1>2, <1>3, <1>4

\* Innlasting implements UdeltLast: however loads of a kommune overlap, wait for each other,
\* fail, abort and crash, each that commits has done at that moment what it would have done
\* undivided.  The extracts of a kommune share a resource and have each id once.
THEOREM ImplementererUdeltLast ==
  ASSUME FellesRessurs, EntydigeId, ByggEnGang
  PROVE  SpecMedAdresser => LastesUdelt
<1>1. Init => Hel!Init
  BY SammeRader DEF Init, TxInit, Hel!Init
<1>2. /\ IType /\ IType' /\ IEgne /\ IKobling /\ IHel /\ [Last \/ Adressearbeid]_vars
      => [Hel!Next]_<<db, avvik>>
  BY UdeltSteg
<1> QED
  BY <1>1, <1>2, ITypeAlltid, IEgneAlltid, IKoblingAlltid, IHelAlltid, PTL
     DEF SpecMedAdresser, LastesUdelt, Hel!Spec
=============================================================================
