------------------------------ MODULE SokProofs ------------------------------
(***************************************************************************)
(* Theorems about Sok, for every table, every request and any number of     *)
(* commits: what the pages of a search show together, how the two halves of *)
(* an answer agree, and what the filter panel offers.                       *)
(***************************************************************************)
EXTENDS Sok, FiniteSetTheorems, TLAPS

\* What normaliser makes of a valid request.
Normalt == {f \in Parametre : /\ f.side \in 0..(IntHalv - 1)
                              /\ f.storrelse \in 1..MAKS_STORRELSE
                              /\ f.sorter = "avstand" => f.punkt = "helt"
                              /\ f.sorter = "relevans" => f.q # Ingen
                              /\ f.kommune \subseteq Kommunenr
                              /\ \/ f.punkt = "ingen" /\ f.radius = Ingen
                                 \/ f.punkt = "helt" /\ f.radius \in 1..MAKS_RADIUS_METER}

Tabeller == [Ressurs -> Rad \cup {Ingen}]

----------------------------------------------------------------------------
(* Parameters.                                                             *)

\* A valid request is normalised to parameters within the limits.
LEMMA NormaliserType ==
  ASSUME NEW f \in Foresporsel, Gyldig(f)
  PROVE  Normaliser(f) \in Normalt
<1>1. f \in Parametre /\ IntHalv \in Nat /\ MAKS_STORRELSE \in 1..(IntHalv - 1)
  BY Typer, Konstanter
<1>2. PICK s : s = Sorter(f)
  OBVIOUS
<1>3. /\ s \in {"avstand", "relevans", "navn"}
      /\ s = "avstand" => f.punkt = "helt"
      /\ s = "relevans" => f.q # Ingen
  <2>1. s \in {"avstand", "relevans", "navn"}
    BY <1>2 DEF Sorter
  <2>2. s = "avstand" => f.punkt = "helt"
    <3>1. f.punkt \in {"ingen", "helt"}
      BY <1>1 DEF Gyldig, Parametre
    <3> QED
      BY <1>2, <3>1 DEF Gyldig, SorterGyldig, Sorter
  <2>3. s = "relevans" => f.q # Ingen
    BY <1>2 DEF Gyldig, Sorter
  <2> QED
    BY <2>1, <2>2, <2>3
<1>4. PICK n : n = IF f.side = Ingen THEN 0 ELSE Max2(0, f.side)
  OBVIOUS
<1>5. n \in 0..(IntHalv - 1)
  BY <1>1, <1>4 DEF Max2, Parametre, JavaInt
<1>6. PICK m : m = IF f.storrelse = Ingen THEN STANDARD_STORRELSE
                   ELSE Min2(MAKS_STORRELSE, Max2(1, f.storrelse))
  OBVIOUS
<1>7. m \in 1..MAKS_STORRELSE
  BY <1>1, <1>6, Konstanter DEF Max2, Min2, Parametre, JavaInt
<1>8. Normaliser(f) = [f EXCEPT !.sorter = s, !.side = n, !.storrelse = m]
  BY <1>2, <1>4, <1>6 DEF Normaliser
<1>9. n \in JavaInt /\ m \in JavaInt
  BY <1>1, <1>5, <1>7 DEF JavaInt
<1>10. PICK g : g = [f EXCEPT !.sorter = s, !.side = n, !.storrelse = m]
  OBVIOUS
<1>11. g \in Parametre
  BY <1>1, <1>3, <1>9, <1>10 DEF Parametre
<1>12. /\ g.side = n /\ g.storrelse = m /\ g.sorter = s
       /\ g.punkt = f.punkt /\ g.q = f.q /\ g.kommune = f.kommune /\ g.radius = f.radius
  BY <1>1, <1>10 DEF Parametre
<1>13. /\ f.kommune \subseteq Kommunenr
       /\ \/ f.punkt = "ingen" /\ f.radius = Ingen
          \/ f.punkt = "helt" /\ f.radius \in 1..MAKS_RADIUS_METER
  BY <1>1 DEF Gyldig, Parametre
<1> QED
  BY <1>3, <1>5, <1>7, <1>8, <1>10, <1>11, <1>12, <1>13 DEF Normalt

\* The next page has the same parameters but for its number.
LEMMA NesteSide ==
  ASSUME NEW f \in Normalt, f.side + 1 < IntHalv
  PROVE  LET g == [f EXCEPT !.side = @ + 1]
         IN  /\ g \in Normalt
             /\ g.side = f.side + 1 /\ g.storrelse = f.storrelse
             /\ \A t : \A l \in Liste : Rader(l, t, g) = Rader(l, t, f)
             /\ \A t, x : \A l \in Liste : Nokkel(l, x, t, g) = Nokkel(l, x, t, f)
<1>1. PICK g : g = [f EXCEPT !.side = @ + 1]
  OBVIOUS
<1>2. /\ f \in Parametre /\ f.side \in 0..(IntHalv - 1) /\ IntHalv \in Nat
      /\ f.side + 1 \in 0..(IntHalv - 1) /\ f.side + 1 \in JavaInt
  BY Konstanter DEF Normalt, JavaInt
<1>3. g \in Parametre
  BY <1>1, <1>2 DEF Parametre
<1>4. /\ g.side = f.side + 1 /\ g.storrelse = f.storrelse
      /\ g.sorter = f.sorter /\ g.q = f.q /\ g.kommune = f.kommune
      /\ g.lokaletype = f.lokaletype /\ g.aktivitet = f.aktivitet
      /\ g.fasilitet = f.fasilitet /\ g.punkt = f.punkt /\ g.radius = f.radius
  BY <1>1, <1>2 DEF Parametre
<1>5. g \in Normalt
  BY <1>2, <1>3, <1>4 DEF Normalt
<1>6. \A t : Treff(t, g) = Treff(t, f)
  BY <1>4 DEF Treff, Treffer
<1>7. \A b, t : I(b, t, g) = I(b, t, f)
  BY <1>6 DEF I
<1>8. \A t : \A l \in Liste : Rader(l, t, g) = Rader(l, t, f)
  BY <1>6, <1>7 DEF Rader
<1>9. \A b, t : ByggRang(b, t, g) = ByggRang(b, t, f)
  BY <1>4, <1>7 DEF ByggRang, Rang
<1>10. \A t, x : \A l \in Liste : Nokkel(l, x, t, g) = Nokkel(l, x, t, f)
  BY <1>4, <1>9 DEF Nokkel, Rang
<1> QED
  BY <1>1, <1>4, <1>5, <1>8, <1>10

----------------------------------------------------------------------------
(* The order of the rows.                                                  *)

Mindre == {p2 \in Nat \X Nat : p2[1] < p2[2]}

\* A nonempty finite set of numbers has a largest one: fewest lie above it.
LEMMA StorsteFinnes ==
  ASSUME NEW S \in SUBSET Int, IsFiniteSet(S), S # {}
  PROVE  \E m \in S : \A y \in S : y <= m
<1> DEFINE Over(x) == {y \in S : y > x}
           T == {Cardinality(Over(x)) : x \in S}
<1>1. \A x \in S : Over(x) \in SUBSET S /\ IsFiniteSet(Over(x)) /\ Cardinality(Over(x)) \in Nat
  <2> SUFFICES ASSUME NEW x \in S
               PROVE  Over(x) \in SUBSET S /\ IsFiniteSet(Over(x)) /\ Cardinality(Over(x)) \in Nat
    OBVIOUS
  <2>1. Over(x) \in SUBSET S
    OBVIOUS
  <2>2. IsFiniteSet(Over(x))
    BY <2>1, FS_Subset
  <2> QED
    BY <2>1, <2>2, FS_CardinalityType
<1>2. T \subseteq Nat /\ T # {}
  BY <1>1
<1>3. IsWellFoundedOn(Mindre, Nat)
  BY NatLessThanWellFounded DEF OpToRel, Mindre
<1>4. PICK c \in T : \A k \in T : <<k, c>> \notin Mindre
  BY <1>2, <1>3, WFMin
<1>5. PICK m \in S : c = Cardinality(Over(m))
  OBVIOUS
<1>6. ASSUME NEW y \in S, y > m PROVE FALSE
  <2>1. Over(y) \in SUBSET Over(m) /\ y \in Over(m) /\ y \notin Over(y)
    <3>1. y \in Int /\ m \in Int
      BY <1>6
    <3>2. \A z \in S : z \in Int /\ (z > y => z > m)
      BY <1>6, <3>1
    <3>3. ~ (y > y)
      BY <3>1
    <3> QED
      BY <1>6, <3>2, <3>3
  <2>2. Cardinality(Over(y)) <= Cardinality(Over(m)) /\ Cardinality(Over(y)) # Cardinality(Over(m))
    BY <1>1, <2>1, FS_Subset
  <2>3. Cardinality(Over(y)) \in T /\ Cardinality(Over(y)) \in Nat /\ c \in Nat
    BY <1>1, <1>5
  <2>4. Cardinality(Over(y)) < c
    BY <1>5, <2>2, <2>3
  <2> HIDE DEF T, Over
  <2> QED
    BY <1>4, <2>3, <2>4 DEF Mindre
<1> HIDE DEF T, Over
<1> QED
  BY <1>6

\* The rows of a search are finitely many, and are what they should be.
LEMMA RaderFakta ==
  ASSUME NEW t \in Tabeller, NEW f \in Normalt
  PROVE  /\ \A l \in Liste : /\ IsFiniteSet(Rader(l, t, f))
                             /\ Rader(l, t, f) \subseteq Int
         /\ Treff(t, f) \subseteq Ressurs
         /\ \A r \in Treff(t, f) : /\ t[r] \in Rad
                                   /\ Rang(r, t, f) \in Int
                                   /\ f.sorter = "avstand" => t[r].bygg \in Bygg /\ Avstand[t[r].bygg] \in Int
<1>1. Treff(t, f) \in SUBSET Ressurs
  BY DEF Treff, Synlige
<1>2. {b \in Bygg : I(b, t, f) # {}} \in SUBSET Bygg
  OBVIOUS
<1>3. \A l \in Liste : /\ IsFiniteSet(Rader(l, t, f))
                       /\ Rader(l, t, f) \subseteq Int
  BY <1>1, <1>2, Konstanter, FS_Subset DEF Rader
<1>4. ASSUME NEW r \in Treff(t, f)
      PROVE  /\ t[r] \in Rad
             /\ Rang(r, t, f) \in Int
             /\ f.sorter = "avstand" => t[r].bygg \in Bygg /\ Avstand[t[r].bygg] \in Int
  <2>1. r \in Ressurs /\ t[r] # Ingen /\ Treffer(t[r], Eier[r], f)
    BY DEF Treff, Synlige
  <2>2. t[r] \in Rad
    BY <2>1 DEF Tabeller
  <2>3. f \in Parametre /\ (f.sorter = "avstand" => f.punkt = "helt")
    BY DEF Normalt
  <2>4. Rang(r, t, f) \in Int
    BY <2>1, <2>2, <2>3 DEF Rang, Treffer, Rad, Parametre
  <2>5. ASSUME f.sorter = "avstand" PROVE t[r].bygg \in Bygg /\ Avstand[t[r].bygg] \in Int
    <3>1. t[r].bygg # Ingen /\ Avstand[t[r].bygg] # Ingen
      BY <2>1, <2>3, <2>5 DEF Treffer
    <3>2. t[r].bygg \in Bygg
      BY <2>2, <3>1 DEF Rad
    <3> QED
      BY <3>1, <3>2, Typer
  <2> QED
    BY <2>2, <2>4, <2>5
<1> QED
  BY <1>1, <1>3, <1>4

\* The rank of a building with hits is the rank of one of them.
LEMMA ByggRangTall ==
  ASSUME NEW t \in Tabeller, NEW f \in Normalt, NEW b, I(b, t, f) # {}
  PROVE  ByggRang(b, t, f) \in Int
<1>1. I(b, t, f) \in SUBSET Treff(t, f) /\ IsFiniteSet(Treff(t, f))
  BY RaderFakta DEF I, Rader, Liste
<1>2. IsFiniteSet(I(b, t, f))
  BY <1>1, FS_Subset
<1>3. PICK S : S = {Rang(r, t, f) : r \in I(b, t, f)}
  OBVIOUS
<1>4. [r \in I(b, t, f) |-> Rang(r, t, f)] \in Surjection(I(b, t, f), S)
  BY <1>3 DEF Surjection
<1>5. IsFiniteSet(S)
  BY <1>2, <1>4, FS_Surjection
<1>6. S \in SUBSET Int /\ S # {}
  BY <1>1, <1>3, RaderFakta
<1>7. PICK m \in S : \A y \in S : y <= m
  BY <1>5, <1>6, StorsteFinnes
<1>8. \A r \in I(b, t, f) : Rang(r, t, f) <= m
  BY <1>3, <1>7
<1>9. ByggRang(b, t, f) \in S
  BY <1>3, <1>7, <1>8 DEF ByggRang
<1> QED
  BY <1>6, <1>9

\* A row's key is made of numbers and ends with its id.
LEMMA NokkelTall ==
  ASSUME NEW t \in Tabeller, NEW f \in Normalt, NEW l \in Liste, NEW x \in Rader(l, t, f)
  PROVE  \E a, b \in Int : Nokkel(l, x, t, f) = <<a, b, x>>
<1>1. CASE l = "bygg"
  <2>1. x \in Bygg /\ I(x, t, f) # {}
    BY <1>1 DEF Rader
  <2>2. PICK r \in Treff(t, f) : t[r].bygg = x
    BY <2>1 DEF I
  <2>3. ByggNavn[x] \in Int /\ ByggRang(x, t, f) \in Int
    BY <2>1, Typer, ByggRangTall
  <2>4. f.sorter = "avstand" => Avstand[x] \in Int
    BY <2>2, RaderFakta
  <2> QED
    BY <1>1, <2>3, <2>4 DEF Nokkel
<1>2. CASE l = "ressurser"
  <2>1. x \in Treff(t, f)
    BY <1>2 DEF Rader
  <2>2. /\ t[x] \in Rad /\ Rang(x, t, f) \in Int
        /\ f.sorter = "avstand" => Avstand[t[x].bygg] \in Int
    BY <2>1, RaderFakta
  <2>3. t[x].navn \in Int
    BY <2>2 DEF Rad
  <2> QED
    BY <1>2, <2>2, <2>3 DEF Nokkel
<1> QED
  BY <1>1, <1>2 DEF Liste

\* Two rows with different ids are in one order or the other.
LEMMA FoerTotal ==
  ASSUME NEW a1 \in Int, NEW a2 \in Int, NEW a3 \in Int,
         NEW b1 \in Int, NEW b2 \in Int, NEW b3 \in Int, a3 # b3
  PROVE  Foer(<<a1, a2, a3>>, <<b1, b2, b3>>) \/ Foer(<<b1, b2, b3>>, <<a1, a2, a3>>)
<1> DEFINE a == <<a1, a2, a3>>
           b == <<b1, b2, b3>>
<1>1. /\ 1..(1 - 1) = {} /\ 1..(2 - 1) = {1} /\ 1..(3 - 1) = {1, 2}
      /\ 1 \in 1..3 /\ 2 \in 1..3 /\ 3 \in 1..3
  OBVIOUS
<1>2. /\ a[1] = a1 /\ a[2] = a2 /\ a[3] = a3
      /\ b[1] = b1 /\ b[2] = b2 /\ b[3] = b3
  OBVIOUS
<1> HIDE DEF a, b
<1>3. CASE a1 # b1
  <2>1. a[1] < b[1] \/ b[1] < a[1]
    BY <1>2, <1>3
  <2> QED
    BY <1>1, <2>1 DEF Foer, a, b
<1>4. CASE a1 = b1 /\ a2 # b2
  <2>1. a[2] < b[2] \/ b[2] < a[2]
    BY <1>2, <1>4
  <2>2. \A j \in 1..(2 - 1) : a[j] = b[j]
    BY <1>1, <1>2, <1>4
  <2> QED
    BY <1>1, <2>1, <2>2 DEF Foer, a, b
<1>5. CASE a1 = b1 /\ a2 = b2
  <2>1. a[3] < b[3] \/ b[3] < a[3]
    BY <1>2, <1>5
  <2>2. \A j \in 1..(3 - 1) : a[j] = b[j]
    BY <1>1, <1>2, <1>5
  <2> QED
    BY <1>1, <2>1, <2>2 DEF Foer, a, b
<1> QED
  BY <1>3, <1>4, <1>5

\* The number of a row: how many come before it.
Nr(l, x, t, f) == Cardinality({y \in Rader(l, t, f) : Foer(Nokkel(l, y, t, f), Nokkel(l, x, t, f))})

\* With the id last the order is total, so there is one placing of the rows only,
\* whenever the statement is run: each row at its number, and no number is empty.
LEMMA PlassErNr ==
  ASSUME NEW t \in Tabeller, NEW f \in Normalt, NEW l \in Liste,
         NEW plass \in Plasseringer(l, t, f)
  PROVE  LET S == Rader(l, t, f)
             n == Cardinality(S)
         IN  /\ n \in Nat
             /\ plass \in Injection(S, 0..(n - 1))
             /\ \A x \in S : plass[x] = Nr(l, x, t, f) /\ Nr(l, x, t, f) \in 0..(n - 1)
             /\ \A i \in 0..(n - 1) : \E x \in S : Nr(l, x, t, f) = i
<1> DEFINE S == Rader(l, t, f)
           n == Cardinality(S)
           N(x) == Nokkel(l, x, t, f)
<1>1. IsFiniteSet(S) /\ S \subseteq Int /\ n \in Nat
  BY RaderFakta, FS_CardinalityType
<1>2. /\ plass \in [S -> 0..(n - 1)]
      /\ \A x, y \in S : x # y => plass[x] # plass[y]
      /\ \A x, y \in S : x # y /\ Foer(N(x), N(y)) => plass[x] < plass[y]
  BY DEF Plasseringer
<1>3. \A x, y \in S : x # y => Foer(N(x), N(y)) \/ Foer(N(y), N(x))
  <2> SUFFICES ASSUME NEW x \in S, NEW y \in S, x # y
               PROVE  Foer(N(x), N(y)) \/ Foer(N(y), N(x))
    OBVIOUS
  <2>1. PICK a, b \in Int : N(x) = <<a, b, x>>
    BY NokkelTall
  <2>2. PICK c, d \in Int : N(y) = <<c, d, y>>
    BY NokkelTall
  <2>3. x \in Int /\ y \in Int
    BY <1>1
  <2> HIDE DEF N
  <2> QED
    BY <2>1, <2>2, <2>3, FoerTotal
<1>4. \A x \in S : ~ Foer(N(x), N(x))
  <2> SUFFICES ASSUME NEW x \in S PROVE ~ Foer(N(x), N(x))
    OBVIOUS
  <2>1. PICK a, b \in Int : N(x) = <<a, b, x>>
    BY NokkelTall
  <2>2. \A i \in 1..3 : N(x)[i] \in Int
    BY <1>1, <2>1
  <2>3. \A i \in 1..3 : ~ (N(x)[i] < N(x)[i])
    BY <2>2
  <2> HIDE DEF N
  <2> QED
    BY <2>3 DEF Foer
<1> HIDE DEF S, N
<1>5. plass \in Injection(S, 0..(n - 1))
  BY <1>2 DEF Injection, IsInjective
<1>6. IsFiniteSet(0..(n - 1)) /\ Cardinality(0..(n - 1)) = n
  BY <1>1, FS_Interval
<1>7. plass \in Surjection(S, 0..(n - 1))
  BY <1>5, <1>6, FS_Injection
<1>8. \A i \in 0..(n - 1) : \E x \in S : plass[x] = i
  BY <1>7 DEF Surjection
<1>9. ASSUME NEW x \in S PROVE plass[x] = Nr(l, x, t, f)
  <2> DEFINE B == {y \in S : plass[y] < plass[x]}
             g == [y \in B |-> plass[y]]
             k == plass[x]
  <2>1. k \in 0..(n - 1) /\ \A y \in S : plass[y] \in 0..(n - 1)
    BY <1>2
  <2>2. B \in SUBSET S /\ IsFiniteSet(B)
    BY <1>1, FS_Subset
  <2>3. g \in [B -> 0..(k - 1)]
    <3>1. \A y \in B : plass[y] \in 0..(k - 1)
      BY <1>1, <2>1
    <3> QED
      BY <3>1
  <2>4. g \in Injection(B, 0..(k - 1))
    BY <1>2, <2>3 DEF Injection, IsInjective
  <2>5. \A i \in 0..(k - 1) : \E y \in B : g[y] = i
    <3> SUFFICES ASSUME NEW i \in 0..(k - 1) PROVE \E y \in B : g[y] = i
      OBVIOUS
    <3>1. i \in 0..(n - 1) /\ i < k
      BY <1>1, <2>1
    <3>2. PICK y \in S : plass[y] = i
      BY <1>8, <3>1
    <3> QED
      BY <3>1, <3>2
  <2>6. g \in Bijection(B, 0..(k - 1))
    BY <2>3, <2>4, <2>5 DEF Bijection, Surjection
  <2>7. Cardinality(0..(k - 1)) = Cardinality(B)
    <3>1. ExistsBijection(B, 0..(k - 1))
      BY <2>6 DEF ExistsBijection
    <3> QED
      BY <2>2, <3>1, FS_Bijection
  <2>8. Cardinality(0..(k - 1)) = k
    <3>1. k \in Nat
      BY <1>1, <2>1
    <3>2. k - 1 \in Int /\ 0 \in Int /\ (0 > k - 1 => k = 0) /\ (k - 1) - 0 + 1 = k
      BY <3>1
    <3> HIDE DEF k
    <3> QED
      BY <3>2, FS_Interval
  <2>9. B = {y \in S : Foer(N(y), N(x))}
    <3>1. ASSUME NEW y \in S PROVE plass[y] < plass[x] <=> Foer(N(y), N(x))
      <4>1. CASE y = x
        BY <1>1, <1>4, <2>1, <4>1
      <4>2. CASE y # x
        <5>1. Foer(N(y), N(x)) => plass[y] < plass[x]
          BY <1>2, <4>2
        <5>2. Foer(N(x), N(y)) => plass[x] < plass[y]
          BY <1>2, <4>2
        <5>3. ~ (plass[y] < plass[x] /\ plass[x] < plass[y])
          BY <1>1, <2>1
        <5> QED
          BY <1>3, <4>2, <5>1, <5>2, <5>3
      <4> QED
        BY <4>1, <4>2
    <3> QED
      BY <3>1
  <2> HIDE DEF B
  <2> QED
    BY <2>7, <2>8, <2>9 DEF Nr, S, N
<1> QED
  BY <1>1, <1>2, <1>5, <1>8, <1>9 DEF S

----------------------------------------------------------------------------
(* One page.                                                               *)

\* The offset is the product as long as that fits an int, and the first product
\* that does not fit is negative.
LEMMA OffsetVerdi ==
  ASSUME NEW f \in Normalt
  PROVE  LET o == f.side * f.storrelse
         IN  /\ o \in Nat /\ o + f.storrelse = (f.side + 1) * f.storrelse
             /\ Offset(f) \in Int
             /\ o < IntHalv => Offset(f) = o
             /\ IntHalv <= o /\ o < 2 * IntHalv => Offset(f) < 0
<1>1. /\ f.side \in Nat /\ f.storrelse \in Nat /\ IntHalv \in Nat /\ IntHalv > 0
  BY Konstanter DEF Normalt
<1>2. PICK o : o = f.side * f.storrelse
  OBVIOUS
<1>3. o \in Nat /\ o + f.storrelse = (f.side + 1) * f.storrelse
  BY <1>1, <1>2
<1>4. Offset(f) = ((o + IntHalv) % (2 * IntHalv)) - IntHalv
  BY <1>2 DEF Offset
<1>5. o < IntHalv => ((o + IntHalv) % (2 * IntHalv)) - IntHalv = o
  BY <1>1, <1>3
<1>6. IntHalv <= o /\ o < 2 * IntHalv => ((o + IntHalv) % (2 * IntHalv)) - IntHalv < 0
  BY <1>1, <1>3
<1>7. (o + IntHalv) % (2 * IntHalv) \in Int
  BY <1>1, <1>3
<1> QED
  BY <1>1, <1>2, <1>3, <1>4, <1>5, <1>6, <1>7

\* A page has the rows whose numbers are on it, it is empty exactly beyond the
\* last row, and it is no larger than asked for.
LEMMA SideFakta ==
  ASSUME NEW t \in Tabeller, NEW f \in Normalt, NEW l \in Liste,
         NEW plass \in Plasseringer(l, t, f), Offset(f) >= 0
  PROVE  LET S == Rader(l, t, f)
             n == Cardinality(S)
             s == Side(l, t, f, plass)
             o == Offset(f)
         IN  /\ s.treff = {x \in S : o <= Nr(l, x, t, f) /\ Nr(l, x, t, f) < o + f.storrelse}
             /\ s.treff = {} <=> o >= n
             /\ IsFiniteSet(s.treff) /\ Cardinality(s.treff) <= f.storrelse
             /\ s.totalt = IF s.treff = {} THEN 0 ELSE n
             /\ l = "bygg" => \A b \in s.treff : s.antall[b] = AntallI(b, t, f)
<1> DEFINE S == Rader(l, t, f)
           n == Cardinality(S)
           s == Side(l, t, f, plass)
           o == Offset(f)
           m == f.storrelse
           D == {x \in S : plass[x] \in o..(o + m - 1)}
<1>1. o \in Nat /\ m \in Nat \ {0}
  BY OffsetVerdi, Konstanter DEF Normalt
<1>2. s = [treff |-> D, antall |-> [x \in D |-> IF l = "bygg" THEN AntallI(x, t, f) ELSE 1],
           totalt |-> IF D = {} THEN 0 ELSE n]
  BY DEF Side
<1>3. /\ s.treff = D
      /\ s.totalt = IF D = {} THEN 0 ELSE n
      /\ l = "bygg" => \A b \in D : s.antall[b] = AntallI(b, t, f)
  BY <1>2
<1>4. /\ n \in Nat
      /\ \A x \in S : plass[x] = Nr(l, x, t, f) /\ plass[x] \in 0..(n - 1)
      /\ \A i \in 0..(n - 1) : \E x \in S : plass[x] = i
      /\ \A x, y \in S : plass[x] = plass[y] => x = y
      /\ plass \in [S -> 0..(n - 1)]
  BY PlassErNr DEF Injection, IsInjective
<1> HIDE DEF s, S, o, m
<1>5. D = {x \in S : o <= Nr(l, x, t, f) /\ Nr(l, x, t, f) < o + m}
  <2>1. ASSUME NEW x \in S
        PROVE  plass[x] \in o..(o + m - 1) <=> o <= Nr(l, x, t, f) /\ Nr(l, x, t, f) < o + m
    BY <1>1, <1>4
  <2> QED
    BY <2>1
<1>6. D = {} <=> o >= n
  <2>1. CASE o < n
    <3>1. PICK x \in S : plass[x] = o
      BY <1>1, <1>4, <2>1
    <3>2. x \in D
      BY <1>1, <3>1
    <3> QED
      BY <1>1, <1>4, <2>1, <3>2
  <2>2. CASE o >= n
    <3>1. \A x \in S : plass[x] \notin o..(o + m - 1)
      BY <1>1, <1>4, <2>2
    <3> QED
      BY <2>2, <3>1
  <2> QED
    BY <1>1, <1>4, <2>1, <2>2
<1>7. IsFiniteSet(D) /\ Cardinality(D) <= m
  <2> DEFINE g == [x \in D |-> plass[x]]
             T == o..(o + m - 1)
  <2>1. g \in Injection(D, T)
    BY <1>4 DEF Injection, IsInjective
  <2>2. IsFiniteSet(T) /\ Cardinality(T) = m
    <3>1. o \in Int /\ o + m - 1 \in Int /\ ~ (o > o + m - 1) /\ (o + m - 1) - o + 1 = m
      BY <1>1
    <3> QED
      BY <3>1, FS_Interval
  <2> HIDE DEF D, g, T
  <2> QED
    BY <2>1, <2>2, FS_Injection
<1> HIDE DEF D
<1> QED
  BY <1>3, <1>5, <1>6, <1>7 DEF S, s, o, m

----------------------------------------------------------------------------
(* The inductive invariant.                                                *)

\* The client has walked here from the first page.
PaaVei == p.side = 0 \/ sett # IngenSett

ITyper == /\ tabell \in Tabeller /\ tabell \in oyeblikk
          /\ \A r \in Ressurs : tabell[r] # Ingen =>
               \E u \in Utgave[r] : tabell[r] \in {u, [u EXCEPT !.synlig = ~ @]}
          /\ p \in Normalt \cup {Ingen}
          /\ pc \in {"klar"} \cup Liste
          /\ pc # "klar" => p # Ingen
          /\ pc = "bygg" => svar = IngenSvar
          /\ DOMAIN svar = Liste /\ DOMAIN panel = Filter /\ DOMAIN sett = Liste

\* A page was asked for with an offset PostgreSQL takes, and is not too large.
IStorrelse == /\ p # Ingen /\ pc # "bygg" => Offset(p) >= 0
              /\ \A l \in Liste : svar[l] # Ingen =>
                   IsFiniteSet(svar[l].treff) /\ Cardinality(svar[l].treff) <= MAKS_STORRELSE

\* As long as nothing is committed a page is what the table gives now.
ISvar == p # Ingen /\ Uendret =>
           \A l \in Liste : pc = "klar" \/ (pc = "ressurser" /\ l = "bygg") =>
             \E plass \in Plasseringer(l, tabell, p) : svar[l] = Side(l, tabell, p, plass)

\* A walk only gets one page too far, and has seen the rows before its page.
IVei == p # Ingen =>
          /\ p.side = 0 => sett = IngenSett
          /\ PaaVei => \/ p.side * p.storrelse < IntHalv
                       \/ pc = "bygg" /\ p.side * p.storrelse < 2 * IntHalv
          /\ PaaVei /\ Uendret =>
               \A l \in Liste : sett[l] = {x \in Rader(l, tabell, p) :
                                             Nr(l, x, tabell, p) < p.side * p.storrelse}

\* The lists of the panel are read after the one of kommuner, and from the table
\* as it is as long as nothing is committed.
IPanel == /\ panel["kommune"] = Ingen => \A f \in Filter : panel[f] = Ingen
          /\ Uendret => \A f \in Filter : panel[f] # Ingen => panel[f] = Tilbud(f, tabell)

\* A row that differs from a row of a release at most in synlig.
Fra(u) == {u, [u EXCEPT !.synlig = ~ @]}

\* Setting synlig of such a row gives such a row.
LEMMA SynligEnten ==
  ASSUME NEW u \in Rad, NEW x \in Fra(u), NEW b \in BOOLEAN
  PROVE  x \in Rad /\ [x EXCEPT !.synlig = b] \in Fra(u)
<1>1. PICK v : v = [u EXCEPT !.synlig = ~ u.synlig]
  OBVIOUS
<1>2. u.synlig \in BOOLEAN /\ v \in Rad /\ v.synlig = ~ u.synlig
  BY <1>1 DEF Rad
<1>3. x = u \/ x = v
  BY <1>1 DEF Fra
<1>4. PICK y : y = [x EXCEPT !.synlig = b]
  OBVIOUS
<1>5. x \in Rad
  BY <1>2, <1>3
<1>6. CASE b = u.synlig
  <2>1. y = u
    BY <1>1, <1>2, <1>3, <1>4, <1>6 DEF Rad
  <2> QED
    BY <1>4, <1>5, <2>1 DEF Fra
<1>7. CASE b = ~ u.synlig
  <2>1. y = v
    BY <1>1, <1>2, <1>3, <1>4, <1>7 DEF Rad
  <2> QED
    BY <1>1, <1>4, <1>5, <2>1 DEF Fra
<1> QED
  BY <1>2, <1>6, <1>7

\* A commit of rows of the releases keeps the types.
LEMMA EndringTyper ==
  ASSUME ITyper, NEW t, Endring(t), t \in Tabeller,
         \A r \in Ressurs : t[r] # Ingen => \E u \in Utgave[r] : t[r] \in Fra(u)
  PROVE  ITyper'
BY DEF ITyper, Endring, Fra

\* A commit that leaves the search undisturbed leaves the table as it was.
LEMMA EndringUendret ==
  ASSUME ITyper, NEW t, Endring(t), Uendret'
  PROVE  Uendret /\ tabell' = tabell
BY DEF ITyper, Endring, Uendret

\* A load or an editor: the rows are those of a release but for synlig.
LEMMA Endringer ==
  ASSUME ITyper, (\E k \in Kommune : Last(k)) \/ (\E r \in Ressurs : SettSynlig(r))
  PROVE  \E t : /\ Endring(t) /\ t \in Tabeller
                /\ \A r \in Ressurs : t[r] # Ingen => \E u \in Utgave[r] : t[r] \in Fra(u)
<1>1. ASSUME NEW k \in Kommune, Last(k)
      PROVE  \E t : /\ Endring(t) /\ t \in Tabeller
                    /\ \A r \in Ressurs : t[r] # Ingen => \E u \in Utgave[r] : t[r] \in Fra(u)
  <2>1. PICK ny \in [Ressurs -> UNION {Utgave[r] : r \in Ressurs} \cup {Ingen}] :
          /\ \A r \in Ressurs : ny[r] \in IF Eier[r] = k THEN Utgave[r] ELSE {tabell[r]}
          /\ Endring([r \in Ressurs |->
               IF Eier[r] = k /\ tabell[r] # Ingen
               THEN [ny[r] EXCEPT !.synlig = tabell[r].synlig] ELSE ny[r]])
    BY <1>1 DEF Last
  <2>2. PICK t : t = [r \in Ressurs |->
               IF Eier[r] = k /\ tabell[r] # Ingen
               THEN [ny[r] EXCEPT !.synlig = tabell[r].synlig] ELSE ny[r]]
    OBVIOUS
  <2>3. ASSUME NEW r \in Ressurs
        PROVE  /\ t[r] \in Rad \cup {Ingen}
               /\ t[r] # Ingen => \E u \in Utgave[r] : t[r] \in Fra(u)
    <3>1. CASE Eier[r] # k
      BY <2>1, <2>2, <3>1 DEF ITyper, Tabeller, Fra
    <3>2. CASE Eier[r] = k /\ tabell[r] = Ingen
      BY <2>1, <2>2, <3>2, Typer DEF Fra
    <3>3. CASE Eier[r] = k /\ tabell[r] # Ingen
      <4>1. ny[r] \in Utgave[r] /\ ny[r] \in Rad /\ ny[r] \in Fra(ny[r])
        BY <2>1, <3>3, Typer DEF Fra
      <4>2. tabell[r].synlig \in BOOLEAN
        BY <3>3 DEF ITyper, Tabeller, Rad
      <4>3. t[r] = [ny[r] EXCEPT !.synlig = tabell[r].synlig]
        BY <2>2, <3>3
      <4>4. t[r] \in Fra(ny[r])
        BY <4>1, <4>2, <4>3, SynligEnten
      <4>5. t[r] \in Rad
        BY <4>1, <4>4, SynligEnten
      <4> QED
        BY <4>1, <4>4, <4>5
    <3> QED
      BY <3>1, <3>2, <3>3
  <2>4. t \in Tabeller
    BY <2>2, <2>3 DEF Tabeller
  <2> QED
    BY <2>1, <2>2, <2>3, <2>4
<1>2. ASSUME NEW q \in Ressurs, SettSynlig(q)
      PROVE  \E t : /\ Endring(t) /\ t \in Tabeller
                    /\ \A r \in Ressurs : t[r] # Ingen => \E u \in Utgave[r] : t[r] \in Fra(u)
  <2>1. PICK t : t = [tabell EXCEPT ![q].synlig = ~ @]
    OBVIOUS
  <2>2. tabell[q] # Ingen /\ Endring(t)
    BY <1>2, <2>1 DEF SettSynlig
  <2>3. /\ \A r \in Ressurs \ {q} : t[r] = tabell[r]
        /\ t[q] = [tabell[q] EXCEPT !.synlig = ~ tabell[q].synlig]
        /\ DOMAIN t = Ressurs
    BY <2>1 DEF ITyper, Tabeller
  <2>4. PICK u \in Utgave[q] : tabell[q] \in Fra(u)
    BY <2>2 DEF ITyper, Fra
  <2>5. u \in Rad
    BY Typer
  <2>6. tabell[q] \in Rad /\ tabell[q].synlig \in BOOLEAN
    BY <2>4, <2>5, SynligEnten DEF Rad
  <2>7. (~ tabell[q].synlig) \in BOOLEAN
    BY <2>6
  <2>8. t[q] \in Fra(u)
    BY <2>3, <2>4, <2>5, <2>7, SynligEnten
  <2>9. t[q] \in Rad
    BY <2>5, <2>8, SynligEnten
  <2>10. \A r \in Ressurs : t[r] \in Rad \cup {Ingen}
    BY <2>3, <2>9 DEF ITyper, Tabeller
  <2>11. t \in Tabeller
    <3>1. t = [r \in Ressurs |-> t[r]]
      BY <2>1, <2>3 DEF ITyper, Tabeller
    <3> QED
      BY <2>10, <3>1 DEF Tabeller
  <2>12. \A r \in Ressurs : t[r] # Ingen => \E v \in Utgave[r] : t[r] \in Fra(v)
    BY <2>3, <2>4, <2>8 DEF ITyper, Fra
  <2> QED
    BY <2>2, <2>11, <2>12
<1> QED
  BY <1>1, <1>2

\* Every step keeps the types.
LEMMA TyperSteg == ITyper /\ [Next]_vars => ITyper'
<1> SUFFICES ASSUME ITyper, [Next]_vars PROVE ITyper'
  OBVIOUS
<1>1. ASSUME NEW f \in Foresporsel, Start(f) PROVE ITyper'
  <2>1. p' \in Normalt \cup {Ingen} /\ pc' \in {"klar"} \cup Liste /\ (pc' # "klar" => p' # Ingen)
    BY <1>1, NormaliserType, Typer DEF Start, Normalt, Liste
  <2> QED
    BY <1>1, <2>1 DEF Start, ITyper, IngenSvar, IngenSett
<1>2. CASE Bla
  <2>1. p \in Normalt /\ p.side + 1 < IntHalv
    BY <1>2 DEF Bla, ITyper
  <2>2. p' \in Normalt
    BY <1>2, <2>1, NesteSide DEF Bla
  <2>3. p' # Ingen
    BY <2>2, Typer DEF Normalt
  <2> QED
    BY <1>2, <2>2, <2>3 DEF Bla, ITyper, IngenSvar, Liste
<1>3. ASSUME NEW l \in Liste, Spor(l) PROVE ITyper'
  <2>1. pc' \in {"klar"} \cup Liste /\ pc' # "bygg" /\ p # Ingen
    BY <1>3 DEF Spor, Liste, ITyper
  <2>2. DOMAIN svar' = Liste
    BY <1>3 DEF Spor, ITyper
  <2> QED
    BY <1>3, <2>1, <2>2 DEF Spor, ITyper
<1>4. CASE Feiler
  BY <1>4 DEF Feiler, ITyper, IngenSvar
<1>5. ASSUME NEW f \in Filter, HentFiltre(f) PROVE ITyper'
  BY <1>5 DEF HentFiltre, ITyper, IngenSvar, IngenSett
<1>6. ASSUME (\E k \in Kommune : Last(k)) \/ (\E r \in Ressurs : SettSynlig(r)) PROVE ITyper'
  BY <1>6, Endringer, EndringTyper
<1>7. CASE UNCHANGED vars
  BY <1>7 DEF vars, ITyper
<1> QED
  BY <1>1, <1>2, <1>3, <1>4, <1>5, <1>6, <1>7 DEF Next

\* Every page that is answered has a valid offset and at most MAKS_STORRELSE rows.
LEMMA StorrelseSteg == ITyper /\ IStorrelse /\ [Next]_vars => IStorrelse'
<1> SUFFICES ASSUME ITyper, IStorrelse, [Next]_vars PROVE IStorrelse'
  OBVIOUS
<1>1. ASSUME NEW f \in Foresporsel, Start(f) PROVE IStorrelse'
  BY <1>1 DEF Start, IStorrelse, IngenSvar
<1>2. CASE Bla
  BY <1>2 DEF Bla, IStorrelse, IngenSvar
<1>3. ASSUME NEW l \in Liste, Spor(l) PROVE IStorrelse'
  <2>1. p \in Normalt /\ tabell \in Tabeller
    BY <1>3 DEF Spor, ITyper, Liste
  <2>2. PICK plass \in Plasseringer(l, tabell, p) : svar' = [svar EXCEPT ![l] = Side(l, tabell, p, plass)]
    BY <1>3 DEF Spor
  <2>3. PICK s : s = Side(l, tabell, p, plass)
    OBVIOUS
  <2>4. IsFiniteSet(s.treff) /\ Cardinality(s.treff) <= p.storrelse
    BY <1>3, <2>1, <2>3, SideFakta DEF Spor
  <2>5. Cardinality(s.treff) <= MAKS_STORRELSE
    BY <2>1, <2>4, FS_CardinalityType, Konstanter DEF Normalt
  <2>6. svar'[l] = s /\ \A j \in Liste \ {l} : svar'[j] = svar[j]
    BY <2>2, <2>3 DEF ITyper
  <2>7. \A j \in Liste : svar'[j] # Ingen =>
          IsFiniteSet(svar'[j].treff) /\ Cardinality(svar'[j].treff) <= MAKS_STORRELSE
    BY <2>4, <2>5, <2>6 DEF IStorrelse
  <2> QED
    BY <1>3, <2>7 DEF Spor, IStorrelse
<1>4. CASE Feiler
  BY <1>4 DEF Feiler, IStorrelse, IngenSvar
<1>5. ASSUME NEW f \in Filter, HentFiltre(f) PROVE IStorrelse'
  BY <1>5 DEF HentFiltre, IStorrelse, IngenSvar
<1>6. ASSUME (\E k \in Kommune : Last(k)) \/ (\E r \in Ressurs : SettSynlig(r)) PROVE IStorrelse'
  BY <1>6, Endringer DEF Endring, IStorrelse
<1>7. CASE UNCHANGED vars
  BY <1>7 DEF vars, IStorrelse
<1> QED
  BY <1>1, <1>2, <1>3, <1>4, <1>5, <1>6, <1>7 DEF Next

\* A list of the answer stays what the table gives until a commit disturbs it.
LEMMA SvarSteg == ITyper /\ ISvar /\ [Next]_vars => ISvar'
<1> SUFFICES ASSUME ITyper, ISvar, [Next]_vars PROVE ISvar'
  OBVIOUS
<1>1. ASSUME NEW f \in Foresporsel, Start(f) PROVE ISvar'
  BY <1>1 DEF Start, ISvar, IngenSvar
<1>2. CASE Bla
  BY <1>2 DEF Bla, ISvar, IngenSvar
<1>3. ASSUME NEW l \in Liste, Spor(l) PROVE ISvar'
  <2>1. PICK plass \in Plasseringer(l, tabell, p) : svar' = [svar EXCEPT ![l] = Side(l, tabell, p, plass)]
    BY <1>3 DEF Spor
  <2>2. svar'[l] = Side(l, tabell, p, plass) /\ \A j \in Liste \ {l} : svar'[j] = svar[j]
    BY <2>1 DEF ITyper
  <2>3. /\ tabell' = tabell /\ p' = p /\ oyeblikk' = oyeblikk
        /\ pc = l /\ pc' = IF l = "bygg" THEN "ressurser" ELSE "klar"
    BY <1>3 DEF Spor
  <2> QED
    BY <2>2, <2>3 DEF ISvar, Uendret, Liste
<1>4. CASE Feiler
  BY <1>4 DEF Feiler, ISvar
<1>5. ASSUME NEW f \in Filter, HentFiltre(f) PROVE ISvar'
  BY <1>5 DEF HentFiltre, ISvar
<1>6. ASSUME NEW t, Endring(t) PROVE ISvar'
  BY <1>6, EndringUendret DEF Endring, ISvar
<1>7. CASE UNCHANGED vars
  BY <1>7 DEF vars, ISvar, Uendret
<1> QED
  BY <1>1, <1>2, <1>3, <1>4, <1>5, <1>6, <1>7, Endringer DEF Next

\* A list of the panel stays what the table gives until a commit disturbs it.
LEMMA PanelSteg == ITyper /\ IPanel /\ [Next]_vars => IPanel'
<1> SUFFICES ASSUME ITyper, IPanel, [Next]_vars PROVE IPanel'
  OBVIOUS
<1>1. ASSUME NEW f \in Foresporsel, Start(f) PROVE IPanel'
  BY <1>1 DEF Start, IPanel, Filter
<1>2. CASE Bla
  BY <1>2 DEF Bla, IPanel, Uendret
<1>3. ASSUME NEW l \in Liste, Spor(l) PROVE IPanel'
  BY <1>3 DEF Spor, IPanel, Uendret
<1>4. CASE Feiler
  BY <1>4 DEF Feiler, IPanel, Uendret
<1>5. ASSUME NEW f \in Filter, HentFiltre(f) PROVE IPanel'
  <2>1. /\ panel'[f] = Tilbud(f, tabell) /\ \A g \in Filter \ {f} : panel'[g] = panel[g]
        /\ tabell' = tabell
    BY <1>5 DEF HentFiltre, ITyper
  <2>2. CASE f = "kommune"
    BY <1>5, <2>1, <2>2 DEF HentFiltre, IPanel, Filter
  <2>3. CASE f # "kommune"
    <3>1. panel["kommune"] # Ingen /\ oyeblikk' = oyeblikk
      BY <1>5, <2>3 DEF HentFiltre
    <3> QED
      BY <2>1, <2>3, <3>1 DEF IPanel, Uendret, Filter
  <2> QED
    BY <2>2, <2>3
<1>6. ASSUME NEW t, Endring(t) PROVE IPanel'
  BY <1>6, EndringUendret DEF Endring, IPanel
<1>7. CASE UNCHANGED vars
  BY <1>7 DEF vars, IPanel, Uendret
<1> QED
  BY <1>1, <1>2, <1>3, <1>4, <1>5, <1>6, <1>7, Endringer DEF Next

\* The number of a row is a natural number.
LEMMA NrType ==
  ASSUME NEW t \in Tabeller, NEW f \in Normalt, NEW l \in Liste, NEW x
  PROVE  Nr(l, x, t, f) \in Nat
<1> DEFINE B == {y \in Rader(l, t, f) : Foer(Nokkel(l, y, t, f), Nokkel(l, x, t, f))}
<1>1. IsFiniteSet(Rader(l, t, f)) /\ B \in SUBSET Rader(l, t, f)
  BY RaderFakta
<1>2. IsFiniteSet(B)
  BY <1>1, FS_Subset
<1> QED
  BY <1>2, FS_CardinalityType DEF Nr

\* The rows seen before a page and those on it are the rows seen before the next.
LEMMA BlaVei ==
  ASSUME ITyper, IStorrelse, ISvar, IVei, Bla
  PROVE  IVei'
<1> DEFINE o == p.side * p.storrelse
           g == [p EXCEPT !.side = @ + 1]
<1>1. /\ pc = "klar" /\ p # Ingen /\ PaaVei /\ p.side + 1 < IntHalv
      /\ p' = g /\ pc' = "bygg" /\ tabell' = tabell /\ oyeblikk' = oyeblikk
      /\ \A l \in Liste : sett'[l] = sett[l] \cup svar[l].treff
  BY DEF Bla, PaaVei
<1>2. p \in Normalt /\ tabell \in Tabeller
  BY <1>1 DEF ITyper
<1>3. /\ g \in Normalt /\ g.side = p.side + 1 /\ g.storrelse = p.storrelse
      /\ \A t : \A l \in Liste : Rader(l, t, g) = Rader(l, t, p)
      /\ \A t, x : \A l \in Liste : Nokkel(l, x, t, g) = Nokkel(l, x, t, p)
  BY <1>1, <1>2, NesteSide
<1>4. /\ o \in Nat /\ o < IntHalv /\ Offset(p) = o
      /\ o + p.storrelse = (p.side + 1) * p.storrelse
  BY <1>1, <1>2, OffsetVerdi DEF IVei
<1>5. g.side * g.storrelse = o + p.storrelse
  BY <1>3, <1>4
<1>6. o + p.storrelse < 2 * IntHalv
  BY <1>2, <1>4, Konstanter DEF Normalt
<1>7. ASSUME Uendret, NEW l \in Liste
      PROVE  sett'[l] = {x \in Rader(l, tabell, g) : Nr(l, x, tabell, g) < o + p.storrelse}
  <2>1. PICK plass \in Plasseringer(l, tabell, p) : svar[l] = Side(l, tabell, p, plass)
    BY <1>1, <1>7 DEF ISvar
  <2>2. svar[l].treff = {x \in Rader(l, tabell, p) : o <= Nr(l, x, tabell, p)
                                                     /\ Nr(l, x, tabell, p) < o + p.storrelse}
    BY <1>2, <1>4, <2>1, SideFakta
  <2>3. sett[l] = {x \in Rader(l, tabell, p) : Nr(l, x, tabell, p) < o}
    BY <1>1, <1>7 DEF IVei
  <2>4. \A x \in Rader(l, tabell, p) : /\ Nr(l, x, tabell, p) \in Nat
                                       /\ Nr(l, x, tabell, g) = Nr(l, x, tabell, p)
    BY <1>2, <1>3, NrType DEF Nr
  <2>5. p.storrelse \in Nat
    BY <1>2 DEF Normalt
  <2>6. ASSUME NEW x \in Rader(l, tabell, p)
        PROVE  x \in sett[l] \cup svar[l].treff <=> Nr(l, x, tabell, g) < o + p.storrelse
    BY <1>4, <2>2, <2>3, <2>4, <2>5, <2>6
  <2>7. sett[l] \cup svar[l].treff \subseteq Rader(l, tabell, p)
    BY <2>2, <2>3
  <2> HIDE DEF g, o
  <2> QED
    BY <1>1, <1>3, <2>6, <2>7
<1>8. g.side # 0
  BY <1>2, <1>3 DEF Normalt
<1>9. Uendret' <=> Uendret
  BY <1>1 DEF Uendret
<1> HIDE DEF g, o
<1> QED
  BY <1>1, <1>5, <1>6, <1>7, <1>8, <1>9 DEF IVei

\* Every step keeps what is known of a walk.
LEMMA VeiSteg == ITyper /\ IStorrelse /\ ISvar /\ IVei /\ [Next]_vars => IVei'
<1> SUFFICES ASSUME ITyper, IStorrelse, ISvar, IVei, [Next]_vars PROVE IVei'
  OBVIOUS
<1>1. ASSUME NEW f \in Foresporsel, Start(f) PROVE IVei'
  <2>1. CASE p' = Ingen
    BY <2>1 DEF IVei
  <2>2. CASE p' # Ingen
    <3>1. Gyldig(f) /\ p' = Normaliser(f) /\ tabell' = tabell /\ sett' = IngenSett
      BY <1>1, <2>2 DEF Start
    <3>2. p' \in Normalt /\ tabell' \in Tabeller
      BY <3>1, NormaliserType DEF ITyper
    <3>3. PaaVei' => p'.side = 0 /\ p'.side * p'.storrelse = 0
      BY <3>1, <3>2 DEF PaaVei, Normalt
    <3>4. 0 < IntHalv
      BY Konstanter
    <3>5. ASSUME NEW l \in Liste
          PROVE  {} = {x \in Rader(l, tabell', p') : Nr(l, x, tabell', p') < 0}
      BY <3>2, NrType
    <3> QED
      BY <3>1, <3>3, <3>4, <3>5 DEF IVei, IngenSett
  <2> QED
    BY <2>1, <2>2
<1>2. CASE Bla
  BY <1>2, BlaVei
<1>3. ASSUME NEW l \in Liste, Spor(l) PROVE IVei'
  <2>1. p \in Normalt /\ p # Ingen /\ Offset(p) >= 0
    BY <1>3 DEF Spor, ITyper, Liste
  <2>2. PaaVei => p.side * p.storrelse < IntHalv
    BY <2>1, OffsetVerdi, Konstanter DEF IVei
  <2>3. p' = p /\ tabell' = tabell /\ oyeblikk' = oyeblikk /\ sett' = sett
    BY <1>3 DEF Spor
  <2> QED
    BY <2>1, <2>2, <2>3 DEF IVei, PaaVei, Uendret
<1>4. CASE Feiler
  BY <1>4 DEF Feiler, IVei
<1>5. ASSUME NEW f \in Filter, HentFiltre(f) PROVE IVei'
  BY <1>5 DEF HentFiltre, IVei
<1>6. ASSUME NEW t, Endring(t) PROVE IVei'
  <2>1. p' = p /\ pc' = pc /\ sett' = sett
    BY <1>6 DEF Endring
  <2>2. Uendret' => Uendret /\ tabell' = tabell
    BY <1>6, EndringUendret
  <2> QED
    BY <2>1, <2>2 DEF IVei, PaaVei
<1>7. CASE UNCHANGED vars
  BY <1>7 DEF vars, IVei, PaaVei, Uendret
<1> QED
  BY <1>1, <1>2, <1>3, <1>4, <1>5, <1>6, <1>7, Endringer DEF Next

\* The invariant holds when nothing has been asked for.
LEMMA InitInvariant == Init => ITyper /\ IStorrelse /\ ISvar /\ IVei /\ IPanel
<1> SUFFICES ASSUME Init PROVE ITyper /\ IStorrelse /\ ISvar /\ IVei /\ IPanel
  OBVIOUS
<1>1. ITyper
  BY DEF Init, ITyper, Tabeller, IngenSvar, IngenSett, Liste
<1>2. IStorrelse
  BY DEF Init, IStorrelse, IngenSvar
<1>3. ISvar /\ IVei
  BY DEF Init, ISvar, IVei
<1>4. IPanel
  BY DEF Init, IPanel, Filter
<1> QED
  BY <1>1, <1>2, <1>3, <1>4

\* The five parts hold together in every state.
LEMMA InvariantAlltid == Spec => [](ITyper /\ IStorrelse /\ ISvar /\ IVei /\ IPanel)
<1>1. ITyper /\ IStorrelse /\ ISvar /\ IVei /\ IPanel /\ [Next]_vars
        => ITyper' /\ IStorrelse' /\ ISvar' /\ IVei' /\ IPanel'
  BY TyperSteg, StorrelseSteg, SvarSteg, VeiSteg, PanelSteg
<1> QED
  BY <1>1, InitInvariant, PTL DEF Spec

----------------------------------------------------------------------------
(* What the answers show.                                                  *)

\* The parameters that reach the SQL are within the limits that normaliser states
\* for them, and so is a page.
THEOREM TypeKorrekt == Spec => []TypeOK
<1>1. ITyper /\ IStorrelse => TypeOK
  <2> SUFFICES ASSUME ITyper, IStorrelse PROVE TypeOK
    OBVIOUS
  <2>1. p # Ingen => /\ p.side \in 0..(IntHalv - 1)
                     /\ p.storrelse \in 1..MAKS_STORRELSE
                     /\ p.sorter = "avstand" => p.punkt = "helt"
                     /\ p.sorter = "relevans" => p.q # Ingen
                     /\ p.kommune \subseteq Kommunenr
                     /\ \/ p.punkt = "ingen" /\ p.radius = Ingen
                        \/ p.punkt = "helt" /\ p.radius \in 1..MAKS_RADIUS_METER
    BY DEF ITyper, Normalt
  <2> QED
    BY <2>1 DEF ITyper, IStorrelse, TypeOK
<1> QED
  BY <1>1, InvariantAlltid, PTL

\* An answered search as long as nothing is committed: both lists are pages of
\* the table as it is.
LEMMA BesvartFakta ==
  ASSUME ITyper, IStorrelse, ISvar, Besvart, Uendret
  PROVE  /\ p \in Normalt /\ p # Ingen /\ tabell \in Tabeller /\ pc = "klar" /\ Offset(p) >= 0
         /\ \A l \in Liste :
              LET S == Rader(l, tabell, p)
                  n == Cardinality(S)
                  s == svar[l]
                  o == Offset(p)
              IN  /\ n \in Nat
                  /\ \A x \in S : Nr(l, x, tabell, p) \in 0..(n - 1)
                  /\ s.treff = {x \in S : o <= Nr(l, x, tabell, p) /\ Nr(l, x, tabell, p) < o + p.storrelse}
                  /\ s.treff = {} <=> o >= n
                  /\ s.totalt = IF s.treff = {} THEN 0 ELSE n
                  /\ l = "bygg" => \A b \in s.treff : s.antall[b] = AntallI(b, tabell, p)
<1>1. p \in Normalt /\ p # Ingen /\ tabell \in Tabeller /\ pc = "klar" /\ Offset(p) >= 0
  BY DEF Besvart, ITyper, IStorrelse
<1>2. ASSUME NEW l \in Liste
      PROVE  \E plass \in Plasseringer(l, tabell, p) : svar[l] = Side(l, tabell, p, plass)
  BY <1>1 DEF ISvar
<1> QED
  BY <1>1, <1>2, SideFakta, PlassErNr

\* As long as nothing is committed a walk from the first page shows each building
\* and each resource once, and all of them when a page is empty.
THEOREM BladdAltAlltid == Spec => []BladdAlt
<1>1. ITyper /\ IStorrelse /\ ISvar /\ IVei => BladdAlt
  <2> SUFFICES ASSUME ITyper, IStorrelse, ISvar, IVei, Besvart, Uendret, PaaVei, NEW l \in Liste
               PROVE  /\ svar[l].treff \cap sett[l] = {}
                      /\ svar[l].treff = {} => sett[l] = Rader(l, tabell, p)
    BY DEF BladdAlt, PaaVei
  <2> DEFINE S == Rader(l, tabell, p)
             n == Cardinality(S)
             o == Offset(p)
  <2>1. /\ p \in Normalt /\ p # Ingen /\ pc = "klar"
        /\ n \in Nat
        /\ \A x \in S : Nr(l, x, tabell, p) \in 0..(n - 1)
        /\ svar[l].treff = {x \in S : o <= Nr(l, x, tabell, p) /\ Nr(l, x, tabell, p) < o + p.storrelse}
        /\ svar[l].treff = {} <=> o >= n
    BY BesvartFakta
  <2>2. p.side * p.storrelse < IntHalv
    BY <2>1 DEF IVei
  <2>3. o \in Nat /\ o = p.side * p.storrelse
    BY <2>1, <2>2, OffsetVerdi
  <2>4. sett[l] = {x \in S : Nr(l, x, tabell, p) < o}
    BY <2>1, <2>3 DEF IVei
  <2> HIDE DEF S, n, o
  <2>5. svar[l].treff \cap sett[l] = {}
    <3>1. ASSUME NEW x \in S PROVE ~ (o <= Nr(l, x, tabell, p) /\ Nr(l, x, tabell, p) < o)
      BY <2>1, <2>3
    <3> QED
      BY <2>1, <2>4, <3>1
  <2>6. ASSUME svar[l].treff = {} PROVE sett[l] = S
    <3>1. ASSUME NEW x \in S PROVE Nr(l, x, tabell, p) < o
      BY <2>1, <2>3, <2>6
    <3> QED
      BY <2>4, <3>1
  <2> QED
    BY <2>5, <2>6 DEF S
<1> QED
  BY <1>1, InvariantAlltid, PTL

\* A page is empty, and its total 0, exactly when it lies beyond the hits.
THEOREM SideUtenforErTomAlltid == Spec => []SideUtenforErTom
<1>1. ITyper /\ IStorrelse /\ ISvar => SideUtenforErTom
  <2> SUFFICES ASSUME ITyper, IStorrelse, ISvar, Besvart, Uendret,
                      p.side * p.storrelse < IntHalv, NEW l \in Liste
               PROVE  LET n == Cardinality(Rader(l, tabell, p))
                      IN  /\ (svar[l].treff = {}) <=> (p.side * p.storrelse >= n)
                          /\ svar[l].totalt = IF svar[l].treff = {} THEN 0 ELSE n
    BY DEF SideUtenforErTom
  <2>1. p \in Normalt /\ Offset(p) = p.side * p.storrelse
    BY BesvartFakta, OffsetVerdi
  <2> QED
    BY <2>1, BesvartFakta
<1> QED
  BY <1>1, InvariantAlltid, PTL

\* As long as nothing is committed the buildings of an answer that shows every
\* resource are those of its resources, with as many as it shows of each.
THEOREM SvarHengerAlltid == Spec => []SvarHenger
<1>1. ITyper /\ IStorrelse /\ ISvar => SvarHenger
  <2> SUFFICES ASSUME ITyper, IStorrelse, ISvar, Besvart, Uendret, p.side = 0,
                      svar["ressurser"].totalt <= p.storrelse
               PROVE  LET ressurser == svar["ressurser"].treff
                          bygg == svar["bygg"]
                      IN  /\ bygg.treff = {tabell[r].bygg : r \in ressurser} \ {Ingen}
                          /\ bygg.totalt = Cardinality(bygg.treff)
                          /\ \A b \in bygg.treff :
                               bygg.antall[b] = Cardinality({r \in ressurser : tabell[r].bygg = b})
    BY DEF SvarHenger
  <2> DEFINE R == Treff(tabell, p)
             B == {b \in Bygg : I(b, tabell, p) # {}}
             n == Cardinality(R)
             m == Cardinality(B)
             R2 == {r \in R : tabell[r].bygg \in Bygg}
             g == [r \in R2 |-> tabell[r].bygg]
  <2>1. p \in Normalt /\ tabell \in Tabeller /\ p.storrelse \in Nat
    BY BesvartFakta DEF Normalt
  <2>2. Offset(p) = 0
    <3>1. p.side * p.storrelse = 0 /\ 0 < IntHalv
      BY <2>1, Konstanter
    <3> QED
      BY <2>1, <3>1, OffsetVerdi
  <2>3. Rader("ressurser", tabell, p) = R /\ Rader("bygg", tabell, p) = B
    BY DEF Rader
  <2>4. /\ n \in Nat
        /\ \A x \in R : Nr("ressurser", x, tabell, p) \in 0..(n - 1)
        /\ svar["ressurser"].treff = {x \in R : 0 <= Nr("ressurser", x, tabell, p)
                                                /\ Nr("ressurser", x, tabell, p) < 0 + p.storrelse}
        /\ svar["ressurser"].treff = {} <=> 0 >= n
        /\ svar["ressurser"].totalt = IF svar["ressurser"].treff = {} THEN 0 ELSE n
    BY <2>2, <2>3, BesvartFakta DEF Liste
  <2>5. /\ m \in Nat
        /\ \A x \in B : Nr("bygg", x, tabell, p) \in 0..(m - 1)
        /\ svar["bygg"].treff = {x \in B : 0 <= Nr("bygg", x, tabell, p)
                                           /\ Nr("bygg", x, tabell, p) < 0 + p.storrelse}
        /\ svar["bygg"].treff = {} <=> 0 >= m
        /\ svar["bygg"].totalt = IF svar["bygg"].treff = {} THEN 0 ELSE m
        /\ \A b \in svar["bygg"].treff : svar["bygg"].antall[b] = AntallI(b, tabell, p)
    BY <2>2, <2>3, BesvartFakta DEF Liste
  <2>6. IsFiniteSet(R) /\ \A r \in R : tabell[r] \in Rad
    BY <2>1, <2>3, RaderFakta DEF Liste
  <2>7. \A r \in R : tabell[r].bygg \in Bygg \cup {Ingen}
    BY <2>6 DEF Rad
  <2>8. B = {tabell[r].bygg : r \in R2}
    BY DEF I
  <2>9. B = {tabell[r].bygg : r \in R} \ {Ingen}
    BY <2>7, <2>8, Konstanter
  <2>10. m <= n
    <3>1. R2 \in SUBSET R
      OBVIOUS
    <3>2. IsFiniteSet(R2) /\ Cardinality(R2) <= n
      BY <2>6, <3>1, FS_Subset
    <3>3. g \in Surjection(R2, B)
      BY <2>8 DEF Surjection
    <3>4. Cardinality(B) <= Cardinality(R2)
      BY <3>2, <3>3, FS_Surjection
    <3>5. Cardinality(R2) \in Nat
      BY <3>2, FS_CardinalityType
    <3> HIDE DEF R, B, R2, g
    <3> QED
      BY <2>4, <2>5, <3>2, <3>4, <3>5
  <2> HIDE DEF R, B, R2, n, m, g
  <2>11. n <= p.storrelse
    BY <2>1, <2>4
  <2>12. svar["ressurser"].treff = R
    <3>1. ASSUME NEW x \in R PROVE 0 <= Nr("ressurser", x, tabell, p) /\ Nr("ressurser", x, tabell, p) < 0 + p.storrelse
      BY <2>1, <2>4, <2>11
    <3> QED
      BY <2>4, <3>1
  <2>13. svar["bygg"].treff = B
    <3>1. ASSUME NEW x \in B PROVE 0 <= Nr("bygg", x, tabell, p) /\ Nr("bygg", x, tabell, p) < 0 + p.storrelse
      BY <2>1, <2>4, <2>5, <2>10, <2>11
    <3> QED
      BY <2>5, <3>1
  <2>14. svar["bygg"].totalt = Cardinality(B)
    BY <2>5 DEF m
  <2>15. \A b : AntallI(b, tabell, p) = Cardinality({r \in R : tabell[r].bygg = b})
    BY DEF AntallI, I, R
  <2> QED
    BY <2>5, <2>9, <2>12, <2>13, <2>14, <2>15
<1> QED
  BY <1>1, InvariantAlltid, PTL

\* As long as nothing is committed no choice of the panel is empty, and a resource
\* that the search shows is found by each of its values.
THEOREM PanelTrefferAlltid == Spec => []PanelTreffer
<1>1. IPanel => PanelTreffer
  <2> SUFFICES ASSUME IPanel, Uendret, \A f \in Filter : panel[f] # Ingen
               PROVE  /\ \A f \in Filter : \A v \in panel[f] : Treff(tabell, Bare(f, v)) # {}
                      /\ \A r \in Synlige(tabell) :
                           /\ Eier[r] \in panel["kommune"]
                           /\ tabell[r].lokaletype \in panel["lokaletype"] \cup {Ingen}
                           /\ tabell[r].aktivitet \subseteq panel["aktivitet"]
                           /\ tabell[r].fasilitet \subseteq panel["fasilitet"]
    BY DEF PanelTreffer
  <2>1. /\ panel["kommune"] = {Eier[r] : r \in Synlige(tabell)}
        /\ panel["lokaletype"] = {tabell[r].lokaletype : r \in Synlige(tabell)} \ {Ingen}
        /\ panel["aktivitet"] = UNION {tabell[r].aktivitet : r \in Synlige(tabell)}
        /\ panel["fasilitet"] = UNION {tabell[r].fasilitet : r \in Synlige(tabell)}
    BY DEF IPanel, Tilbud, Filter
  <2>2. ASSUME NEW f \in Filter, NEW v \in panel[f]
        PROVE  Treff(tabell, Bare(f, v)) # {}
    <3>1. PICK b : b = Bare(f, v)
      OBVIOUS
    <3>2. /\ b.q = Ingen /\ b.punkt = "ingen"
          /\ b.kommune = IF f = "kommune" THEN {v} ELSE {}
          /\ b.lokaletype = IF f = "lokaletype" THEN {v} ELSE {}
          /\ b.aktivitet = IF f = "aktivitet" THEN {v} ELSE {}
          /\ b.fasilitet = IF f = "fasilitet" THEN {v} ELSE {}
      BY <3>1 DEF Bare, Filter
    <3>3. CASE f = "kommune"
      <4>1. PICK r \in Synlige(tabell) : v = Eier[r]
        BY <2>1, <2>2, <3>3
      <4>2. Treffer(tabell[r], Eier[r], b)
        BY <3>2, <3>3, <4>1 DEF Treffer
      <4> QED
        BY <3>1, <4>2 DEF Treff
    <3>4. CASE f = "lokaletype"
      <4>1. PICK r \in Synlige(tabell) : v = tabell[r].lokaletype
        BY <2>1, <2>2, <3>4
      <4>2. Treffer(tabell[r], Eier[r], b)
        BY <3>2, <3>4, <4>1 DEF Treffer
      <4> QED
        BY <3>1, <4>2 DEF Treff
    <3>5. CASE f = "aktivitet"
      <4>1. PICK r \in Synlige(tabell) : v \in tabell[r].aktivitet
        BY <2>1, <2>2, <3>5
      <4>2. Treffer(tabell[r], Eier[r], b)
        BY <3>2, <3>5, <4>1 DEF Treffer
      <4> QED
        BY <3>1, <4>2 DEF Treff
    <3>6. CASE f = "fasilitet"
      <4>1. PICK r \in Synlige(tabell) : v \in tabell[r].fasilitet
        BY <2>1, <2>2, <3>6
      <4>2. Treffer(tabell[r], Eier[r], b)
        BY <3>2, <3>6, <4>1 DEF Treffer
      <4> QED
        BY <3>1, <4>2 DEF Treff
    <3> QED
      BY <3>3, <3>4, <3>5, <3>6 DEF Filter
  <2>3. ASSUME NEW r \in Synlige(tabell)
        PROVE  /\ Eier[r] \in panel["kommune"]
               /\ tabell[r].lokaletype \in panel["lokaletype"] \cup {Ingen}
               /\ tabell[r].aktivitet \subseteq panel["aktivitet"]
               /\ tabell[r].fasilitet \subseteq panel["fasilitet"]
    BY <2>1
  <2> QED
    BY <2>2, <2>3
<1> QED
  BY <1>1, InvariantAlltid, PTL
=============================================================================
