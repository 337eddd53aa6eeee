------------------------ MODULE KodeverkSamtidigProofs ------------------------
(***************************************************************************)
(* Theorems about KodeverkSamtidig, for any number of sessions, sources and  *)
(* edits by the owner, and any interleaving of their statements.            *)
(***************************************************************************)
EXTENDS KodeverkSamtidig, TLAPS

----------------------------------------------------------------------------
(* The operators that read the rows.                                       *)

\* The first row with an id is the only concept with that id.
LEMMA KonseptEntydig ==
  ASSUME NEW r \in Samling, NEW j \in K!Konsepter(r), NEW l \in K!Konsepter(r),
         r[j].id = r[l].id
  PROVE  j = l
<1>1. r \in Seq(K!Rad) /\ DOMAIN r \subseteq Nat
  BY SamlingType
<1>2. /\ j \in DOMAIN r /\ K!Lesbar(r[j])
      /\ l \in DOMAIN r /\ K!Lesbar(r[l])
      /\ ~ (j < l) /\ ~ (l < j)
  BY DEF K!Konsepter
<1> QED
  BY <1>1, <1>2

\* RadMed finds the concept with a given id.
LEMMA RadMedFinner ==
  ASSUME NEW r \in Samling, NEW j \in K!Konsepter(r)
  PROVE  /\ K!RadMed(r, r[j].id) = r[j]
         /\ r[j].navn \in Navn
         /\ r[j].forelder \in Id \cup {Ingen}
         /\ K!Lastbar(r) => r[j].id \in Id
<1>1. j \in DOMAIN r /\ K!Lesbar(r[j]) /\ r[j] \in K!Rad
  BY SamlingType DEF K!Konsepter
<1>2. PICK l \in K!Konsepter(r) : r[l].id = r[j].id /\ K!RadMed(r, r[j].id) = r[l]
  BY DEF K!RadMed
<1>3. l = j
  BY <1>2, KonseptEntydig
<1> QED
  BY <1>1, <1>2, <1>3 DEF K!Rad, K!Lesbar, K!Lastbar

----------------------------------------------------------------------------
(* The inductive invariant: types, and what the uncommitted rows are.       *)

ITyper == /\ tabell \in [Id -> TabellRad \cup {Ingen}]
          /\ levert \in [Kilde -> {r \in Samling : K!Lastbar(r)}]
          /\ fase \in [Okt -> Fase]
          /\ i \in [Okt -> Nat \ {0}]
          /\ DOMAIN avvik = Kilde
          /\ DOMAIN last = Okt /\ DOMAIN ny = Okt /\ DOMAIN funn = Okt
          /\ \A s \in Okt : /\ fase[s] # "ledig" => last[s] \in Kilde
                            /\ DOMAIN ny[s] \subseteq Id
                            /\ fase[s] = "ledig" => DOMAIN ny[s] = {}

\* An uncommitted row is a concept of the collection being loaded, with its name and,
\* once the parents are set, its parent or none, and a parent the session sees.
RadAv(s, x) ==
  /\ ny[s][x] \in TabellRad
  /\ x \in K!KonseptId(Rader(s))
  /\ ny[s][x].navn = K!RadMed(Rader(s), x).navn
  /\ ny[s][x].forelder \in {Ingen, K!RadMed(Rader(s), x).forelder}
  /\ ny[s][x].forelder # Ingen => Ser(s)[ny[s][x].forelder] # Ingen
  /\ fase[s] \in {"inn", "foreldre"} => ny[s][x].forelder = Ingen

\* No one else has its id or its name: no committed row and no row of any session.
Alene(s, x) ==
  /\ tabell[x] = Ingen
  /\ \A y \in Id : tabell[y] # Ingen => tabell[y].navn # ny[s][x].navn
  /\ \A y \in DOMAIN ny[s] : ny[s][y].navn = ny[s][x].navn => y = x
  /\ \A t \in Okt \ {s} : /\ x \notin DOMAIN ny[t]
                          /\ \A y \in DOMAIN ny[t] : ny[t][y].navn # ny[s][x].navn

INye == \A s \in Okt : \A x \in DOMAIN ny[s] : RadAv(s, x) /\ Alene(s, x)

ISamtidig == ITyper /\ INye

\* The invariant is at least the type invariant.
LEMMA GirTypeOK == ISamtidig => TypeOK
<1> SUFFICES ASSUME ITyper, INye PROVE TypeOK
  BY DEF ISamtidig
<1>1. ASSUME NEW s \in Okt, NEW x \in DOMAIN ny[s]
      PROVE  /\ ny[s][x] \in TabellRad
             /\ tabell[x] = Ingen
             /\ \A r \in Radene(tabell) : r.navn # ny[s][x].navn
             /\ \A t \in Okt \ {s} : ~ Holder(t, [id |-> x, navn |-> ny[s][x].navn])
  <2>1. RadAv(s, x) /\ Alene(s, x)
    BY DEF INye
  <2> QED
    BY <2>1 DEF RadAv, Alene, Radene, Holder
<1> QED
  BY <1>1 DEF TypeOK, ITyper

\* The collection a session loads.
LEMMA RaderType ==
  ASSUME ITyper, NEW s \in Okt, fase[s] # "ledig"
  PROVE  Rader(s) \in Samling /\ K!Lastbar(Rader(s)) /\ last[s] \in Kilde
BY DEF ITyper, Rader

----------------------------------------------------------------------------
(* The statements of a session, one at a time.                             *)

\* What the session sees: its own rows, and the table where it has none.
LEMMA SerFakta ==
  ASSUME ISamtidig, NEW s \in Okt, NEW y \in Id
  PROVE  /\ y \in DOMAIN ny[s] => Ser(s)[y] = ny[s][y] /\ ny[s][y] # Ingen /\ tabell[y] = Ingen
         /\ y \notin DOMAIN ny[s] => Ser(s)[y] = tabell[y]
         /\ tabell[y] # Ingen => Ser(s)[y] = tabell[y]
         /\ Ser(s)[y] \in TabellRad \cup {Ingen}
<1>1. y \in DOMAIN ny[s] => ny[s][y] \in TabellRad /\ tabell[y] = Ingen
  BY DEF ISamtidig, INye, RadAv, Alene
<1> QED
  BY <1>1, IngenOgTom DEF Ser, ISamtidig, ITyper

\* The row that an INSERT of s adds: its id and its name are free everywhere.
NyRad(s, x, n) ==
  /\ x \in Id /\ n \in Navn
  /\ x \in K!KonseptId(Rader(s)) /\ n = K!RadMed(Rader(s), x).navn
  /\ x \notin DOMAIN ny[s] /\ tabell[x] = Ingen
  /\ \A y \in Id : tabell[y] # Ingen => tabell[y].navn # n
  /\ \A t \in Okt : x \notin DOMAIN ny[t] /\ \A y \in DOMAIN ny[t] : ny[t][y].navn # n
  /\ DOMAIN ny'[s] = DOMAIN ny[s] \cup {x}
  /\ ny'[s][x] = [navn |-> n, forelder |-> Ingen]
  /\ \A y \in DOMAIN ny[s] : ny'[s][y] = ny[s][y]
  /\ \A t \in Okt \ {s} : ny'[t] = ny[t]

\* A row of the INSERT: it is taken already, or the session has it as its own.
LEMMA SettInnForm ==
  ASSUME ISamtidig, NEW s \in Okt, SettInn(s)
  PROVE  /\ fase[s] = "inn" /\ i[s] \in DOMAIN Rader(s)
         /\ i' = [i EXCEPT ![s] = i[s] + 1]
         /\ UNCHANGED <<tabell, avvik, levert, fase, last, funn, forvaltet>>
         /\ DOMAIN ny' = Okt
         /\ \/ ny' = ny /\ (i[s] \in K!Konsepter(Rader(s)) => Tatt(s, Rader(s)[i[s]]))
            \/ /\ i[s] \in K!Konsepter(Rader(s))
               /\ NyRad(s, Rader(s)[i[s]].id, Rader(s)[i[s]].navn)
<1> DEFINE rad == Rader(s)[i[s]]
<1>1. /\ fase[s] = "inn" /\ i[s] \in DOMAIN Rader(s)
      /\ i' = [i EXCEPT ![s] = i[s] + 1]
      /\ UNCHANGED <<tabell, avvik, levert, fase, last, funn, forvaltet>>
  BY DEF SettInn
<1>2. DOMAIN ny = Okt
  BY DEF ISamtidig, ITyper
<1>3. CASE i[s] \in K!Konsepter(Rader(s)) /\ ~ Tatt(s, rad)
  <2>1. Rader(s) \in Samling /\ K!Lastbar(Rader(s))
    BY <1>1, RaderType DEF ISamtidig
  <2>2. rad.id \in Id /\ rad.navn \in Navn /\ K!RadMed(Rader(s), rad.id) = rad
    BY <1>3, <2>1, RadMedFinner
  <2>3. rad.id \in K!KonseptId(Rader(s))
    BY <1>3 DEF K!KonseptId
  <2>4. Ser(s)[rad.id] = Ingen /\ \A y \in Id : Ser(s)[y] # Ingen => Ser(s)[y].navn # rad.navn
    BY <1>3 DEF Tatt, Radene
  <2>5. rad.id \notin DOMAIN ny[s] /\ tabell[rad.id] = Ingen
    BY <2>2, <2>4, SerFakta
  <2>6. \A y \in Id : tabell[y] # Ingen => tabell[y].navn # rad.navn
    BY <2>4, SerFakta
  <2>7. \A t \in Okt \ {s} : ~ Holder(t, rad)
    BY <1>1, <1>3 DEF SettInn, Venter
  <2>8. DOMAIN ny[s] \subseteq Id
    BY DEF ISamtidig, ITyper
  <2>9. \A y \in DOMAIN ny[s] : ny[s][y].navn # rad.navn
    BY <2>4, <2>8, SerFakta
  <2>10. ny' = [ny EXCEPT ![s] = [x \in DOMAIN ny[s] \cup {rad.id} |->
                  IF x = rad.id THEN [navn |-> rad.navn, forelder |-> Ingen] ELSE ny[s][x]]]
    BY <1>3 DEF SettInn
  <2>11. /\ DOMAIN ny'[s] = DOMAIN ny[s] \cup {rad.id}
         /\ ny'[s][rad.id] = [navn |-> rad.navn, forelder |-> Ingen]
         /\ \A y \in DOMAIN ny[s] : ny'[s][y] = ny[s][y]
         /\ \A t \in Okt \ {s} : ny'[t] = ny[t]
         /\ DOMAIN ny' = Okt
    BY <1>2, <2>5, <2>10
  <2>12. \A t \in Okt : rad.id \notin DOMAIN ny[t] /\ \A y \in DOMAIN ny[t] : ny[t][y].navn # rad.navn
    BY <2>5, <2>7, <2>9 DEF Holder
  <2> QED
    BY <1>1, <1>3, <2>2, <2>3, <2>5, <2>6, <2>11, <2>12 DEF NyRad
<1>4. CASE ~ (i[s] \in K!Konsepter(Rader(s)) /\ ~ Tatt(s, rad))
  <2>1. ny' = ny
    BY <1>4 DEF SettInn
  <2> QED
    BY <1>1, <1>2, <1>4, <2>1
<1> QED
  BY <1>3, <1>4

\* The rows after the parents are set: those whose parent the session sees have it.
LEMMA SettForeldreForm ==
  ASSUME ISamtidig, NEW s \in Okt, SettForeldre(s)
  PROVE  /\ fase[s] = "foreldre" /\ fase' = [fase EXCEPT ![s] = "id"]
         /\ UNCHANGED <<tabell, avvik, levert, last, i, funn, forvaltet>>
         /\ DOMAIN ny' = Okt
         /\ \A t \in Okt \ {s} : ny'[t] = ny[t]
         /\ DOMAIN ny'[s] = DOMAIN ny[s]
         /\ \A x \in DOMAIN ny[s] :
              LET f == K!RadMed(Rader(s), x).forelder
              IN  /\ ny'[s][x].navn = ny[s][x].navn
                  /\ ny'[s][x] \in TabellRad
                  /\ ny'[s][x].forelder =
                       IF f \in {y \in Id : Ser(s)[y] # Ingen} THEN f ELSE Ingen
<1>1. /\ fase[s] = "foreldre" /\ fase' = [fase EXCEPT ![s] = "id"]
      /\ ny' = [ny EXCEPT ![s] = MedForeldre(s)]
      /\ UNCHANGED <<tabell, avvik, levert, last, i, funn, forvaltet>>
  BY DEF SettForeldre
<1>2. DOMAIN ny = Okt
  BY DEF ISamtidig, ITyper
<1>3. DOMAIN MedForeldre(s) = DOMAIN ny[s]
  BY DEF MedForeldre
<1>4. ny'[s] = MedForeldre(s) /\ DOMAIN ny' = Okt /\ \A t \in Okt \ {s} : ny'[t] = ny[t]
  BY <1>1, <1>2
<1>5. ASSUME NEW x \in DOMAIN ny[s], NEW f, f = K!RadMed(Rader(s), x).forelder
      PROVE  /\ ny'[s][x].navn = ny[s][x].navn
             /\ ny'[s][x] \in TabellRad
             /\ ny'[s][x].forelder = IF f \in {y \in Id : Ser(s)[y] # Ingen} THEN f ELSE Ingen
  <2>1. ny[s][x] \in TabellRad /\ ny[s][x].forelder = Ingen
    BY <1>1 DEF ISamtidig, INye, RadAv
  <2>2. ny'[s][x] = IF f \in {y \in Id : Ser(s)[y] # Ingen}
                    THEN [ny[s][x] EXCEPT !.forelder = f] ELSE ny[s][x]
    BY <1>4, <1>5 DEF MedForeldre
  <2> QED
    BY <2>1, <2>2 DEF TabellRad
<1> QED
  BY <1>1, <1>3, <1>4, <1>5

\* What the other actions of a session do.
LEMMA StartForm ==
  ASSUME ITyper, NEW s \in Okt, NEW k \in Kilde, Start(s, k)
  PROVE  /\ fase[s] = "ledig" /\ fase' = [fase EXCEPT ![s] = "inn"]
         /\ last'[s] = k /\ i' = [i EXCEPT ![s] = 1] /\ funn'[s] = K!Leseavvik(levert[k])
         /\ DOMAIN last' = Okt /\ DOMAIN funn' = Okt
         /\ \A t \in Okt \ {s} : last'[t] = last[t] /\ funn'[t] = funn[t]
         /\ UNCHANGED <<tabell, avvik, levert, ny, forvaltet>>
BY DEF Start, ITyper

\* Committed, aborted or lost, the session holds nothing.
LEMMA SluttForm ==
  ASSUME ITyper, NEW s \in Okt, Slutt(s)
  PROVE  /\ fase' = [fase EXCEPT ![s] = "ledig"]
         /\ DOMAIN ny' = Okt /\ DOMAIN ny'[s] = {}
         /\ DOMAIN funn' = Okt
         /\ \A t \in Okt \ {s} : ny'[t] = ny[t] /\ funn'[t] = funn[t]
         /\ UNCHANGED <<levert, last, i, forvaltet>>
BY DEF Slutt, ITyper

\* A check adds what differs in one field from what the session sees.
LEMMA SjekkForm ==
  ASSUME ITyper, NEW s \in Okt, NEW felt \in {"id", "name", "parent_id"}, Sjekk(s, felt)
  PROVE  /\ fase[s] = felt
         /\ fase' = [fase EXCEPT ![s] = CASE felt = "id"   -> "name"
                                          [] felt = "name" -> "parent_id"
                                          [] OTHER         -> "resten"]
         /\ funn'[s] = funn[s] \cup {a \in K!Sjekk(Rader(s), NavnI(Ser(s)), ForelderI(Ser(s))) :
                                       a[3] = felt}
         /\ DOMAIN funn' = Okt
         /\ \A t \in Okt \ {s} : funn'[t] = funn[t]
         /\ UNCHANGED <<tabell, avvik, levert, last, i, ny, forvaltet>>
BY DEF Sjekk, ITyper

\* Every step keeps the types.
LEMMA TyperSteg ==
  ASSUME ISamtidig, [Next]_vars
  PROVE  ITyper'
<1> USE DEF ISamtidig, Fase
<1>1. ASSUME NEW s \in Okt, NEW k \in Kilde, Start(s, k) PROVE ITyper'
  BY <1>1, StartForm DEF ITyper
<1>2. ASSUME NEW s \in Okt, SettInn(s) PROVE ITyper'
  <2>1. DOMAIN ny' = Okt /\ \A t \in Okt : /\ DOMAIN ny'[t] \subseteq Id
                                           /\ fase[t] = "ledig" => DOMAIN ny'[t] = {}
    <3>1. DOMAIN ny' = Okt /\ fase[s] = "inn"
      BY <1>2, SettInnForm
    <3>2. ny' = ny \/ \E x, n : NyRad(s, x, n)
      BY <1>2, SettInnForm
    <3>3. CASE ny' = ny
      BY <3>1, <3>3 DEF ITyper
    <3>4. ASSUME NEW x, NEW n, NyRad(s, x, n)
          PROVE  \A t \in Okt : /\ DOMAIN ny'[t] \subseteq Id
                                /\ fase[t] = "ledig" => DOMAIN ny'[t] = {}
      BY <3>1, <3>4 DEF NyRad, ITyper
    <3> QED
      BY <3>1, <3>2, <3>3, <3>4
  <2> QED
    BY <1>2, <2>1, SettInnForm DEF ITyper
<1>3. ASSUME NEW s \in Okt, InsertFerdig(s) PROVE ITyper'
  BY <1>3 DEF InsertFerdig, ITyper
<1>4. ASSUME NEW s \in Okt, SettForeldre(s) PROVE ITyper'
  <2>1. \A t \in Okt : DOMAIN ny'[t] = DOMAIN ny[t]
    BY <1>4, SettForeldreForm
  <2> QED
    BY <1>4, <2>1, SettForeldreForm DEF ITyper
<1>5. ASSUME NEW s \in Okt, NEW felt \in {"id", "name", "parent_id"}, Sjekk(s, felt) PROVE ITyper'
  BY <1>5, SjekkForm DEF ITyper
<1>6. ASSUME NEW s \in Okt, Slutt(s), tabell' \in [Id -> TabellRad \cup {Ingen}], DOMAIN avvik' = Kilde
      PROVE  ITyper'
  BY <1>6, SluttForm DEF ITyper
<1>7. ASSUME NEW s \in Okt, Commit(s) PROVE ITyper'
  <2>1. Ser(s) \in [Id -> TabellRad \cup {Ingen}]
    <3>1. \A y \in Id : Ser(s)[y] \in TabellRad \cup {Ingen}
      BY SerFakta
    <3> QED
      BY <3>1 DEF Ser
  <2> QED
    BY <1>6, <1>7, <2>1 DEF Commit, ITyper
<1>8. ASSUME NEW s \in Okt, Tilbakerull(s) PROVE ITyper'
  BY <1>6, <1>8 DEF Tilbakerull, ITyper
<1>9. ASSUME NEW x \in Id, NEW n \in Navn, NEW f \in Id \cup {Ingen}, Forvalt(x, n, f) PROVE ITyper'
  BY <1>9 DEF Forvalt, ITyper, okt, TabellRad
<1>10. CASE UNCHANGED vars
  BY <1>10 DEF vars, ITyper
<1> QED
  BY <1>1, <1>2, <1>3, <1>4, <1>5, <1>7, <1>8, <1>9, <1>10 DEF Next

\* A row of t stands while the session sees what it saw.
LEMMA RadAvStaar ==
  ASSUME NEW t \in Okt, NEW x, RadAv(t, x), ny'[t][x] = ny[t][x], last'[t] = last[t], levert' = levert,
         fase'[t] \in {"inn", "foreldre"} => fase[t] \in {"inn", "foreldre"},
         \A y \in Id : Ser(t)[y] # Ingen => Ser(t)'[y] # Ingen
  PROVE  RadAv(t, x)'
<1>1. Rader(t)' = Rader(t)
  BY DEF Rader
<1>2. ny[t][x].forelder \in Id \cup {Ingen}
  BY DEF RadAv, TabellRad
<1> QED
  BY <1>1, <1>2 DEF RadAv

\* A step that leaves the table and the uncommitted rows alone.
LEMMA NyeStille ==
  ASSUME ISamtidig, tabell' = tabell, ny' = ny, levert' = levert,
         \A t \in Okt : DOMAIN ny[t] # {} =>
           /\ last'[t] = last[t]
           /\ fase'[t] \in {"inn", "foreldre"} => fase[t] \in {"inn", "foreldre"}
  PROVE  INye'
<1> SUFFICES ASSUME NEW t \in Okt, NEW x \in DOMAIN ny[t] PROVE RadAv(t, x)' /\ Alene(t, x)'
  BY DEF INye
<1>1. RadAv(t, x) /\ Alene(t, x)
  BY DEF ISamtidig, INye
<1>2. Ser(t)' = Ser(t)
  BY DEF Ser
<1> QED
  BY <1>1, <1>2, RadAvStaar DEF Alene

\* The INSERT gives the session rows that are new, or its own.
LEMMA NyeSettInn ==
  ASSUME ISamtidig, NEW s \in Okt, SettInn(s)
  PROVE  INye'
<1> DEFINE z == Rader(s)[i[s]].id
           n == Rader(s)[i[s]].navn
<1>1. /\ fase[s] = "inn"
      /\ UNCHANGED <<tabell, levert, fase, last>>
      /\ ny' = ny \/ NyRad(s, z, n)
  BY SettInnForm
<1>2. CASE ny' = ny
  BY <1>1, <1>2, NyeStille
<1>3. CASE NyRad(s, z, n)
  <2> HIDE DEF z, n
  <2> SUFFICES ASSUME NEW t \in Okt, NEW x \in DOMAIN ny'[t] PROVE RadAv(t, x)' /\ Alene(t, x)'
    BY DEF INye
  <2>1. \A y \in Id : Ser(t)[y] # Ingen => Ser(t)'[y] # Ingen
    <3>1. CASE t = s
      <4>1. ny'[s][z] # Ingen
        BY <1>3, IngenOgTom DEF NyRad, TabellRad
      <4> QED
        BY <1>1, <1>3, <3>1, <4>1 DEF NyRad, Ser
    <3>2. CASE t # s
      BY <1>1, <1>3, <3>2 DEF NyRad, Ser
    <3> QED
      BY <3>1, <3>2
  <2>2. CASE x \in DOMAIN ny[t]
    <3>1. RadAv(t, x) /\ Alene(t, x) /\ ny'[t][x] = ny[t][x]
      BY <1>3, <2>2 DEF ISamtidig, INye, NyRad
    <3>2. RadAv(t, x)'
      BY <1>1, <2>1, <3>1, RadAvStaar
    <3>3. Alene(t, x)'
      BY <1>1, <1>3, <2>2, <3>1 DEF Alene, NyRad
    <3> QED
      BY <3>2, <3>3
  <2>3. CASE x \notin DOMAIN ny[t]
    <3>1. t = s /\ x = z
      BY <1>3, <2>3 DEF NyRad
    <3>2. ny'[t][x] = [navn |-> n, forelder |-> Ingen] /\ ny'[t][x] \in TabellRad
      BY <1>3, <3>1 DEF NyRad, TabellRad
    <3>3. Rader(t)' = Rader(t)
      BY <1>1 DEF Rader
    <3>4. RadAv(t, x)'
      BY <1>3, <3>1, <3>2, <3>3 DEF RadAv, NyRad
    <3>5. Alene(t, x)'
      BY <1>1, <1>3, <3>1, <3>2 DEF Alene, NyRad
    <3> QED
      BY <3>4, <3>5
  <2> QED
    BY <2>2, <2>3
<1> QED
  BY <1>1, <1>2, <1>3

\* The UPDATE changes the session's own rows only.
LEMMA NyeSettForeldre ==
  ASSUME ISamtidig, NEW s \in Okt, SettForeldre(s)
  PROVE  INye'
<1> SUFFICES ASSUME NEW t \in Okt, NEW x \in DOMAIN ny'[t] PROVE RadAv(t, x)' /\ Alene(t, x)'
  BY DEF INye
<1>1. /\ fase[s] = "foreldre" /\ fase' = [fase EXCEPT ![s] = "id"]
      /\ UNCHANGED <<tabell, levert, last>>
      /\ \A u \in Okt \ {s} : ny'[u] = ny[u]
      /\ DOMAIN ny'[s] = DOMAIN ny[s]
      /\ \A y \in DOMAIN ny[s] : /\ ny'[s][y].navn = ny[s][y].navn
                                 /\ ny'[s][y] \in TabellRad
  BY SettForeldreForm
<1>2. fase'[s] = "id" /\ \A u \in Okt \ {s} : fase'[u] = fase[u]
  BY <1>1 DEF ISamtidig, ITyper
<1>3. x \in DOMAIN ny[t] /\ RadAv(t, x) /\ Alene(t, x)
  BY <1>1 DEF ISamtidig, INye
<1>4. \A y \in Id : Ser(t)[y] # Ingen => Ser(t)'[y] # Ingen
  BY <1>1, IngenOgTom DEF Ser
<1>5. Alene(t, x)'
  BY <1>1, <1>3 DEF Alene
<1>6. CASE t # s
  BY <1>1, <1>2, <1>3, <1>4, <1>5, <1>6, RadAvStaar
<1>7. CASE t = s
  <2>1. PICK f : f = K!RadMed(Rader(s), x).forelder
    OBVIOUS
  <2>2. ny'[s][x].forelder = IF f \in {y \in Id : Ser(s)[y] # Ingen} THEN f ELSE Ingen
    BY <1>3, <1>7, <2>1, SettForeldreForm
  <2>3. Rader(s)' = Rader(s)
    BY <1>1 DEF Rader
  <2>4. RadAv(s, x)'
    <3>1. ny'[s][x] \in TabellRad /\ ny'[s][x].navn = ny[s][x].navn
      BY <1>1, <1>3, <1>7
    <3>2. x \in K!KonseptId(Rader(s)) /\ ny[s][x].navn = K!RadMed(Rader(s), x).navn
      BY <1>3, <1>7 DEF RadAv
    <3>3. ny'[s][x].forelder # Ingen => Ser(s)'[ny'[s][x].forelder] # Ingen
      BY <1>4, <1>7, <2>2
    <3> QED
      BY <1>2, <2>1, <2>2, <2>3, <3>1, <3>2, <3>3 DEF RadAv
  <2> QED
    BY <1>5, <1>7, <2>4
<1> QED
  BY <1>6, <1>7

\* The rows of the others stand when s commits or rolls back.
LEMMA NyeSlutt ==
  ASSUME ISamtidig, NEW s \in Okt, Slutt(s), tabell' \in {tabell, Ser(s)}
  PROVE  INye'
<1> SUFFICES ASSUME NEW t \in Okt, NEW x \in DOMAIN ny'[t] PROVE RadAv(t, x)' /\ Alene(t, x)'
  BY DEF INye
<1>1. /\ fase' = [fase EXCEPT ![s] = "ledig"]
      /\ UNCHANGED <<levert, last>>
      /\ DOMAIN ny'[s] = {}
      /\ \A u \in Okt \ {s} : ny'[u] = ny[u]
  BY SluttForm DEF ISamtidig
<1>2. t # s /\ ny'[t] = ny[t] /\ x \in DOMAIN ny[t] /\ fase'[t] = fase[t]
  BY <1>1 DEF ISamtidig, ITyper
<1>3. RadAv(t, x) /\ Alene(t, x)
  BY <1>2 DEF ISamtidig, INye
<1>4. DOMAIN ny[t] \subseteq Id /\ DOMAIN ny[s] \subseteq Id
  BY DEF ISamtidig, ITyper
<1>5. \A y \in Id : tabell[y] # Ingen => tabell'[y] # Ingen
  BY SerFakta
<1>6. \A y \in Id : Ser(t)[y] # Ingen => Ser(t)'[y] # Ingen
  BY <1>2, <1>5 DEF Ser
<1>7. RadAv(t, x)'
  BY <1>1, <1>2, <1>3, <1>6, RadAvStaar
<1>8. Alene(t, x)'
  <2>1. x \notin DOMAIN ny[s] /\ \A y \in DOMAIN ny[s] : ny[s][y].navn # ny[t][x].navn
    BY <1>2, <1>3 DEF Alene
  <2>2. \A y \in Id : Ser(s)[y] # Ingen => Ser(s)[y].navn # ny[t][x].navn
    BY <1>3, <2>1, SerFakta DEF Alene
  <2>3. Ser(s)[x] = Ingen
    BY <1>2, <1>3, <1>4, <2>1, SerFakta DEF Alene
  <2>4. tabell'[x] = Ingen /\ \A y \in Id : tabell'[y] # Ingen => tabell'[y].navn # ny[t][x].navn
    BY <1>3, <2>2, <2>3 DEF Alene
  <2>5. \A y \in DOMAIN ny'[t] : ny'[t][y].navn = ny'[t][x].navn => y = x
    BY <1>2, <1>3 DEF Alene
  <2>6. \A u \in Okt \ {t} : /\ x \notin DOMAIN ny'[u]
                             /\ \A y \in DOMAIN ny'[u] : ny'[u][y].navn # ny'[t][x].navn
    BY <1>1, <1>2, <1>3 DEF Alene
  <2> QED
    BY <1>2, <2>4, <2>5, <2>6 DEF Alene
<1> QED
  BY <1>7, <1>8

\* The owner waits for who holds the id or the name.
LEMMA NyeForvalt ==
  ASSUME ISamtidig, NEW z \in Id, NEW n \in Navn, NEW f \in Id \cup {Ingen}, Forvalt(z, n, f)
  PROVE  INye'
<1> SUFFICES ASSUME NEW t \in Okt, NEW x \in DOMAIN ny[t] PROVE RadAv(t, x)' /\ Alene(t, x)'
  BY DEF INye, Forvalt, okt
<1>1. /\ tabell' = [tabell EXCEPT ![z] = [navn |-> n, forelder |-> f]]
      /\ UNCHANGED <<levert, last, fase, ny>>
      /\ \A u \in Okt : ~ Holder(u, [id |-> z, navn |-> n])
  BY DEF Forvalt, okt
<1>2. RadAv(t, x) /\ Alene(t, x) /\ x \in Id
  BY DEF ISamtidig, INye, ITyper
<1>3. [navn |-> n, forelder |-> f] \in TabellRad
  BY DEF TabellRad
<1>4. /\ tabell'[z] = [navn |-> n, forelder |-> f]
      /\ \A y \in Id \ {z} : tabell'[y] = tabell[y]
  BY <1>1 DEF ISamtidig, ITyper
<1>5. \A y \in Id : Ser(t)[y] # Ingen => Ser(t)'[y] # Ingen
  BY <1>1, <1>3, <1>4, IngenOgTom DEF Ser
<1>6. z # x /\ ny[t][x].navn # n
  BY <1>1 DEF Holder
<1>7. RadAv(t, x)'
  BY <1>1, <1>2, <1>5, RadAvStaar
<1>8. Alene(t, x)'
  BY <1>1, <1>2, <1>4, <1>6 DEF Alene
<1> QED
  BY <1>7, <1>8

\* Every step keeps what is known of the rows a session has inserted.
LEMMA NyeSteg ==
  ASSUME ISamtidig, [Next]_vars
  PROVE  INye'
<1>1. ASSUME NEW s \in Okt, NEW k \in Kilde, Start(s, k) PROVE INye'
  <2>1. /\ fase[s] = "ledig" /\ fase' = [fase EXCEPT ![s] = "inn"]
        /\ \A t \in Okt \ {s} : last'[t] = last[t]
        /\ UNCHANGED <<tabell, levert, ny>>
    BY <1>1, StartForm DEF ISamtidig
  <2>2. \A t \in Okt : DOMAIN ny[t] # {} => t # s
    BY <2>1 DEF ISamtidig, ITyper
  <2> QED
    BY <2>1, <2>2, NyeStille DEF ISamtidig, ITyper
<1>2. ASSUME NEW s \in Okt, SettInn(s) PROVE INye'
  BY <1>2, NyeSettInn
<1>3. ASSUME NEW s \in Okt, InsertFerdig(s) PROVE INye'
  <2>1. \A t \in Okt : fase'[t] \in {"inn", "foreldre"} => fase[t] \in {"inn", "foreldre"}
    BY <1>3 DEF InsertFerdig, ISamtidig, ITyper
  <2> QED
    BY <1>3, <2>1, NyeStille DEF InsertFerdig
<1>4. ASSUME NEW s \in Okt, SettForeldre(s) PROVE INye'
  BY <1>4, NyeSettForeldre
<1>5. ASSUME NEW s \in Okt, NEW felt \in {"id", "name", "parent_id"}, Sjekk(s, felt) PROVE INye'
  <2>1. \A t \in Okt : fase'[t] \in {"inn", "foreldre"} => fase[t] \in {"inn", "foreldre"}
    BY <1>5 DEF Sjekk, ISamtidig, ITyper
  <2> QED
    BY <1>5, <2>1, NyeStille DEF Sjekk
<1>6. ASSUME NEW s \in Okt, Commit(s) \/ Tilbakerull(s) PROVE INye'
  BY <1>6, NyeSlutt DEF Commit, Tilbakerull
<1>7. ASSUME NEW x \in Id, NEW n \in Navn, NEW f \in Id \cup {Ingen}, Forvalt(x, n, f) PROVE INye'
  BY <1>7, NyeForvalt
<1>8. CASE UNCHANGED vars
  BY <1>8, NyeStille DEF vars
<1> QED
  BY <1>1, <1>2, <1>3, <1>4, <1>5, <1>6, <1>7, <1>8 DEF Next

\* Types and own rows, in every state.
LEMMA SamtidigAlltid == Spec => []ISamtidig
<1>1. Init => ISamtidig
  BY DEF Init, ISamtidig, ITyper, INye, Fase
<1>2. ISamtidig /\ [Next]_vars => ISamtidig'
  BY TyperSteg, NyeSteg DEF ISamtidig
<1> QED
  BY <1>1, <1>2, PTL DEF Spec

\* Types; and an uncommitted id or name belongs to one session and is new.
THEOREM TypeKorrekt == Spec => []TypeOK
BY SamtidigAlltid, GirTypeOK, PTL

----------------------------------------------------------------------------
(* The committed table implements Vokabular.                               *)

Kjente(t) == {x \in Id : t[x] # Ingen}

\* VelFormet of Vokabular, said of the rows of a table.
VelTabell(t) ==
  /\ \A x, y \in Kjente(t) : t[x].navn = t[y].navn => x = y
  /\ \A x \in Kjente(t) : t[x].forelder \in Kjente(t) \cup {Ingen}
  /\ \A S \in SUBSET Kjente(t) : S # {} => \E x \in S : t[x].forelder \notin S

Tabeller == [Id -> TabellRad \cup {Ingen}]

\* The columns of a table.
LEMMA Kolonner ==
  ASSUME NEW t \in Tabeller
  PROVE  /\ NavnI(t) \in [Id -> Navn \cup {Ingen}]
         /\ ForelderI(t) \in [Id -> Id \cup {Ingen}]
         /\ \A x \in Kjente(t) : NavnI(t)[x] = t[x].navn /\ ForelderI(t)[x] = t[x].forelder
         /\ Kjente(t) = {x \in Id : NavnI(t)[x] # Ingen}
         /\ \A x \in Id \ Kjente(t) : ForelderI(t)[x] = Ingen
<1>1. \A x \in Kjente(t) : t[x] \in TabellRad /\ t[x].navn \in Navn /\ t[x].forelder \in Id \cup {Ingen}
  BY DEF Kjente, Tabeller, TabellRad
<1> QED
  BY <1>1, IngenOgTom DEF NavnI, ForelderI, Kjente

\* A table in order is well-formed in the sense of Vokabular.
LEMMA VelEtter ==
  ASSUME NEW t \in Tabeller, VelTabell(t), tabell' = t
  PROVE  V!VelFormet'
<1>1. V!Kjent' = Kjente(t)
  BY Kolonner DEF V!Kjent
<1>2. V!NavnUnikt'
  BY <1>1, Kolonner DEF V!NavnUnikt, VelTabell
<1>3. V!ForelderKjent'
  BY <1>1, Kolonner DEF V!ForelderKjent, VelTabell
<1>4. V!Asyklisk'
  <2>1. \A x \in Kjente(t) : ForelderI(t)[x] = t[x].forelder
    BY Kolonner
  <2> SUFFICES ASSUME NEW S \in SUBSET Kjente(t), S # {} PROVE \E x \in S : ForelderI(t)[x] \notin S
    BY <1>1 DEF V!Asyklisk
  <2> QED
    BY <2>1 DEF VelTabell
<1> QED
  BY <1>2, <1>3, <1>4 DEF V!VelFormet

(***************************************************************************)
(* A commit adds concepts below what is there, also what others committed   *)
(* since the load began.  A set of concepts that has old ones has an old    *)
(* one whose parent lies outside it; a set of new ones only is a set of ids *)
(* of one collection, which has no cycle.                                   *)
(***************************************************************************)
LEMMA VelCommit ==
  ASSUME K!KontraktAsyklisk, ISamtidig, VelTabell(tabell), NEW s \in Okt, fase[s] # "ledig"
  PROVE  VelTabell(Ser(s))
<1>1. DOMAIN ny[s] \subseteq Id /\ Rader(s) \in Samling
  BY RaderType DEF ISamtidig, ITyper
<1>2. \A x \in DOMAIN ny[s] : RadAv(s, x) /\ Alene(s, x)
  BY DEF ISamtidig, INye
<1>3. Kjente(Ser(s)) = Kjente(tabell) \cup DOMAIN ny[s]
  BY <1>1, SerFakta DEF Kjente
<1>4. /\ \A x \in Kjente(tabell) : x \notin DOMAIN ny[s] /\ Ser(s)[x] = tabell[x]
      /\ \A x \in DOMAIN ny[s] : Ser(s)[x] = ny[s][x]
  BY <1>1, SerFakta DEF Kjente
<1>5. ASSUME NEW x \in Kjente(Ser(s)), NEW y \in Kjente(Ser(s)), Ser(s)[x].navn = Ser(s)[y].navn
      PROVE  x = y
  <2>1. CASE x \in Kjente(tabell) /\ y \in Kjente(tabell)
    BY <1>4, <1>5, <2>1 DEF VelTabell
  <2>2. CASE x \in DOMAIN ny[s] /\ y \in DOMAIN ny[s]
    BY <1>2, <1>4, <1>5, <2>2 DEF Alene
  <2>3. CASE (x \in Kjente(tabell) /\ y \in DOMAIN ny[s]) \/ (y \in Kjente(tabell) /\ x \in DOMAIN ny[s])
    BY <1>2, <1>4, <1>5, <2>3 DEF Alene, Kjente
  <2> QED
    BY <1>3, <2>1, <2>2, <2>3
<1>6. ASSUME NEW x \in Kjente(Ser(s)) PROVE Ser(s)[x].forelder \in Kjente(Ser(s)) \cup {Ingen}
  <2>1. CASE x \in Kjente(tabell)
    BY <1>3, <1>4, <2>1 DEF VelTabell
  <2>2. CASE x \in DOMAIN ny[s]
    BY <1>2, <1>4, <2>2 DEF RadAv, TabellRad, Kjente
  <2> QED
    BY <1>3, <2>1, <2>2
<1>7. ASSUME NEW S \in SUBSET Kjente(Ser(s)), S # {} PROVE \E x \in S : Ser(s)[x].forelder \notin S
  <2>1. CASE S \cap Kjente(tabell) # {}
    <3>1. PICK x \in S \cap Kjente(tabell) : tabell[x].forelder \notin S \cap Kjente(tabell)
      BY <2>1 DEF VelTabell
    <3>2. tabell[x].forelder \in Kjente(tabell) \cup {Ingen} /\ Ingen \notin S
      BY <3>1, IngenOgTom DEF VelTabell, Kjente
    <3> QED
      BY <1>4, <3>1, <3>2
  <2>2. CASE S \cap Kjente(tabell) = {}
    <3>1. S \subseteq DOMAIN ny[s] /\ S \subseteq K!KonseptId(Rader(s))
      BY <1>2, <1>3, <2>2 DEF RadAv
    <3>2. PICK x \in S : K!RadMed(Rader(s), x).forelder \notin S
      BY <1>1, <1>7, <3>1 DEF K!KontraktAsyklisk
    <3>3. ny[s][x].forelder \in {Ingen, K!RadMed(Rader(s), x).forelder} /\ Ingen \notin S
      BY <1>2, <3>1, IngenOgTom DEF RadAv, Kjente
    <3> QED
      BY <1>4, <3>1, <3>2, <3>3
  <2> QED
    BY <2>1, <2>2
<1> QED
  BY <1>5, <1>6, <1>7 DEF VelTabell

\* The owner's edit: the new parent lies in a set closed under parent without z.
LEMMA VelForvalt ==
  ASSUME ISamtidig, VelTabell(tabell),
         NEW z \in Id, NEW n \in Navn, NEW f \in Id \cup {Ingen}, Forvalt(z, n, f)
  PROVE  VelTabell(tabell') /\ z \in Kjente(tabell')
<1> DEFINE t == tabell
           u == tabell'
<1>1. /\ u[z] = [navn |-> n, forelder |-> f]
      /\ \A y \in Id \ {z} : u[y] = t[y]
  BY DEF Forvalt, ISamtidig, ITyper
<1>2. Kjente(u) = Kjente(t) \cup {z} /\ Kjente(u) \subseteq Id
  <2>1. u[z] \in TabellRad
    BY <1>1 DEF TabellRad
  <2> QED
    BY <1>1, <2>1, IngenOgTom DEF Kjente
<1>3. \A y \in Kjente(t) \ {z} : t[y].navn # n
  <2>1. t \in Tabeller
    BY DEF ISamtidig, ITyper, Tabeller
  <2> QED
    BY <2>1, Kolonner DEF Forvalt, Kjente
<1>4. f # Ingen => \E C \in SUBSET Kjente(t) : /\ f \in C /\ z \notin C
                                               /\ \A y \in C : t[y].forelder \in C \cup {Ingen}
  BY DEF Forvalt, Kjente
<1>5. /\ \A x, y \in Kjente(t) : t[x].navn = t[y].navn => x = y
      /\ \A x \in Kjente(t) : t[x].forelder \in Kjente(t) \cup {Ingen}
      /\ \A S \in SUBSET Kjente(t) : S # {} => \E x \in S : t[x].forelder \notin S
  BY DEF VelTabell
<1> HIDE DEF t, u
<1>6. \A x, y \in Kjente(u) : u[x].navn = u[y].navn => x = y
  BY <1>1, <1>2, <1>3, <1>5
<1>7. \A x \in Kjente(u) : u[x].forelder \in Kjente(u) \cup {Ingen}
  BY <1>1, <1>2, <1>4, <1>5
<1>8. ASSUME NEW S \in SUBSET Kjente(u), S # {} PROVE \E x \in S : u[x].forelder \notin S
  <2>1. CASE z \in S /\ f \notin S
    BY <1>1, <2>1
  <2>2. CASE z \in S /\ f \in S
    <3>1. f # Ingen
      BY <1>2, <2>2, IngenOgTom
    <3>2. PICK C \in SUBSET Kjente(t) : /\ f \in C /\ z \notin C
                                        /\ \A y \in C : t[y].forelder \in C \cup {Ingen}
      BY <1>4, <3>1
    <3>3. PICK x \in S \cap C : t[x].forelder \notin S \cap C
      BY <1>5, <2>2, <3>2
    <3>4. t[x].forelder \notin S
      BY <1>2, <3>2, <3>3, IngenOgTom
    <3> QED
      BY <1>1, <1>2, <3>2, <3>3, <3>4
  <2>3. CASE z \notin S
    <3>1. S \in SUBSET Kjente(t)
      BY <1>2, <2>3
    <3> QED
      BY <1>1, <1>2, <1>5, <1>8, <2>3, <3>1
  <2> QED
    BY <2>1, <2>2, <2>3
<1> QED
  BY <1>2, <1>6, <1>7, <1>8 DEF VelTabell, u

\* A commit adds rows to a table in order without breaking it.
LEMMA VelSteg ==
  ASSUME K!KontraktAsyklisk, ISamtidig, VelTabell(tabell), [Next]_vars
  PROVE  VelTabell(tabell')
<1>1. ASSUME tabell' = tabell PROVE VelTabell(tabell')
  BY <1>1
<1>2. ASSUME NEW s \in Okt, Commit(s) PROVE VelTabell(tabell')
  <2>1. fase[s] # "ledig" /\ tabell' = Ser(s)
    BY <1>2 DEF Commit
  <2> QED
    BY <2>1, VelCommit
<1>3. ASSUME NEW x \in Id, NEW n \in Navn, NEW f \in Id \cup {Ingen}, Forvalt(x, n, f)
      PROVE  VelTabell(tabell')
  BY <1>3, VelForvalt
<1> QED
  BY <1>1, <1>2, <1>3 DEF Next, Start, SettInn, InsertFerdig, SettForeldre, Sjekk, Tilbakerull, vars

\* A commit extends the vocabulary, an edit is the owner's, and no other step is seen.
LEMMA StegImplementerer ==
  ASSUME ISamtidig, ISamtidig', VelTabell(tabell), VelTabell(tabell'), [Next]_vars
  PROVE  [V!Next]_(V!vars)
<1>1. tabell \in Tabeller /\ tabell' \in Tabeller
  BY DEF ISamtidig, ITyper, Tabeller
<1>2. V!VelFormet'
  BY <1>1, VelEtter
<1>3. /\ NavnI(tabell)' \in [Id -> Navn \cup {Ingen}]
      /\ ForelderI(tabell)' \in [Id -> Id \cup {Ingen}]
  <2>1. \A t \in Tabeller : t = tabell' => /\ NavnI(t) \in [Id -> Navn \cup {Ingen}]
                                           /\ ForelderI(t) \in [Id -> Id \cup {Ingen}]
    BY Kolonner
  <2> QED
    BY <1>1, <2>1
<1>4. ASSUME tabell' = tabell, forvaltet' = forvaltet PROVE UNCHANGED V!vars
  BY <1>4 DEF V!vars
<1>5. ASSUME NEW s \in Okt, Commit(s) PROVE V!Utvid
  <2>1. \A x \in Kjente(tabell) : tabell'[x] = tabell[x]
    BY <1>5, SerFakta DEF Commit, Kjente
  <2>2. \A x \in Kjente(tabell) : NavnI(tabell)'[x] = NavnI(tabell)[x]
                                  /\ ForelderI(tabell)'[x] = ForelderI(tabell)[x]
    BY <2>1 DEF NavnI, ForelderI, Kjente
  <2>3. V!Kjent = Kjente(tabell)
    BY <1>1, Kolonner DEF V!Kjent
  <2> QED
    BY <1>2, <1>3, <1>5, <2>2, <2>3 DEF V!Utvid, Commit, Slutt
<1>6. ASSUME NEW x \in Id, NEW n \in Navn, NEW f \in Id \cup {Ingen}, Forvalt(x, n, f)
      PROVE  V!Forvalt(x)
  <2>1. \A y \in Id \ {x} : tabell'[y] = tabell[y]
    BY <1>1, <1>6 DEF Forvalt, Tabeller
  <2>2. \A y \in Id \ {x} : NavnI(tabell)'[y] = NavnI(tabell)[y]
                            /\ ForelderI(tabell)'[y] = ForelderI(tabell)[y]
    BY <2>1 DEF NavnI, ForelderI
  <2>3. NavnI(tabell)'[x] # Ingen
    <3>1. tabell'[x] = [navn |-> n, forelder |-> f] /\ tabell'[x] \in TabellRad
      BY <1>1, <1>6 DEF Forvalt, Tabeller, TabellRad
    <3> QED
      BY <3>1, IngenOgTom DEF NavnI
  <2> QED
    BY <1>2, <1>3, <1>6, <2>2, <2>3 DEF V!Forvalt, Forvalt
<1> QED
  BY <1>4, <1>5, <1>6 DEF Next, V!Next, Start, SettInn, InsertFerdig, SettForeldre, Sjekk, Tilbakerull, Slutt, vars

\* Sessions that interleave their statements implement the promise about the committed
\* table, if no collection has a cycle of its own: a commit adds, the owner changes.
THEOREM ImplementererVokabular ==
  ASSUME K!KontraktAsyklisk
  PROVE  Spec => LoverVokabular
<1>1. Init => V!Init /\ VelTabell(tabell)
  <2> SUFFICES ASSUME Init PROVE V!Init /\ VelTabell(tabell)
    OBVIOUS
  <2>1. tabell = [x \in Id |-> Ingen] /\ forvaltet = 0
    BY DEF Init
  <2>2. Kjente(tabell) = {}
    BY <2>1 DEF Kjente
  <2> QED
    BY <2>1, <2>2 DEF V!Init, VelTabell, NavnI, ForelderI
<1>2. ISamtidig /\ VelTabell(tabell) /\ [Next]_vars => VelTabell(tabell)'
  BY VelSteg
<1>3. ISamtidig /\ ISamtidig' /\ VelTabell(tabell) /\ VelTabell(tabell)' /\ [Next]_vars => [V!Next]_(V!vars)
  BY StegImplementerer
<1> QED
  BY <1>1, <1>2, <1>3, SamtidigAlltid, PTL DEF Spec, LoverVokabular, V!Spec

----------------------------------------------------------------------------
(* What a load logs while the owner is away.                               *)

\* Without the owner a row that a session sees is never taken away or changed.
LEMMA SerBlir ==
  ASSUME ISamtidig, ISamtidig', [Next]_vars, forvaltet' = 0, forvaltet \in Nat,
         NEW s \in Okt, NEW x \in Id, Ser(s)[x] # Ingen,
         ~ Slutt(s), ~ SettForeldre(s)
  PROVE  Ser(s)'[x] = Ser(s)[x]
<1>1. ASSUME tabell' = tabell, ny'[s] = ny[s] PROVE Ser(s)'[x] = Ser(s)[x]
  BY <1>1 DEF Ser
<1>2. ASSUME NEW t \in Okt, SettInn(t) PROVE Ser(s)'[x] = Ser(s)[x]
  <2>1. tabell' = tabell /\ (ny' = ny \/ \E z, n : NyRad(t, z, n))
    BY <1>2, SettInnForm
  <2>2. ASSUME NEW z, NEW n, NyRad(t, z, n) PROVE Ser(s)'[x] = Ser(s)[x]
    <3>1. CASE t = s
      <4>1. x # z
        BY <2>2, <3>1, SerFakta DEF NyRad
      <4> QED
        BY <2>1, <2>2, <3>1, <4>1 DEF NyRad, Ser
    <3>2. CASE t # s
      BY <1>1, <2>1, <2>2, <3>2 DEF NyRad
    <3> QED
      BY <3>1, <3>2
  <2> QED
    BY <1>1, <2>1, <2>2
<1>3. ASSUME NEW t \in Okt, t # s, SettForeldre(t) PROVE Ser(s)'[x] = Ser(s)[x]
  BY <1>1, <1>3, SettForeldreForm
<1>4. ASSUME NEW t \in Okt, t # s, Slutt(t), tabell' \in {tabell, Ser(t)} PROVE Ser(s)'[x] = Ser(s)[x]
  <2>1. ny'[s] = ny[s]
    BY <1>4, SluttForm DEF ISamtidig
  <2>2. tabell[x] # Ingen => tabell'[x] = tabell[x]
    BY <1>4, SerFakta
  <2> QED
    BY <2>1, <2>2 DEF Ser
<1>5. ASSUME NEW t \in Okt, Commit(t) \/ Tilbakerull(t) PROVE Ser(s)'[x] = Ser(s)[x]
  BY <1>4, <1>5 DEF Commit, Tilbakerull
<1>6. ASSUME NEW z \in Id, NEW n \in Navn, NEW f \in Id \cup {Ingen}, Forvalt(z, n, f) PROVE FALSE
  BY <1>6 DEF Forvalt
<1> QED
  BY <1>1, <1>2, <1>3, <1>5, <1>6 DEF Next, Start, InsertFerdig, Sjekk, vars

\* A deviation of s names x.
Funnet(s, x) == \E a \in funn[s] : a[2] = x

\* x agrees with the row the session loads, in the fields checked so far.
Enig(s, x) ==
  /\ fase[s] \in {"name", "parent_id", "resten"} => Ser(s)[x] # Ingen
  /\ fase[s] \in {"parent_id", "resten"} => Ser(s)[x].navn = K!RadMed(Rader(s), x).navn
  /\ fase[s] = "resten" => Ser(s)[x].forelder = K!RadMed(Rader(s), x).forelder

Dekker(s) == /\ K!Leseavvik(Rader(s)) \subseteq funn[s]
             /\ \A x \in K!KonseptId(Rader(s)) : Funnet(s, x) \/ Enig(s, x)

IDekker == /\ forvaltet \in Nat
           /\ forvaltet = 0 => \A s \in Okt : fase[s] # "ledig" => Dekker(s)

\* The ids of a collection that can be loaded are ids.
LEMMA KonseptIdType ==
  ASSUME NEW r \in Samling, K!Lastbar(r)
  PROVE  K!KonseptId(r) \subseteq Id
BY RadMedFinner DEF K!KonseptId

\* The query for a field leaves no row of which that field disagrees unnamed.
LEMMA SjekkDekker ==
  ASSUME ISamtidig, NEW s \in Okt, NEW felt \in {"id", "name", "parent_id"}, Sjekk(s, felt), Dekker(s)
  PROVE  Dekker(s)'
<1>1. /\ fase[s] = felt
      /\ funn'[s] = funn[s] \cup {a \in K!Sjekk(Rader(s), NavnI(Ser(s)), ForelderI(Ser(s))) : a[3] = felt}
      /\ UNCHANGED <<tabell, levert, last, ny>>
  BY SjekkForm DEF ISamtidig
<1>2. Rader(s)' = Rader(s) /\ Ser(s)' = Ser(s)
  BY <1>1 DEF Rader, Ser
<1>3. fase'[s] = CASE felt = "id" -> "name" [] felt = "name" -> "parent_id" [] OTHER -> "resten"
  BY SjekkForm DEF ISamtidig, ITyper
<1>4. Rader(s) \in Samling /\ K!Lastbar(Rader(s))
  BY <1>1, RaderType DEF ISamtidig
<1>5. Ser(s) \in Tabeller
  <2>1. \A y \in Id : Ser(s)[y] \in TabellRad \cup {Ingen}
    BY SerFakta
  <2> QED
    BY <2>1 DEF Ser, Tabeller
<1>6. PICK t \in Tabeller : t = Ser(s)
  BY <1>5
<1>7. ASSUME NEW x \in K!KonseptId(Rader(s)), ~ Funnet(s, x)' PROVE Enig(s, x)'
  <2>1. Enig(s, x) /\ x \in Id
    BY <1>1, <1>4, <1>7, KonseptIdType DEF Dekker, Funnet
  <2>2. \A a \in K!Sjekk(Rader(s), NavnI(t), ForelderI(t)) : a[3] = felt => a[2] # x
    BY <1>1, <1>6, <1>7 DEF Funnet
  <2>3. CASE felt = "id"
    <3>1. NavnI(t)[x] # Ingen
      <4>1. CASE NavnI(t)[x] = Ingen
        <5>1. <<"manglende_forelder", x, "id">> \in K!Sjekk(Rader(s), NavnI(t), ForelderI(t))
          BY <4>1 DEF K!Sjekk
        <5> QED
          BY <2>2, <2>3, <5>1
      <4> QED
        BY <4>1
    <3>2. Ser(s)[x] # Ingen
      BY <1>6, <2>1, <3>1 DEF NavnI
    <3> QED
      BY <1>2, <1>3, <2>3, <3>2 DEF Enig
  <2>4. CASE felt = "name"
    <3>1. t[x] # Ingen /\ NavnI(t)[x] = t[x].navn /\ NavnI(t)[x] # Ingen
      BY <1>1, <1>6, <2>1, <2>4, Kolonner DEF Enig, Kjente
    <3>2. NavnI(t)[x] = K!RadMed(Rader(s), x).navn
      <4>1. CASE NavnI(t)[x] # K!RadMed(Rader(s), x).navn
        <5>1. <<"ugyldig_verdi", x, "name">> \in K!Sjekk(Rader(s), NavnI(t), ForelderI(t))
          BY <3>1, <4>1 DEF K!Sjekk
        <5> QED
          BY <2>2, <2>4, <5>1
      <4> QED
        BY <4>1
    <3> QED
      BY <1>2, <1>3, <1>6, <2>4, <3>1, <3>2 DEF Enig
  <2>5. CASE felt = "parent_id"
    <3>1. /\ t[x] # Ingen /\ NavnI(t)[x] # Ingen /\ ForelderI(t)[x] = t[x].forelder
          /\ t[x].navn = K!RadMed(Rader(s), x).navn
      BY <1>1, <1>6, <2>1, <2>5, Kolonner DEF Enig, Kjente
    <3>2. ForelderI(t)[x] = K!RadMed(Rader(s), x).forelder
      <4>1. CASE ForelderI(t)[x] # K!RadMed(Rader(s), x).forelder
        <5>1. <<"ugyldig_verdi", x, "parent_id">> \in K!Sjekk(Rader(s), NavnI(t), ForelderI(t))
          BY <3>1, <4>1 DEF K!Sjekk
        <5> QED
          BY <2>2, <2>5, <5>1
      <4> QED
        BY <4>1
    <3> QED
      BY <1>2, <1>3, <1>6, <2>5, <3>1, <3>2 DEF Enig
  <2> QED
    BY <2>3, <2>4, <2>5
<1>8. K!Leseavvik(Rader(s)) \subseteq funn'[s]
  BY <1>1 DEF Dekker
<1> QED
  BY <1>2, <1>7, <1>8 DEF Dekker

\* A step of another session, or one that finds nothing.
LEMMA DekkerStaar ==
  ASSUME ISamtidig, ISamtidig', [Next]_vars, forvaltet' = 0, forvaltet \in Nat, NEW s \in Okt,
         fase[s] # "ledig", Dekker(s), ~ Slutt(s), ~ SettForeldre(s),
         last'[s] = last[s], funn'[s] = funn[s], levert' = levert,
         fase'[s] \in {"name", "parent_id", "resten"} => fase'[s] = fase[s]
  PROVE  Dekker(s)'
<1>1. Rader(s)' = Rader(s)
  BY DEF Rader
<1>2. K!KonseptId(Rader(s)) \subseteq Id
  BY RaderType, KonseptIdType DEF ISamtidig
<1>3. ASSUME NEW x \in K!KonseptId(Rader(s)), Enig(s, x) PROVE Enig(s, x)'
  <2>1. Ser(s)[x] # Ingen => Ser(s)'[x] = Ser(s)[x]
    BY <1>2, SerBlir
  <2> QED
    BY <1>1, <1>3, <2>1 DEF Enig
<1>4. ASSUME NEW x \in K!KonseptId(Rader(s)), Funnet(s, x) PROVE Funnet(s, x)'
  BY <1>4 DEF Funnet
<1> QED
  BY <1>1, <1>3, <1>4 DEF Dekker

\* Every step keeps what a session has found so far complete.
LEMMA DekkerSteg ==
  ASSUME ISamtidig, ISamtidig', IDekker, [Next]_vars
  PROVE  IDekker'
<1>1. forvaltet' \in Nat /\ (forvaltet' = 0 => forvaltet = 0)
  <2>1. ASSUME NEW x \in Id, NEW n \in Navn, NEW f \in Id \cup {Ingen}, Forvalt(x, n, f)
        PROVE  forvaltet' = forvaltet + 1
    BY <2>1 DEF Forvalt
  <2>2. ASSUME NEW s \in Okt, Commit(s) \/ Tilbakerull(s) PROVE forvaltet' = forvaltet
    BY <2>2 DEF Commit, Tilbakerull, Slutt
  <2>3. forvaltet' = forvaltet \/ forvaltet' = forvaltet + 1
    BY <2>1, <2>2 DEF Next, Start, SettInn, InsertFerdig, SettForeldre, Sjekk, vars
  <2>4. forvaltet \in Nat
    BY DEF IDekker
  <2> QED
    BY <2>3, <2>4
<1> SUFFICES ASSUME forvaltet' = 0, NEW s \in Okt, fase'[s] # "ledig" PROVE Dekker(s)'
  BY <1>1 DEF IDekker
<1>2. fase[s] # "ledig" => Dekker(s)
  BY <1>1 DEF IDekker
<1>3. ASSUME fase[s] # "ledig", last'[s] = last[s], funn'[s] = funn[s], levert' = levert,
             ~ SettForeldre(s), fase'[s] \in {"name", "parent_id", "resten"} => fase'[s] = fase[s]
      PROVE  Dekker(s)'
  <2>1. ~ Slutt(s)
    BY DEF Slutt, ISamtidig, ITyper
  <2> QED
    BY <1>1, <1>2, <1>3, <2>1, DekkerStaar DEF IDekker
<1>4. ASSUME fase'[s] = fase[s], last'[s] = last[s], funn'[s] = funn[s], levert' = levert
      PROVE  Dekker(s)'
  <2>1. ~ SettForeldre(s)
    BY <1>4, SettForeldreForm DEF ISamtidig, ITyper
  <2> QED
    BY <1>3, <1>4, <2>1
<1>5. ASSUME NEW u \in Okt, NEW k \in Kilde, Start(u, k) PROVE Dekker(s)'
  <2>1. CASE u = s
    <3>1. fase'[s] = "inn" /\ Rader(s)' = levert[k] /\ funn'[s] = K!Leseavvik(levert[k])
      BY <1>5, <2>1, StartForm DEF ISamtidig, ITyper, Rader
    <3> QED
      BY <3>1 DEF Dekker, Enig
  <2>2. CASE u # s
    BY <1>4, <1>5, <2>2, StartForm DEF ISamtidig, ITyper
  <2> QED
    BY <2>1, <2>2
<1>6. ASSUME NEW u \in Okt, SettInn(u) PROVE Dekker(s)'
  BY <1>4, <1>6, SettInnForm
<1>7. ASSUME NEW u \in Okt, InsertFerdig(u) PROVE Dekker(s)'
  <2>1. CASE u = s
    <3>1. fase[s] = "inn" /\ fase'[s] = "foreldre" /\ UNCHANGED <<last, funn, levert>>
      BY <1>7, <2>1 DEF InsertFerdig, ISamtidig, ITyper
    <3> QED
      BY <1>3, <3>1 DEF SettForeldre
  <2>2. CASE u # s
    BY <1>4, <1>7, <2>2 DEF InsertFerdig, ISamtidig, ITyper
  <2> QED
    BY <2>1, <2>2
<1>8. ASSUME NEW u \in Okt, SettForeldre(u) PROVE Dekker(s)'
  <2>1. CASE u = s
    <3>1. fase[s] = "foreldre" /\ fase'[s] = "id" /\ UNCHANGED <<last, funn, levert>>
      BY <1>8, <2>1, SettForeldreForm DEF ISamtidig, ITyper
    <3>2. Rader(s)' = Rader(s)
      BY <3>1 DEF Rader
    <3> QED
      BY <1>2, <3>1, <3>2 DEF Dekker, Enig
  <2>2. CASE u # s
    BY <1>4, <1>8, <2>2, SettForeldreForm DEF ISamtidig, ITyper
  <2> QED
    BY <2>1, <2>2
<1>9. ASSUME NEW u \in Okt, NEW felt \in {"id", "name", "parent_id"}, Sjekk(u, felt) PROVE Dekker(s)'
  <2>1. CASE u = s
    BY <1>2, <1>9, <2>1, SjekkDekker, SjekkForm DEF ISamtidig
  <2>2. CASE u # s
    BY <1>4, <1>9, <2>2, SjekkForm DEF ISamtidig, ITyper
  <2> QED
    BY <2>1, <2>2
<1>10. ASSUME NEW u \in Okt, Commit(u) \/ Tilbakerull(u) PROVE Dekker(s)'
  <2>1. u # s
    BY <1>10 DEF Commit, Tilbakerull, Slutt, ISamtidig, ITyper
  <2> QED
    BY <1>4, <1>10, <2>1, SluttForm DEF Commit, Tilbakerull, ISamtidig, ITyper
<1>11. ASSUME NEW x \in Id, NEW n \in Navn, NEW f \in Id \cup {Ingen}, Forvalt(x, n, f) PROVE Dekker(s)'
  BY <1>1, <1>11 DEF Forvalt
<1>12. CASE UNCHANGED vars
  BY <1>4, <1>12 DEF vars
<1> QED
  BY <1>5, <1>6, <1>7, <1>8, <1>9, <1>10, <1>11, <1>12 DEF Next

\* So it is in every state.
LEMMA DekkerAlltid == Spec => []IDekker
<1>1. Init => IDekker
  BY DEF Init, IDekker
<1>2. ISamtidig /\ ISamtidig' /\ IDekker /\ [Next]_vars => IDekker'
  BY DekkerSteg
<1> QED
  BY <1>1, <1>2, SamtidigAlltid, PTL DEF Spec

\* What a session has logged when it commits covers every row that differs from the
\* table it leaves behind.
LEMMA CommitDekker ==
  ASSUME ISamtidig, IDekker, forvaltet = 0, NEW s \in Okt, Commit(s), NEW j \in DOMAIN Rader(s)
  PROVE  LET rad == Rader(s)[j]
         IN  \/ \E a \in avvik'[last[s]] : a[2] = rad.id
             \/ /\ rad.id \in Id
                /\ tabell'[rad.id] = [navn |-> rad.navn, forelder |-> rad.forelder]
<1> DEFINE rad == Rader(s)[j]
<1>1. fase[s] = "resten" /\ tabell' = Ser(s) /\ avvik' = [avvik EXCEPT ![last[s]] = funn[s]]
  BY DEF Commit
<1>2. Rader(s) \in Samling /\ K!Lastbar(Rader(s)) /\ last[s] \in Kilde
  BY <1>1, RaderType DEF ISamtidig
<1>3. avvik'[last[s]] = funn[s] /\ Dekker(s)
  BY <1>1, <1>2 DEF IDekker, ISamtidig, ITyper
<1>4. CASE j \notin K!Konsepter(Rader(s))
  <2> DEFINE a == <<"ugyldig_verdi", rad.id, IF rad.id # Ingen /\ rad.navn = Ingen THEN "name" ELSE "id">>
  <2>1. a \in K!Leseavvik(Rader(s)) /\ a[2] = rad.id
    BY <1>4 DEF K!Leseavvik
  <2> QED
    BY <1>3, <2>1 DEF Dekker
<1>5. CASE j \in K!Konsepter(Rader(s))
  <2>1. K!RadMed(Rader(s), rad.id) = rad /\ rad.id \in Id /\ rad.id \in K!KonseptId(Rader(s))
    BY <1>2, <1>5, RadMedFinner DEF K!KonseptId
  <2>2. CASE Funnet(s, rad.id)
    BY <1>3, <2>2 DEF Funnet
  <2>3. CASE Enig(s, rad.id)
    <3>1. Ser(s)[rad.id] \in TabellRad
      BY <1>1, <2>1, <2>3, SerFakta DEF Enig
    <3>2. Ser(s)[rad.id].navn = rad.navn /\ Ser(s)[rad.id].forelder = rad.forelder
      BY <1>1, <2>1, <2>3 DEF Enig
    <3>3. Ser(s)[rad.id] = [navn |-> rad.navn, forelder |-> rad.forelder]
      BY <3>1, <3>2 DEF TabellRad
    <3> QED
      BY <1>1, <2>1, <3>3
  <2> QED
    BY <1>3, <2>1, <2>2, <2>3 DEF Dekker
<1> QED
  BY <1>4, <1>5

\* A load that commits after an interleaving has logged every row that differs from the
\* table it leaves behind, unless the owner edited meanwhile.
THEOREM AvvikDekkerSamtidigAlltid == Spec => AvvikDekkerSamtidig
<1>1. ISamtidig /\ IDekker /\ [Next]_vars =>
        [\A s \in Okt : Commit(s) /\ forvaltet = 0 =>
           \A j \in DOMAIN Rader(s) :
             LET rad == Rader(s)[j]
             IN  \/ \E a \in avvik'[last[s]] : a[2] = rad.id
                 \/ /\ rad.id \in Id
                    /\ tabell'[rad.id] = [navn |-> rad.navn, forelder |-> rad.forelder]]_vars
  BY CommitDekker
<1> QED
  BY <1>1, SamtidigAlltid, DekkerAlltid, PTL DEF Spec, AvvikDekkerSamtidig

----------------------------------------------------------------------------
(* Sources that keep the contract.                                         *)

\* A source delivers the row.
Levert(x, rad) ==
  \E k \in Kilde : \E j \in DOMAIN levert[k] :
    levert[k][j] = [id |-> x, navn |-> rad.navn, forelder |-> rad.forelder]

\* The session has found nothing, and sees the rows it has been through.
Ren(s) ==
  /\ funn[s] = {}
  /\ \A j \in DOMAIN Rader(s) : (fase[s] = "inn" => j < i[s]) => Ser(s)[Rader(s)[j].id] # Ingen
  /\ fase[s] \notin {"inn", "foreldre"} =>
       \A x \in DOMAIN ny[s] : ny[s][x].forelder = K!RadMed(Rader(s), x).forelder

\* Committed rows are rows of the sources, and no load has found anything.
IRent == Kontrakt /\ forvaltet = 0 =>
           /\ \A k \in Kilde : avvik[k] = {}
           /\ \A x \in Id : tabell[x] # Ingen => Levert(x, tabell[x])
           /\ \A s \in Okt : fase[s] # "ledig" => Ren(s)

\* The rows of the sources: all are concepts, and an id or a name has one row.
LEMMA KontraktRad ==
  ASSUME ITyper, Kontrakt, NEW k \in Kilde, NEW j \in DOMAIN levert[k]
  PROVE  /\ levert[k] \in Samling /\ levert[k] \in Seq(K!Rad)
         /\ j \in K!Konsepter(levert[k])
         /\ levert[k][j] \in K!Rad
         /\ levert[k][j].id \in Id /\ levert[k][j].navn \in Navn
         /\ levert[k][j].id \in K!KonseptId(levert[k])
         /\ K!RadMed(levert[k], levert[k][j].id) = levert[k][j]
<1>1. levert[k] \in Samling /\ K!Lastbar(levert[k]) /\ levert[k] \in Seq(K!Rad)
  BY SamlingType DEF ITyper
<1>2. j \in K!Konsepter(levert[k])
  BY DEF Kontrakt
<1> QED
  BY <1>1, <1>2, RadMedFinner DEF K!KonseptId

\* Under the contract two rows with one id or one name are the same row.
LEMMA KontraktEnig ==
  ASSUME Kontrakt, NEW k \in Kilde, NEW j \in DOMAIN levert[k], NEW m \in Kilde, NEW l \in DOMAIN levert[m],
         levert[k][j].id = levert[m][l].id \/ levert[k][j].navn = levert[m][l].navn
  PROVE  levert[k][j] = levert[m][l]
BY DEF Kontrakt

\* What a session sees of an id or a name is a row of a source.
LEMMA SerLevert ==
  ASSUME ISamtidig, Kontrakt, NEW s \in Okt, fase[s] # "ledig", NEW x \in Id, Ser(s)[x] # Ingen,
         tabell[x] # Ingen => Levert(x, tabell[x])
  PROVE  \E k \in Kilde : \E j \in DOMAIN levert[k] :
           /\ levert[k][j].id = x /\ levert[k][j].navn = Ser(s)[x].navn
           /\ x \notin DOMAIN ny[s] => levert[k][j].forelder = Ser(s)[x].forelder
<1>1. CASE x \in DOMAIN ny[s]
  <2>1. RadAv(s, x) /\ Ser(s)[x] = ny[s][x]
    BY <1>1, SerFakta DEF ISamtidig, INye
  <2>2. PICK j \in K!Konsepter(Rader(s)) : Rader(s)[j].id = x
    BY <2>1 DEF RadAv, K!KonseptId
  <2>3. last[s] \in Kilde /\ Rader(s) = levert[last[s]] /\ j \in DOMAIN Rader(s)
    BY <2>2, RaderType DEF ISamtidig, Rader, K!Konsepter
  <2>4. Rader(s)[j].navn = ny[s][x].navn
    BY <2>1, <2>2, <2>3, KontraktRad DEF RadAv, ISamtidig
  <2> QED
    BY <1>1, <2>1, <2>2, <2>3, <2>4
<1>2. CASE x \notin DOMAIN ny[s]
  <2>1. Ser(s)[x] = tabell[x] /\ Levert(x, tabell[x])
    BY <1>2, SerFakta
  <2> QED
    BY <2>1 DEF Levert
<1> QED
  BY <1>1, <1>2

\* A row of the collection that the INSERT passed over is there already.
LEMMA TattErDer ==
  ASSUME ISamtidig, Kontrakt, \A x \in Id : tabell[x] # Ingen => Levert(x, tabell[x]),
         NEW s \in Okt, fase[s] # "ledig", NEW j \in DOMAIN Rader(s), Tatt(s, Rader(s)[j])
  PROVE  Ser(s)[Rader(s)[j].id] # Ingen
<1>1. last[s] \in Kilde /\ Rader(s) = levert[last[s]]
  BY RaderType DEF ISamtidig, Rader
<1>2. CASE \E r \in Radene(Ser(s)) : r.navn = Rader(s)[j].navn
  <2>1. PICK x \in Id : Ser(s)[x] # Ingen /\ Ser(s)[x].navn = Rader(s)[j].navn
    BY <1>2 DEF Radene
  <2>2. PICK k \in Kilde : \E l \in DOMAIN levert[k] :
          levert[k][l].id = x /\ levert[k][l].navn = Ser(s)[x].navn
    BY <2>1, SerLevert
  <2>3. PICK l \in DOMAIN levert[k] : levert[k][l].id = x /\ levert[k][l].navn = Ser(s)[x].navn
    BY <2>2
  <2>4. levert[k][l] = Rader(s)[j]
    BY <1>1, <2>1, <2>3, KontraktEnig
  <2> QED
    BY <2>1, <2>3, <2>4
<1> QED
  BY <1>2 DEF Tatt

\* A row that the session sees is the row it loads.
LEMMA SerErRaden ==
  ASSUME ISamtidig, Kontrakt, \A x \in Id : tabell[x] # Ingen => Levert(x, tabell[x]),
         NEW s \in Okt, fase[s] \notin {"ledig", "inn", "foreldre"}, Ren(s), NEW x \in K!KonseptId(Rader(s))
  PROVE  /\ x \in Id /\ Ser(s)[x] \in TabellRad
         /\ Ser(s)[x].navn = K!RadMed(Rader(s), x).navn
         /\ Ser(s)[x].forelder = K!RadMed(Rader(s), x).forelder
<1>1. last[s] \in Kilde /\ Rader(s) = levert[last[s]]
  BY RaderType DEF ISamtidig, Rader
<1>2. PICK j \in DOMAIN Rader(s) : Rader(s)[j].id = x
  BY DEF K!KonseptId, K!Konsepter
<1>3. x \in Id /\ K!RadMed(Rader(s), x) = Rader(s)[j]
  BY <1>1, <1>2, KontraktRad DEF ISamtidig
<1>4. Ser(s)[x] # Ingen /\ Ser(s)[x] \in TabellRad
  BY <1>2, <1>3, SerFakta DEF Ren
<1>5. PICK k \in Kilde : \E l \in DOMAIN levert[k] :
        /\ levert[k][l].id = x /\ levert[k][l].navn = Ser(s)[x].navn
        /\ x \notin DOMAIN ny[s] => levert[k][l].forelder = Ser(s)[x].forelder
  BY <1>3, <1>4, SerLevert
<1>6. PICK l \in DOMAIN levert[k] :
        /\ levert[k][l].id = x /\ levert[k][l].navn = Ser(s)[x].navn
        /\ x \notin DOMAIN ny[s] => levert[k][l].forelder = Ser(s)[x].forelder
  BY <1>5
<1>7. levert[k][l] = Rader(s)[j]
  BY <1>1, <1>2, <1>6, KontraktEnig
<1>8. x \in DOMAIN ny[s] => Ser(s)[x].forelder = K!RadMed(Rader(s), x).forelder
  BY <1>3, SerFakta DEF Ren
<1> QED
  BY <1>3, <1>4, <1>6, <1>7, <1>8

\* The query for a field finds nothing, for the row that is there is the row loaded.
LEMMA IngenFunn ==
  ASSUME ISamtidig, Kontrakt, \A x \in Id : tabell[x] # Ingen => Levert(x, tabell[x]),
         NEW s \in Okt, fase[s] \notin {"ledig", "inn", "foreldre"}, Ren(s)
  PROVE  K!Sjekk(Rader(s), NavnI(Ser(s)), ForelderI(Ser(s))) = {}
<1>1. PICK t : t = Ser(s)
  OBVIOUS
<1>2. \A x \in K!KonseptId(Rader(s)) : /\ NavnI(t)[x] # Ingen
                                       /\ NavnI(t)[x] = K!RadMed(Rader(s), x).navn
                                       /\ ForelderI(t)[x] = K!RadMed(Rader(s), x).forelder
  <2>1. SUFFICES ASSUME NEW x \in K!KonseptId(Rader(s))
                 PROVE  /\ NavnI(t)[x] # Ingen
                        /\ NavnI(t)[x] = K!RadMed(Rader(s), x).navn
                        /\ ForelderI(t)[x] = K!RadMed(Rader(s), x).forelder
    OBVIOUS
  <2>2. /\ x \in Id /\ t[x] \in TabellRad
        /\ t[x].navn = K!RadMed(Rader(s), x).navn
        /\ t[x].forelder = K!RadMed(Rader(s), x).forelder
    BY <1>1, SerErRaden
  <2> QED
    BY <2>2, IngenOgTom DEF NavnI, ForelderI, TabellRad
<1>3. K!Sjekk(Rader(s), NavnI(t), ForelderI(t)) = {}
  BY <1>2 DEF K!Sjekk
<1> QED
  BY <1>1, <1>3

\* Nothing is wrong in the rows as they were read.
LEMMA IngenLesefeil ==
  ASSUME Kontrakt, NEW k \in Kilde
  PROVE  K!Leseavvik(levert[k]) = {}
<1>1. DOMAIN levert[k] \ K!Konsepter(levert[k]) = {}
  BY DEF Kontrakt
<1> QED
  BY <1>1 DEF K!Leseavvik

\* A session that stays where it was is as clean as it was.
LEMMA RenStaar ==
  ASSUME ISamtidig, ISamtidig', Kontrakt, [Next]_vars, forvaltet = 0, forvaltet' = 0, NEW s \in Okt,
         fase[s] # "ledig", Ren(s), fase'[s] = fase[s], last'[s] = last[s], i'[s] = i[s],
         funn'[s] = funn[s], ny'[s] = ny[s], levert' = levert
  PROVE  Ren(s)'
<1>1. Rader(s)' = Rader(s)
  BY DEF Rader
<1>2. ~ Slutt(s) /\ ~ SettForeldre(s)
  BY SettForeldreForm DEF Slutt, ISamtidig, ITyper
<1>3. ASSUME NEW j \in DOMAIN Rader(s), fase[s] = "inn" => j < i[s]
      PROVE  Ser(s)'[Rader(s)[j].id] # Ingen
  <2>1. Rader(s)[j].id \in Id
    BY RaderType, KontraktRad DEF ISamtidig, Rader
  <2>2. Ser(s)[Rader(s)[j].id] # Ingen
    BY <1>3 DEF Ren
  <2> QED
    BY <1>2, <2>1, <2>2, SerBlir
<1> QED
  BY <1>1, <1>3 DEF Ren

\* The INSERT keeps a session clean: what it passes over is there as delivered.
LEMMA RenSettInn ==
  ASSUME ISamtidig, ISamtidig', Kontrakt, [Next]_vars, forvaltet = 0, forvaltet' = 0, NEW s \in Okt,
         \A x \in Id : tabell[x] # Ingen => Levert(x, tabell[x]), SettInn(s), Ren(s)
  PROVE  Ren(s)'
<1>1. /\ fase[s] = "inn" /\ i[s] \in DOMAIN Rader(s)
      /\ UNCHANGED <<tabell, avvik, levert, fase, last, funn, forvaltet>>
      /\ i'[s] = i[s] + 1
      /\ \/ ny' = ny /\ (i[s] \in K!Konsepter(Rader(s)) => Tatt(s, Rader(s)[i[s]]))
         \/ NyRad(s, Rader(s)[i[s]].id, Rader(s)[i[s]].navn)
  BY SettInnForm DEF ISamtidig, ITyper
<1>2. Rader(s)' = Rader(s)
  BY <1>1 DEF Rader
<1>3. last[s] \in Kilde /\ Rader(s) = levert[last[s]]
  BY <1>1, RaderType DEF ISamtidig, Rader
<1>4. ~ Slutt(s) /\ ~ SettForeldre(s)
  BY <1>1 DEF Slutt, SettForeldre, ISamtidig, ITyper
<1>5. ASSUME NEW j \in DOMAIN Rader(s), Ser(s)[Rader(s)[j].id] # Ingen
      PROVE  Ser(s)'[Rader(s)[j].id] # Ingen
  BY <1>3, <1>4, <1>5, SerBlir, KontraktRad DEF ISamtidig
<1>6. Ser(s)'[Rader(s)[i[s]].id] # Ingen
  <2>1. CASE ny' = ny
    <3>1. i[s] \in K!Konsepter(Rader(s)) /\ Rader(s)[i[s]].id \in Id
      BY <1>1, <1>3, KontraktRad DEF ISamtidig
    <3>2. CASE Tatt(s, Rader(s)[i[s]])
      BY <1>1, <1>5, <3>2, TattErDer
    <3>3. CASE NyRad(s, Rader(s)[i[s]].id, Rader(s)[i[s]].navn)
      BY <2>1, <3>3 DEF NyRad
    <3> QED
      BY <1>1, <3>1, <3>2, <3>3
  <2>2. CASE NyRad(s, Rader(s)[i[s]].id, Rader(s)[i[s]].navn)
    <3>1. PICK z, n : z = Rader(s)[i[s]].id /\ n = Rader(s)[i[s]].navn
      OBVIOUS
    <3>2. z \in Id /\ z \in DOMAIN ny'[s] /\ ny'[s][z] = [navn |-> n, forelder |-> Ingen] /\ n \in Navn
      BY <2>2, <3>1 DEF NyRad
    <3>3. ny'[s][z] # Ingen
      BY <3>2, IngenOgTom DEF TabellRad
    <3>4. Ser(s)'[z] # Ingen
      BY <3>2, <3>3 DEF Ser
    <3> QED
      BY <3>1, <3>4
  <2> QED
    BY <1>1, <2>1, <2>2
<1>7. ASSUME NEW j \in DOMAIN Rader(s), j < i[s] + 1 PROVE Ser(s)'[Rader(s)[j].id] # Ingen
  <2>1. j \in Nat /\ i[s] \in Nat
    BY <1>3, KontraktRad DEF ISamtidig, ITyper
  <2>2. CASE j = i[s]
    BY <1>6, <2>2
  <2>3. CASE j < i[s]
    BY <1>5, <2>3 DEF Ren
  <2> QED
    BY <1>7, <2>1, <2>2, <2>3
<1> QED
  BY <1>1, <1>2, <1>7 DEF Ren

\* After the INSERT every id of the collection is seen.
LEMMA RenInsertFerdig ==
  ASSUME ISamtidig, Kontrakt, NEW s \in Okt, InsertFerdig(s), Ren(s)
  PROVE  Ren(s)'
<1>1. /\ fase[s] = "inn" /\ i[s] \notin DOMAIN Rader(s) /\ fase'[s] = "foreldre"
      /\ UNCHANGED <<tabell, levert, last, i, ny, funn>>
  BY DEF InsertFerdig, ISamtidig, ITyper
<1>2. Rader(s)' = Rader(s) /\ Ser(s)' = Ser(s)
  BY <1>1 DEF Rader, Ser
<1>3. Rader(s) \in Samling
  BY <1>1, RaderType DEF ISamtidig
<1>4. \A j \in DOMAIN Rader(s) : j < i[s]
  <2>1. Rader(s) \in Seq(K!Rad) /\ i[s] \in Nat \ {0}
    BY <1>3, SamlingType DEF ISamtidig, ITyper
  <2>2. DOMAIN Rader(s) = 1..Len(Rader(s)) /\ Len(Rader(s)) \in Nat
    BY <2>1
  <2> QED
    BY <1>1, <2>1, <2>2
<1> QED
  BY <1>1, <1>2, <1>4 DEF Ren

\* After the UPDATE every concept has the parent that was delivered.
LEMMA RenSettForeldre ==
  ASSUME ISamtidig, ISamtidig', Kontrakt, NEW s \in Okt, SettForeldre(s), Ren(s)
  PROVE  Ren(s)'
<1>1. /\ fase[s] = "foreldre" /\ fase'[s] = "id"
      /\ UNCHANGED <<tabell, levert, last, i, funn>>
      /\ DOMAIN ny'[s] = DOMAIN ny[s]
  BY SettForeldreForm DEF ISamtidig, ITyper
<1>2. Rader(s)' = Rader(s)
  BY <1>1 DEF Rader
<1>3. last[s] \in Kilde /\ Rader(s) = levert[last[s]]
  BY <1>1, RaderType DEF ISamtidig, Rader
<1>4. ASSUME NEW j \in DOMAIN Rader(s) PROVE Ser(s)'[Rader(s)[j].id] # Ingen
  <2>1. PICK z : z = Rader(s)[j].id
    OBVIOUS
  <2>2. z \in Id /\ Ser(s)[z] # Ingen
    BY <1>1, <1>3, <2>1, KontraktRad DEF Ren, ISamtidig
  <2>3. z \in DOMAIN ny[s] => ny'[s][z] \in TabellRad
    BY SettForeldreForm
  <2> QED
    BY <1>1, <2>1, <2>2, <2>3, IngenOgTom DEF Ser
<1>5. ASSUME NEW x \in DOMAIN ny[s] PROVE ny'[s][x].forelder = K!RadMed(Rader(s), x).forelder
  <2>1. x \in K!KonseptId(Rader(s))
    BY DEF ISamtidig, INye, RadAv
  <2>2. PICK j \in DOMAIN Rader(s) : Rader(s)[j].id = x
    BY <2>1 DEF K!KonseptId, K!Konsepter
  <2>3. PICK f : f = K!RadMed(Rader(s), x).forelder
    OBVIOUS
  <2>4. f = Rader(s)[j].forelder
    BY <1>3, <2>2, <2>3, KontraktRad DEF ISamtidig
  <2>5. f \in K!KonseptId(Rader(s)) \cup {Ingen}
    BY <1>3, <2>4 DEF Kontrakt
  <2>6. CASE f \in K!KonseptId(Rader(s))
    <3>1. PICK l \in DOMAIN Rader(s) : Rader(s)[l].id = f
      BY <2>6 DEF K!KonseptId, K!Konsepter
    <3>2. f \in Id /\ Ser(s)[f] # Ingen
      BY <1>1, <1>3, <3>1, KontraktRad DEF Ren, ISamtidig
    <3> QED
      BY <2>3, <3>2, SettForeldreForm
  <2>7. CASE f = Ingen
    BY <2>3, <2>7, IngenOgTom, SettForeldreForm
  <2> QED
    BY <2>5, <2>6, <2>7
<1> QED
  BY <1>1, <1>2, <1>4, <1>5 DEF Ren

\* A check of a clean session finds nothing.
LEMMA RenSjekk ==
  ASSUME ISamtidig, Kontrakt, \A x \in Id : tabell[x] # Ingen => Levert(x, tabell[x]),
         NEW s \in Okt, NEW felt \in {"id", "name", "parent_id"}, Sjekk(s, felt), Ren(s)
  PROVE  Ren(s)'
<1>1. /\ fase[s] = felt /\ fase[s] \notin {"ledig", "inn", "foreldre"}
      /\ funn'[s] = funn[s] \cup {a \in K!Sjekk(Rader(s), NavnI(Ser(s)), ForelderI(Ser(s))) : a[3] = felt}
      /\ UNCHANGED <<tabell, levert, last, ny>>
      /\ fase'[s] \notin {"ledig", "inn", "foreldre"}
  BY SjekkForm DEF ISamtidig, ITyper
<1>2. Rader(s)' = Rader(s) /\ Ser(s)' = Ser(s)
  BY <1>1 DEF Rader, Ser
<1>3. funn'[s] = {}
  BY <1>1, IngenFunn DEF Ren
<1> QED
  BY <1>1, <1>2, <1>3 DEF Ren

\* The rows a clean session commits are rows of its source.
LEMMA CommitLevert ==
  ASSUME ISamtidig, Kontrakt, \A x \in Id : tabell[x] # Ingen => Levert(x, tabell[x]),
         NEW s \in Okt, fase[s] = "resten", Ren(s), NEW x \in Id, Ser(s)[x] # Ingen
  PROVE  Levert(x, Ser(s)[x])
<1>1. last[s] \in Kilde /\ Rader(s) = levert[last[s]]
  BY RaderType DEF ISamtidig, Rader
<1>2. CASE x \in DOMAIN ny[s]
  <2>1. x \in K!KonseptId(Rader(s))
    BY <1>2 DEF ISamtidig, INye, RadAv
  <2>2. PICK j \in DOMAIN Rader(s) : Rader(s)[j].id = x
    BY <2>1 DEF K!KonseptId, K!Konsepter
  <2>3. Rader(s)[j] \in K!Rad /\ K!RadMed(Rader(s), x) = Rader(s)[j]
    BY <1>1, <2>2, KontraktRad DEF ISamtidig
  <2>4. Ser(s)[x].navn = Rader(s)[j].navn /\ Ser(s)[x].forelder = Rader(s)[j].forelder
    BY <2>1, <2>3, SerErRaden
  <2>5. Rader(s)[j] = [id |-> x, navn |-> Ser(s)[x].navn, forelder |-> Ser(s)[x].forelder]
    BY <2>2, <2>3, <2>4 DEF K!Rad
  <2> QED
    BY <1>1, <2>5 DEF Levert
<1>3. CASE x \notin DOMAIN ny[s]
  BY <1>3, SerFakta
<1> QED
  BY <1>2, <1>3

\* Every step keeps the sessions clean.
LEMMA RentSteg ==
  ASSUME ISamtidig, ISamtidig', IRent, IDekker, IDekker', [Next]_vars
  PROVE  IRent'
<1>1. levert' = levert
  <2>1. \A s \in Okt : Commit(s) \/ Tilbakerull(s) => levert' = levert
    BY DEF Commit, Tilbakerull, Slutt
  <2>2. \A x \in Id, n \in Navn, f \in Id \cup {Ingen} : Forvalt(x, n, f) => levert' = levert
    BY DEF Forvalt
  <2> QED
    BY <2>1, <2>2 DEF Next, Start, SettInn, InsertFerdig, SettForeldre, Sjekk, vars
<1>2. Kontrakt' <=> Kontrakt
  BY <1>1 DEF Kontrakt
<1> SUFFICES ASSUME Kontrakt, forvaltet' = 0
             PROVE  /\ \A k \in Kilde : avvik'[k] = {}
                    /\ \A x \in Id : tabell'[x] # Ingen => Levert(x, tabell[x])'
                    /\ \A s \in Okt : fase'[s] # "ledig" => Ren(s)'
  BY <1>2 DEF IRent
<1>3. \A x \in Id, n \in Navn, f \in Id \cup {Ingen} : ~ Forvalt(x, n, f)
  BY DEF Forvalt, IDekker
<1>4. forvaltet = 0
  <2>1. \A s \in Okt : Commit(s) \/ Tilbakerull(s) => forvaltet' = forvaltet
    BY DEF Commit, Tilbakerull, Slutt
  <2> QED
    BY <1>3, <2>1 DEF Next, Start, SettInn, InsertFerdig, SettForeldre, Sjekk, vars
<1>5. /\ \A k \in Kilde : avvik[k] = {}
      /\ \A x \in Id : tabell[x] # Ingen => Levert(x, tabell[x])
      /\ \A s \in Okt : fase[s] # "ledig" => Ren(s)
  BY <1>4 DEF IRent
<1>6. \A x \in Id : Levert(x, tabell[x])' <=> Levert(x, tabell'[x])
  BY <1>1 DEF Levert
<1>7. ASSUME NEW s \in Okt, Commit(s)
      PROVE  /\ \A k \in Kilde : avvik'[k] = {}
             /\ \A x \in Id : tabell'[x] # Ingen => Levert(x, tabell'[x])
  <2>1. fase[s] = "resten" /\ tabell' = Ser(s) /\ avvik' = [avvik EXCEPT ![last[s]] = funn[s]] /\ Ren(s)
    BY <1>5, <1>7 DEF Commit
  <2>2. funn[s] = {}
    BY <2>1 DEF Ren
  <2>3. \A x \in Id : Ser(s)[x] # Ingen => Levert(x, Ser(s)[x])
    BY <1>5, <2>1, CommitLevert
  <2> QED
    BY <1>5, <2>1, <2>2, <2>3 DEF ISamtidig, ITyper
<1>8. ASSUME avvik' = avvik, tabell' = tabell
      PROVE  /\ \A k \in Kilde : avvik'[k] = {}
             /\ \A x \in Id : tabell'[x] # Ingen => Levert(x, tabell'[x])
  BY <1>5, <1>8
<1>9. /\ \A k \in Kilde : avvik'[k] = {}
      /\ \A x \in Id : tabell'[x] # Ingen => Levert(x, tabell'[x])
  BY <1>3, <1>7, <1>8 DEF Next, Start, SettInn, InsertFerdig, SettForeldre, Sjekk, Tilbakerull, vars
<1>10. ASSUME NEW s \in Okt, fase'[s] # "ledig" PROVE Ren(s)'
  <2>1. ASSUME fase'[s] = fase[s], last'[s] = last[s], i'[s] = i[s], funn'[s] = funn[s], ny'[s] = ny[s]
        PROVE  Ren(s)'
    BY <1>1, <1>4, <1>5, <1>10, <2>1, RenStaar
  <2>2. ASSUME NEW u \in Okt, NEW k \in Kilde, Start(u, k) PROVE Ren(s)'
    <3>1. CASE u = s
      <4>1. /\ fase'[s] = "inn" /\ i'[s] = 1 /\ funn'[s] = K!Leseavvik(levert[k])
            /\ Rader(s)' = levert[k]
        BY <2>2, <3>1, StartForm DEF ISamtidig, ITyper, Rader
      <4>2. \A j \in DOMAIN levert[k] : ~ (j < 1)
        <5>1. levert[k] \in Seq(K!Rad)
          BY SamlingType DEF ISamtidig, ITyper
        <5> QED
          BY <5>1
      <4> QED
        BY <4>1, <4>2, IngenLesefeil DEF Ren
    <3>2. CASE u # s
      BY <2>1, <2>2, <3>2, StartForm DEF ISamtidig, ITyper
    <3> QED
      BY <3>1, <3>2
  <2>3. ASSUME NEW u \in Okt, SettInn(u) PROVE Ren(s)'
    <3>1. CASE u = s
      BY <1>4, <1>5, <1>10, <2>3, <3>1, RenSettInn, SettInnForm
    <3>2. CASE u # s
      <4>1. UNCHANGED <<fase, last, funn>> /\ i'[s] = i[s]
        BY <2>3, <3>2, SettInnForm DEF ISamtidig, ITyper
      <4>2. ny'[s] = ny[s]
        <5>1. ny' = ny \/ \E z, n : NyRad(u, z, n)
          BY <2>3, SettInnForm
        <5> QED
          BY <3>2, <5>1 DEF NyRad
      <4> QED
        BY <2>1, <4>1, <4>2
    <3> QED
      BY <3>1, <3>2
  <2>4. ASSUME NEW u \in Okt, InsertFerdig(u) PROVE Ren(s)'
    <3>1. CASE u = s
      BY <1>5, <2>4, <3>1, RenInsertFerdig DEF InsertFerdig
    <3>2. CASE u # s
      BY <2>1, <2>4, <3>2 DEF InsertFerdig, ISamtidig, ITyper
    <3> QED
      BY <3>1, <3>2
  <2>5. ASSUME NEW u \in Okt, SettForeldre(u) PROVE Ren(s)'
    <3>1. CASE u = s
      BY <1>5, <2>5, <3>1, RenSettForeldre DEF SettForeldre
    <3>2. CASE u # s
      BY <2>1, <2>5, <3>2, SettForeldreForm DEF ISamtidig, ITyper
    <3> QED
      BY <3>1, <3>2
  <2>6. ASSUME NEW u \in Okt, NEW felt \in {"id", "name", "parent_id"}, Sjekk(u, felt) PROVE Ren(s)'
    <3>1. CASE u = s
      <4>1. fase[s] # "ledig"
        BY <2>6, <3>1 DEF Sjekk
      <4> QED
        BY <1>5, <2>6, <3>1, <4>1, RenSjekk
    <3>2. CASE u # s
      BY <2>1, <2>6, <3>2, SjekkForm DEF ISamtidig, ITyper
    <3> QED
      BY <3>1, <3>2
  <2>7. ASSUME NEW u \in Okt, Commit(u) \/ Tilbakerull(u) PROVE Ren(s)'
    <3>1. u # s
      BY <1>10, <2>7 DEF Commit, Tilbakerull, Slutt, ISamtidig, ITyper
    <3> QED
      BY <2>1, <2>7, <3>1, SluttForm DEF Commit, Tilbakerull, ISamtidig, ITyper
  <2>8. CASE UNCHANGED vars
    BY <2>1, <2>8 DEF vars
  <2> QED
    BY <1>3, <2>2, <2>3, <2>4, <2>5, <2>6, <2>7, <2>8 DEF Next
<1> QED
  BY <1>6, <1>9, <1>10

\* Kommuner that keep the contract are loaded without a deviation however their
\* statements interleave, while the owner leaves the table alone.
THEOREM RentSamtidigAlltid == Spec => []RentSamtidig
<1>1. Init => IRent
  <2> SUFFICES ASSUME Init PROVE IRent
    OBVIOUS
  <2>1. /\ \A k \in Kilde : avvik[k] = {}
        /\ \A x \in Id : tabell[x] = Ingen
        /\ \A s \in Okt : fase[s] = "ledig"
    BY DEF Init
  <2> QED
    BY <2>1 DEF IRent
<1>2. ISamtidig /\ ISamtidig' /\ IDekker /\ IDekker' /\ IRent /\ [Next]_vars => IRent'
  BY RentSteg
<1>3. IRent => RentSamtidig
  BY DEF IRent, RentSamtidig
<1> QED
  BY <1>1, <1>2, <1>3, SamtidigAlltid, DekkerAlltid, PTL DEF Spec
=============================================================================
