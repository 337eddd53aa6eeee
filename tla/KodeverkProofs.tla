---------------------------- MODULE KodeverkProofs ----------------------------
(***************************************************************************)
(* Theorems about Kodeverk, for every set of ids, names, kommuner and       *)
(* collections, and about Normaliser, whose loads are loads of Kodeverk.     *)
(* What depends on the sources keeping their contract takes the contract as *)
(* an assumption of the theorem.                                            *)
(***************************************************************************)
EXTENDS Normaliser, WellFoundedInduction, TLAPS

----------------------------------------------------------------------------
(* The operators that read the rows.                                       *)

\* The first row with an id is the only concept with that id.
LEMMA KonseptEntydig ==
  ASSUME NEW r \in Samling, NEW i \in Konsepter(r), NEW j \in Konsepter(r),
         r[i].id = r[j].id
  PROVE  i = j
<1>1. r \in Seq(Rad) BY SamlingType
<1>2. DOMAIN r \subseteq Nat BY <1>1
<1>3. i \in DOMAIN r /\ j \in DOMAIN r BY DEF Konsepter
<1>4. Lesbar(r[i]) /\ Lesbar(r[j]) BY DEF Konsepter
<1>5. ~ (i < j) BY <1>3, <1>4 DEF Konsepter
<1>6. ~ (j < i) BY <1>3, <1>4 DEF Konsepter
<1> QED BY <1>2, <1>3, <1>5, <1>6

\* RadMed finds the concept with a given id.
LEMMA RadMedFinner ==
  ASSUME NEW r \in Samling, NEW i \in Konsepter(r)
  PROVE  /\ RadMed(r, r[i].id) = r[i]
         /\ r[i] \in Rad
         /\ r[i].navn \in Navn
         /\ r[i].forelder \in Id \cup {Ingen}
         /\ Lastbar(r) => r[i].id \in Id
<1>1. r \in Seq(Rad) BY SamlingType
<1>2. i \in DOMAIN r /\ Lesbar(r[i]) BY DEF Konsepter
<1>3. r[i] \in Rad BY <1>1, <1>2
<1>4. \E j \in Konsepter(r) : r[j].id = r[i].id OBVIOUS
<1>5. PICK j \in Konsepter(r) : r[j].id = r[i].id /\ RadMed(r, r[i].id) = r[j]
  BY <1>4 DEF RadMed
<1>6. j = i BY <1>5, KonseptEntydig
<1> QED BY <1>2, <1>3, <1>5, <1>6 DEF Rad, Lesbar, Lastbar

\* A created id is new, its name is free, and no two created ids share a name.
LEMMA NyeIdFakta ==
  ASSUME NEW r \in Samling, Lastbar(r), TypeOK, NEW x \in NyeId(r)
  PROVE  /\ x \in Id
         /\ x \in KonseptId(r)
         /\ navn[x] = Ingen
         /\ RadMed(r, x).navn \in Navn
         /\ RadMed(r, x).forelder \in Id \cup {Ingen}
         /\ \A y \in Id : navn[y] # RadMed(r, x).navn
         /\ \A y \in NyeId(r) : RadMed(r, y).navn = RadMed(r, x).navn => y = x
<1>1. PICK i \in Opprettes(r) : x = r[i].id BY DEF NyeId
<1>2. i \in Konsepter(r) /\ Ledig(r[i]) BY DEF Opprettes
<1>3. RadMed(r, x) = r[i] /\ x \in Id /\ r[i].navn \in Navn /\ r[i].forelder \in Id \cup {Ingen}
  BY <1>1, <1>2, RadMedFinner
<1>4. ASSUME NEW y \in NyeId(r), RadMed(r, y).navn = RadMed(r, x).navn
      PROVE  y = x
  <2>1. PICK j \in Opprettes(r) : y = r[j].id BY DEF NyeId
  <2>2. j \in Konsepter(r) /\ Ledig(r[j]) BY DEF Opprettes
  <2>3. RadMed(r, y) = r[j] BY <2>1, <2>2, RadMedFinner
  <2>4. r[i].navn = r[j].navn BY <1>3, <1>4, <2>3
  <2>5. ~ (i < j) BY <1>2, <2>2, <2>4 DEF Opprettes
  <2>6. ~ (j < i) BY <1>2, <2>2, <2>4 DEF Opprettes
  <2>7. i \in Nat /\ j \in Nat
    BY <1>2, <2>2, SamlingType DEF Konsepter
  <2> QED BY <1>1, <2>1, <2>5, <2>6, <2>7
<1> QED BY <1>1, <1>2, <1>3, <1>4 DEF KonseptId, Ledig

\* What is logged is a set of deviations.
LEMMA LoggetErAvvik ==
  ASSUME NEW r \in Samling, NEW n, NEW f
  PROVE  Leseavvik(r) \cup Sjekk(r, n, f) \subseteq Avvik
<1>1. r \in Seq(Rad) BY SamlingType
<1>2. \A i \in DOMAIN r : r[i] \in Rad BY <1>1
<1>3. Leseavvik(r) \subseteq Avvik BY <1>2 DEF Leseavvik, Avvik, Rad
<1>4. KonseptId(r) \subseteq Id \cup {Ingen, Tom} BY <1>2 DEF KonseptId, Konsepter, Rad
<1>5. Sjekk(r, n, f) \subseteq Avvik BY <1>4 DEF Sjekk, Avvik
<1> QED BY <1>3, <1>5

\* Which ids the table knows after a build, and the parents they then have.
LEMMA EtterBygg ==
  ASSUME TypeOK, NEW k \in Kilde, NEW r \in Samling, Bygg(k, r)
  PROVE  /\ Kjent' = Kjent \cup NyeId(r)
         /\ Kjent \cap NyeId(r) = {}
         /\ NyeId(r) \subseteq KonseptId(r)
         /\ \A x \in Kjent : navn'[x] = navn[x] /\ forelder'[x] = forelder[x]
         /\ \A x \in NyeId(r) : /\ navn'[x] = RadMed(r, x).navn
                                /\ forelder'[x] \in {RadMed(r, x).forelder, Ingen}
         /\ \A x \in NyeId(r) : forelder'[x] \in Kjent' \cup {Ingen}
<1>1. Lastbar(r) /\ navn' = NyeNavn(r) /\ forelder' = NyeForeldre(r) BY DEF Bygg
<1>2. \A x \in NyeId(r) : /\ x \in Id /\ x \in KonseptId(r) /\ navn[x] = Ingen
                          /\ RadMed(r, x).navn \in Navn
  BY <1>1, NyeIdFakta
<1>3. \A x \in Id : navn'[x] = IF x \in NyeId(r) THEN RadMed(r, x).navn ELSE navn[x]
  BY <1>1 DEF NyeNavn
<1>4. Kjent' = Kjent \cup NyeId(r) BY <1>2, <1>3, IngenOgTom DEF Kjent
<1>5. \A x \in NyeId(r) : forelder[x] = Ingen BY <1>2 DEF TypeOK, Kjent
<1>6. \A x \in Id : \/ forelder'[x] = forelder[x]
                    \/ /\ x \in NyeId(r)
                       /\ forelder'[x] = RadMed(r, x).forelder
                       /\ forelder'[x] \in Kjent \cup NyeId(r)
  BY <1>1 DEF NyeForeldre
<1> QED BY <1>2, <1>3, <1>4, <1>5, <1>6 DEF Kjent

----------------------------------------------------------------------------
(* Type correctness.                                                       *)

\* Every load and every edit by the owner keeps the variables in their types.
THEOREM TypeKorrekt == Spec => []TypeOK
<1>1. Init => TypeOK BY DEF Init, TypeOK, Kjent
<1>2. TypeOK /\ [Next]_vars => TypeOK'
  <2> SUFFICES ASSUME TypeOK, [Next]_vars PROVE TypeOK' OBVIOUS
  <2>1. ASSUME NEW k \in Kilde, NEW r \in Samling, Bygg(k, r) PROVE TypeOK'
    <3>1. \A x \in NyeId(r) : /\ RadMed(r, x).navn \in Navn
                              /\ RadMed(r, x).forelder \in Id \cup {Ingen}
      BY <2>1, NyeIdFakta DEF Bygg
    <3>2. navn' \in [Id -> Navn \cup {Ingen}]
      BY <2>1, <3>1 DEF Bygg, NyeNavn, TypeOK
    <3>3. forelder' \in [Id -> Id \cup {Ingen}]
      BY <2>1, <3>1 DEF Bygg, NyeForeldre, TypeOK
    <3>4. \A x \in Id \ Kjent' : forelder'[x] = Ingen
      <4>1. Kjent' = Kjent \cup NyeId(r) BY <2>1, EtterBygg
      <4>2. \A x \in Id \ NyeId(r) : forelder'[x] = forelder[x]
        BY <2>1 DEF Bygg, NyeForeldre
      <4> QED BY <4>1, <4>2 DEF TypeOK
    <3>5. avvik' \in [Kilde -> SUBSET Avvik]
      BY <2>1, LoggetErAvvik DEF Bygg, Loggfor, TypeOK
    <3>6. forvaltet' \in Nat BY <2>1 DEF Bygg, TypeOK
    <3> QED BY <3>2, <3>3, <3>4, <3>5, <3>6 DEF TypeOK
  <2>2. ASSUME NEW k \in Kilde, NEW r \in Samling, Synk(k, r) PROVE TypeOK'
    <3>1. avvik' \in [Kilde -> SUBSET Avvik]
      BY <2>2, LoggetErAvvik DEF Synk, Loggfor, TypeOK
    <3> QED BY <2>2, <3>1 DEF Synk, TypeOK, Kjent
  <2>3. ASSUME NEW k \in Kilde, NEW r \in Samling, Avbrutt(k, r) PROVE TypeOK'
    BY <2>3 DEF Avbrutt, vars, TypeOK, Kjent
  <2>4. ASSUME NEW x \in Id, NEW n \in Navn, NEW f \in Id \cup {Ingen}, Forvalt(x, n, f)
        PROVE  TypeOK'
    <3>1. \A y \in Id \ Kjent' : y \in Id \ Kjent /\ y # x
      BY <2>4, IngenOgTom DEF Forvalt, Kjent, TypeOK
    <3> QED BY <2>4, <3>1 DEF Forvalt, TypeOK
  <2>5. CASE UNCHANGED vars BY <2>5 DEF vars, TypeOK, Kjent
  <2> QED BY <2>1, <2>2, <2>3, <2>4, <2>5 DEF Next, Last
<1> QED BY <1>1, <1>2, PTL DEF Spec

----------------------------------------------------------------------------
(* Well-formedness: unique names, known parents, no cycle.                 *)

(***************************************************************************)
(* A build adds concepts below what is there.  A set of concepts that has   *)
(* old ones has an old one whose parent, old too, lies outside it; a set of *)
(* new ones only is a set of ids of one collection, which has no cycle.     *)
(***************************************************************************)
LEMMA ByggVelFormet ==
  ASSUME KontraktAsyklisk, TypeOK, VelFormet,
         NEW k \in Kilde, NEW r \in Samling, Bygg(k, r)
  PROVE  VelFormet'
<1>1. /\ Kjent' = Kjent \cup NyeId(r)
      /\ Kjent \cap NyeId(r) = {}
      /\ NyeId(r) \subseteq KonseptId(r)
      /\ \A x \in Kjent : navn'[x] = navn[x] /\ forelder'[x] = forelder[x]
      /\ \A x \in NyeId(r) : /\ navn'[x] = RadMed(r, x).navn
                             /\ forelder'[x] \in {RadMed(r, x).forelder, Ingen}
      /\ \A x \in NyeId(r) : forelder'[x] \in Kjent' \cup {Ingen}
  BY EtterBygg
<1>2. V!Kjent = Kjent /\ V!Kjent' = Kjent' BY DEF V!Kjent, Kjent
<1>3. V!NavnUnikt'
  <2>1. \A x \in NyeId(r) : /\ \A y \in Id : navn[y] # RadMed(r, x).navn
                            /\ \A y \in NyeId(r) : RadMed(r, y).navn = RadMed(r, x).navn => y = x
    BY NyeIdFakta DEF Bygg
  <2>2. \A x, y \in Kjent : navn[x] = navn[y] => x = y
    BY <1>2 DEF VelFormet, V!VelFormet, V!NavnUnikt
  <2>3. Kjent \subseteq Id BY DEF Kjent
  <2>4. \A x, y \in Kjent' : navn'[x] = navn'[y] => x = y BY <1>1, <2>1, <2>2, <2>3
  <2> QED BY <1>2, <2>4 DEF V!NavnUnikt
<1>4. V!ForelderKjent'
  <2>1. \A x \in Id : forelder[x] \in Kjent \cup {Ingen}
    BY <1>2 DEF VelFormet, V!VelFormet, V!ForelderKjent
  <2>2. \A x \in Id \ NyeId(r) : forelder'[x] = forelder[x] BY DEF Bygg, NyeForeldre
  <2>3. \A x \in Id : forelder'[x] \in Kjent' \cup {Ingen} BY <1>1, <2>1, <2>2
  <2> QED BY <1>2, <2>3 DEF V!ForelderKjent
<1>5. V!Asyklisk'
  <2>1. Ingen \notin Kjent' /\ Ingen \notin Kjent BY IngenOgTom DEF Kjent
  <2>2. \A x \in Kjent : forelder[x] \in Kjent \cup {Ingen}
    BY <1>2 DEF VelFormet, V!VelFormet, V!ForelderKjent, Kjent
  <2> SUFFICES ASSUME NEW S \in SUBSET Kjent', S # {}
               PROVE  \E x \in S : forelder'[x] \notin S
    BY <1>2 DEF V!Asyklisk
  <2>3. CASE S \cap Kjent # {}
    <3>1. PICK x \in S \cap Kjent : forelder[x] \notin S \cap Kjent
      BY <1>2, <2>3 DEF VelFormet, V!VelFormet, V!Asyklisk
    <3>2. forelder'[x] \notin S BY <1>1, <2>1, <2>2, <3>1
    <3> QED BY <3>1, <3>2
  <2>4. CASE S \cap Kjent = {}
    <3>1. S \subseteq NyeId(r) /\ S \subseteq KonseptId(r) BY <1>1, <2>4
    <3>2. PICK x \in S : RadMed(r, x).forelder \notin S BY <3>1 DEF KontraktAsyklisk
    <3>3. forelder'[x] \notin S BY <1>1, <2>1, <3>1, <3>2
    <3> QED BY <3>3
  <2> QED BY <2>3, <2>4
<1> QED BY <1>3, <1>4, <1>5 DEF VelFormet, V!VelFormet

\* The owner's edit keeps the table well-formed: the new parent of x lies in a set
\* closed under parent that does not hold x.
LEMMA ForvaltVelFormet ==
  ASSUME TypeOK, VelFormet,
         NEW z \in Id, NEW n \in Navn, NEW f \in Id \cup {Ingen}, Forvalt(z, n, f)
  PROVE  VelFormet'
<1>1. V!Kjent = Kjent /\ V!Kjent' = Kjent' BY DEF V!Kjent, Kjent
<1>2. Kjent' = Kjent \cup {z} BY IngenOgTom DEF Forvalt, Kjent, TypeOK
<1>3. /\ \A x \in Id : navn'[x] = IF x = z THEN n ELSE navn[x]
      /\ \A x \in Id : forelder'[x] = IF x = z THEN f ELSE forelder[x]
  BY DEF Forvalt, TypeOK
<1>4. Ingen \notin Kjent' BY IngenOgTom DEF Kjent
<1>5. \A x \in Id : forelder[x] \in Kjent \cup {Ingen}
  BY <1>1 DEF VelFormet, V!VelFormet, V!ForelderKjent
<1>6. \A x, y \in Kjent : navn[x] = navn[y] => x = y
  BY <1>1 DEF VelFormet, V!VelFormet, V!NavnUnikt
<1>7. V!NavnUnikt'
  <2>1. \A x \in Id \ {z} : navn[x] # n BY DEF Forvalt
  <2>2. Kjent' \subseteq Id BY DEF Kjent
  <2>3. \A x, y \in Kjent' : navn'[x] = navn'[y] => x = y BY <1>2, <1>3, <1>6, <2>1, <2>2
  <2> QED BY <1>1, <2>3 DEF V!NavnUnikt
<1>8. V!ForelderKjent'
  <2>1. f \in Kjent \cup {Ingen} BY DEF Forvalt
  <2> QED BY <1>1, <1>2, <1>3, <1>5, <2>1 DEF V!ForelderKjent
<1>9. V!Asyklisk'
  <2> SUFFICES ASSUME NEW S \in SUBSET Kjent', S # {}
               PROVE  \E x \in S : forelder'[x] \notin S
    BY <1>1 DEF V!Asyklisk
  <2>1. Kjent \subseteq Id /\ Kjent' \subseteq Id BY DEF Kjent
  <2>2. \A T \in SUBSET Kjent : T # {} => \E x \in T : forelder[x] \notin T
    BY <1>1 DEF VelFormet, V!VelFormet, V!Asyklisk
  <2>3. CASE z \in S /\ f \notin S BY <1>3, <2>3
  <2>4. CASE z \in S /\ f \in S
    <3>1. f # Ingen BY <1>4, <2>4
    <3>2. PICK C \in SUBSET Kjent : /\ f \in C
                                    /\ z \notin C
                                    /\ \A y \in C : forelder[y] \in C \cup {Ingen}
      BY <3>1 DEF Forvalt
    <3>3. PICK x \in S \cap C : forelder[x] \notin S \cap C BY <2>2, <2>4, <3>2
    <3>4. x # z /\ forelder[x] \in C \cup {Ingen} BY <3>2, <3>3
    <3>5. forelder'[x] \notin S BY <1>3, <1>4, <2>1, <3>3, <3>4
    <3> QED BY <3>3, <3>5
  <2>5. CASE z \notin S
    <3>1. S \in SUBSET Kjent BY <1>2, <2>5
    <3>2. PICK x \in S : forelder[x] \notin S BY <2>2, <3>1
    <3> QED BY <1>3, <2>1, <2>5, <3>1, <3>2
  <2> QED BY <2>3, <2>4, <2>5
<1> QED BY <1>7, <1>8, <1>9 DEF VelFormet, V!VelFormet

\* Nothing is known at the start.
LEMMA InitVelFormet == Init => VelFormet
BY DEF Init, VelFormet, V!VelFormet, V!NavnUnikt, V!ForelderKjent, V!Asyklisk, V!Kjent

\* A step that leaves the table alone leaves it well-formed.
LEMMA UendretVelFormet ==
  ASSUME VelFormet, UNCHANGED <<navn, forelder>>
  PROVE  VelFormet'
BY DEF VelFormet, V!VelFormet, V!NavnUnikt, V!ForelderKjent, V!Asyklisk, V!Kjent

\* A step of a load or of the owner keeps a well-formed table well-formed.
LEMMA StegVelFormet ==
  ASSUME KontraktAsyklisk, TypeOK, VelFormet, [Next]_vars
  PROVE  VelFormet'
<1>1. ASSUME NEW k \in Kilde, NEW r \in Samling, Bygg(k, r) PROVE VelFormet'
  BY <1>1, ByggVelFormet
<1>2. ASSUME NEW k \in Kilde, NEW r \in Samling, Synk(k, r) \/ Avbrutt(k, r) PROVE VelFormet'
  BY <1>2, UendretVelFormet DEF Synk, Avbrutt, vars
<1>3. ASSUME NEW x \in Id, NEW n \in Navn, NEW f \in Id \cup {Ingen}, Forvalt(x, n, f)
      PROVE  VelFormet'
  BY <1>3, ForvaltVelFormet
<1>4. CASE UNCHANGED vars BY <1>4, UendretVelFormet DEF vars
<1> QED BY <1>1, <1>2, <1>3, <1>4 DEF Next, Last

\* If no collection has a cycle of its own, the table is well-formed forever, in
\* whatever order the kommuner build and however they disagree.
THEOREM VelFormetAlltid ==
  ASSUME KontraktAsyklisk
  PROVE  Spec => []VelFormet
<1>1. Init => VelFormet BY InitVelFormet
<1>2. TypeOK /\ VelFormet /\ [Next]_vars => VelFormet' BY StegVelFormet
<1> QED BY <1>1, <1>2, TypeKorrekt, PTL DEF Spec

----------------------------------------------------------------------------
(* Kodeverk implements Vokabular.                                          *)

\* Each step of Kodeverk is a step of Vokabular or leaves it unchanged.
LEMMA StegImplementerer ==
  ASSUME TypeOK, TypeOK', VelFormet', [Next]_vars
  PROVE  [V!Next]_(V!vars)
<1>1. /\ navn' \in [Id -> Navn \cup {Ingen}]
      /\ forelder' \in [Id -> Id \cup {Ingen}]
      /\ V!VelFormet'
  BY DEF TypeOK, VelFormet
<1>2. ASSUME NEW k \in Kilde, NEW r \in Samling, Bygg(k, r) PROVE V!Utvid
  <2>1. \A x \in Kjent : navn'[x] = navn[x] /\ forelder'[x] = forelder[x]
    BY <1>2, EtterBygg
  <2> QED BY <1>1, <1>2, <2>1 DEF V!Utvid, V!Kjent, Kjent, Bygg
<1>3. ASSUME NEW k \in Kilde, NEW r \in Samling, Synk(k, r) \/ Avbrutt(k, r)
      PROVE  UNCHANGED V!vars
  BY <1>3 DEF Synk, Avbrutt, vars, V!vars
<1>4. ASSUME NEW x \in Id, NEW n \in Navn, NEW f \in Id \cup {Ingen}, Forvalt(x, n, f)
      PROVE  V!Forvalt(x)
  BY <1>1, <1>4, IngenOgTom DEF Forvalt, V!Forvalt, TypeOK
<1>5. CASE UNCHANGED vars BY <1>5 DEF vars, V!vars
<1> QED BY <1>2, <1>3, <1>4, <1>5 DEF Next, Last, V!Next

\* Every behaviour of the loads and the owner is one the vocabulary allows: a load
\* only adds, and whatever else changes is counted as an edit of the owner.
THEOREM ImplementererVokabular ==
  ASSUME KontraktAsyklisk
  PROVE  Spec => LoverVokabular
<1>1. Init => V!Init BY DEF Init, V!Init
<1>2. TypeOK /\ TypeOK' /\ VelFormet' /\ [Next]_vars => [V!Next]_(V!vars)
  BY StegImplementerer
<1>3. Spec => []VelFormet BY VelFormetAlltid
<1> QED BY <1>1, <1>2, <1>3, TypeKorrekt, PTL DEF Spec, LoverVokabular, V!Spec

----------------------------------------------------------------------------
(* What is logged.                                                         *)

\* What a load logs against a table covers every row that differs from it.
LEMMA LoggetDekker ==
  ASSUME NEW r \in Samling, Lastbar(r), NEW n, NEW f, NEW i \in DOMAIN r
  PROVE  \/ \E a \in Leseavvik(r) \cup Sjekk(r, n, f) : a[2] = r[i].id
         \/ r[i].id \in Id /\ n[r[i].id] = r[i].navn /\ f[r[i].id] = r[i].forelder
<1>1. CASE i \notin Konsepter(r)
  <2> DEFINE a == <<"ugyldig_verdi", r[i].id,
                    IF r[i].id # Ingen /\ r[i].navn = Ingen THEN "name" ELSE "id">>
  <2>1. a \in Leseavvik(r) BY <1>1 DEF Leseavvik
  <2>2. a[2] = r[i].id OBVIOUS
  <2> QED BY <2>1, <2>2
<1>2. CASE i \in Konsepter(r)
  <2> DEFINE x == r[i].id
  <2>1. RadMed(r, x) = r[i] /\ x \in Id BY <1>2, RadMedFinner
  <2>2. x \in KonseptId(r) BY <1>2 DEF KonseptId
  <2>3. CASE n[x] = Ingen
    <3>1. <<"manglende_forelder", x, "id">> \in Sjekk(r, n, f) BY <2>2, <2>3 DEF Sjekk
    <3> QED BY <3>1
  <2>4. CASE n[x] # Ingen /\ n[x] # r[i].navn
    <3>1. <<"ugyldig_verdi", x, "name">> \in Sjekk(r, n, f) BY <2>1, <2>2, <2>4 DEF Sjekk
    <3> QED BY <3>1
  <2>5. CASE n[x] # Ingen /\ f[x] # r[i].forelder
    <3>1. <<"ugyldig_verdi", x, "parent_id">> \in Sjekk(r, n, f) BY <2>1, <2>2, <2>5 DEF Sjekk
    <3> QED BY <3>1
  <2> QED BY <2>1, <2>3, <2>4, <2>5
<1> QED BY <1>1, <1>2

\* No row of a committed load differs silently from the table it left behind.
THEOREM AvvikAlltidDekket == Spec => AvvikDekker
<1>1. ASSUME TypeOK, NEW k \in Kilde, NEW r \in Samling, Bygg(k, r) \/ Synk(k, r),
             NEW i \in DOMAIN r
      PROVE  \/ \E a \in avvik'[k] : a[2] = r[i].id
             \/ r[i].id \in Id /\ navn'[r[i].id] = r[i].navn /\ forelder'[r[i].id] = r[i].forelder
  <2>1. Lastbar(r) /\ avvik'[k] = Leseavvik(r) \cup Sjekk(r, navn', forelder')
    BY <1>1 DEF Bygg, Synk, Loggfor, TypeOK
  <2> QED BY <2>1, LoggetDekker
<1>2. TypeOK /\ [Next]_vars =>
        [\A k \in Kilde, r \in Samling : Bygg(k, r) \/ Synk(k, r) =>
           \A i \in DOMAIN r :
             \/ \E a \in avvik'[k] : a[2] = r[i].id
             \/ r[i].id \in Id /\ navn'[r[i].id] = r[i].navn /\ forelder'[r[i].id] = r[i].forelder]_vars
  BY <1>1
<1> QED BY <1>2, TypeKorrekt, PTL DEF Spec, AvvikDekker

----------------------------------------------------------------------------
(* Kommuner that keep the contract.                                        *)

\* The strengthening: every concept in the table is a row of some collection.
FraKilden == \A x \in Kjent : \E s \in Samling : \E j \in DOMAIN s :
               s[j].id = x /\ s[j].navn = navn[x] /\ s[j].forelder = forelder[x]

\* Under the contract a build leaves every id of the collection as the collection
\* has it: the name of an absent id is free, and its parent is there afterwards.
LEMMA ByggEtterKontrakt ==
  ASSUME Kontrakt, TypeOK, FraKilden, NEW k \in Kilde, NEW r \in Samling, Bygg(k, r)
  PROVE  /\ \A x \in KonseptId(r) : /\ x \in Kjent'
                                    /\ navn'[x] = RadMed(r, x).navn
                                    /\ forelder'[x] = RadMed(r, x).forelder
         /\ FraKilden'
<1>1. /\ Konsepter(r) = DOMAIN r
      /\ Lastbar(r)
      /\ \A i \in DOMAIN r : r[i].forelder \in KonseptId(r) \cup {Ingen}
  BY DEF Kontrakt
<1>2. \A s, t \in Samling : \A i \in DOMAIN s, j \in DOMAIN t :
        (s[i].id = t[j].id \/ s[i].navn = t[j].navn) => s[i] = t[j]
  BY DEF Kontrakt
<1>3. \A i \in DOMAIN r : /\ RadMed(r, r[i].id) = r[i]
                          /\ r[i].id \in Id /\ r[i].navn \in Navn
                          /\ r[i].forelder \in Id \cup {Ingen}
  BY <1>1, RadMedFinner
<1>4. ASSUME NEW i \in DOMAIN r, r[i].id \notin Kjent
      PROVE  i \in Opprettes(r)
  <2>1. Ledig(r[i])
    <3>1. navn[r[i].id] = Ingen BY <1>3, <1>4 DEF Kjent
    <3>2. ASSUME NEW x \in Id, navn[x] = r[i].navn PROVE FALSE
      <4>1. x \in Kjent BY <1>3, <3>2, IngenOgTom DEF Kjent
      <4>2. PICK s \in Samling : \E j \in DOMAIN s : s[j].id = x /\ s[j].navn = navn[x]
        BY <4>1 DEF FraKilden
      <4>3. PICK j \in DOMAIN s : s[j].id = x /\ s[j].navn = navn[x] BY <4>2
      <4>4. r[i] = s[j] BY <1>2, <3>2, <4>3
      <4> QED BY <1>4, <4>1, <4>3, <4>4
    <3> QED BY <3>1, <3>2 DEF Ledig
  <2>2. ASSUME NEW j \in Konsepter(r), j < i, r[j].navn = r[i].navn PROVE FALSE
    <3>1. r[j] = r[i] BY <1>1, <1>2, <2>2
    <3>2. j = i BY <1>1, <3>1, KonseptEntydig
    <3>3. i \in Nat BY SamlingType
    <3> QED BY <2>2, <3>2, <3>3
  <2> QED BY <1>1, <2>1, <2>2 DEF Opprettes
<1>5. KonseptId(r) \subseteq Kjent \cup NyeId(r)
  BY <1>4 DEF KonseptId, NyeId, Konsepter
<1>6. /\ Kjent' = Kjent \cup NyeId(r)
      /\ NyeId(r) \subseteq KonseptId(r)
      /\ \A x \in Kjent : navn'[x] = navn[x] /\ forelder'[x] = forelder[x]
  BY EtterBygg
<1>7. ASSUME NEW x \in NyeId(r)
      PROVE  navn'[x] = RadMed(r, x).navn /\ forelder'[x] = RadMed(r, x).forelder
  <2>1. x \in Id /\ navn[x] = Ingen BY <1>1, NyeIdFakta
  <2>2. PICK i \in DOMAIN r : x = r[i].id BY <1>6 DEF KonseptId, Konsepter
  <2>3. RadMed(r, x).forelder \in Kjent \cup NyeId(r) \cup {Ingen}
    BY <1>1, <1>3, <1>5, <2>2
  <2>4. forelder[x] = Ingen BY <2>1 DEF TypeOK, Kjent
  <2> QED BY <2>1, <2>3, <2>4 DEF Bygg, NyeNavn, NyeForeldre
<1>8. ASSUME NEW x \in KonseptId(r)
      PROVE  x \in Kjent' /\ navn'[x] = RadMed(r, x).navn /\ forelder'[x] = RadMed(r, x).forelder
  <2>1. CASE x \in NyeId(r) BY <1>6, <1>7, <2>1
  <2>2. CASE x \in Kjent
    <3>1. PICK i \in DOMAIN r : x = r[i].id BY DEF KonseptId, Konsepter
    <3>2. PICK s \in Samling : \E j \in DOMAIN s :
            s[j].id = x /\ s[j].navn = navn[x] /\ s[j].forelder = forelder[x]
      BY <2>2 DEF FraKilden
    <3>3. PICK j \in DOMAIN s : s[j].id = x /\ s[j].navn = navn[x] /\ s[j].forelder = forelder[x]
      BY <3>2
    <3>4. s[j] = r[i] BY <1>2, <3>1, <3>3
    <3> QED BY <1>3, <1>6, <2>2, <3>1, <3>3, <3>4
  <2> QED BY <1>5, <2>1, <2>2
<1>9. FraKilden'
  <2>1. ASSUME NEW x \in NyeId(r)
        PROVE  \E j \in DOMAIN r :
                 r[j].id = x /\ r[j].navn = navn'[x] /\ r[j].forelder = forelder'[x]
    <3>1. PICK j \in DOMAIN r : x = r[j].id BY <1>6 DEF KonseptId, Konsepter
    <3> QED BY <1>3, <1>7, <3>1
  <2>2. ASSUME NEW x \in Kjent
        PROVE  \E s \in Samling : \E j \in DOMAIN s :
                 s[j].id = x /\ s[j].navn = navn'[x] /\ s[j].forelder = forelder'[x]
    BY <1>6 DEF FraKilden
  <2> QED BY <1>6, <2>1, <2>2 DEF FraKilden
<1> QED BY <1>8, <1>9

\* A build or a sync of a kommune that keeps the contract, seen from the log.
LEMMA LastEtterKontrakt ==
  ASSUME Kontrakt, TypeOK, FraKilden, NEW k \in Kilde, NEW r \in Samling
  PROVE  /\ Bygg(k, r) => avvik'[k] = {}
         /\ Synk(k, r) => \A a \in avvik'[k] : a[1] = "manglende_forelder"
<1>1. Leseavvik(r) = {} BY DEF Kontrakt, Leseavvik
<1>2. ASSUME Bygg(k, r) PROVE avvik'[k] = {}
  <2>1. \A x \in KonseptId(r) : /\ navn'[x] # Ingen
                                /\ navn'[x] = RadMed(r, x).navn
                                /\ forelder'[x] = RadMed(r, x).forelder
    BY <1>2, ByggEtterKontrakt DEF Kjent
  <2>2. Sjekk(r, navn', forelder') = {} BY <2>1 DEF Sjekk
  <2>3. avvik'[k] = Leseavvik(r) \cup Sjekk(r, navn', forelder')
    BY <1>2 DEF Bygg, Loggfor, TypeOK
  <2> QED BY <1>1, <2>2, <2>3
<1>3. ASSUME Synk(k, r) PROVE \A a \in avvik'[k] : a[1] = "manglende_forelder"
  <2>1. ASSUME NEW x \in KonseptId(r), navn[x] # Ingen
        PROVE  navn[x] = RadMed(r, x).navn /\ forelder[x] = RadMed(r, x).forelder
    <3>1. PICK i \in Konsepter(r) : x = r[i].id BY DEF KonseptId
    <3>2. Lastbar(r) BY <1>3 DEF Synk
    <3>3. RadMed(r, x) = r[i] /\ x \in Id BY <3>1, <3>2, RadMedFinner
    <3>4. x \in Kjent BY <2>1, <3>3 DEF Kjent
    <3>5. PICK s \in Samling : \E j \in DOMAIN s :
            s[j].id = x /\ s[j].navn = navn[x] /\ s[j].forelder = forelder[x]
      BY <3>4 DEF FraKilden
    <3>6. PICK j \in DOMAIN s : s[j].id = x /\ s[j].navn = navn[x] /\ s[j].forelder = forelder[x]
      BY <3>5
    <3>7. s[j] = r[i] BY <3>1, <3>6 DEF Kontrakt, Konsepter
    <3> QED BY <3>3, <3>6, <3>7
  <2>2. \A a \in Sjekk(r, navn, forelder) : a[1] = "manglende_forelder"
    BY <2>1 DEF Sjekk
  <2>3. avvik'[k] = Leseavvik(r) \cup Sjekk(r, navn, forelder)
    BY <1>3 DEF Synk, Loggfor, TypeOK
  <2> QED BY <1>1, <2>2, <2>3
<1> QED BY <1>2, <1>3

\* While the owner edits nothing, the loads are behaviours of Kodeverk.
LEMMA UtenForvalter == SpecUtenForvalter => Spec
<1>1. Last => Next BY DEF Next
<1> QED BY <1>1, PTL DEF SpecUtenForvalter, Spec

\* Then every concept is a row of some collection, and stays so.
LEMMA FraKildenAlltid ==
  ASSUME Kontrakt
  PROVE  SpecUtenForvalter => []FraKilden
<1>1. Init => FraKilden BY DEF Init, FraKilden, Kjent
<1>2. ASSUME TypeOK, FraKilden, [Last]_vars PROVE FraKilden'
  <2>1. ASSUME NEW k \in Kilde, NEW r \in Samling, Bygg(k, r) PROVE FraKilden'
    BY <1>2, <2>1, ByggEtterKontrakt
  <2>2. ASSUME NEW k \in Kilde, NEW r \in Samling, Synk(k, r) \/ Avbrutt(k, r) PROVE FraKilden'
    BY <1>2, <2>2 DEF Synk, Avbrutt, vars, FraKilden, Kjent
  <2>3. CASE UNCHANGED vars BY <1>2, <2>3 DEF vars, FraKilden, Kjent
  <2> QED BY <1>2, <2>1, <2>2, <2>3 DEF Last
<1> QED BY <1>1, <1>2, UtenForvalter, TypeKorrekt, PTL DEF SpecUtenForvalter

\* As long as the owner edits nothing, a kommune that keeps the contract builds
\* without a single deviation, and a sync of it reports absent ids only.
THEOREM RentVedKontraktAlltid ==
  ASSUME Kontrakt
  PROVE  SpecUtenForvalter => RentVedKontrakt
<1>1. TypeOK /\ FraKilden /\ [Last]_vars =>
        [Kontrakt =>
           \A k \in Kilde, r \in Samling :
             /\ Bygg(k, r) => avvik'[k] = {}
             /\ Synk(k, r) => \A a \in avvik'[k] : a[1] = "manglende_forelder"]_vars
  BY LastEtterKontrakt
<1> QED BY <1>1, UtenForvalter, FraKildenAlltid, TypeKorrekt, PTL DEF SpecUtenForvalter, RentVedKontrakt

----------------------------------------------------------------------------
(* Loading normalised files is loading a code list in the sense of Kodeverk, *)
(* so what is proved above holds of any releases and any order of files.    *)

\* A file was made by a release that exists.
FilType == /\ utgave \in DOMAIN Utgave
           /\ DOMAIN fil = Kilde
           /\ \A k \in Kilde : fil[k] # Ingen => fil[k][1] \in DOMAIN Utgave

\* At the start no file has been written.
LEMMA FilTypeInit == InitN => FilType
  BY Utgaver DEF InitN, FilType

\* A file is written for the release installed.
LEMMA FilTypeSteg == FilType /\ [NextN]_vars2 => FilType'
<1> SUFFICES ASSUME FilType, [NextN]_vars2 PROVE FilType'
  OBVIOUS
<1> USE DEF FilType
<1>1. CASE Oppgrader
  BY <1>1, Utgaver DEF Oppgrader
<1>2. ASSUME NEW k \in Kilde, NEW d \in Kildedata, Skriv(k, d) PROVE FilType'
  BY <1>2 DEF Skriv
<1>3. ASSUME NEW k \in Kilde, LastBygg(k) \/ LastSynk(k) PROVE FilType'
  BY <1>3 DEF LastBygg, LastSynk, LastFil
<1>4. CASE UNCHANGED vars2
  BY <1>4 DEF vars2
<1> QED
  BY <1>1, <1>2, <1>3, <1>4 DEF NextN

\* Every step loads a collection of some release into the code list, or leaves
\* the code list and its log alone.
LEMMA StegErLast == FilType /\ [NextN]_vars2 => [Last]_vars
<1> SUFFICES ASSUME FilType, [NextN]_vars2 PROVE [Last]_vars
  OBVIOUS
<1>1. CASE Oppgrader \/ UNCHANGED vars2
  BY <1>1 DEF Oppgrader, vars2, vars
<1>2. ASSUME NEW k \in Kilde, NEW d \in Kildedata, Skriv(k, d) PROVE [Last]_vars
  BY <1>2 DEF Skriv, vars
<1>3. ASSUME NEW k \in Kilde, LastBygg(k) \/ LastSynk(k) PROVE [Last]_vars
  <2>1. SamlingAv[fil[k][1]] \in Samling
    BY <1>3, Samlingene DEF FilType, LastBygg, LastSynk
  <2>2. Bygg(k, SamlingAv[fil[k][1]]) \/ Synk(k, SamlingAv[fil[k][1]])
    BY <1>3 DEF LastBygg, LastSynk
  <2> QED
    BY <2>1, <2>2 DEF Last
<1> QED
  BY <1>1, <1>2, <1>3 DEF NextN

\* The loads of normalised files, of whichever releases and in whichever order,
\* implement Kodeverk without the owner.
THEOREM LasterSomKodeverk == SpecN => SpecUtenForvalter
<1>1. InitN => Init
  BY DEF InitN
<1> QED
  BY <1>1, FilTypeInit, FilTypeSteg, StegErLast, PTL DEF SpecN, SpecUtenForvalter

\* Releases that keep the contract with each other load without a deviation,
\* also when an old file is loaded after a new one.
THEOREM UtgaverLastesRent ==
  ASSUME Kontrakt
  PROVE  SpecN => RentVedKontrakt
  BY LasterSomKodeverk, RentVedKontraktAlltid

----------------------------------------------------------------------------
(* The last row with a key.                                                *)

Mindre == {p \in Nat \X Nat : p[1] < p[2]}

\* A nonempty set of positions has a last one.
LEMMA SisteFinnes ==
  ASSUME NEW n \in Nat, NEW pos, pos \subseteq 1..n, pos # {}
  PROVE  Siste(pos) \in pos /\ \A j \in pos : j <= Siste(pos)
<1> DEFINE T == {n - i : i \in pos}
<1>1. T \subseteq Nat /\ T # {}
  <2>1. \A i \in pos : i \in 1..n /\ n - i \in Nat
    OBVIOUS
  <2> QED
    BY <2>1
<1>2. IsWellFoundedOn(Mindre, Nat)
  BY NatLessThanWellFounded DEF OpToRel, Mindre
<1>3. PICK m \in T : \A k \in T : <<k, m>> \notin Mindre
  BY <1>1, <1>2, WFMin
<1>4. PICK i \in pos : m = n - i
  OBVIOUS
<1>5. ASSUME NEW j \in pos PROVE j <= i
  <2>1. n - j \in T /\ n - j \in Nat /\ m \in Nat
    BY <1>1
  <2>2. ~ (n - j < m)
    BY <1>3, <2>1 DEF Mindre
  <2>3. i \in Nat /\ j \in Nat
    OBVIOUS
  <2> QED
    BY <1>4, <2>2, <2>3
<1> HIDE DEF T
<1> QED
  BY <1>4, <1>5 DEF Siste

\* What a code of the source maps to comes from the last row with its id.
LEMMA KartFraSiste ==
  ASSUME NEW u, NEW d \in Kildedata, NEW a, NEW x \in Kart(u, d, a)
  PROVE  \E i \in Koder(d) : /\ d.koder[i].id = a
                             /\ \A j \in Koder(d) : d.koder[j].id = a => j <= i
                             /\ \E n \in Oversett(u, d.koder[i].navn) : x = IdFor(u, n)
<1>1. Koder(d) \subseteq DOMAIN d.koder /\ Len(d.koder) \in Nat /\ DOMAIN d.koder = 1..Len(d.koder)
  BY Svar DEF Koder
<1>2. PICK pos : pos = KoderMed(d, a)
  OBVIOUS
<1>3. pos # {} /\ pos \subseteq 1..Len(d.koder)
  BY <1>1, <1>2 DEF Kart, KoderMed
<1>4. PICK i : i = Siste(pos)
  OBVIOUS
<1>5. i \in pos /\ \A j \in pos : j <= i
  BY <1>1, <1>3, <1>4, SisteFinnes
<1>6. x \in {IdFor(u, n) : n \in Oversett(u, d.koder[i].navn)}
  BY <1>2, <1>3, <1>4 DEF Kart
<1> QED
  BY <1>2, <1>5, <1>6 DEF KoderMed

\* The collection of a release has a row for each id that a name is given.
LEMMA RadFor ==
  ASSUME NEW u \in DOMAIN Utgave, NEW n, IdFor(u, n) # Ingen
  PROVE  \E i \in DOMAIN SamlingAv[u] : SamlingAv[u][i].id = IdFor(u, n) /\ SamlingAv[u][i].navn = n
<1>1. PICK i \in DOMAIN Begreper(u) : Begreper(u)[i].navn = n
  BY DEF IdFor
<1>2. /\ i \in DOMAIN SamlingAv[u]
      /\ SamlingAv[u][i].id = IdFor(u, Begreper(u)[i].navn)
      /\ SamlingAv[u][i].navn = Begreper(u)[i].navn
  BY <1>1 DEF SamlingAv
<1> QED
  BY <1>1, <1>2

----------------------------------------------------------------------------
(* What the files and the tables are made of.                              *)

\* A file that main wrote, and the concepts its mapping names are in the vocabulary.
ErFil(f) == /\ f[1] \in DOMAIN Utgave /\ f[2] \in Kildedata
            /\ f = <<f[1], f[2]>>
            /\ Oversettes(f[1], f[2])

FilerType == /\ utgave \in DOMAIN Utgave
             /\ DOMAIN fil = Kilde /\ DOMAIN lastet = Kilde
             /\ DOMAIN lenker = Kilde /\ DOMAIN lenkeavvik = Kilde
             /\ bygd \subseteq DOMAIN Utgave
             /\ \A k \in Kilde : fil[k] # Ingen => ErFil(fil[k])

\* A file is written only if its mapping can be followed; a load writes none.
LEMMA FilerTypeSteg ==
  ASSUME FilerType, [NextN]_vars2
  PROVE  FilerType'
<1>1. CASE Oppgrader
  BY <1>1, Utgaver DEF Oppgrader, FilerType
<1>2. ASSUME NEW k \in Kilde, NEW d \in Kildedata, Skriv(k, d) PROVE FilerType'
  <2>1. fil' = [fil EXCEPT ![k] = <<utgave, d>>] /\ Oversettes(utgave, d)
    BY <1>2 DEF Skriv
  <2>2. PICK f : f = <<utgave, d>>
    OBVIOUS
  <2>3. ErFil(f)
    BY <2>1, <2>2 DEF ErFil, FilerType
  <2>4. DOMAIN fil' = Kilde /\ \A j \in Kilde : fil'[j] # Ingen => ErFil(fil'[j])
    BY <2>1, <2>2, <2>3 DEF FilerType
  <2> QED
    BY <1>2, <2>4 DEF FilerType, Skriv
<1>3. ASSUME NEW k \in Kilde, LastBygg(k) \/ LastSynk(k) PROVE FilerType'
  <2>1. fil[k] # Ingen /\ fil' = fil /\ utgave' = utgave /\ bygd' \subseteq bygd \cup {fil[k][1]}
    BY <1>3 DEF LastBygg, LastSynk, LastFil
  <2>2. DOMAIN lastet' = Kilde /\ DOMAIN lenker' = Kilde /\ DOMAIN lenkeavvik' = Kilde
    BY <1>3 DEF LastBygg, LastSynk, LastFil, Lenk, FilerType
  <2>3. fil[k][1] \in DOMAIN Utgave
    BY <2>1 DEF FilerType, ErFil
  <2> QED
    BY <2>1, <2>2, <2>3 DEF FilerType
<1>4. CASE UNCHANGED vars2
  BY <1>4 DEF vars2, FilerType
<1> QED
  BY <1>1, <1>2, <1>3, <1>4 DEF NextN

\* So it is in every state.
LEMMA FilerTypeAlltid == SpecN => []FilerType
<1>1. InitN => FilerType
  BY Utgaver DEF InitN, FilerType
<1>2. FilerType /\ [NextN]_vars2 => FilerType'
  BY FilerTypeSteg
<1> QED
  BY <1>1, <1>2, PTL DEF SpecN

----------------------------------------------------------------------------
(* What a link means.                                                      *)

\* A link came from the file last loaded, and its concept is in the master.
FraFilen(k, l) == /\ lastet[k] # Ingen
                  /\ ErFil(lastet[k])
                  /\ l \in NyeLenker(lastet[k])
                  /\ l[2] \in Id /\ navn[l[2]] # Ingen

ILenker == \A k \in Kilde : \A l \in lenker[k] : FraFilen(k, l)

\* The id of a link is the id of a concept of the release.
LEMMA LenkeId ==
  ASSUME Kontrakt, NEW f, ErFil(f), NEW l \in NyeLenker(f)
  PROVE  \E s \in f[2].lenker : \E i \in Koder(f[2]) :
           /\ s[1] = l[1] /\ f[2].koder[i].id = s[2]
           /\ \A j \in Koder(f[2]) : f[2].koder[j].id = s[2] => j <= i
           /\ \E n \in Oversett(f[1], f[2].koder[i].navn) :
                /\ l[2] = IdFor(f[1], n) /\ l[2] # Ingen /\ l[2] \in Id
                /\ \E r \in DOMAIN SamlingAv[f[1]] : /\ SamlingAv[f[1]][r].id = l[2]
                                                     /\ SamlingAv[f[1]][r].navn = n
<1> DEFINE u == f[1]
           d == f[2]
<1>1. u \in DOMAIN Utgave /\ d \in Kildedata /\ f = <<u, d>> /\ Oversettes(u, d)
  BY DEF ErFil
<1>2. NyeLenker(f) = UNION {{<<s[1], x>> : x \in Kart(u, d, s[2])} : s \in d.lenker}
  BY <1>1 DEF NyeLenker
<1>3. PICK s \in d.lenker : \E x \in Kart(u, d, s[2]) : l = <<s[1], x>>
  BY <1>2
<1>4. PICK x \in Kart(u, d, s[2]) : l = <<s[1], x>>
  BY <1>3
<1>5. PICK i \in Koder(d) : /\ d.koder[i].id = s[2]
                            /\ \A j \in Koder(d) : d.koder[j].id = s[2] => j <= i
                            /\ \E n \in Oversett(u, d.koder[i].navn) : x = IdFor(u, n)
  BY <1>1, KartFraSiste
<1>6. PICK n \in Oversett(u, d.koder[i].navn) : x = IdFor(u, n)
  BY <1>5
<1>7. x # Ingen
  BY <1>1, <1>6 DEF Oversettes
<1>8. PICK r \in DOMAIN SamlingAv[u] : SamlingAv[u][r].id = x /\ SamlingAv[u][r].navn = n
  BY <1>1, <1>6, <1>7, RadFor
<1>9. x \in Id
  <2>1. SamlingAv[u] \in Samling /\ r \in Konsepter(SamlingAv[u]) /\ Lastbar(SamlingAv[u])
    BY <1>1, Samlingene DEF Kontrakt
  <2> QED
    BY <1>8, <2>1, RadMedFinner
<1> QED
  BY <1>3, <1>4, <1>5, <1>6, <1>7, <1>8, <1>9

\* A name that the master has is never taken away by a load.
LEMMA NavnBlir ==
  ASSUME TypeOK, FilerType, [NextN]_vars2, NEW x \in Id, navn[x] # Ingen
  PROVE  navn'[x] = navn[x]
<1>1. ASSUME NEW k \in Kilde, LastBygg(k) PROVE navn'[x] = navn[x]
  <2>1. SamlingAv[fil[k][1]] \in Samling /\ Bygg(k, SamlingAv[fil[k][1]])
    BY <1>1, Samlingene DEF LastBygg, FilerType, ErFil
  <2> QED
    BY <2>1, EtterBygg DEF Kjent
<1>2. ASSUME NEW k \in Kilde, LastSynk(k) PROVE navn'[x] = navn[x]
  BY <1>2 DEF LastSynk, Synk
<1>3. ASSUME NEW k \in Kilde, NEW d \in Kildedata, Skriv(k, d) PROVE navn'[x] = navn[x]
  BY <1>3 DEF Skriv
<1> QED
  BY <1>1, <1>2, <1>3 DEF NextN, Oppgrader, vars2

\* A load of k puts the links of its file in place of the links it had.
LEMMA LenkEtter ==
  ASSUME FilerType, NEW k \in Kilde, LastBygg(k) \/ LastSynk(k)
  PROVE  /\ fil[k] # Ingen /\ ErFil(fil[k])
         /\ lastet'[k] = fil[k]
         /\ lenker'[k] = {l \in NyeLenker(fil[k]) : navn'[l[2]] # Ingen}
         /\ lenkeavvik'[k] = {l[2] : l \in {x \in NyeLenker(fil[k]) : navn'[x[2]] = Ingen}}
         /\ \A j \in Kilde \ {k} : lastet'[j] = lastet[j] /\ lenker'[j] = lenker[j]
<1>1. fil[k] # Ingen /\ LastFil(k)
  BY DEF LastBygg, LastSynk
<1>2. Lenk(k, NyeLenker(fil[k]), navn')
  BY DEF LastBygg, LastSynk, Synk
<1> QED
  BY <1>1, <1>2 DEF FilerType, LastFil, Lenk

\* A load puts links of its own file; no other step takes a concept from the master.
LEMMA LenkerSteg ==
  ASSUME Kontrakt, TypeOK, FilerType, ILenker, [NextN]_vars2
  PROVE  ILenker'
<1> SUFFICES ASSUME NEW j \in Kilde, NEW l \in lenker'[j] PROVE FraFilen(j, l)'
  BY DEF ILenker
<1>1. ASSUME lastet'[j] = lastet[j], lenker'[j] = lenker[j] PROVE FraFilen(j, l)'
  <2>1. FraFilen(j, l)
    BY <1>1 DEF ILenker
  <2> QED
    BY <1>1, <2>1, NavnBlir DEF FraFilen, ErFil
<1>2. ASSUME NEW k \in Kilde, LastBygg(k) \/ LastSynk(k) PROVE FraFilen(j, l)'
  <2>1. CASE j = k
    <3>1. /\ lastet'[j] = fil[k] /\ fil[k] # Ingen /\ ErFil(fil[k])
          /\ l \in NyeLenker(fil[k]) /\ navn'[l[2]] # Ingen
      BY <1>2, <2>1, LenkEtter
    <3>2. l[2] \in Id
      BY <3>1, LenkeId
    <3> QED
      BY <3>1, <3>2 DEF FraFilen, ErFil
  <2>2. CASE j # k
    BY <1>1, <1>2, <2>2, LenkEtter
  <2> QED
    BY <2>1, <2>2
<1>3. CASE Oppgrader \/ UNCHANGED vars2
  BY <1>1, <1>3 DEF Oppgrader, vars2
<1>4. ASSUME NEW k \in Kilde, NEW d \in Kildedata, Skriv(k, d) PROVE FraFilen(j, l)'
  BY <1>1, <1>4 DEF Skriv
<1> QED
  BY <1>2, <1>3, <1>4 DEF NextN

\* A concept of a release has the same name in the master.
LEMMA LenkerMener ==
  ASSUME Kontrakt, FraKilden, ILenker
  PROVE  LenkeneMener
<1> SUFFICES ASSUME NEW k \in Kilde, NEW l \in lenker[k]
             PROVE  \E s \in lastet[k][2].lenker :
                      /\ s[1] = l[1]
                      /\ \E i \in DOMAIN lastet[k][2].koder :
                           LET rad == lastet[k][2].koder[i]
                           IN  /\ rad.id = s[2]
                               /\ rad.navn \in DOMAIN Utgave[lastet[k][1]].kart
                               /\ navn[l[2]] \in Utgave[lastet[k][1]].kart[rad.navn]
                               /\ \A j \in DOMAIN lastet[k][2].koder :
                                    lastet[k][2].koder[j].id = s[2] /\ lastet[k][2].koder[j].navn # Ingen => j <= i
  BY DEF LenkeneMener
<1>1. PICK f : f = lastet[k]
  OBVIOUS
<1>2. ErFil(f) /\ l \in NyeLenker(f) /\ l[2] \in Id /\ navn[l[2]] # Ingen
  BY <1>1 DEF ILenker, FraFilen
<1>3. PICK s \in f[2].lenker : \E i \in Koder(f[2]) :
        /\ s[1] = l[1] /\ f[2].koder[i].id = s[2]
        /\ \A j \in Koder(f[2]) : f[2].koder[j].id = s[2] => j <= i
        /\ \E n \in Oversett(f[1], f[2].koder[i].navn) :
             /\ l[2] = IdFor(f[1], n) /\ l[2] # Ingen /\ l[2] \in Id
             /\ \E r \in DOMAIN SamlingAv[f[1]] : /\ SamlingAv[f[1]][r].id = l[2]
                                                  /\ SamlingAv[f[1]][r].navn = n
  BY <1>2, LenkeId
<1>4. PICK i \in Koder(f[2]) :
        /\ s[1] = l[1] /\ f[2].koder[i].id = s[2]
        /\ \A j \in Koder(f[2]) : f[2].koder[j].id = s[2] => j <= i
        /\ \E n \in Oversett(f[1], f[2].koder[i].navn) :
             \E r \in DOMAIN SamlingAv[f[1]] : /\ SamlingAv[f[1]][r].id = l[2]
                                               /\ SamlingAv[f[1]][r].navn = n
  BY <1>3
<1>5. PICK n \in Oversett(f[1], f[2].koder[i].navn) :
        \E r \in DOMAIN SamlingAv[f[1]] : SamlingAv[f[1]][r].id = l[2] /\ SamlingAv[f[1]][r].navn = n
  BY <1>4
<1>6. PICK r \in DOMAIN SamlingAv[f[1]] : SamlingAv[f[1]][r].id = l[2] /\ SamlingAv[f[1]][r].navn = n
  BY <1>5
<1>7. navn[l[2]] = n
  <2>1. PICK t \in Samling : \E m \in DOMAIN t : t[m].id = l[2] /\ t[m].navn = navn[l[2]]
    BY <1>2 DEF FraKilden, Kjent
  <2>2. PICK m \in DOMAIN t : t[m].id = l[2] /\ t[m].navn = navn[l[2]]
    BY <2>1
  <2>3. SamlingAv[f[1]] \in Samling
    BY <1>2, Samlingene DEF ErFil
  <2>4. t[m] = SamlingAv[f[1]][r]
    BY <1>6, <2>2, <2>3 DEF Kontrakt
  <2> QED
    BY <1>6, <2>2, <2>4
<1>8. f[2].koder[i].navn \in DOMAIN Utgave[f[1]].kart /\ n \in Utgave[f[1]].kart[f[2].koder[i].navn]
  BY <1>5 DEF Oversett
<1>9. i \in DOMAIN f[2].koder /\ \A j \in DOMAIN f[2].koder :
        f[2].koder[j].id = s[2] /\ f[2].koder[j].navn # Ingen => j <= i
  <2>1. s[2] # Ingen
    BY <1>4 DEF Koder
  <2> QED
    BY <1>4, <2>1 DEF Koder
<1> QED
  BY <1>1, <1>3, <1>4, <1>7, <1>8, <1>9

\* The loads of files keep the types of Kodeverk, and what its tables hold comes
\* from the releases.
LEMMA TabellenAlltid == ASSUME Kontrakt PROVE SpecN => []TypeOK /\ []FraKilden
<1>1. SpecUtenForvalter => []TypeOK
  BY UtenForvalter, TypeKorrekt, PTL
<1>2. SpecUtenForvalter => []FraKilden
  BY FraKildenAlltid
<1> QED
  BY <1>1, <1>2, LasterSomKodeverk, PTL

\* Under the contract every link in the tables means what the source said, whatever
\* releases its file and the master were made by.
THEOREM LenkeneMenerAlltid ==
  ASSUME Kontrakt
  PROVE  SpecN => []LenkeneMener
<1>1. InitN => ILenker
  BY DEF InitN, ILenker
<1>2. TypeOK /\ FilerType /\ ILenker /\ [NextN]_vars2 => ILenker'
  BY LenkerSteg
<1>3. FraKilden /\ ILenker => LenkeneMener
  BY LenkerMener
<1> QED
  BY <1>1, <1>2, <1>3, TabellenAlltid, FilerTypeAlltid, PTL DEF SpecN

----------------------------------------------------------------------------
(* No mapped link is lost without a word.                                  *)

\* The master knows every concept of a release that was built.
IBygd == \A u \in bygd : \A r \in DOMAIN SamlingAv[u] : SamlingAv[u][r].id \in Kjent

\* A build makes its own release known; no load makes a release unknown.
LEMMA BygdSteg ==
  ASSUME Kontrakt, TypeOK, FraKilden, FilerType, IBygd, [NextN]_vars2
  PROVE  IBygd'
<1>1. \A x \in Kjent : x \in Kjent'
  BY NavnBlir DEF Kjent
<1>2. ASSUME bygd' = bygd PROVE IBygd'
  BY <1>1, <1>2 DEF IBygd
<1>3. ASSUME NEW k \in Kilde, LastBygg(k) PROVE IBygd'
  <2>1. PICK v : v = fil[k][1]
    OBVIOUS
  <2>2. v \in DOMAIN Utgave /\ Bygg(k, SamlingAv[v]) /\ bygd' = bygd \cup {v}
    BY <1>3, <2>1 DEF LastBygg, FilerType, ErFil
  <2>3. PICK s : s = SamlingAv[v]
    OBVIOUS
  <2>4. s \in Samling /\ Bygg(k, s)
    BY <2>2, <2>3, Samlingene
  <2>5. \A x \in KonseptId(s) : x \in Kjent'
    BY <2>4, ByggEtterKontrakt
  <2>6. \A r \in DOMAIN s : s[r].id \in KonseptId(s)
    BY <2>4 DEF Kontrakt, KonseptId
  <2> QED
    BY <1>1, <2>2, <2>3, <2>5, <2>6 DEF IBygd
<1>4. ASSUME NEW k \in Kilde, LastSynk(k) PROVE IBygd'
  BY <1>2, <1>4 DEF LastSynk
<1>5. ASSUME NEW k \in Kilde, NEW d \in Kildedata, Skriv(k, d) PROVE IBygd'
  BY <1>2, <1>5 DEF Skriv
<1>6. CASE Oppgrader \/ UNCHANGED vars2
  BY <1>2, <1>6 DEF Oppgrader, vars2
<1> QED
  BY <1>3, <1>4, <1>5, <1>6 DEF NextN

\* A load links or logs each concept its file maps to, and logs none of a release
\* that was built.
LEMMA LastDekker ==
  ASSUME Kontrakt, FilerType, IBygd', NEW k \in Kilde, LastBygg(k) \/ LastSynk(k)
  PROVE  LET u == fil[k][1]
             d == fil[k][2]
         IN  /\ \A l \in d.lenker : \A x \in Kart(u, d, l[2]) :
                  <<l[1], x>> \in lenker'[k] \/ x \in lenkeavvik'[k]
             /\ u \in bygd' => lenkeavvik'[k] = {}
<1>1. PICK f : f = fil[k]
  OBVIOUS
<1>2. /\ ErFil(f)
      /\ lenker'[k] = {l \in NyeLenker(f) : navn'[l[2]] # Ingen}
      /\ lenkeavvik'[k] = {l[2] : l \in {x \in NyeLenker(f) : navn'[x[2]] = Ingen}}
  BY <1>1, LenkEtter
<1>3. ASSUME NEW l \in f[2].lenker, NEW x \in Kart(f[1], f[2], l[2])
      PROVE  <<l[1], x>> \in lenker'[k] \/ x \in lenkeavvik'[k]
  <2>1. PICK p : p = <<l[1], x>>
    OBVIOUS
  <2>2. p \in NyeLenker(f) /\ p[2] = x
    BY <1>3, <2>1 DEF NyeLenker
  <2>3. CASE navn'[x] = Ingen
    BY <1>2, <2>2, <2>3
  <2>4. CASE navn'[x] # Ingen
    BY <1>2, <2>1, <2>2, <2>4
  <2> QED
    BY <2>3, <2>4
<1>4. ASSUME f[1] \in bygd', NEW l \in NyeLenker(f) PROVE navn'[l[2]] # Ingen
  <2>1. \E r \in DOMAIN SamlingAv[f[1]] : SamlingAv[f[1]][r].id = l[2]
    BY <1>2, LenkeId
  <2>2. l[2] \in Kjent'
    BY <1>4, <2>1 DEF IBygd
  <2> QED
    BY <2>2 DEF Kjent
<1>5. f[1] \in bygd' => lenkeavvik'[k] = {}
  BY <1>2, <1>4
<1> QED
  BY <1>1, <1>3, <1>5

\* Under the contract each concept that a resource's codes map to is linked or
\* logged, and logged only as long as no build has seen the file's release.
THEOREM KartlagtLenkesEllerLoggesAlltid ==
  ASSUME Kontrakt
  PROVE  SpecN => KartlagtLenkesEllerLogges
<1>1. InitN => IBygd
  BY DEF InitN, IBygd
<1>2. TypeOK /\ FraKilden /\ FilerType /\ IBygd /\ [NextN]_vars2 => IBygd'
  BY BygdSteg
<1>3. FilerType /\ IBygd' =>
        [\A k \in Kilde : LastBygg(k) \/ LastSynk(k) =>
           LET u == fil[k][1]
               d == fil[k][2]
           IN  /\ \A l \in d.lenker : \A x \in Kart(u, d, l[2]) :
                    <<l[1], x>> \in lenker'[k] \/ x \in lenkeavvik'[k]
               /\ u \in bygd' => lenkeavvik'[k] = {}]_vars2
  BY LastDekker
<1> QED
  BY <1>1, <1>2, <1>3, TabellenAlltid, FilerTypeAlltid, PTL
     DEF SpecN, KartlagtLenkesEllerLogges
=============================================================================
