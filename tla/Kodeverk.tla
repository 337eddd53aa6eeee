------------------------------- MODULE Kodeverk -------------------------------
(***************************************************************************)
(* One code list of the master database (lokaletype, aktivitet or           *)
(* fasilitet; the three tables are alike) and the part of a kommune's load  *)
(* that concerns it: kodeverk_sql in etl/last_inn.py (build) and in         *)
(* etl/synk.py (sync).  A load is one transaction, so it is one action; the *)
(* owner of the vocabulary edits the table by hand between loads.           *)
(*                                                                         *)
(* A source delivers a sequence of rows.  The field id of a row is an id,   *)
(* Ingen (absent, or not a non-negative integer) or Tom (the empty string,  *)
(* which som_heltall turns into None without a message).                    *)
(***************************************************************************)
EXTENDS Naturals, Sequences, FiniteSets

CONSTANTS Id,       \* ids of the code list
          Navn,     \* names
          Ingen,    \* NULL: no row, no parent, no readable value
          Tom,      \* the empty string in place of an id
          Kilde,    \* the kommuner
          Samling,  \* the collections a kommune may deliver
          MaksForvaltninger  \* bound: edits by the owner

Rad == [id : Id \cup {Ingen, Tom}, navn : Navn \cup {Ingen}, forelder : Id \cup {Ingen}]

ASSUME IngenOgTom == /\ Ingen \notin Id \cup Navn \cup {Tom}
                     /\ Tom \notin Id
ASSUME SamlingType == Samling \subseteq Seq(Rad)

VARIABLES
  navn,      \* [Id -> name], Ingen where the table has no such row
  forelder,  \* [Id -> parent_id]
  avvik,     \* [Kilde -> the deviations its latest committed load logged]
  forvaltet  \* history: how many edits the owner has made

vars == <<navn, forelder, avvik, forvaltet>>

V == INSTANCE Vokabular

Kjent == {x \in Id : navn[x] # Ingen}

----------------------------------------------------------------------------
(* Reading the rows: the Python loop.                                      *)

Lesbar(rad) == rad.id # Ingen /\ rad.navn # Ingen

\* Positions that become concepts: readable, and the first with their id.
Konsepter(rader) ==
  {i \in DOMAIN rader :
     /\ Lesbar(rader[i])
     /\ \A j \in DOMAIN rader : j < i /\ Lesbar(rader[j]) => rader[j].id # rader[i].id}

\* Faulty variant: logg called with the name where the id belongs.
LeseavvikMedNavn(rader) ==
  {<<"ugyldig_verdi", rader[i].navn, "id">> : i \in DOMAIN rader \ Konsepter(rader)}

Leseavvik(rader) ==
  {<<"ugyldig_verdi", rader[i].id,
     IF rader[i].id # Ingen /\ rader[i].navn = Ingen THEN "name" ELSE "id">> :
       i \in DOMAIN rader \ Konsepter(rader)}

\* An empty id becomes the word None in the VALUES list: the transaction fails.
Lastbar(rader) == \A i \in Konsepter(rader) : rader[i].id # Tom

KonseptId(rader) == {rader[i].id : i \in Konsepter(rader)}

RadMed(rader, x) == rader[CHOOSE i \in Konsepter(rader) : rader[i].id = x]

----------------------------------------------------------------------------
(* The DO block $bygg$ and the DO block $chk$.                             *)

\* INSERT ... ON CONFLICT DO NOTHING: neither the id nor the name is taken, in
\* the table or by a row inserted before it in the same statement.
Ledig(rad) == navn[rad.id] = Ingen /\ \A x \in Id : navn[x] # rad.navn

Opprettes(rader) ==
  {i \in Konsepter(rader) :
     /\ Ledig(rader[i])
     /\ \A j \in Konsepter(rader) : j < i /\ Ledig(rader[j]) => rader[j].navn # rader[i].navn}

NyeId(rader) == {rader[i].id : i \in Opprettes(rader)}

\* Faulty variant: ON CONFLICT (id) DO UPDATE SET navn, where the name is free.
NyeNavnOverskriver(rader) ==
  [x \in Id |-> IF \/ x \in NyeId(rader)
                   \/ /\ x \in KonseptId(rader) /\ navn[x] # Ingen
                      /\ \A y \in Id : navn[y] # RadMed(rader, x).navn
                      /\ \A i \in Opprettes(rader) : rader[i].navn # RadMed(rader, x).navn
                THEN RadMed(rader, x).navn ELSE navn[x]]

NyeNavn(rader) ==
  [x \in Id |-> IF x \in NyeId(rader) THEN RadMed(rader, x).navn ELSE navn[x]]

\* Faulty variants: without t.id = ANY(ny); EXISTS evaluated before the INSERT.
NyeForeldreForAlle(rader) ==
  [x \in Id |-> IF /\ x \in KonseptId(rader) /\ x \in Kjent \cup NyeId(rader)
                   /\ RadMed(rader, x).forelder \in Kjent \cup NyeId(rader)
                THEN RadMed(rader, x).forelder
                ELSE forelder[x]]

NyeForeldreFor(rader) ==
  [x \in Id |-> IF x \in NyeId(rader) /\ RadMed(rader, x).forelder \in Kjent
                THEN RadMed(rader, x).forelder
                ELSE forelder[x]]

\* UPDATE ... WHERE t.id = ANY(ny) AND EXISTS (the parent): it runs after the INSERT.
NyeForeldre(rader) ==
  [x \in Id |-> IF /\ x \in NyeId(rader)
                   /\ RadMed(rader, x).forelder \in Kjent \cup NyeId(rader)
                THEN RadMed(rader, x).forelder
                ELSE forelder[x]]

\* Faulty variant: <> for IS DISTINCT FROM, so a NULL parent differs from nothing.
SjekkUtenNull(rader, n, f) ==
  LET kjente == {x \in KonseptId(rader) : n[x] # Ingen}
  IN  {<<"manglende_forelder", x, "id">> : x \in KonseptId(rader) \ kjente}
      \cup {<<"ugyldig_verdi", x, "name">> :
              x \in {y \in kjente : n[y] # RadMed(rader, y).navn}}
      \cup {<<"ugyldig_verdi", x, "parent_id">> :
              x \in {y \in kjente : Ingen \notin {f[y], RadMed(rader, y).forelder}
                                    /\ f[y] # RadMed(rader, y).forelder}}

\* What differs between the rows and the table (n, f); one deviation per field.
Sjekk(rader, n, f) ==
  LET kjente == {x \in KonseptId(rader) : n[x] # Ingen}
  IN  {<<"manglende_forelder", x, "id">> : x \in KonseptId(rader) \ kjente}
      \cup {<<"ugyldig_verdi", x, "name">> :
              x \in {y \in kjente : n[y] # RadMed(rader, y).navn}}
      \cup {<<"ugyldig_verdi", x, "parent_id">> :
              x \in {y \in kjente : f[y] # RadMed(rader, y).forelder}}

----------------------------------------------------------------------------
(* The loads and the owner.                                                *)

Init == /\ navn = [x \in Id |-> Ingen]
        /\ forelder = [x \in Id |-> Ingen]
        /\ avvik = [k \in Kilde |-> {}]
        /\ forvaltet = 0

Loggfor(k, rader, n, f) ==
  avvik' = [avvik EXCEPT ![k] = Leseavvik(rader) \cup Sjekk(rader, n, f)]

\* last_inn.py: create what is missing, then compare.
Bygg(k, rader) ==
  /\ Lastbar(rader)
  /\ navn' = NyeNavn(rader)
  /\ forelder' = NyeForeldre(rader)
  /\ Loggfor(k, rader, NyeNavn(rader), NyeForeldre(rader))
  /\ UNCHANGED forvaltet

\* synk.py: compare only.
Synk(k, rader) ==
  /\ Lastbar(rader)
  /\ UNCHANGED <<navn, forelder, forvaltet>>
  /\ Loggfor(k, rader, navn, forelder)

\* psql -q -f goes on after an error: the transaction is aborted, COMMIT rolls back.
Avbrutt(k, rader) ==
  /\ ~ Lastbar(rader)
  /\ UNCHANGED vars

\* The owner creates, renames or moves one concept by hand; the table's UNIQUE
\* and REFERENCES hold, and the owner does not hang a concept under itself:
\* some set of concepts closed under parent holds f and not x.
Forvalt(x, n, f) ==
  /\ forvaltet < MaksForvaltninger
  /\ \A y \in Id \ {x} : navn[y] # n
  /\ f # Ingen => \E C \in SUBSET Kjent : /\ f \in C
                                          /\ x \notin C
                                          /\ \A y \in C : forelder[y] \in C \cup {Ingen}
  /\ navn' = [navn EXCEPT ![x] = n]
  /\ forelder' = [forelder EXCEPT ![x] = f]
  /\ forvaltet' = forvaltet + 1
  /\ UNCHANGED avvik

Last == \E k \in Kilde, rader \in Samling :
          Bygg(k, rader) \/ Synk(k, rader) \/ Avbrutt(k, rader)

Next == \/ Last
        \/ \E x \in Id, n \in Navn, f \in Id \cup {Ingen} : Forvalt(x, n, f)

Spec == Init /\ [][Next]_vars

\* Between two edits by the owner only the loads run.
SpecUtenForvalter == Init /\ [][Last]_vars

----------------------------------------------------------------------------
(* Properties.                                                             *)

Avvik == {"ugyldig_verdi", "manglende_forelder"} \X (Id \cup {Ingen, Tom})
           \X {"id", "name", "parent_id"}

\* The variables stay in their types; an id without a row has no parent.
TypeOK == /\ navn \in [Id -> Navn \cup {Ingen}]
          /\ forelder \in [Id -> Id \cup {Ingen}]
          /\ \A x \in Id \ Kjent : forelder[x] = Ingen
          /\ avvik \in [Kilde -> SUBSET Avvik]
          /\ forvaltet \in Nat

\* No collection has a cycle in its own parent_id's (the contract of etl/README.md).
KontraktAsyklisk ==
  \A r \in Samling : \A S \in SUBSET KonseptId(r) :
    S # {} => \E x \in S : RadMed(r, x).forelder \notin S

\* Whatever order the kommuner load in, and however they contradict each other,
\* the table stays usable: unique names, parents that exist, and no cycle across
\* sources, though each parent was written by a different load.
VelFormet == V!VelFormet

\* The loads implement the promise: they only add.  A name or a parent that a load
\* gave to a concept already there would be a step of Vokabular only if the owner
\* had made it.
LoverVokabular == V!Spec

\* No row of a committed load differs silently from the table it left behind.
AvvikDekker ==
  [][\A k \in Kilde, r \in Samling : Bygg(k, r) \/ Synk(k, r) =>
       \A i \in DOMAIN r :
         \/ \E a \in avvik'[k] : a[2] = r[i].id
         \/ r[i].id \in Id /\ navn'[r[i].id] = r[i].navn /\ forelder'[r[i].id] = r[i].forelder]_vars

\* Collections that keep the contract: readable, closed under parent, and in
\* agreement with each other on what an id is and which id has a name.
Kontrakt ==
  /\ KontraktAsyklisk
  /\ \A r \in Samling : /\ Konsepter(r) = DOMAIN r
                        /\ Lastbar(r)
                        /\ \A i \in DOMAIN r : r[i].forelder \in KonseptId(r) \cup {Ingen}
  /\ \A r, s \in Samling : \A i \in DOMAIN r, j \in DOMAIN s :
       (r[i].id = s[j].id \/ r[i].navn = s[j].navn) => r[i] = s[j]

\* If every kommune keeps the contract, a build reports nothing, whatever the
\* order of the rows and of the kommuner, and a sync reports only absent ids.
RentVedKontrakt ==
  [][Kontrakt =>
       \A k \in Kilde, r \in Samling :
         /\ Bygg(k, r) => avvik'[k] = {}
         /\ Synk(k, r) => \A a \in avvik'[k] : a[1] = "manglende_forelder"]_vars
=============================================================================
