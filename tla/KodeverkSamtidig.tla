--------------------------- MODULE KodeverkSamtidig ---------------------------
(***************************************************************************)
(* The build of one code list, statement by statement, in several sessions   *)
(* at once: the daemon and builds started by hand.  Kodeverk has a load as   *)
(* one action; here it is what kodeverk_sql (etl/last_inn.py) sends at READ  *)
(* COMMITTED: the INSERT row by row, waiting where another transaction holds *)
(* the id or the name; the UPDATE of the parents; the three queries of the   *)
(* DO block $chk$; the rest of the kommune; COMMIT.  The committed table     *)
(* implements Vokabular all the same.                                       *)
(***************************************************************************)
EXTENDS Naturals, Sequences, FiniteSets

CONSTANTS Id, Navn, Ingen, Tom, Kilde, Samling,   \* as in Kodeverk
          Okt,               \* sessions
          MaksForvaltninger  \* bound: edits by the owner

VARIABLES
  tabell,      \* [Id -> committed row], Ingen for no row
  avvik,       \* [Kilde -> the deviations its latest committed load logged]
  levert,      \* [Kilde -> the collection it delivers]
  fase,        \* [Okt -> the next statement, "ledig" between transactions]
  last,        \* [Okt -> the source being loaded]
  i,           \* [Okt -> the next row of the INSERT]
  ny,          \* [Okt -> its uncommitted rows: a function on a set of ids]
  funn,        \* [Okt -> its uncommitted deviations]
  forvaltet    \* history: how many edits the owner has made

vars == <<tabell, avvik, levert, fase, last, i, ny, funn, forvaltet>>
okt == <<fase, last, i, ny, funn>>

NavnI(t) == [x \in Id |-> IF t[x] = Ingen THEN Ingen ELSE t[x].navn]
ForelderI(t) == [x \in Id |-> IF t[x] = Ingen THEN Ingen ELSE t[x].forelder]

\* The committed table as the variables of the sequential modules.
K == INSTANCE Kodeverk WITH navn <- NavnI(tabell), forelder <- ForelderI(tabell)
V == INSTANCE Vokabular WITH navn <- NavnI(tabell), forelder <- ForelderI(tabell)

\* A row of the table; NULL is none of its values.
TabellRad == [navn : Navn, forelder : Id \cup {Ingen}]

ASSUME IngenOgTom == /\ Ingen \notin Id \cup Navn \cup {Tom}
                     /\ Ingen \notin TabellRad
                     /\ Tom \notin Id
ASSUME SamlingType == Samling \subseteq Seq(K!Rad)

Fase == {"ledig", "inn", "foreldre", "id", "name", "parent_id", "resten"}

Rader(s) == levert[last[s]]

\* What a statement of s sees: its own rows and the committed ones.
Ser(s) == [x \in Id |-> IF x \in DOMAIN ny[s] THEN ny[s][x] ELSE tabell[x]]

Radene(t) == {t[x] : x \in {y \in Id : t[y] # Ingen}}

\* The id or the name is taken in what s sees.
Tatt(s, rad) == \/ Ser(s)[rad.id] # Ingen
                \/ \E r \in Radene(Ser(s)) : r.navn = rad.navn

\* Faulty variant: only the id is unique while it is uncommitted.
HolderId(t, rad) == rad.id \in DOMAIN ny[t]

\* Session t holds the id or the name, uncommitted.
Holder(t, rad) == \/ rad.id \in DOMAIN ny[t]
                  \/ \E x \in DOMAIN ny[t] : ny[t][x].navn = rad.navn

----------------------------------------------------------------------------
Init == /\ tabell = [x \in Id |-> Ingen]
        /\ avvik = [k \in Kilde |-> {}]
        /\ levert \in [Kilde -> {r \in Samling : K!Lastbar(r)}]
        /\ fase = [s \in Okt |-> "ledig"]
        /\ last \in [Okt -> {CHOOSE k \in Kilde : TRUE}]
        /\ i = [s \in Okt |-> 1]
        /\ ny = [s \in Okt |-> <<>>]
        /\ funn = [s \in Okt |-> {}]
        /\ forvaltet = 0

Start(s, k) == /\ fase[s] = "ledig"
               /\ fase' = [fase EXCEPT ![s] = "inn"]
               /\ last' = [last EXCEPT ![s] = k]
               /\ i' = [i EXCEPT ![s] = 1]
               /\ funn' = [funn EXCEPT ![s] = K!Leseavvik(levert[k])]
               /\ UNCHANGED <<tabell, avvik, levert, ny, forvaltet>>

\* The sessions whose commit the INSERT of s waits for.
Venter(s) ==
  IF fase[s] = "inn" /\ i[s] \in K!Konsepter(Rader(s)) /\ ~ Tatt(s, Rader(s)[i[s]])
  THEN {t \in Okt \ {s} : Holder(t, Rader(s)[i[s]])}
  ELSE {}

\* The next row of INSERT ... ON CONFLICT DO NOTHING.
SettInn(s) ==
  /\ fase[s] = "inn" /\ i[s] \in DOMAIN Rader(s)
  /\ Venter(s) = {}
  /\ LET rad == Rader(s)[i[s]]
     IN  ny' = IF i[s] \in K!Konsepter(Rader(s)) /\ ~ Tatt(s, rad)
               THEN [ny EXCEPT ![s] = [x \in DOMAIN ny[s] \cup {rad.id} |->
                       IF x = rad.id THEN [navn |-> rad.navn, forelder |-> Ingen]
                       ELSE ny[s][x]]]
               ELSE ny
  /\ i' = [i EXCEPT ![s] = @ + 1]
  /\ UNCHANGED <<tabell, avvik, levert, fase, last, funn, forvaltet>>

InsertFerdig(s) == /\ fase[s] = "inn" /\ i[s] \notin DOMAIN Rader(s)
                   /\ fase' = [fase EXCEPT ![s] = "foreldre"]
                   /\ UNCHANGED <<tabell, avvik, levert, last, i, ny, funn, forvaltet>>

\* Faulty variant: t.id=ANY(ny) is left out, so rows of others get parents too.
MedForeldreAlle(s) ==
  LET kjente == {x \in Id : Ser(s)[x] # Ingen}
  IN  [x \in DOMAIN ny[s] \cup (K!KonseptId(Rader(s)) \cap kjente) |->
         LET f == IF x \in K!KonseptId(Rader(s)) THEN K!RadMed(Rader(s), x).forelder ELSE Ingen
         IN  IF f \in kjente THEN [Ser(s)[x] EXCEPT !.forelder = f] ELSE Ser(s)[x]]

\* Faulty variant: one statement with the INSERT, so EXISTS does not see its rows.
MedForeldreSammeSetning(s) ==
  [x \in DOMAIN ny[s] |->
     LET f == K!RadMed(Rader(s), x).forelder
     IN  IF f \in {y \in Id : tabell[y] # Ingen} THEN [ny[s][x] EXCEPT !.forelder = f]
         ELSE ny[s][x]]

\* UPDATE ... SET parent_id of the new ids, where the parent is seen.
MedForeldre(s) ==
  [x \in DOMAIN ny[s] |->
     LET f == K!RadMed(Rader(s), x).forelder
     IN  IF f \in {y \in Id : Ser(s)[y] # Ingen} THEN [ny[s][x] EXCEPT !.forelder = f]
         ELSE ny[s][x]]

SettForeldre(s) == /\ fase[s] = "foreldre"
                   /\ ny' = [ny EXCEPT ![s] = MedForeldre(s)]
                   /\ fase' = [fase EXCEPT ![s] = "id"]
                   /\ UNCHANGED <<tabell, avvik, levert, last, i, funn, forvaltet>>

\* Faulty variant: only the ids this session created are compared.
SjekkBareNye(s, felt) ==
  /\ fase[s] = felt
  /\ funn' = [funn EXCEPT ![s] = @ \cup
       {a \in K!Sjekk(Rader(s), NavnI(Ser(s)), ForelderI(Ser(s))) :
          a[3] = felt /\ a[2] \in DOMAIN ny[s]}]
  /\ fase' = [fase EXCEPT ![s] = CASE felt = "id"   -> "name"
                                   [] felt = "name" -> "parent_id"
                                   [] OTHER         -> "resten"]
  /\ UNCHANGED <<tabell, avvik, levert, last, i, ny, forvaltet>>

\* The query of $chk$ for one field, in what the session sees now.
Sjekk(s, felt) ==
  /\ fase[s] = felt
  /\ funn' = [funn EXCEPT ![s] = @ \cup
       {a \in K!Sjekk(Rader(s), NavnI(Ser(s)), ForelderI(Ser(s))) : a[3] = felt}]
  /\ fase' = [fase EXCEPT ![s] = CASE felt = "id"   -> "name"
                                   [] felt = "name" -> "parent_id"
                                   [] OTHER         -> "resten"]
  /\ UNCHANGED <<tabell, avvik, levert, last, i, ny, forvaltet>>

Slutt(s) == /\ fase' = [fase EXCEPT ![s] = "ledig"]
            /\ ny' = [ny EXCEPT ![s] = <<>>]
            /\ funn' = [funn EXCEPT ![s] = {}]
            /\ UNCHANGED <<levert, last, i, forvaltet>>

\* The rest of the kommune is loaded, and its transaction commits.
Commit(s) == /\ fase[s] = "resten"
             /\ tabell' = Ser(s)
             /\ avvik' = [avvik EXCEPT ![last[s]] = funn[s]]
             /\ Slutt(s)

\* The transaction is lost: a row of the kommune is rejected, the connection
\* breaks, or this session is the victim of a deadlock.
Tilbakerull(s) == /\ fase[s] # "ledig"
                  /\ UNCHANGED <<tabell, avvik>>
                  /\ Slutt(s)

\* The owner's edit, when no session holds the id or the name.
Forvalt(x, n, f) ==
  /\ forvaltet < MaksForvaltninger
  /\ \A s \in Okt : ~ Holder(s, [id |-> x, navn |-> n])
  /\ \A y \in Id \ {x} : NavnI(tabell)[y] # n
  /\ f # Ingen => \E C \in SUBSET {y \in Id : tabell[y] # Ingen} :
                    /\ f \in C /\ x \notin C
                    /\ \A y \in C : tabell[y].forelder \in C \cup {Ingen}
  /\ tabell' = [tabell EXCEPT ![x] = [navn |-> n, forelder |-> f]]
  /\ forvaltet' = forvaltet + 1
  /\ UNCHANGED <<avvik, levert, okt>>

Next == \/ \E s \in Okt :
             \/ \E k \in Kilde : Start(s, k)
             \/ SettInn(s) \/ InsertFerdig(s) \/ SettForeldre(s)
             \/ \E felt \in {"id", "name", "parent_id"} : Sjekk(s, felt)
             \/ Commit(s) \/ Tilbakerull(s)
        \/ \E x \in Id, n \in Navn, f \in Id \cup {Ingen} : Forvalt(x, n, f)

Spec == Init /\ [][Next]_vars

----------------------------------------------------------------------------
(* Properties.                                                             *)

\* Types; and an uncommitted id or name belongs to one session and is new.
TypeOK ==
  /\ tabell \in [Id -> TabellRad \cup {Ingen}]
  /\ fase \in [Okt -> Fase]
  /\ \A s \in Okt : \A x \in DOMAIN ny[s] :
       /\ ny[s][x] \in TabellRad
       /\ tabell[x] = Ingen
       /\ \A r \in Radene(tabell) : r.navn # ny[s][x].navn
       /\ \A t \in Okt \ {s} : ~ Holder(t, [id |-> x, navn |-> ny[s][x].navn])

\* Sessions that interleave their statements implement the promise about the
\* committed table: a commit only adds and leaves what is there to the owner, names
\* stay unique, a parent exists and no cycle closes, though neither session sees
\* the rows of the other.
LoverVokabular == V!Spec

\* A load that commits after an interleaving has logged every row that differs
\* from the table it leaves behind, unless the owner edited meanwhile.
AvvikDekkerSamtidig ==
  [][\A s \in Okt : Commit(s) /\ forvaltet = 0 =>
       \A j \in DOMAIN Rader(s) :
         LET rad == Rader(s)[j]
         IN  \/ \E a \in avvik'[last[s]] : a[2] = rad.id
             \/ /\ rad.id \in Id
                /\ tabell'[rad.id] = [navn |-> rad.navn, forelder |-> rad.forelder]]_vars

\* Kommuner that keep the contract of etl/README.md: readable, acyclic, closed
\* under parent, and in agreement on ids and names.
Kontrakt ==
  LET alle == {levert[k] : k \in Kilde}
  IN  /\ \A r \in alle :
           /\ K!Konsepter(r) = DOMAIN r
           /\ \A S \in SUBSET K!KonseptId(r) :
                S # {} => \E x \in S : K!RadMed(r, x).forelder \notin S
           /\ \A j \in DOMAIN r : r[j].forelder \in K!KonseptId(r) \cup {Ingen}
      /\ \A r, q \in alle : \A j \in DOMAIN r, l \in DOMAIN q :
           (r[j].id = q[l].id \/ r[j].navn = q[l].navn) => r[j] = q[l]

\* They are loaded without a deviation however their statements interleave.
RentSamtidig == Kontrakt /\ forvaltet = 0 => \A k \in Kilde : avvik[k] = {}
=============================================================================
