--------------------------------- MODULE Sok ---------------------------------
(***************************************************************************)
(* The search of the backend: RessursSokService and RessursSokRepository.   *)
(* One request runs two statements, buildings first and then resources, in  *)
(* one transaction.  PostgreSQL's level is READ COMMITTED, so each of them  *)
(* sees what is committed when it starts; loads and editors commit between  *)
(* them.  The filter panel is four statements of the same kind.             *)
(*                                                                         *)
(* Ids and names are numbers: they sort.  The text of a row is reduced to   *)
(* its rank for each word q (Ingen: no hit; 0: a substring only), and the   *)
(* position of a building to its distance from the client.                  *)
(***************************************************************************)
EXTENDS Integers, FiniteSets

CONSTANTS
  Ressurs, Bygg, Kommune, Lokaletype, Aktivitet, Fasilitet, Ord, Ingen,
  Eier,              \* [Ressurs -> Kommune]
  ByggNavn, Avstand, \* [Bygg -> name], [Bygg -> distance, Ingen: no position]
  Utgave,            \* [Ressurs -> the rows a load may leave for it]
  Kommuneord,        \* the words clients send for a kommune
  Kommunenr,         \* those of them that have four digits, of no kommune perhaps
  Foresporsel,       \* the parameters clients send
  STANDARD_STORRELSE, MAKS_STORRELSE, MAKS_RADIUS_METER,
  IntHalv,           \* 2^31: a Java int is in -IntHalv..(IntHalv - 1)
  MaksEndringer      \* bound: commits during one walk through the pages

JavaInt == -IntHalv..(IntHalv - 1)

ASSUME Konstanter ==
  /\ IsFiniteSet(Ressurs) /\ IsFiniteSet(Bygg)
  /\ Ressurs \subseteq Int /\ Bygg \subseteq Int /\ Ingen \notin Bygg
  /\ IntHalv \in Nat /\ MAKS_STORRELSE \in 1..(IntHalv - 1)
  /\ STANDARD_STORRELSE \in 1..MAKS_STORRELSE
  /\ MAKS_RADIUS_METER \in 1..(IntHalv - 1) /\ Ingen \notin JavaInt
  /\ Kommune \subseteq Kommunenr /\ Kommunenr \subseteq Kommuneord

\* A load finds the building of a resource in its own source (last_inn.py:282).
ASSUME ByggetErKommunens ==
  \A r, s \in Ressurs : \A u \in Utgave[r], v \in Utgave[s] :
    u.bygg # Ingen /\ u.bygg = v.bygg => Eier[r] = Eier[s]

\* A row of v_ressurs_sok.
Rad == [synlig : BOOLEAN, navn : Int, bygg : Bygg \cup {Ingen},
        lokaletype : Lokaletype \cup {Ingen}, aktivitet : SUBSET Aktivitet,
        fasilitet : SUBSET Fasilitet, tekst : [Ord -> Int \cup {Ingen}]]

\* The parameters of a request.  Of lat and lon there is none, one, or both, and
\* then within their ranges or outside; "annet" is any other word for the order.
Parametre == [q : Ord \cup {Ingen}, kommune : SUBSET Kommuneord,
              lokaletype : SUBSET Lokaletype, aktivitet : SUBSET Aktivitet,
              fasilitet : SUBSET Fasilitet, punkt : {"ingen", "ett", "utenfor", "helt"},
              radius : JavaInt \cup {Ingen},
              sorter : {"relevans", "avstand", "navn", "annet", Ingen},
              side : JavaInt \cup {Ingen}, storrelse : JavaInt \cup {Ingen}]

ASSUME Typer ==
  /\ Eier \in [Ressurs -> Kommune]
  /\ ByggNavn \in [Bygg -> Int] /\ Avstand \in [Bygg -> Int \cup {Ingen}]
  /\ \A r \in Ressurs : Utgave[r] \subseteq Rad
  /\ Foresporsel \subseteq Parametre /\ Ingen \notin Parametre

Liste == {"bygg", "ressurser"}
Filter == {"kommune", "lokaletype", "aktivitet", "fasilitet"}

VARIABLES
  tabell,    \* the committed rows behind v_ressurs_sok; Ingen: no such row
  p,         \* the normalised parameters of the request
  pc,        \* the next statement of the request, or "klar"
  svar,      \* [Liste -> the page], Ingen where there is no answer
  panel,     \* [Filter -> the values offered], Ingen before they are read
  sett,      \* history: [Liste -> rows on the earlier pages of this walk]
  oyeblikk   \* history: the tables committed since the walk began

vars == <<tabell, p, pc, svar, panel, sett, oyeblikk>>

----------------------------------------------------------------------------
(* RessursSokService.normaliser.                                           *)

Min2(a, b) == IF a < b THEN a ELSE b
Max2(a, b) == IF a > b THEN a ELSE b

SorterGyldig(f) == /\ f.sorter \in {Ingen, "relevans", "avstand", "navn"}
                   /\ f.sorter = "avstand" => f.punkt # "ingen"

\* Faulty variant of Gyldig: the radius has no upper limit.
GyldigUtenGrense(f) ==
  /\ f.kommune \subseteq Kommunenr
  /\ f.punkt # "ett" /\ ((f.punkt = "ingen") <=> (f.radius = Ingen))
  /\ f.punkt # "utenfor"
  /\ f.radius # Ingen => f.radius > 0
  /\ SorterGyldig(f)

\* Each kommune has four digits; lat, lon and radiusMeter come together or not at
\* all, and are within their limits; a known order, and avstand only with lat.
Gyldig(f) ==
  /\ f.kommune \subseteq Kommunenr
  /\ f.punkt # "ett" /\ ((f.punkt = "ingen") <=> (f.radius = Ingen))
  /\ f.punkt # "utenfor"
  /\ f.radius # Ingen => f.radius \in 1..MAKS_RADIUS_METER
  /\ SorterGyldig(f)

Sorter(f) ==
  CASE f.sorter = Ingen /\ f.punkt = "helt" -> "avstand"
    [] f.sorter = "avstand"                 -> "avstand"
    [] f.sorter \in {Ingen, "relevans"} /\ f.punkt # "helt" /\ f.q # Ingen -> "relevans"
    [] f.sorter = "relevans" /\ f.q # Ingen -> "relevans"
    [] OTHER                                -> "navn"

Normaliser(f) ==
  [f EXCEPT !.sorter = Sorter(f),
            !.side = IF @ = Ingen THEN 0 ELSE Max2(0, @),
            !.storrelse = IF @ = Ingen THEN STANDARD_STORRELSE
                          ELSE Min2(MAKS_STORRELSE, Max2(1, @))]

----------------------------------------------------------------------------
(* v_ressurs_sok and the filters of RessursSokRepository.treff.            *)

Synlige(t) == {r \in Ressurs : t[r] # Ingen /\ t[r].synlig}

\* An empty list is no filter; activities are OR, facilities are AND; NULL
\* (no venue type, no position) is in no list and within no radius.
Treffer(rad, k, f) ==
  /\ f.q # Ingen => rad.tekst[f.q] # Ingen
  /\ f.kommune # {} => k \in f.kommune
  /\ f.lokaletype # {} => rad.lokaletype \in f.lokaletype
  /\ f.aktivitet # {} => rad.aktivitet \cap f.aktivitet # {}
  /\ f.fasilitet \subseteq rad.fasilitet
  /\ f.punkt = "helt" => /\ rad.bygg # Ingen
                         /\ Avstand[rad.bygg] # Ingen
                         /\ Avstand[rad.bygg] <= f.radius

Treff(t, f) == {r \in Synlige(t) : Treffer(t[r], Eier[r], f)}

\* The hits of a building: GROUP BY bygg_id; every other column depends on it, the
\* name of the kommune too.
I(b, t, f) == {r \in Treff(t, f) : t[r].bygg = b}

Rader(l, t, f) == IF l = "ressurser" THEN Treff(t, f)
                  ELSE {b \in Bygg : I(b, t, f) # {}}

\* Faulty variant: count of what the building has, not of what was hit.
AntallISynlige(b, t, f) == Cardinality({r \in Synlige(t) : t[r].bygg = b})

AntallI(b, t, f) == Cardinality(I(b, t, f))

Rang(r, t, f) == IF f.q = Ingen THEN 0 ELSE t[r].tekst[f.q]

\* max(rang) of the building's hits.
ByggRang(b, t, f) ==
  CHOOSE m \in {Rang(r, t, f) : r \in I(b, t, f)} :
    \A r \in I(b, t, f) : Rang(r, t, f) <= m

\* Faulty variant: ORDER BY without the id.
NokkelUtenId(l, x, t, f) ==
  LET navn == IF l = "bygg" THEN ByggNavn[x] ELSE t[x].navn
  IN  CASE f.sorter = "relevans" ->
             <<- (IF l = "bygg" THEN ByggRang(x, t, f) ELSE Rang(x, t, f)), navn, 0>>
        [] f.sorter = "avstand" ->
             <<Avstand[IF l = "bygg" THEN x ELSE t[x].bygg], navn, 0>>
        [] OTHER -> <<0, navn, 0>>

\* ORDER BY: the chosen order, the name, the id.
Nokkel(l, x, t, f) ==
  LET navn == IF l = "bygg" THEN ByggNavn[x] ELSE t[x].navn
  IN  CASE f.sorter = "relevans" ->
             <<- (IF l = "bygg" THEN ByggRang(x, t, f) ELSE Rang(x, t, f)), navn, x>>
        [] f.sorter = "avstand" ->
             <<Avstand[IF l = "bygg" THEN x ELSE t[x].bygg], navn, x>>
        [] OTHER -> <<0, navn, x>>

Foer(a, b) == \E i \in 1..3 : a[i] < b[i] /\ \A j \in 1..(i - 1) : a[j] = b[j]

\* The orders PostgreSQL may return: rows with equal keys come in any order,
\* and not the same one each time.
Plasseringer(l, t, f) ==
  LET S == Rader(l, t, f)
  IN  {plass \in [S -> 0..(Cardinality(S) - 1)] :
         \A x, y \in S : /\ x # y => plass[x] # plass[y]
                         /\ Foer(Nokkel(l, x, t, f), Nokkel(l, y, t, f)) => plass[x] < plass[y]}

\* p.side() * p.storrelse() in two's complement.
Offset(f) == ((f.side * f.storrelse + IntHalv) % (2 * IntHalv)) - IntHalv

\* Faulty variant: the page is counted, not the hits.
SideTelt(l, t, f, plass) ==
  LET S == Rader(l, t, f)
      side == {x \in S : plass[x] \in Offset(f)..(Offset(f) + f.storrelse - 1)}
  IN  [treff |-> side,
       antall |-> [x \in side |-> IF l = "bygg" THEN AntallI(x, t, f) ELSE 1],
       totalt |-> Cardinality(side)]

\* One page: LIMIT, OFFSET and count(*) OVER (), 0 where no row carries it.
Side(l, t, f, plass) ==
  LET S == Rader(l, t, f)
      side == {x \in S : plass[x] \in Offset(f)..(Offset(f) + f.storrelse - 1)}
  IN  [treff |-> side,
       antall |-> [x \in side |-> IF l = "bygg" THEN AntallI(x, t, f) ELSE 1],
       totalt |-> IF side = {} THEN 0 ELSE Cardinality(S)]

----------------------------------------------------------------------------
(* The requests.                                                           *)

IngenSvar == [l \in Liste |-> Ingen]
IngenSett == [l \in Liste |-> {}]

Init == /\ tabell \in [Ressurs -> {Ingen}]
        /\ p = Ingen
        /\ pc = "klar"
        /\ svar = IngenSvar
        /\ panel = [f \in Filter |-> Ingen]
        /\ sett = IngenSett
        /\ oyeblikk = {tabell}

\* A new search; an invalid one is answered with 400.
Start(f) ==
  /\ pc = "klar"
  /\ IF Gyldig(f) THEN pc' = "bygg" /\ p' = Normaliser(f)
                  ELSE pc' = "klar" /\ p' = Ingen
  /\ svar' = IngenSvar
  /\ panel' = [g \in Filter |-> Ingen]
  /\ sett' = IngenSett
  /\ oyeblikk' = {tabell}
  /\ UNCHANGED tabell

\* The client walks on from the first page as long as there are hits.
Bla ==
  /\ pc = "klar" /\ p # Ingen
  /\ p.side = 0 \/ sett # IngenSett
  /\ \E l \in Liste : svar[l] # Ingen /\ svar[l].treff # {}
  /\ p.side + 1 < IntHalv
  /\ p' = [p EXCEPT !.side = @ + 1]
  /\ pc' = "bygg"
  /\ sett' = [l \in Liste |-> sett[l] \cup svar[l].treff]
  /\ svar' = IngenSvar
  /\ UNCHANGED <<tabell, panel, oyeblikk>>

\* repository.sokBygg, then repository.sokRessurser.
Spor(l) ==
  /\ pc = l
  /\ Offset(p) >= 0
  /\ \E plass \in Plasseringer(l, tabell, p) :
       svar' = [svar EXCEPT ![l] = Side(l, tabell, p, plass)]
  /\ pc' = IF l = "bygg" THEN "ressurser" ELSE "klar"
  /\ UNCHANGED <<tabell, p, panel, sett, oyeblikk>>

\* OFFSET must not be negative: PostgreSQL refuses, the client gets a 500.
Feiler ==
  /\ pc = "bygg"
  /\ Offset(p) < 0
  /\ pc' = "klar"
  /\ p' = Ingen
  /\ svar' = IngenSvar
  /\ UNCHANGED <<tabell, panel, sett, oyeblikk>>

\* Faulty variant: from the tables, whether a row of the view has the value.
TilbudFraTabell(f, t) ==
  LET finnes == {r \in Ressurs : t[r] # Ingen}
  IN  CASE f = "kommune"    -> {Eier[r] : r \in finnes}
        [] f = "lokaletype" -> {t[r].lokaletype : r \in finnes} \ {Ingen}
        [] f = "aktivitet"  -> UNION {t[r].aktivitet : r \in finnes}
        [] f = "fasilitet"  -> UNION {t[r].fasilitet : r \in finnes}

\* The values of the panel: those of some row of the view.
Tilbud(f, t) ==
  CASE f = "kommune"    -> {Eier[r] : r \in Synlige(t)}
    [] f = "lokaletype" -> {t[r].lokaletype : r \in Synlige(t)} \ {Ingen}
    [] f = "aktivitet"  -> UNION {t[r].aktivitet : r \in Synlige(t)}
    [] f = "fasilitet"  -> UNION {t[r].fasilitet : r \in Synlige(t)}

\* hentFiltre: one statement for each list, in this order.
HentFiltre(f) ==
  /\ pc = "klar"
  /\ panel[f] = Ingen
  /\ f # "kommune" => panel["kommune"] # Ingen
  /\ f \in {"aktivitet", "fasilitet"} => panel["lokaletype"] # Ingen
  /\ f = "fasilitet" => panel["aktivitet"] # Ingen
  /\ panel' = [panel EXCEPT ![f] = Tilbud(f, tabell)]
  /\ p' = Ingen
  /\ svar' = IngenSvar
  /\ sett' = IngenSett
  /\ oyeblikk' = IF f = "kommune" THEN {tabell} ELSE oyeblikk
  /\ UNCHANGED <<tabell, pc>>

Endring(t) == /\ Cardinality(oyeblikk) <= MaksEndringer
              /\ tabell' = t
              /\ oyeblikk' = oyeblikk \cup {t}
              /\ UNCHANGED <<p, pc, svar, panel, sett>>

\* A load commits the rows of its kommune; what is active and bookable of a
\* resource it already has is left as it was.
Last(k) ==
  \E ny \in {h \in [Ressurs -> UNION {Utgave[r] : r \in Ressurs} \cup {Ingen}] :
               \A r \in Ressurs : h[r] \in IF Eier[r] = k THEN Utgave[r] ELSE {tabell[r]}} :
    Endring([r \in Ressurs |->
               IF Eier[r] = k /\ tabell[r] # Ingen
               THEN [ny[r] EXCEPT !.synlig = tabell[r].synlig] ELSE ny[r]])

\* An editor takes a resource out of the search, or puts it back.
SettSynlig(r) == /\ tabell[r] # Ingen
                 /\ Endring([tabell EXCEPT ![r].synlig = ~ @])

Next == \/ \E f \in Foresporsel : Start(f)
        \/ Bla
        \/ \E l \in Liste : Spor(l)
        \/ Feiler
        \/ \E f \in Filter : HentFiltre(f)
        \/ \E k \in Kommune : Last(k)
        \/ \E r \in Ressurs : SettSynlig(r)

Spec == Init /\ [][Next]_vars

----------------------------------------------------------------------------
(* Properties.                                                             *)

Besvart == pc = "klar" /\ p # Ingen /\ \A l \in Liste : svar[l] # Ingen

Uendret == oyeblikk = {tabell}

\* The parameters that reach the SQL are within the limits that normaliser states
\* for them, and so is a page.
TypeOK ==
  /\ \A r \in Ressurs : tabell[r] # Ingen =>
       \E u \in Utgave[r] : tabell[r] \in {u, [u EXCEPT !.synlig = ~ @]}
  /\ pc \in {"klar"} \cup Liste
  /\ pc # "klar" => p # Ingen
  /\ p # Ingen => /\ p.side \in 0..(IntHalv - 1)
                  /\ p.storrelse \in 1..MAKS_STORRELSE
                  /\ p.sorter = "avstand" => p.punkt = "helt"
                  /\ p.sorter = "relevans" => p.q # Ingen
                  /\ p.kommune \subseteq Kommunenr
                  /\ \/ p.punkt = "ingen" /\ p.radius = Ingen
                     \/ p.punkt = "helt" /\ p.radius \in 1..MAKS_RADIUS_METER
  /\ \A l \in Liste : svar[l] # Ingen => Cardinality(svar[l].treff) <= MAKS_STORRELSE

\* Walking through the pages while nothing is committed shows every building
\* and every resource of the search once: no row on two pages, and once a page
\* is empty, none is left out.
BladdAlt ==
  Besvart /\ Uendret /\ (p.side = 0 \/ sett # IngenSett) =>
    \A l \in Liste : /\ svar[l].treff \cap sett[l] = {}
                     /\ svar[l].treff = {} => sett[l] = Rader(l, tabell, p)

\* The buildings are the resource hits grouped (SokSvar), as long as nothing was
\* committed between the two statements: where the answer shows every resource,
\* each building is there with as many as the answer shows of it.
SvarHenger ==
  Besvart /\ Uendret /\ p.side = 0 /\ svar["ressurser"].totalt <= p.storrelse =>
    LET ressurser == svar["ressurser"].treff
        bygg == svar["bygg"]
    IN  /\ bygg.treff = {tabell[r].bygg : r \in ressurser} \ {Ingen}
        /\ bygg.totalt = Cardinality(bygg.treff)
        /\ \A b \in bygg.treff :
             bygg.antall[b] = Cardinality({r \in ressurser : tabell[r].bygg = b})

\* A page has no hits and the total 0 (SokeResultat) exactly when it lies beyond
\* the hits, as long as the offset fits an int.
SideUtenforErTom ==
  Besvart /\ Uendret /\ p.side * p.storrelse < IntHalv =>
    \A l \in Liste : LET n == Cardinality(Rader(l, tabell, p))
                     IN  /\ (svar[l].treff = {}) <=> (p.side * p.storrelse >= n)
                         /\ svar[l].totalt = IF svar[l].treff = {} THEN 0 ELSE n

\* A search for one value of filter f and nothing else.
Bare(f, v) ==
  LET valg(g) == IF g = f THEN {v} ELSE {}
  IN  [q |-> Ingen, kommune |-> valg("kommune"), lokaletype |-> valg("lokaletype"),
       aktivitet |-> valg("aktivitet"), fasilitet |-> valg("fasilitet"),
       punkt |-> "ingen", radius |-> Ingen, sorter |-> "navn", side |-> 0, storrelse |-> 1]

\* The panel shows no empty choice (SokFiltre), and a resource that the search
\* shows is found by each of its values, if nothing was committed meanwhile.
PanelTreffer ==
  Uendret /\ (\A f \in Filter : panel[f] # Ingen) =>
    /\ \A f \in Filter : \A v \in panel[f] : Treff(tabell, Bare(f, v)) # {}
    /\ \A r \in Synlige(tabell) : /\ Eier[r] \in panel["kommune"]
                                   /\ tabell[r].lokaletype \in panel["lokaletype"] \cup {Ingen}
                                   /\ tabell[r].aktivitet \subseteq panel["aktivitet"]
                                   /\ tabell[r].fasilitet \subseteq panel["fasilitet"]

\* "kjører begge søkene i samme transaksjon, så bygg og ressurser er hentet fra
\* samme øyeblikk" (RessursSokService.java:35-36): there is one committed table
\* both halves of the answer are right for.
SammeOyeblikk ==
  Besvart => \E t \in oyeblikk : \A l \in Liste :
               \E plass \in Plasseringer(l, t, p) : svar[l] = Side(l, t, p, plass)
=============================================================================
