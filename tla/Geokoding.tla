------------------------------- MODULE Geokoding -------------------------------
(***************************************************************************)
(* do_geocode of run.sh with matrikkel_adresse.py: a query lists the main    *)
(* addresses that are incomplete, each is looked up in the Matrikkel (SOAP   *)
(* calls, minutes in all), and the SQL written meanwhile is applied at the   *)
(* end, as one transaction that updates rows by id.  Loads and editors write *)
(* the same rows in between, and a run by hand may overlap the nightly one.  *)
(*                                                                         *)
(* A building has one main address, so both go by the building.  A Sted is  *)
(* a road address of the Matrikkel: it stands for street, number, letter     *)
(* and point, which are written together, and for the building there.  The   *)
(* Matrikkel does not change; a number is a house number with its letter.    *)
(***************************************************************************)
EXTENDS Naturals, Sequences

CONSTANTS Bygg,
          Tekst,       \* address texts
          Gate, Nummer,    \* [Tekst -> the name and the number read from it, Ingen: no number]
          Delt,        \* the texts with the character that separates the fields of a row
          Sted,        \* road addresses
          Matrikkel,   \* [Sted -> [veg, nummer, enhet, bygg]]: its street, number, cadastral
                       \* unit (or Ingen) and the numbers of its buildings (or Ingen)
          VegNavn,     \* [street -> name]
          Kjoringer,   \* runs that may be under way
          Natt,        \* the nightly one
          Ingen,       \* NULL
          Manuelt,     \* what an editor has entered
          MaksFeil     \* bound on the faults

ASSUME Oppslagene == /\ Ingen \notin Tekst \cup Sted \cup {Manuelt}
                     /\ Manuelt \notin Sted
                     /\ MaksFeil \in Nat

----------------------------------------------------------------------------
(* The Matrikkel, call by call.                                            *)

\* finn_veg_ider: the streets with the name; there may be several.
Veger(t) == {w \in DOMAIN VegNavn : VegNavn[w] = Gate[t]}

\* finn_adresse_ider_for_veg and hent_vegadresser: the addresses of a street.
AdresserVed(w) == {v \in Sted : Matrikkel[v].veg = w}

\* The road addresses with the street, number and letter of the text.
Treff ==
  [t \in Tekst |-> IF t \in Delt \/ Nummer[t] = Ingen THEN {}
                  ELSE {v \in UNION {AdresserVed(w) : w \in Veger(t)} :
                          Matrikkel[v].nummer = Nummer[t]}]

\* Road addresses with exactly one building, and it has a number.
MedBygg == {v \in Sted : Len(Matrikkel[v].bygg) = 1 /\ Matrikkel[v].bygg[1] # Ingen}

\* Road addresses with a cadastral unit.
MedEnhet == {v \in Sted : Matrikkel[v].enhet # Ingen}

VARIABLES
  tekst,      \* [Bygg -> adressetekst]; Ingen: the building has no address
  status,     \* [Bygg -> adresse.geokoding]
  sted,       \* [Bygg -> where the address is placed]
  match,      \* [Bygg -> bygning.matrikkel_match]
  fakta,      \* [Bygg -> building number and facts, by the road address they are from]
  info,       \* [Bygg -> its rows of matrikkelinfo, likewise]
  rader,      \* [Kjoringer -> the answer of the query, by building]
  poster,     \* [Kjoringer -> what the lookup has written to matrikkel.sql, by building]
  spor,       \* buildings with a deviation in the latest lookup applied
  forsinket,  \* buildings whose text a load changed while a run had read it
  feil

adresser == <<tekst, status, sted>>
bygninger == <<match, fakta, info>>
vars == <<adresser, bygninger, rader, poster, spor, forsinket, feil>>

Uloste == {"ukjent", "feilet"}
Status == Uloste \cup {"matrikkel", "manuell"}
Blokker == {"info", "adresse", "funnet"}

Rad == [tekst : Tekst, status : Status, sted : Sted \cup {Ingen}]
Post == {p \in [sted : Sted \cup {Ingen}, info : BOOLEAN, adresse : BOOLEAN, funnet : BOOLEAN,
               ikkeFunnet : BOOLEAN, logget : BOOLEAN] :
           p.info \/ p.adresse \/ p.funnet => p.sted # Ingen}

\* No rows.
Tom == [b \in {} |-> Ingen]

Feil == feil < MaksFeil /\ feil' = feil + 1

----------------------------------------------------------------------------
Init == /\ tekst = [b \in Bygg |-> Ingen]
        /\ status = [b \in Bygg |-> "ukjent"]
        /\ sted = [b \in Bygg |-> Ingen]
        /\ match = [b \in Bygg |-> "ikke_forsokt"]
        /\ fakta = [b \in Bygg |-> Ingen]
        /\ info = [b \in Bygg |-> {}]
        /\ rader = [r \in Kjoringer |-> Tom]
        /\ poster = [r \in Kjoringer |-> Tom]
        /\ spor = {}
        /\ forsinket = {}
        /\ feil = 0

----------------------------------------------------------------------------
(* The query and the lookups.                                              *)

\* Faulty variants of Mangler: only addresses that are not placed; manual ones too.
ManglerOgsaManuell(b) == tekst[b] # Ingen /\ (status[b] \in Uloste \/ fakta[b] = Ingen \/ info[b] = {})

ManglerSted(b) == tekst[b] # Ingen /\ status[b] \in Uloste

\* geocode_query.sql
Mangler(b) == /\ tekst[b] # Ingen
              /\ status[b] # "manuell"
              /\ status[b] \in Uloste \/ fakta[b] = Ingen \/ info[b] = {}

Les(r) ==
  /\ DOMAIN rader[r] = {}
  /\ \E b \in Bygg : Mangler(b)
  /\ rader' = [rader EXCEPT ![r] =
                 [b \in {x \in Bygg : Mangler(x)} |->
                    [tekst |-> tekst[b], status |-> status[b], sted |-> sted[b]]]]
  /\ UNCHANGED <<adresser, bygninger, poster, spor, forsinket, feil>>

\* Faulty variant of Kandidater: of several, one is guessed.
KandidaterGjettet(rad) ==
  IF rad.sted # Ingen THEN {rad.sted}
  ELSE IF Treff[rad.tekst] = {} THEN {}
  ELSE {CHOOSE v \in Treff[rad.tekst] : TRUE}

\* An address that is placed is found by its stored street code and number.
Kandidater(rad) == IF rad.sted # Ingen THEN {rad.sted} ELSE Treff[rad.tekst]

\* A deviation, and on to the next row.
BareLogg ==
  [sted |-> Ingen, info |-> FALSE, adresse |-> FALSE, funnet |-> FALSE,
   ikkeFunnet |-> FALSE, logget |-> TRUE]

\* No deviation either.
Ubehandlet == [BareLogg EXCEPT !.logget = FALSE]

\* The calls made once the road address v is found.
Kall(rad, v) == {"bygg"} \cup (IF v \in MedEnhet THEN {"enhet"} ELSE {})
                         \cup (IF rad.status \in Uloste THEN {"veg"} ELSE {})

\* Faulty variant of Svar: continue without a message when hent_veg fails.
SvarStille(rad, v, F) ==
  LET stopp == "veg" \in F
      funnet == v \in MedBygg /\ "bygg" \notin F
  IN  [sted       |-> v,
       info       |-> v \in MedEnhet /\ "enhet" \notin F,
       adresse    |-> rad.status \in Uloste /\ ~ stopp,
       funnet     |-> ~ stopp /\ funnet,
       ikkeFunnet |-> ~ stopp /\ ~ funnet,
       logget     |-> "enhet" \in F \/ (~ stopp /\ ~ funnet)]

\* What is written for a row when the calls in F fail.  Without the street the
\* building is not looked up.
Svar(rad, v, F) ==
  LET stopp == "veg" \in F
      funnet == v \in MedBygg /\ "bygg" \notin F
  IN  [sted       |-> v,
       info       |-> v \in MedEnhet /\ "enhet" \notin F,
       adresse    |-> rad.status \in Uloste /\ ~ stopp,
       funnet     |-> ~ stopp /\ funnet,
       ikkeFunnet |-> ~ stopp /\ ~ funnet,
       logget     |-> "enhet" \in F \/ stopp \/ ~ funnet]

Rest(r) == DOMAIN rader[r] \ DOMAIN poster[r]

Skriv(r, b, post) ==
  /\ poster' = [poster EXCEPT ![r] =
                  [x \in DOMAIN poster[r] \cup {b} |-> IF x = b THEN post ELSE poster[r][x]]]
  /\ UNCHANGED <<adresser, bygninger, rader, spor, forsinket>>

\* Exactly one hit.
Finner(r, b) ==
  /\ \E v \in Sted : Kandidater(rader[r][b]) = {v} /\ Skriv(r, b, Svar(rader[r][b], v, {}))
  /\ UNCHANGED feil

\* No hit, several hits, or no house number in the text: nothing is guessed.
FinnerIkke(r, b) ==
  /\ rader[r][b].tekst \notin Delt
  /\ ~ \E v \in Sted : Kandidater(rader[r][b]) = {v}
  /\ Skriv(r, b, BareLogg)
  /\ UNCHANGED feil

\* A text with the separator shifts the fields: the row is looked up with a postal
\* place for a kommune and fails, or without one and is passed over.
RadenDelt(r, b) ==
  /\ rader[r][b].tekst \in Delt
  /\ Skriv(r, b, BareLogg) \/ Skriv(r, b, Ubehandlet)
  /\ UNCHANGED feil

\* MatrikkelFeil: in the search for the address, or in a call after it.
KallFeiler(r, b) ==
  /\ Feil
  /\ \/ Skriv(r, b, BareLogg)
     \/ \E v \in Sted : /\ Kandidater(rader[r][b]) = {v}
                        /\ \E F \in SUBSET Kall(rader[r][b], v) \ {{}} :
                             Skriv(r, b, Svar(rader[r][b], v, F))

----------------------------------------------------------------------------
(* The file is applied.  B holds the blocks (i_blokk) the database rejects.  *)

Gjores(r, b, blokk, B) ==
  b \in DOMAIN poster[r] /\ poster[r][b][blokk] /\ <<b, blokk>> \notin B

\* Faulty variant of NyStatus: the point is set without the status.
NyStatusUendret(r, B) == status

NyStatus(r, B) == [b \in Bygg |-> IF Gjores(r, b, "adresse", B) THEN "matrikkel" ELSE status[b]]

NyttSted(r, B) == [b \in Bygg |-> IF Gjores(r, b, "adresse", B) THEN poster[r][b].sted ELSE sted[b]]

\* Faulty variant of NyMatch: without AND matrikkel_match='ikke_forsokt'.
NyMatchAlltid(r, B) ==
  [b \in Bygg |-> IF Gjores(r, b, "funnet", B) THEN "adresse"
                  ELSE IF b \in DOMAIN poster[r] /\ poster[r][b].ikkeFunnet THEN "ikke_funnet"
                  ELSE IF Gjores(r, b, "adresse", B) THEN "adresse"
                  ELSE match[b]]

\* A lookup that found no building leaves its mark, but never over a match.
NyMatch(r, B) ==
  [b \in Bygg |-> IF Gjores(r, b, "adresse", B) \/ Gjores(r, b, "funnet", B) THEN "adresse"
                  ELSE IF /\ b \in DOMAIN poster[r] /\ poster[r][b].ikkeFunnet
                          /\ match[b] = "ikke_forsokt" THEN "ikke_funnet"
                  ELSE match[b]]

NyeFakta(r, B) == [b \in Bygg |-> IF Gjores(r, b, "funnet", B) THEN poster[r][b].sted ELSE fakta[b]]

NyInfo(r, B) ==
  [b \in Bygg |-> IF Gjores(r, b, "info", B) THEN info[b] \cup {poster[r][b].sted} ELSE info[b]]

Logget(r, B) == {b \in DOMAIN poster[r] :
                   poster[r][b].logget \/ \E blokk \in Blokker : poster[r][b][blokk] /\ <<b, blokk>> \in B}

Avslutt(r) == /\ rader' = [rader EXCEPT ![r] = Tom]
              /\ poster' = [poster EXCEPT ![r] = Tom]

Anvend(r, B) ==
  /\ DOMAIN rader[r] # {} /\ Rest(r) = {}
  /\ IF B = {} THEN UNCHANGED feil ELSE Feil
  /\ status' = NyStatus(r, B)
  /\ sted' = NyttSted(r, B)
  /\ match' = NyMatch(r, B)
  /\ fakta' = NyeFakta(r, B)
  /\ info' = NyInfo(r, B)
  /\ spor' = Logget(r, B)
  /\ Avslutt(r)
  /\ UNCHANGED <<tekst, forsinket>>

\* The script or psql fails, or the container is killed: nothing is applied.
Avbryt(r) == /\ DOMAIN rader[r] # {}
             /\ Feil
             /\ Avslutt(r)
             /\ UNCHANGED <<adresser, bygninger, spor, forsinket>>

----------------------------------------------------------------------------
(* Others who write the rows.                                              *)

\* Faulty variant of Last: the address is rewritten whatever its status.
LastAlltid(b, t) ==
  /\ t # tekst[b]
  /\ tekst' = [tekst EXCEPT ![b] = t]
  /\ forsinket' = IF \E r \in Kjoringer : b \in DOMAIN rader[r] THEN forsinket \cup {b} ELSE forsinket
  /\ UNCHANGED <<status, sted, bygninger, rader, poster, spor, feil>>

\* A load inserts the address, or rewrites it unless it is placed.
Last(b, t) ==
  /\ status[b] \in Uloste
  /\ t # tekst[b]
  /\ tekst' = [tekst EXCEPT ![b] = t]
  /\ forsinket' = IF \E r \in Kjoringer : b \in DOMAIN rader[r] THEN forsinket \cup {b} ELSE forsinket
  /\ UNCHANGED <<status, sted, bygninger, rader, poster, spor, feil>>

\* An editor places the address, or enters the building's number.
SettAdresse(b) == /\ tekst[b] # Ingen
                  /\ status' = [status EXCEPT ![b] = "manuell"]
                  /\ sted' = [sted EXCEPT ![b] = Manuelt]
                  /\ UNCHANGED <<tekst, bygninger, rader, poster, spor, forsinket, feil>>

SettFakta(b) == /\ fakta' = [fakta EXCEPT ![b] = Manuelt]
                /\ UNCHANGED <<adresser, match, info, rader, poster, spor, forsinket, feil>>

----------------------------------------------------------------------------
Feilende == {{}} \cup {{<<b, blokk>>} : b \in Bygg, blokk \in Blokker}

Geokod(r) == \/ Les(r)
             \/ \E b \in Rest(r) : Finner(r, b) \/ FinnerIkke(r, b) \/ RadenDelt(r, b) \/ KallFeiler(r, b)
             \/ \E B \in Feilende : Anvend(r, B)

Next == \/ \E r \in Kjoringer : Geokod(r) \/ Avbryt(r)
        \/ \E b \in Bygg, t \in Tekst : Last(b, t)
        \/ \E b \in Bygg : SettAdresse(b) \/ SettFakta(b)

Spec == Init /\ [][Next]_vars

\* The nightly run is started again each night and goes on as long as it can.
FairSpec == Spec /\ WF_vars(Geokod(Natt))

----------------------------------------------------------------------------
(* Properties.                                                             *)

Delvis(S) == UNION {[D -> S] : D \in SUBSET Bygg}

\* Types; an address is placed if and only if its status says so, and runs work on
\* addresses that exist.
TypeOK == /\ tekst \in [Bygg -> Tekst \cup {Ingen}]
          /\ status \in [Bygg -> Status]
          /\ sted \in [Bygg -> Sted \cup {Ingen, Manuelt}]
          /\ match \in [Bygg -> {"ikke_forsokt", "ikke_funnet", "adresse"}]
          /\ fakta \in [Bygg -> Sted \cup {Ingen, Manuelt}]
          /\ info \in [Bygg -> SUBSET Sted]
          /\ rader \in [Kjoringer -> Delvis(Rad)]
          /\ poster \in [Kjoringer -> Delvis(Post)]
          /\ spor \subseteq Bygg
          /\ forsinket \subseteq Bygg
          /\ feil \in 0..MaksFeil
          /\ \A b \in Bygg : /\ status[b] \in Uloste <=> sted[b] = Ingen
                             /\ status[b] = "manuell" <=> sted[b] = Manuelt
                             /\ status[b] \notin Uloste => tekst[b] # Ingen
          /\ \A r \in Kjoringer : /\ DOMAIN poster[r] \subseteq DOMAIN rader[r]
                                 /\ \A b \in DOMAIN rader[r] : tekst[b] # Ingen

\* However runs overlap, an address that a lookup placed is at the only hit of its
\* text.  The one exception is a load that changed the text under an open lookup.
StedErTekstens ==
  \A b \in Bygg \ forsinket : status[b] = "matrikkel" => Treff[tekst[b]] = {sted[b]}

\* A building matched by its address stays matched: no later or overlapping lookup
\* that fails takes the match back.
MatchVernet == [][\A b \in Bygg : match[b] = "adresse" => match'[b] = "adresse"]_vars

\* Every row of the query is accounted for when its file is applied: placed, with
\* the facts of its building, or in the log of that lookup.  The one exception is a
\* text with the separator, whose row may be passed over.
FullfortEllerLogget ==
  [][\A r \in Kjoringer, B \in Feilende : Anvend(r, B) =>
       \A b \in DOMAIN rader[r] :
         \/ rader[r][b].tekst \in Delt
         \/ b \in spor' \/ (status'[b] \notin Uloste /\ fakta'[b] # Ingen)]_vars

Entydig(b) == tekst[b] # Ingen /\ \E v \in MedBygg : Treff[tekst[b]] = {v}

\* What the Matrikkel can answer is answered in the end, whichever calls and blocks
\* fail on the way: an address with one hit and one building becomes complete.
BlirFullfort ==
  \A b \in Bygg : Entydig(b) ~> \/ ~ Entydig(b)
                                \/ b \in forsinket
                                \/ status[b] = "manuell"
                                \/ status[b] = "matrikkel" /\ fakta[b] # Ingen

\* An address an editor set stays as set, whatever runs are under way, unless one of
\* them had read it before (then it may be overwritten, see README.md).
ManueltBlir ==
  [][\A b \in Bygg : status[b] = "manuell" /\ (\A r \in Kjoringer : b \notin DOMAIN rader[r]) =>
       /\ status'[b] = "manuell" /\ sted'[b] = Manuelt
       /\ \A r \in Kjoringer : b \notin DOMAIN rader'[r]]_vars
=============================================================================
