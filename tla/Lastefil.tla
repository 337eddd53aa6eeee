------------------------------- MODULE Lastefil -------------------------------
(***************************************************************************)
(* What a load file says: the rows of the database and what the SQL makes    *)
(* of an extract, that generer_sql of etl/last_inn.py or etl/synk.py wrote.  *)
(* Two modules say how it is applied: Innlasting as it runs, UdeltLast what   *)
(* it amounts to.  The vocabulary is given: Kodeverk models how it arises.   *)
(*                                                                         *)
(* An extract of a kommune (uttrekk) is Feilet (the fetch failed) or a      *)
(* record of sequences, in the order of the JSON:                           *)
(*   bygg     [id, verdi, gate, myk, feil]   verdi stands for name and      *)
(*            district; myk: a field is unusable and replaced, the row is   *)
(*            loaded; feil: the database rejects the row                    *)
(*   ressurs  [id, verdi, lt, myk]   verdi stands for name and capacity     *)
(*            (ForStor: more than INTEGER holds), lt for rescategory_id     *)
(*   plass    [b, r]   building_resources                                   *)
(*   lenker   [r, kode]   resource_activities and resource_facilities       *)
(***************************************************************************)
EXTENDS Naturals, Sequences, FiniteSets

CONSTANTS Kommune, ByggId, RessursId,
          Kode,        \* the codes the master knows
          Fremmed,     \* codes it does not know
          Innhold,     \* names, districts and capacities
          ForStor, Feilet,
          Gate,        \* address texts
          Filer,       \* the files: functions from a kommune to an extract
          Rekke,       \* the kommuner in the order of KOMMUNER (helpers.py)
          Ingen        \* no such row; no value

Adresser   == [tekst : Gate, geokoding : {"ukjent", "feilet", "matrikkel", "manuell"}]
Ressurser  == [verdi : Innhold, lt : Kode \cup {Ingen}, bygg : ByggId \cup {Ingen}]

ByggRad    == [id : ByggId \cup {Ingen}, verdi : Innhold, gate : Gate \cup {Ingen},
               myk : BOOLEAN, feil : BOOLEAN]
RessursRad == [id : RessursId \cup {Ingen}, verdi : Innhold \cup {ForStor},
               lt : Kode \cup Fremmed \cup {Ingen}, myk : BOOLEAN]
PlassRad   == [b : ByggId \cup {Ingen}, r : RessursId \cup {Ingen}]
LenkeRad   == [r : RessursId \cup {Ingen}, kode : Kode \cup Fremmed \cup {Ingen}]
Uttrekk    == [bygg : Seq(ByggRad), ressurs : Seq(RessursRad),
               plass : Seq(PlassRad), lenker : Seq(LenkeRad)]

ASSUME Uttrekkene == /\ Filer \subseteq [Kommune -> Uttrekk \cup {Feilet}]
                     /\ Rekke \in Seq(Kommune) /\ Kommune = {Rekke[i] : i \in DOMAIN Rekke}
ASSUME IngenTom == /\ Ingen \notin ByggId \cup RessursId \cup Gate \cup Innhold \cup Kode \cup Fremmed
                   /\ Ingen \notin Adresser \cup Ressurser \cup {TRUE}
                   /\ ForStor \notin Innhold

----------------------------------------------------------------------------
(* The rows of the database.                                               *)

RByggnad(k, b)     == <<"bygning", k, b>>
RAdresse(k, b)     == <<"adresse", k, b>>
RRessurs(k, r)     == <<"ressurs", k, r>>
RLenke(k, r, kode) == <<"lenke", k, r, kode>>
RKommune(k)        == <<"kommune", k>>

Rader == {RByggnad(k, b) : k \in Kommune, b \in ByggId}
    \cup {RAdresse(k, b) : k \in Kommune, b \in ByggId}
    \cup {RRessurs(k, r) : k \in Kommune, r \in RessursId}
    \cup {RLenke(k, r, kode) : k \in Kommune, r \in RessursId, kode \in Kode}
    \cup {RKommune(k) : k \in Kommune}

Lenkerader(k) == {RLenke(k, r, kode) : r \in RessursId, kode \in Kode}

\* The value of a row of its table.
AvTabellen(rad, verdi) ==
  verdi # Ingen => /\ rad[1] = "bygning" => verdi \in Innhold
                   /\ rad[1] = "adresse" => verdi \in Adresser
                   /\ rad[1] = "ressurs" => verdi \in Ressurser
                   /\ rad[1] \in {"lenke", "kommune"} => verdi = TRUE

----------------------------------------------------------------------------
(* What generer_sql makes of an extract.                                   *)

Verdier(f) == {f[i] : i \in DOMAIN f}

\* The members of the sequence that are in S, in order: SelectSeq, by a function that
\* can be reasoned about.
Utvalg(rader, S) ==
  LET utvalg[i \in 0..Len(rader)] ==
        IF i = 0 THEN <<>>
        ELSE IF rader[i] \in S THEN Append(utvalg[i - 1], rader[i]) ELSE utvalg[i - 1]
  IN  utvalg[Len(rader)]

MedId(rader) == Utvalg(rader, {rad \in Verdier(rader) : rad.id # Ingen})

KjenteBygg(u) == {rad.id : rad \in Verdier(u.bygg)}
KjenteRessurser(u) == {rad.id : rad \in Verdier(u.ressurs)}

\* bygg_for_ressurs: the first building_resources row with a building of the extract.
ByggFor(u, r) ==
  LET treff == {i \in DOMAIN u.plass : u.plass[i].r = r /\ u.plass[i].b \in KjenteBygg(u)}
  IN  IF treff = {} THEN Ingen
      ELSE u.plass[CHOOSE i \in treff : \A j \in treff : i <= j].b

\* Links that become an INSERT.
Lastbare(u) ==
  Utvalg(u.lenker, {l \in Verdier(u.lenker) : l.r \in KjenteRessurser(u) /\ l.kode # Ingen})

\* Deviations known when the SQL is written.
Leseavvik(u) ==
  IF u = Feilet THEN {<<"searchdataall", Ingen>>}
  ELSE {<<"buildings", rad.id>> : rad \in {x \in Verdier(u.bygg) : x.id = Ingen \/ x.myk}}
  \cup {<<"resources", rad.id>> : rad \in {x \in Verdier(u.ressurs) : x.id = Ingen \/ x.myk}}
  \cup {<<"koblinger", l>> : l \in Verdier(u.lenker) \ Verdier(Lastbare(u))}
  \cup {<<"building_resources", p>> : p \in {x \in Verdier(u.plass) :
                                      x.b \notin KjenteBygg(u) \/ x.r \notin KjenteRessurser(u)}}

\* ukjente_id_er_sql: ids used by resources and links that the master lacks.
UkjenteId(u) ==
  IF u = Feilet THEN {}
  ELSE {<<"ukjent_id", x>> :
          x \in ({rad.lt : rad \in Verdier(MedId(u.ressurs))}
                 \cup {l.kode : l \in Verdier(Lastbare(u))}) \ (Kode \cup {Ingen})}

Setning(type, rad) == [type |-> type, rad |-> rad]

\* Faulty variant of Setninger: the links are deleted before the rows are upserted.
SetningerSlettForst(u) ==
  LET av(type, rader) == [i \in DOMAIN rader |-> Setning(type, rader[i])]
  IN  IF u = Feilet THEN <<Setning("registrer", Ingen), Setning("commit", Ingen)>>
      ELSE <<Setning("registrer", Ingen), Setning("slett", Ingen)>>
           \o av("bygg", MedId(u.bygg))
           \o av("ressurs", MedId(u.ressurs))
           \o av("lenke", Lastbare(u))
           \o <<Setning("commit", Ingen)>>

\* The statements of one kommune's transaction, in order.
Setninger(u) ==
  LET av(type, rader) == [i \in DOMAIN rader |-> Setning(type, rader[i])]
  IN  IF u = Feilet THEN <<Setning("registrer", Ingen), Setning("commit", Ingen)>>
      ELSE <<Setning("registrer", Ingen)>>
           \o av("bygg", MedId(u.bygg))
           \o av("ressurs", MedId(u.ressurs))
           \o <<Setning("slett", Ingen)>>
           \o av("lenke", Lastbare(u))
           \o <<Setning("commit", Ingen)>>

\* The text of the file, by extract.
Tekst == [u \in UNION {{f[k] : k \in Kommune} : f \in Filer} |-> Setninger(u)]

----------------------------------------------------------------------------
(* What its statements write.                                              *)

\* SELECT ... WHERE r.ekstern_id = ... AND t.id = ...: no row if the master lacks the code
\* or the resource of the link has no id.
Lenkerad(k, l) == IF l.kode \in Kode /\ l.r # Ingen THEN {RLenke(k, l.r, l.kode)} ELSE {}

\* Faulty variant of NyAdresse: DO UPDATE without its WHERE.
NyAdresseAlltid(gammel, gate) ==
  IF gammel = Ingen THEN [tekst |-> gate, geokoding |-> "ukjent"]
  ELSE [gammel EXCEPT !.tekst = gate]

\* The main address: inserted, or rewritten unless it is geocoded or manual.
NyAdresse(gammel, gate) ==
  IF gammel = Ingen THEN [tekst |-> gate, geokoding |-> "ukjent"]
  ELSE IF gammel.geokoding \in {"ukjent", "feilet"} THEN [gammel EXCEPT !.tekst = gate]
  ELSE gammel

\* ON CONFLICT DO UPDATE sets name, capacity, type and building; active and bookable,
\* which only the INSERT sets, are left out.
NyRessurs(rad, b) ==
  [verdi |-> rad.verdi, lt |-> IF rad.lt \in Kode THEN rad.lt ELSE Ingen, bygg |-> b]

----------------------------------------------------------------------------
(* What an extract may be assumed to be; a theorem that needs it says so.     *)

\* Extracts of a kommune, also from different files, share a resource: its loads meet at
\* that row.
FellesRessurs ==
  \A f, g \in Filer, k \in Kommune : f[k] # Feilet /\ g[k] # Feilet =>
    \E a \in Verdier(f[k].ressurs), b \in Verdier(g[k].ressurs) : a.id = b.id /\ a.id # Ingen

\* An extract has an id once.
EntydigeId ==
  \A f \in Filer, k \in Kommune : f[k] # Feilet =>
    /\ \A a, b \in Verdier(MedId(f[k].bygg)) : a.id = b.id => a = b
    /\ \A a, b \in Verdier(MedId(f[k].ressurs)) : a.id = b.id => a = b

\* An extract lists a building once.
ByggEnGang ==
  \A f \in Filer, k \in Kommune : f[k] # Feilet =>
    LET bygg == MedId(f[k].bygg)
    IN  \A i, j \in DOMAIN bygg : bygg[i].id = bygg[j].id => i = j
=============================================================================
