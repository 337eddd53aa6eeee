# A TLA+ model of the Aktiv kommune master database

The master database collects buildings, resources (rooms, halls, courts) and three code lists from
the booking systems of a set of kommuner. A Python ETL reads one JSON endpoint per kommune and
writes SQL; `psql` applies the SQL to PostgreSQL; a Spring backend migrates the schema and answers
searches. This directory holds TLA+ modules of the parts of that program whose correctness depends
on order, failure or accumulated state, the TLC configurations that check them, and proofs.

Paths below are relative to the repository (`src/`). Names of definitions follow the code, which is
mostly Norwegian: `avvik` is a deviation (a row of `synk_avvik`), `uttrekk` an extract (a row of
`kildeuttrekk`, one fetch from one source), `kodeverk` a code list, `bygg`/`synk` the two modes
build and sync, `last` a load.

Reading order: `Vokabular`, `Kodeverk`, `KodeverkSamtidig`, `Normaliser` (the code lists and the links to them);
`Lastefil`, `UdeltLast`, `Transaksjon`, `Innlasting` (a kommune's data); `Geokoding`; `Sporbarhet`; `Kjoring`, `SynkTid` (the driver); `Sok`
(the backend). The proofs of X are in `XProofs`, its instances for TLC in `MCX`; those of `Normaliser` are in
`KodeverkProofs`. Definitions commented *Faulty variant* are
plausible bugs of the definition named; nothing uses them but the mutants of `PROJECT.json`.

## 1. The system

### 1.1 Components

| Component | Code | State it keeps | Operations |
|---|---|---|---|
| Pipeline driver | `etl/run.sh` | a phase (in the process), the files under `$UT` | `build`, `sync`, `geocode`, `prune`, `daemon` |
| Fetch and SQL generation | `etl/last_inn.py`, `etl/synk.py`, `etl/helpers.py` | none; writes `$UT/<mode>.sql` | `hent`, `generer_sql`, `kodeverk_sql`, `i_blokk`, `ukjente_id_er_sql` |
| Demo normaliser | `etl/demo_normalisering/normaliser.py` | `$UT/normalisert/*.json` | fetch each kommune, map its local ids to master ids, write a file |
| Code lists | tables `lokaletype`, `aktivitet`, `fasilitet` | id, name, parent | created by a build, compared by a sync, edited by the owner |
| Kommune data | `bygning`, `adresse`, `ressurs`, `ressurs_aktivitet`, `ressurs_fasilitet`, `fagsystem_instans` | one row per source id | upserted or replaced by each load |
| Trace | `kildeuttrekk`, `synk_avvik`, `v_synk_avvik_gjeldende` | fetches and their deviations | `registrer_kildeuttrekk`, `logg_avvik`, `rydd_kildeuttrekk`, prune |
| Matrikkel geocoding | `etl/matrikkel_adresse.py`, `etl/geocode_query.sql` | geocoding status and matrikkel data | read addresses, look them up over SOAP, update |
| Backend | `backend/src/main/java/**` | none of its own | migrate, search |

### 1.2 How they interact

* `run.sh` calls the Python scripts, which **only write SQL to a file**, and applies the file
  afterwards with `psql -q -f`, which goes on after an error. What the scripts knew at the time of the fetch is applied
  later, to whatever the database holds by then.
* The file has **one transaction per kommune**. Inside it each building has a PL/pgSQL block of its
  own with an exception handler (`i_blokk`); resources and links have none. An error outside a block
  aborts the transaction: every later statement up to COMMIT is refused, COMMIT rolls back, and
  `psql` goes on with the next kommune.
* `run.sh daemon` is one process; `run.sh build`, `sync` and a load piped from the host
  (`etl/README.md`) can run beside it, on the same rows of the same database.
* The code lists are shared by all kommuner: what one kommune's load creates, the next one's finds.
* The geocoder writes to the `adresse` and `bygning` rows that the load upserts; the load skips
  addresses whose `adresse.geokoding` says they are settled.
* The trace is written by every run and trimmed by two deletions (`rydd_kildeuttrekk` at the end of
  a load, `prune_avvik` each night), while a view derives the *current* deviations from it.
* The backend creates the schema; the daemon waits for it (`wait_for_schema`).

### 1.3 What is hard, and what must hold

| Component | Hard behaviour | What makes it correct |
|---|---|---|
| Code lists | parents are set by different transactions from sources that may contradict each other, rows in any order, NULLs in comparisons; two builds at once | the lists stay usable (unique names, known parents, no cycle), only grow, and every difference is logged |
| Demo normaliser | a link goes through local id, name, concept and master id; files of older releases are loaded beside new ones; one exception ends the script | a link means what its source said; what is mapped is linked or logged |
| Kommune load | statements of two sessions interleave, wait for row locks with old snapshots, deadlock; rows fail; the process dies | a load that commits has done what it would have done undivided; links are those of one extract; nothing is lost silently; settled addresses are left alone; files come to an end |
| Trace | files applied late, out of order, or not at all; two deletions against a view | references stay whole; a deviation stays current until its own source is loaded again; it is the newest fetch that is shown |
| Driver | faults anywhere in a multi-step nightly run; a record that ends the scripts; stale files; an empty database that must be seeded; clocks that change | a vocabulary comes to be; what a source holds reaches the master; a fetch that failed is visible; one run per night, at the hour |
| Geocoding | minutes of SOAP calls between read and update; overlapping runs; calls and blocks that fail one by one | a place belongs to the text it stands by; a match is not taken back; what is set by hand stays; every row is completed or logged, and completed in the end |
| Search | two statements for one answer, four for the panel, a list sorted anew for each page, 32-bit paging | buildings and resources of an answer agree; walking the pages shows everything once; each choice has hits |

`PROJECT.json` lists each of these hazards at its line, with the properties that cover it.

## 2. The modules

### 2.1 Vokabular: what a code list promises

An abstract specification of `navn` and `forelder`. A step either *extends* the list
(new concepts, the old ones untouched) or lets the *owner* change one concept; after each step names
are unique, parents exist and there is no cycle. `Asyklisk` is stated without recursion: each non-empty
set of concepts has a member whose parent lies outside the set. For finite lists that is the same as
the absence of cycles, and it can be used in proofs.

A third variable, `forvaltet`, is history: it counts the owner's edits, so a step that changes a concept which was there and is not
the owner's (a load, a commit) is no step of `Vokabular`. Without it a load that rewrote one concept would pass as an edit.

### 2.2 Kodeverk: how the concepts arrive

One code list; the three tables go through the same code. Rows are records `[id, navn, forelder]`.

| Definition | Code |
|---|---|
| `Lesbar`, `Konsepter`, `Leseavvik` | the Python loop of `kodeverk_sql`: unreadable rows and repeated ids are logged and left out |
| `Lastbar` | `som_heltall("")` is `(None, None)`, so an empty id passes and becomes the word `None` in the VALUES list |
| `Opprettes`, `NyeNavn` | `INSERT ... ON CONFLICT DO NOTHING RETURNING id`, row by row: id **or** name taken |
| `NyeForeldre` | `UPDATE ... WHERE t.id = ANY(ny) AND EXISTS (...)`, after the INSERT |
| `Sjekk` | the `$chk$` block, with `IS DISTINCT FROM` |
| `Bygg` / `Synk` / `Avbrutt` | the transaction of `last_inn.py` / of `synk.py` / one that fails |
| `Forvalt` | the owner edits a row by hand; UNIQUE and REFERENCES hold; at most `MaksForvaltninger` times |

A load of a code list is one atomic action here; `KodeverkSamtidig` takes it apart. `avvik[k]` shows the
latest committed load only. `forvaltet` counts the edits of `Forvalt`, as in `Vokabular`.

### 2.3 KodeverkSamtidig: two builds at once

The same code, statement by statement, for sessions at READ COMMITTED: each row of the INSERT waits while another
transaction holds its id or its name (`Venter`), takes what is committed as taken (`Tatt`), and the later
statements see whatever has been committed by then (`Ser`). `SettForeldre` is the UPDATE of the parents, `Sjekk` one of
the three queries of `$chk$`, `resten` the rest of the kommune's transaction. `NavnI(tabell)` and
`ForelderI(tabell)` are the refinement mapping to the variables of `Kodeverk` and `Vokabular` (`forvaltet` is mapped to itself): `Kodeverk`'s operators
(`Konsepter`, `Leseavvik`, `Sjekk`) are used through it, and `LoverVokabular` is the specification of `Vokabular` under it.
Each source delivers one collection (`levert`, chosen at the start), which both sessions may be loading at the same time.

### 2.4 Normaliser: what a link means

EXTENDS `Kodeverk`, with no edits by the owner. A release (`Utgave[u]`) has a vocabulary, a mapping from source names to concepts, and the excluded
names of the two other code lists (`EKSKLUDER` is one set for all three).

| Definition | Code |
|---|---|
| `Begreper`, `IdFor`, `SamlingAv` | the vocabulary without its exclude facet, `ider`, and the collection written for `Kodeverk` to load; a concept whose `broader` is unknown gets no parent |
| `Oversett` | `oversett`: concepts of a name, less the excluded ones; none for a name that is not mapped |
| `Koder`, `Kart`, `NyeLenker` | rows without an id or a name are skipped, the last row with an id counts, one code may become several links |
| `Oversettes` | `ider[n]` would raise KeyError: the script ends and the file stays as it was |
| `Skriv`, `Oppgrader` | one kommune of `main`; a new release of the normaliser |
| `LastBygg`, `LastSynk`, `Lenk` | a build or a sync of the file: `Kodeverk`'s `Bygg` or `Synk`, then the links are replaced, and ids the master lacks are logged once |

`lastet` and `bygd` are history. One code list is modelled; a lokaletype is the case of at most one link for a resource.

### 2.5 Transaksjon: what the load relies on of PostgreSQL

External. Committed rows `db`, the rows each session has written `ny[s]` (which are also its locks), and
the snapshot `ser[s]` of a statement that waits. `Oyeblikk` gives a statement the rows it saw when it
*began* to wait; `Verdi` gives the row as it is when it goes on. That difference is what makes READ
COMMITTED hard: a `DELETE` that waited deletes the rows of its old snapshot and does not see the rows
that were inserted meanwhile. `Over` lays the values of a statement over those the session had written before.

### 2.6 Lastefil, UdeltLast: what a load file says and what it promises

`Lastefil` has what no session, lock or snapshot plays a part in: the extracts, the rows of the database, and what
`generer_sql` makes of an extract. A file is a function from kommune to extract; an extract becomes a sequence of statements
(`Setninger`), and `NyAdresse`, `NyRessurs` and `Lenkerad` say what one of them writes. The constants and premises of the loads are
here. Two modules extend it: `Innlasting`, how a file is applied, and `UdeltLast`, what that amounts to.

`UdeltLast` is an abstract specification with two variables, `db` and `avvik`. A load of a kommune is **one step** (`Last`): it writes
what the extract says over the rows that are there at that moment and leaves every other row as it was. Which buildings fail is
a choice (`feilet`), since a lock circle may strike any of them; each that fails is logged, and a resource of it is given its building
only if an earlier load brought it (`Bygget`). An extract with a resource that the database rejects has no step. The other
steps are the failed fetch (`IkkeHentet`) and the status of an address, set by the geocoder or an editor.

### 2.7 Innlasting: applying a file

Sessions run files, and each statement is a step. The module EXTENDS `Lastefil`, instantiates `Transaksjon`, and `UdeltLast` as
`Hel`; the refinement mapping is the identity on `db` and `avvik`, and what a session holds is hidden.

| Definition | Code |
|---|---|
| `Setninger` | the order in which `generer_sql` emits statements; a failed fetch has its own short branch |
| `Leseavvik`, `UkjenteId` | deviations known while the SQL is written; `ukjente_id_er_sql` at the end |
| `Registrer` | `BEGIN`, `registrer_kildeuttrekk`, upsert of the kommune |
| `LastBygg`, `NyAdresse`, `ByggFeiler` | `i_blokk`: building and main address; the address keeps its text when it is geocoded or manual; an exception is logged as `db_feil` |
| `LastRessurs`, `NyRessurs`, `RessursAvvises` | the upsert of a resource, in no block; capacity beyond INTEGER |
| `SlettLenker`, `LastLenke` | `DELETE` of the kommune's links, then one `INSERT ... SELECT` per link |
| `Fullfor` | unknown ids, clean-up, COMMIT |
| `VentPaLaas`, `Vranglaas`, `Avbryt` | lock waits, PostgreSQL's deadlock detection, abort of a transaction |
| `Krasj` | the container or connection dies |
| `Geokodet`, `SattForHand` | the geocoder and an editor, writing the same rows |

`lastet[k]` and `avvik[k]` are history: the extract of the latest committed load and what it logged.
`Tekst` is the text of the file, worked out once per extract; `Utvalg` is the selection of rows that its loops make. The two link tables are one in the model, since each is deleted and filled in the same way; likewise
the address and the building are two rows locked by one block.

### 2.8 Geokoding: a lookup beside the others

`do_geocode` of `run.sh`: a query, minutes of SOAP calls, and a file applied at the end. State is per
building, since a building has one main address (`ux_adresse_hovedadresse`).

| Definition | Code |
|---|---|
| `Mangler`, `Les` | `geocode_query.sql`: not manual, has a text, and lacks a place, a building number or a `matrikkelinfo` row |
| `Veger`, `AdresserVed`, `Treff` | the calls that search: the streets with the name (there may be several), the road addresses of each, and those with the number and letter of the text; none for a text without a number |
| `Kandidater` | by street code and number when the address is placed, else `Treff` of the text |
| `MedEnhet`, `MedBygg` | the road addresses with a cadastral unit; those with exactly one building, with a number |
| `RadenDelt`, `Ubehandlet` | a text with the character that separates the fields of a row (`Delt`): the postal place becomes the kommune and the search fails, or the kommune is empty and the row is passed over |
| `Finner`, `FinnerIkke`, `KallFeiler` | exactly one hit; none or several; a `MatrikkelFeil` in the search or in any set of the later calls |
| `Svar` | what the body of the loop writes for a row, by which calls failed: `matrikkelinfo`, the address with its building, the building's facts or `ikke_funnet`, and the log |
| `Anvend`, `Gjores`, `NyStatus`, `NyttSted`, `NyMatch`, `NyeFakta`, `NyInfo`, `Logget` | the file: one UPDATE by id per block, and what a rejected block leaves undone and logs |
| `Avbryt` | the script, `psql` or the container fails before COMMIT |
| `Last` | the upsert of the address by a load, with its condition on the status (the same as `NyAdresse` of `Innlasting`) |
| `SettAdresse`, `SettFakta` | an editor |

`rader[r]` is what run r read and `poster[r]` what it has written so far; between them and `Anvend` anything
may happen to the rows. Applying the file is one step. It is one transaction whose statements touch one
building each and decide on that building's rows alone, with a lock on each row until COMMIT, so another
writer comes before or after it building by building; what a reader sees of it in between is nothing. A
deadlock with a load strikes inside a block, which is a rejected block, or ends the transaction, which is `Avbryt`.
`forsinket` is history: buildings whose text a load changed while a run had read the old one. The Matrikkel
itself does not change, and an editor places addresses but does not reset them.

### 2.9 Sporbarhet: the trace

A source is a kommune or the Matrikkel, and the two leave different traces:

| | a kommune (`last_inn.py`, `synk.py`) | the Matrikkel (`matrikkel_adresse.py`) |
|---|---|---|
| registered as (`Kilde`) | its own name | `matrikkel` (`:413`) |
| logged as (`Avvikskilde`) | its own name | `matrikkel-adresse` (`:397`, `:403`) or `matrikkel-bygning` (`:576-627`) |
| time of the extract (`Hentet`) | that of the fetch, in the file | none in the file: `DEFAULT now()`, when it is applied (V1:517) |
| a fetch that fails | a file that logs it (`IkkeHentet`) | no file (`run.sh:169`), or a truncated one (`Avbrutt`) |
| file | `Skriv`, `IkkeHentet` | `SkrivMatrikkel` |

`KildeTil` says which source a deviation belongs to by what it is logged under; `GjeldendeFor(k)` is what the view has of source k in that
sense. The column `kilde` of the view does not say it: a query of the view for `matrikkel` finds nothing, whatever the lookup found.

`Anvend` is the transaction that applies a file, `Avbrutt` the one that is rolled back, `Eldes` the passing of
`AVVIK_RETENTION_DAYS`, `Prune` the nightly deletion. `Registrert` and `Logget` are what `registrer_kildeuttrekk` and `logg_avvik`
insert. `Beholdes` is `rydd_kildeuttrekk` (two newest of the source), `UtenUttrekk` is `ON DELETE SET NULL`, `Gjeldende` is the view.
A load is one transaction and so is one step. `siste` is history: of each source the latest fetch among those loaded, by `Hentet`,
with what it logged.

### 2.10 Kjoring: the driver

The daemon's phases `nede, venter, sjekk, normaliser, generer, anvend, sover`, with the files it leaves
behind between them. `Versjon` numbers the states of a source; `base[k]` is the version loaded for
kommune k, `norm[k]` the version in its normalised file, `fil[k]` the version in the SQL file, `sett[k]` (history) the version
at the source when the run began, and `tapt` (history) the kommuner whose transaction has not been
committed in this run. `logget` is the set of kommuner whose latest extract says the fetch failed.
`NORMALISER_DEMO` is chosen each time the container starts. A version in `Giftig` has a record that raises an exception in
`generer_sql` (`GenererGift`: no kommune at all is applied); one in `GiftigNorm` raises it in the normaliser already, and
then the kommuner after it keep their old files (`Normalisert`).

### 2.11 SynkTid: when the night comes

`seconds_until_sync` and the loop of `daemon`, hour by hour in UTC, with a local time that jumps at 01:00 UTC of one night
(`Lokal`). `Tidspunkt(d, h)` is the set of moments that are the hour h of day d: none or two on the day of the change. `IDag`
and `IMorgen` are the two calls of `date`, `Maal` where the sleep may end: `sleep` is given a number of seconds, worked
out before the clocks change. A run takes any number of hours, and the container may be stopped at any time.

### 2.12 Sok: the search

| Definition | Code |
|---|---|
| `Gyldig`, `SorterGyldig`, `Sorter`, `Normaliser` | `RessursSokService.normaliser`: what is answered with 400 (a kommune that is not four digits; lat, lon and radius that do not come together or are outside their limits; an order that is unknown or lacks its position), the order, the limits of the page |
| `Synlige`, `Treffer` | the view (active and bookable) and the filters of `treff`: activities are OR, facilities AND, NULL is in no list and within no radius |
| `Rader`, `AntallI`, `ByggRang`, `Nokkel`, `Plasseringer` | the two lists: GROUP BY, counts, and the orders PostgreSQL may return |
| `Offset`, `Side`, `Feiler` | LIMIT and OFFSET in Java's `int`, the total carried by the rows, and a negative offset |
| `Start`, `Spor`, `Bla` | one request, its two statements one after the other, and a client that walks on through the pages |
| `Tilbud`, `HentFiltre` | the four statements of the filter panel |
| `Last`, `SettSynlig` | commits between any two statements; a load leaves `synlig` of a row it has as it was |

`Rad` and `Parametre` are the types of a row of the view and of a request, as the assumption `Typer` has them of the constants;
`annet` is any word for the order that the code does not know. `Kommuneord` are the words that clients send for a kommune and `Kommunenr` those of
four digits, `Kommune` among them. Of `lat` and `lon` a request has none, `ett` (one of them), both outside their ranges (`utenfor`), or
both within (`helt`). A `lat` that is not a number (`NaN`) passes both comparisons of the code and is not among the requests.
`Side` computes over a permutation chosen anew each time, so equal keys may change places from one request to the next.
Only the id in ORDER BY keeps them still. `oyeblikk` is history: the tables committed since the walk began.

### 2.13 How the modules compose

`Innlasting` and `UdeltLast` EXTEND `Lastefil`; `Innlasting` instantiates `Transaksjon` on its own sessions and rows, and
`UdeltLast` as `Hel`. `Normaliser` EXTENDS `Kodeverk` and turns its files into loads of it. `Kodeverk` and
`KodeverkSamtidig` both instantiate `Vokabular` as `V`, the second through a refinement mapping. `Kodeverk`, `Innlasting` and
`Sporbarhet` describe three concerns of the same transaction: the code lists it creates, the rows it
writes and the trace it leaves. They share no row, so they are separate modules; what couples them is
that the transaction is rolled back as a whole, and each of them models that (`Avbrutt`, `Avbryt`,
`Avbrutt`). `Kjoring` is one level up: it sees each transaction as one step, and `SynkTid` is the moment its action
`Natt` comes. `Geokoding` and `Innlasting` meet in the row of the address: each has the other as an action on it (`Last`;
`Geokodet`). `Sok` has both as commits between its statements.

## 3. What is checked

| Run | Bounds | Properties | Distinct states |
|---|---|---|---|
| `kodeverk` | 3 ids, 3 names, one source, 8 collections that contradict each other; up to 4 edits by the owner | `TypeOK`, `VelFormet`, `LoverVokabular`, `AvvikDekker` | about 20 900 |
| `kodeverk_samtidig` | 2 sessions, 2 sources, 3 ids, 3 names, 6 collections; one edit by the owner | `TypeOK`, `RentSamtidig`, `LoverVokabular`, `AvvikDekkerSamtidig` | about 1 600 000 |
| `normaliser` | 2 sources, 3 releases, 3 answers | `LenkeneMener`, `RentVedKontrakt`, `KartlagtLenkesEllerLogges` | about 24 500 |
| `innlasting_overlapp` | 2 sessions, 1 kommune, 4 extracts | `KoblingerErEttUttrekks`, `FilenBlirFerdig`, `LastesUdelt` | about 118 000 |
| `innlasting_feil` | 1 session, 2 kommuner, extracts that fail or hold bad rows; geocoder and editor | `TypeOK`, `LastetEllerLogget`, `AdresseVernet`, `AndreKommunerLastes` | about 273 000 |
| `geokoding` | 1 building, 4 texts, 4 road addresses in 3 streets, 2 runs, 2 faults | `TypeOK`, `StedErTekstens`, `MatchVernet`, `FullfortEllerLogget`, `ManueltBlir`, `BlirFullfort` | about 108 000 |
| `sporbarhet` | a kommune and the Matrikkel, 1 problem, 4 files | `TypeOK`, `ReferanseHel`, `GjeldendeErSisteHenting`, `GjeldendeVernet`, `RyddetEtterLast` | about 742 600 |
| `kjoring` | 2 kommuner, 4 versions of which 2 end a script, 2 faults, both values of the setting | `TypeOK`, `FerskEllerLogget`, `VokabularBlirTil`, `KildenNarMasteren` | about 519 000 |
| `sok` | 3 resources, 3 buildings, 2 kommuner, 11 valid requests and 9 that each fail one check, one commit during a walk, integers of six bits | `TypeOK`, `BladdAlt`, `SvarHenger`, `SideUtenforErTom`, `PanelTreffer` | about 18 700 |
| `synktid` | 76 hours, 4 values of `SYNK_TID`, both changes of the clocks and none, 2 restarts | `SoverTilNeste`, `EnGangPerDogn` | about 957 000 |

What they show:

* **`VelFormet`**: parents are written by different loads, each only for the ids it created itself, and no
  load knows the others. Still no cycle arises across sources, because a row created now can only be
  the parent of rows created later or in the same load. `kodeverk` has sources that put a under b and b
  under a, a name that moves between ids, and an owner who renames and moves concepts between loads.
* **`LoverVokabular`**: the detailed specification implements `Vokabular`. The refinement mapping is the
  identity on `navn`, `forelder` and `forvaltet`; the log is hidden. No load changes the name or the parent of a concept it found, whatever
  its own source says of it: `NyeNavnOverskriver` renames one, to a free name and without a cycle, and is found since no edit was counted.
* **`AvvikDekker`**: after a committed load each row of the source agrees with the table or has a
  deviation in the log. NULL parents, repeated ids and taken names are the cases that could slip.
* **`RentVedKontrakt`**: the other direction. Sources that keep the contract of `etl/README.md` get an
  empty log from a build, in any order, with children before parents.
* **`LoverVokabular` and `AvvikDekkerSamtidig` of `kodeverk_samtidig`**: two builds that contradict each other and interleave
  statement by statement still implement `Vokabular`, and what they leave undone they log. It is not obvious that no cycle closes,
  since a session sees nothing of what the other has not committed: it holds because the second of two commits either has waited for
  the first or has found none of its rows, and so has left those parents out; its `$chk$` block then says so. Had the UPDATE
  reached rows of others (`MedForeldreAlle`), the cycle would close.
* **`RentSamtidig`**: sources that keep the contract are not given deviations by each other, although one of two
  sessions finds half of the list taken: the UNIQUE index makes it wait, and when it goes on it sees all of the other's rows.
* **`LenkeneMener`**: each committed link is a concept that the source's own name maps to, by the mapping its file was made with, under
  the name the master has for the id *now*, whichever releases were built and synced in between. It rests on the rule that ids are
  never reused, which the releases of the run keep.
* **`KartlagtLenkesEllerLogges`**: what a resource's codes map to is linked or logged at each load, and logged only if no build
  has seen the release. The order inside the file (the vocabulary before the links) is what it rests on.
* **`AndreKommunerLastes`**: a record the database rejects outside a block costs its own kommune only; the others of the
  file are loaded, from this file (`psql -q -f` goes on after an error).
* **`KoblingerErEttUttrekks`**: two loads of one kommune never leave a mixture of their links, in spite
  of the stale snapshot of a waiting `DELETE`. What serialises them is that the rows upserted *before*
  the `DELETE` are locks: with `SetningerSlettForst` (links deleted first) TLC finds the mixture. The
  property therefore rests on the premise `FellesRessurs`: the extracts of a kommune share a resource, the normal case for two
  fetches of one source. A building in common is not enough: its block has an exception handler, so a deadlock that
  strikes inside it is caught, the building's rows are let go, and the load goes on holding nothing of the other's. The other
  row both touch, `fagsystem_instans`, is inserted with ON CONFLICT DO NOTHING and so is a lock only the first time. Nothing
  else outside a block is locked before the `DELETE`, so the premise cannot be weakened by much.
* **`LastetEllerLogget`**: what the latest committed load delivered is in the database or the load says why
  not, with building, type and address; failed blocks, unknown ids and lock circles are the ways to lose it. The premise is `EntydigeId`:
  of two rows of an extract with one id the last one stands, and no deviation says so.
* **`AdresseVernet`**: the load's condition on `adresse.geokoding` is evaluated on the row as it is when the
  lock is obtained, so an address that is settled while the load waits or works is left alone.
* **`LastesUdelt`**: `Innlasting` implements `UdeltLast`. A load runs for minutes among others that write the same rows, waits with
  old snapshots, loses blocks to lock circles, and may be lost; yet what its COMMIT makes visible is what one undivided step
  over the rows of that moment would have made. `innlasting_overlapp` checks it; what that run leaves out
  (failed fetches, rejected rows, addresses that change meanwhile) is in the proof, and the property also holds of the instance of
  `innlasting_feil`. It says more than `KoblingerErEttUttrekks` and `LastetEllerLogget` do: that a load changes
  no row but its own, that a building that failed is left exactly as it was, and when a resource may stand without its building.
* **`FilenBlirFerdig`**: opposite lock orders do not stop a file for ever.
* **`StedErTekstens`**: two runs that overlap, one with the text of yesterday, and a load in between: the
  place of an address is still that of its text. It holds because the load leaves a placed address alone and a
  run that reads a placed address does not place it again. The exception is real: if a load
  changes the text *while a run has it open*, the run writes the place of the old text, sets `matrikkel`, and no later
  load corrects the text. `LastAlltid` and `KandidaterGjettet` show what the two guards are for.
* **`MatchVernet`**: a run that failed and commits after one that succeeded does not take back the match
  (`AND matrikkel_match='ikke_forsokt'`).
* **`FullfortEllerLogget`**: when the file is applied each row read is placed, with the facts of its building,
  or there is a deviation, whichever calls failed and whichever block was rejected. Texts with the separator are
  excepted: their row may be passed over without a word (`Ubehandlet`).
* **`ManueltBlir`**: an address set by hand stays as set and is not read again. The exception is a run that had read it before.
* **`BlirFullfort`**: an address with one hit, and one building there, is completed in the end; the query's three
  terms see what any partial failure left undone (`ManglerSted` is the query with one of them).
* **`ReferanseHel`, `GjeldendeVernet`**: neither of the two deletions takes away what the view shows, and
  no deviation is left pointing at nothing.
* **`GjeldendeErSisteHenting`**: files of a kommune applied in any order leave the view at the newest *fetch*, not at
  the newest *load*, and the clean-up agrees with the view on what newest means; of the Matrikkel, whose files have no time, it is the
  newest load. With no time in any file (`RegistrertNaa`) an old file would hide what a newer fetch found.
* **`FerskEllerLogget`**: reading the endpoints directly, a kommune committed in the latest run has data at
  least as new as the start of the run, or its failed fetch is in the log.
* **`VokabularBlirTil`, `KildenNarMasteren`**: with finitely many faults the master gets a vocabulary,
  and what a source holds (or something newer) reaches it, if the sources are again and again without a record that ends a
  script (`UtenGift`). Without that premise both are false: one such record of one kommune keeps every kommune out for
  as long as it is there, since the script writes one file for all of them and a failed script applies nothing.
* **`BladdAlt`**: walking the pages while nothing is committed shows each row once, although rows with equal names or
  ranks may be sorted differently for each page; `NokkelUtenId` shows what the last key is for.
* **`SvarHenger`**: buildings and resources of an answer agree, counts and totals too, if nothing was committed between the two
  statements; `sok_samme_oyeblikk` is what happens otherwise.
* **`SideUtenforErTom`**: no hits and the total 0 mean that the page lies beyond the hits, and nothing else does, while the offset fits an `int`.
* **`PanelTreffer`**: each choice of the panel has a hit and each resource is found by each of its values, on a table that does not change
  meanwhile: the SQL of the panel and that of the search agree. A choice that goes stale by a commit in between is not ruled out.
* **`TypeOK`** of `sok`: what reaches the SQL is within every limit that `normaliser` states, kommune, position and radius too
  (`GyldigUtenGrense` has no largest radius). **`TypeOK`** of `innlasting_feil` is about types with its single session; that a row has one
  holder is in the theorem, for any number of sessions.
* **`SoverTilNeste`, `EnGangPerDogn`**: each sleep ends at `SYNK_TID` and passes none, and no day has two nightly runs, for runs of any
  length, any start, and a change of the clocks in the middle of the sleep, unless the day skips or repeats the hour
  itself. `MaalDognet` (a day is 24 hours) is what naming the local time to `date` avoids.

### 3.1 Where the program and its documents disagree

Two runs are expected to end in a counterexample; each states what a document says.

| Run | Says | Does |
|---|---|---|
| `kjoring_hentefeil` | `DEPLOY.md:129`: a kommune that fails to fetch is logged | with the demo normaliser the file of an earlier run is loaded again and nothing is logged |
| `sok_samme_oyeblikk` | `RessursSokService.java:35-36`: both searches run in one transaction, so buildings and resources are from the same moment | the transaction is READ COMMITTED, so each statement has a snapshot of its own, and a load may commit between them |

Other disagreements met while reading. They follow from the text of one statement, so no run is spent on them:

* `etl/README.md:205` says one bad record never stops the load. A resource is inserted outside a block
  (`last_inn.py:292`), so a capacity beyond INTEGER stops its kommune; a value of an unexpected type (`last_inn.py:217`, a
  `zip_code` that is a number) ends the script, and no kommune is loaded.
* `etl/README.md:189-191` says a capacity set by hand is not overwritten. `DO UPDATE SET kapasitet` has no condition (`last_inn.py:301`).
* `DEPLOY.md:87-88` says geocoding never covers what is resolved or set manually. `UPDATE ... WHERE id = ` has no
  other condition (`matrikkel_adresse.py:548`, `:616`): an address or a building number set while the lookup runs is
  overwritten, and a building number set earlier too, when the address or the `matrikkelinfo` row is missing.
* `etl/README.md:240` says a missing or invalid id is logged. The empty string in a code list is neither valid
  nor an error (`helpers.py:116`), becomes `None` in the SQL, and rolls the transaction back, log and all
  (`Avbrutt` of `Kodeverk`).
* `DEPLOY.md:97` says resources are updated from the source on each sync. `aktiv` and `bookbar` are left out of
  `DO UPDATE` (`last_inn.py:299`), so a resource the source deactivates stays in the search.
* `etl/README.md:230` and `:236` say cycles in the parents are found. A collection that is itself cyclic
  is created as it stands and then agrees with itself. `KontraktAsyklisk` is the assumption this leaves.
* `DEPLOY.md:98` says the two latest extracts are kept. The branch for a failed fetch
  (`last_inn.py:166-173`) does not call `rydd_kildeuttrekk`, so `RyddetEtterLast` speaks of successful
  loads only.
* `V1:677` speaks of the deviations of the latest run per source (`kilde`). The lookup registers `matrikkel` and logs as
  `matrikkel-adresse` and `matrikkel-bygning` (2.9). The view goes by the id of the extract and shows the right rows, but the `kilde`
  they have is not one of `kildeuttrekk`.
* A geocoding query with no rows leaves no extract behind (`run.sh:163-166`), so the deviations of the
  previous lookup stay current.
* A build that is lost halfway is not repeated: the check asks whether the vocabulary is *empty*
  (`run.sh:241`). The kommuner that were lost get their data from the next sync, but their concepts are
  never created, only reported as missing.
* `DEPLOY.md:83` says every night at `SYNK_TID`. A value between 02:00 and 02:59 does not exist on the night the clocks go forward:
  `date` refuses it, the sleep is refused too and returns at once, and the nightly run is repeated until midnight; asked for tomorrow's,
  `date` gives an hour later. The default, 03:00, always exists.
* A page number so large that `side * storrelse` does not fit 32 bits gives a negative offset, which PostgreSQL
  refuses (status 500), or one that is on the hits again (`RessursSokRepository.java:216`).

### 3.2 Bounds

* Constants named `Maks...` are guards in the actions they bound: `MaksTid` (fetches and clock),
  `MaksVersjon` (changes at a source), `MaksFeil` (faults), `MaksForvaltninger` (edits by the owner; 4 in `kodeverk`, 1 in `kodeverk_samtidig`, none in `normaliser`), `MaksEndringer` (commits during one
  walk), `MaksStopp` (restarts).
* `kjoring`: four versions let a source be sound, break the normaliser, break the load, and be mended; two faults strike two steps of
  one run, or two runs.
* `kodeverk_samtidig`: what one session does to another is to hold an id or a name, so two of them, with collections that overlap
  in either, in both or in none, and in opposite orders; two sources can close a cycle.
* `normaliser`: each release is compared with one before and one after; the answers have a code listed twice, one not listed, and one that is not mapped.
* `sok`: three resources make two pages of two, and pages of one; `IntHalv` = 32, six bits, so that page 22 of 3 wraps onto
  the hits and page 11 of 3 becomes negative, as pages 1 431 655 766 and 715 827 883 of 3 do in Java.
* `synktid`: the change is in the second of three nights, so that it falls before, in and after a sleep; `SYNK_TID` at and beside
  the change (02:00, 03:00), and on both sides of midnight.
* `kodeverk` has one source. What a load does depends on its rows and the table, never on which kommune it is,
  and any collection may be loaded at any time, so more sources only add copies of the log. Three ids are enough
  for a cycle through an id that neither of two collections knows both ends of.
* `innlasting_overlapp` has two sessions since lock circles and overtaking need no more;
  the extracts were chosen so that each order of two buildings and of two resources occurs, links
  change, disappear, and point at codes the master lacks.
* `geokoding`: the rows of one building are read and written without regard to any other building, so one is
  enough; two runs, since a third only repeats what a second can do to the first. The texts have one hit, two hits in two streets of
  one name, one hit without a building number or a cadastral unit, and a separator; two faults allow a failed call and a rejected block, or one in each run.
* `sporbarhet`: `rydd_kildeuttrekk` keeps two extracts per source, so three or more fetches of a source are needed,
  and the clock allows four. A kommune and the Matrikkel are the two kinds of source there are.
* Ids of extracts come from a BIGINT sequence; their overflow is left out.

### 3.3 Fairness

* `FairSpec` of `Innlasting`: strong fairness of each session's `Steg`. A statement that waits is enabled and
  disabled as the lock moves between sessions; PostgreSQL queues waiters, so it is not passed over for ever, and
  breaks circles. `Start` and `Krasj` have no fairness.
* `FairSpec` of `Kjoring`: weak fairness of `Daemon` (a sequential process under `restart: unless-stopped`) and of
  `Migrer` (the backend migrates when it starts). Faults have none and are bounded: a script that
  fails each night for ever lets nothing arrive, and the properties do not claim otherwise. Nor is anything assumed of the sources: the properties have the
  premise `UtenGift`, so that a source which is unreadable night after night is not counted against the driver.
* `FairSpec` of `Geokoding`: weak fairness of `Geokod(Natt)`, the nightly run: the daemon starts it again each
  night and it is a sequential process. The run by hand and the others have none.

The other runs check safety only and need no fairness. `synktid` has `CHECK_DEADLOCK FALSE`, since time ends at the bound.

## 4. What is proved

All safety properties that a passing run checks are theorems of the specifications for all values
of the constants: any number of ids, names, sources, collections, kommuner, sessions, files, releases, rows, requests, versions
and faults. The inductive invariants below were checked by TLC on the instances of the runs before they were proved.

**Assumptions.** Those of the modules give the constants their types and say that the values which stand for nothing (`Ingen`,
`Tom`, `Feilet`) are none of the others: `IngenOgTom`, `SamlingType`, `IngenUkjent`, `Kildenavn`, `Innstillinger`, `Oppslagene`,
`Uttrekkene`, `IngenTom`, `Grenser`, `Svar`, `Konstanter`, `Typer`. Three say more: `Utgaver`, that a release has each
id once; `Samlingene`, that the collection of each release is among those `Kodeverk` is about; and `ByggetErKommunens` (`Sok`), that
a building belongs to one kommune, as the key of `bygning` has it. A theorem that needs more states it as a premise:

| Premise | Used by | Why it is there |
|---|---|---|
| `KontraktAsyklisk` | `VelFormetAlltid`, the two `ImplementererVokabular` | a collection that is cyclic by itself is created as it stands (3.1) |
| `Kontrakt` | `UtgaverLastesRent`, `LenkeneMenerAlltid`, `KartlagtLenkesEllerLoggesAlltid`, `RentVedKontraktAlltid` | the rules of `etl/README.md` for the sources: ids and names are not reused, parents are in the collection |
| `FellesRessurs` | `KoblingerErEttUttrekksAlltid`, `ImplementererUdeltLast` | a common row is what serialises two loads |
| `EntydigeId` | `LastetEllerLoggetAlltid`, `ImplementererUdeltLast` | of a repeated id the last row stands and nothing is logged |
| `ByggEnGang` | `ImplementererUdeltLast` | of a building listed twice, also with the same values, one block may fail and the other not: it is then both loaded and logged as failed |

The MC modules assume these premises of their instances, so TLC evaluates them: `KontraktAsyklisk` in `MCKodeverk` and `MCKodeverkSamtidig`,
`Kontrakt` in `MCNormaliser`, the last three in `MCInnlasting`. `RentSamtidigAlltid` has `Kontrakt` inside its property, as a condition on the
collections delivered.

**`KodeverkProofs`**

* `TypeKorrekt`: `TypeOK`, inductive as it is. It carries that an id without a row has no parent.
* `VelFormetAlltid`: `[]VelFormet` under `KontraktAsyklisk` (no collection is cyclic by itself). The
  inductive invariant is `TypeOK /\ VelFormet`. The heart is `ByggVelFormet`: given a set S of concepts
  after a build, either S has an old member, and then the induction hypothesis for the old members of S gives one
  whose parent lies outside S (an old parent is old), or S consists of ids this load created and the
  collection's own acyclicity gives the member. For the owner's edit the closed set C of the guard plays
  that part.
* `ImplementererVokabular`: each step of `Kodeverk` is a step of `Vokabular` or leaves its variables alone.
* `AvvikAlltidDekket`: `AvvikDekker` for any rows, by cases on why a row is not a concept and on `Sjekk`.
* `RentVedKontraktAlltid`: under `Kontrakt` the extra invariant `FraKilden` (each row of the table is a row
  of some collection, parent included) makes an id that is taken agree with the row that wants it.

**`KodeverkSamtidigProofs`**, for any number of sessions

* `TypeKorrekt`. The inductive invariant is `ISamtidig`: each uncommitted row is a concept of the collection its session loads, with
  its name and at most its parent, a parent the session sees (`RadAv`), and no committed row and no other session has
  its id or its name (`Alene`). `NyeSteg` has one lemma per kind of step; the INSERT keeps `Alene` since it has
  waited for every holder.
* `ImplementererVokabular`: a commit is an `Utvid` of the committed table. A parent that a session has set is
  committed or its own (`RadAv`), so a set of concepts with committed members has one whose parent lies outside by the
  table's own acyclicity, and a set of new ones by the collection's (`VelCommit`). Every other step leaves the committed table alone or
  is the owner's.
* `AvvikDekkerSamtidigAlltid`: `IDekker` says how far `$chk$` has come: for each concept a deviation is found, or
  the row the session sees agrees in the fields checked so far. What it sees can only be added to by others (`SerBlir`),
  as long as the owner does not edit, so an agreement lasts until the commit.
* `RentSamtidigAlltid`: `IRent` says that under the contract every committed row is a row some source delivers, and a session that
  has come past a row sees it: its own, or the other's that it waited for.

On `Normaliser`, which EXTENDS `Kodeverk`:

* `LasterSomKodeverk`: the loads of normalised files, of any releases in any order, are loads of `Kodeverk` without the owner.
  The invariant (`FilType`) is that each file was made by a release that exists. By it, what is proved of `Kodeverk` holds of the
  normaliser's files too.
* `UtgaverLastesRent`: releases that keep the contract with each other load without a deviation, also when an old file is
  loaded after a new one.
* `LenkeneMenerAlltid`: the inductive invariant `ILenker` (each link comes from the file last loaded, and its concept is in
  the master), with `FraKilden` as above. The id of a link is a concept's in the file's release (`LenkeId`); the
  master has that id from some release; the contract makes the two rows one, so the names are equal.
* `KartlagtLenkesEllerLoggesAlltid`: `IBygd`, the concepts of a release that has been built are in the master.

**`InnlastingProofs`**, for any number of sessions, kommuner and extracts. All of it is about `SpecMedAdresser`; `Spec` without the
geocoder implies it (`UtenAdressearbeid`), and so does `FairSpec`.

* `SetningerOrdnet` says once what the text of a file is: its statements are those of the extract and their kinds come
  in order (`Ordnet`). Each action is then brought to one of ten forms (`StegFormer`): a statement that writes the function
  f and goes on (`Trinn`), the end of a kommune, a wait, an abort, a crash, a step of the geocoder or an editor.
* `TypeKorrekt`: `IType` adds the shape of each session to `TypeOK`. A row gets a second holder only through `Skriv`, which waits
  until no other session holds it.
* `KoblingerErEttUttrekksAlltid`: `IEgne` says that a session holds rows of its own kommune only, every resource it has
  passed, and links only after its `DELETE`. Two sessions of one kommune that have both passed their resources
  therefore hold one row (`Enerett`), which `IType` excludes: there is one session between `DELETE` and COMMIT. `IKobling` adds
  that such a session sees as links exactly those it has written, and that a `DELETE` does not wait, so the stale snapshot does
  not come into play. This is where the premise on a shared *resource* comes from.
* `LastetEllerLoggetAlltid`: `ILogg` says of each statement behind the session that its rows stand as delivered among
  those it holds, or its deviation is in the log (`ByggGjort`, `RessursGjort`), and of the committed rows that they stand as
  the latest load left them (`LastetSom`), also while the geocoder and editors write statuses.
* `AdresseVernetAlltid`: `IAdresse`, an address that is held has the status of the committed one, and its text if that is settled. The
  row being locked, the status cannot change between the upsert and COMMIT.
* `AndreKommunerLastesAlltid`: `IRest`, each kommune of the file is still to come or settled: loaded from it, not
  fetched, or with a record the database rejects.

* `ImplementererUdeltLast`: every commit is a step `Last` or `IkkeHentet` of `UdeltLast` and every other step leaves `db` and
  `avvik` alone or sets a status. The inductive invariant `IHel` says of each session in a transaction that what it holds is what its
  extract says *over the rows of the database as they are now*: the buildings behind it are held as delivered, with the address that
  `NyAdresse` makes of the committed one (`ByggHelt`), or they are in its log and their rows are not held (`Oppgitt`); the resources
  are held with their building, or without it if it was given up (`RessursHel`); nothing else is held (`Skrevet`). What others do keeps
  this true since the rows that are held are locked (`AdresseUholdt`, `FullforUholdt`) and no commit removes anything but links
  (`KunLenkerSlettes`), so a building found in an old snapshot is still there. For a resource that waited, `Holder` keeps the
  snapshot from having buildings that are gone. The links come from `IKobling`. `FullforLast` puts it together at COMMIT, with
  the set of buildings given up as the witness for `feilet`.

**`SporbarhetProofs`**

* `TypeKorrekt`; `ReferanseHelAlltid`, with `TypeOK` (ids below the sequence) as the strengthening: the
  id given at an application is new, and `ON DELETE SET NULL` clears what the clean-up leaves dangling.
* `GjeldendeVernetAlltid`: the newest extract of a source is unique and survives `Beholdes`, so a load of
  another source, an abort, ageing and pruning leave `GjeldendeFor(k)` as it is, also where source and log have different names (`Skrevet`:
  what a script writes logs for its own source only).
* `GjeldendeErSisteHentingAlltid`: the inductive invariant `ISiste` ties the newest row of a source to the latest fetch ever loaded
  for it (`NyesteErSiste`). A file older than that one may be cleaned away in its own transaction, and one that is newer
  becomes the row the view shows: `AnvendEldre`, `AnvendNyere`, `AnvendAndres`.
* `RyddetEtterLastAlltid`: of three rows one has two before it in the order of `Foran`, which is total.

**`KjoringProofs`**

* `TypeKorrekt`, which includes that concepts of a kommune come only together with its data, and the records that end
  a script (`GenererGift`, `Normaliser`).
* `FerskEllerLoggetAlltid`: the strengthening `HentetIDenneKjoringen` says that in the phase
  `anvend` without the normaliser each entry of the file is a failed fetch or at least as new as `sett`.

**`GeokodingProofs`**

* `TypeKorrekt`: types, that an address is placed exactly when its status says so, and that what a run
  has read has a text.
* `StedAlltidTekstens`: the inductive invariant adds `LestOgFunnet`. For each row a run has open: unless the
  text was changed under it, the row's text is the address's, and an address written for it is at the only hit of
  that text; a row read as unplaced has no place, so it was looked up by its text. A load that changes a text is possible only while the address is not placed,
  and marks the building if a run has it open.
* `MatchAlltidVernet`: by `NyMatch`; every other action leaves `match` alone.
* `ManueltAlltidBlir`: `Mangler` leaves out what is set by hand, so only a run that has a row open can write its address, and
  a load touches only addresses that are not settled. For any number of runs.
* `FullfortEllerLoggetAlltid`: the strengthening `GjortRede` says that each entry written is logged, or
  has the facts of the building and either the address or a building that is placed already; and that what was read as
  placed stays placed.

**`SynkTidProofs`**, for any number of hours and restarts and any set of values of `SYNK_TID`

* `SoverTilNesteAlltid`, `EnGangPerDognAlltid`. The inductive invariant `INatt` adds to the two properties that a sleep ends later than
  it began and at the hour of the sync (`IVekkes`), and that a day which has had its run has no moment of that hour left: neither
  after now nor, during a sleep, after its beginning (`IStartet`). A day that has the hour once cannot then start a second run.
* `DagenGaar`: the local day never goes back, whatever the clocks do, since they jump by one hour while one passes. `MaalFakta`
  is what `seconds_until_sync` gives: today's moment still to come, tomorrow's after today's has been, or, of a day that skips the
  hour, another. `SovnenPasserIngen`: between two such moments there is no third.

**`SokProofs`**, for any table, any requests and any size of an integer

* A row's number `Nr` is how many rows come before it in the order of the statement. The order is total because its last key is the id
  (`FoerTotal`), so there is one placing only, and it is `Nr` (`PlassErNr`): a page is the rows with numbers between offset and
  offset plus size (`SideFakta`). This is where the proof fails for `NokkelUtenId`.
* `TypeKorrekt`, `BladdAltAlltid`, `SideUtenforErTomAlltid`, `SvarHengerAlltid`, `PanelTrefferAlltid`. The inductive invariant
  has five parts: types (`ITyper`); an offset PostgreSQL takes (`IStorrelse`); a page is what the table gives while nothing
  is committed (`ISvar`); a walk has seen exactly the rows numbered before its page (`IVei`); the panel (`IPanel`).
* The walk needs no assumption on the number of rows: the first product of page and size beyond 2^31 - 1 is less than 2^32, so
  it is negative as an `int` (`OffsetVerdi`) and the walk ends with status 500 instead of going round.

**On method.** The library's induction theorems take an operator as a parameter and cannot be used here; where a recursive
*function* or a finite set had to be reasoned about (`Utvalg`, the rows of a file in order, `Siste`, the placings of `Sok`), the
proofs use that the natural numbers are well-founded (`NatLessThanWellFounded` with `WFMin`, which speak of sets):
a set of counterexamples has a least member. `Innlasting` has `Utvalg` where the community modules' `SelectSeq`
would do, since the provers cannot see into the latter.

**Only model-checked.** Liveness (`FilenBlirFerdig`, `BlirFullfort`, `VokabularBlirTil`, `KildenNarMasteren`): fairness and ENABLED are
out of the prover's reach. Nothing is proved about the
duration of anything.

## 5. Abstractions worth knowing

* Names, addresses and capacities are model values; a value the code replaces (a negative
  capacity, a zip code that is not four digits) is a flag `myk` on the row, since the row is loaded and logged all the same.
* A row the database rejects in a block is a flag `feil`; why it is rejected does not matter to the handler.
* `ByggFor` is the code's dictionary comprehension: the first building of the extract for a resource.
* Within an extract ids do not recur in `bygg` and `ressurs` of the instances checked (`EntydigeId`).
* A fault of the network or of `psql` is nondeterministic and may strike at each step.
* In `Kjoring` the vocabulary is the set of kommuner whose concepts have been created.
* In `Sok` the words of a search text and the distance from a point are what each row answers to them, not how they are computed.
* `Normaliser` has one code list; that the excluded names are shared by all three is the constant `andre` of a release.
* `SynkTid` counts in whole hours; the minutes of `SYNK_TID` move the boundary and nothing else.

## 6. Not modelled

* **Inside the geocoder**: how the address text and the XML are parsed, the caches of one run, the building's position (filled
  only where it is empty), and the status `geokodet` of earlier databases. A placed address whose street code no longer resolves
  falls back to its text in the code; here the Matrikkel does not change.
* **Inside the normaliser**: its reserve lists of words to leave out (used when the mapping files lack them), and what it
  prints on stderr.
* **`DRY_RUN`**, the handling of certificates, and `run.sh geocode` and `prune` as commands of their own; their bodies are those the
  nightly run calls.
* **Two runs sharing `$UT`**: the driver is modelled as one process. A file that two runs write at once may hold pieces of
  transactions, which `psql` then commits statement by statement; one version per kommune, as `fil` has it, cannot say what is left behind.
* **Midnight between the two calls of `date`** in `seconds_until_sync`: both are in one action.
* **Triggers, other tables and PostGIS columns, Docker and build files, the backend's configuration and transfer objects**: no
  behaviour of their own beyond what the modules above use. Of the views, `v_synk_avvik_gjeldende` is in `Sporbarhet` and the one for
  search in `Sok`.

## 7. Plan

In order of weight:

1. `Normaliser` and `KodeverkSamtidig` together: normalised files whose builds interleave.
2. `UtFiler`: a run by hand and the daemon sharing `$UT/sync.sql` and `$UT/normalisert`.
3. The undivided load of `UdeltLast` as the `Last` of `Geokoding` and of `Sok`, which have each an own form of it now.
