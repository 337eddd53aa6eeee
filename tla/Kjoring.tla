------------------------------- MODULE Kjoring -------------------------------
(***************************************************************************)
(* run.sh daemon: wait for the schema, an initial build if the master has   *)
(* no vocabulary, then a nightly build or sync.  The scripts only write     *)
(* SQL; psql applies it afterwards, one transaction per kommune.            *)
(*                                                                         *)
(* A fault is a killed container, a query or a connection that fails, a     *)
(* failed fetch, a script that fails in passing, or a rolled-back            *)
(* transaction; a record that raises an exception is not a fault but a       *)
(* version of the source, and is there until it is mended.  MaksFeil bounds  *)
(* the number of faults and MaksVersjon the changes at the sources.          *)
(* do_geocode and prune_avvik touch none of this state.                      *)
(***************************************************************************)
EXTENDS Naturals

CONSTANTS Antall,           \* the number of kommuner, loaded in order 1..Antall
          NORMALISER_DEMO,  \* the values the setting may have when the container starts
          Giftig,           \* versions that raise an exception in generer_sql
          GiftigNorm,       \* those that raise it in normaliser.py already
          MaksVersjon,
          MaksFeil

ASSUME Innstillinger == /\ Antall \in Nat \ {0}
                        /\ NORMALISER_DEMO \subseteq BOOLEAN
                        /\ NORMALISER_DEMO # {}
                        /\ GiftigNorm \subseteq Giftig
                        /\ MaksVersjon \in Nat \ {0}
                        /\ MaksFeil \in Nat

Kommune == 1..Antall

Ingen == 0                  \* no version: never loaded, or a fetch that failed

Versjon == 0..MaksVersjon

VARIABLES
  fase,      \* where the daemon is; "nede" when the container is not running
  demo,      \* NORMALISER_DEMO of the running container: is the normaliser run?
  modus,     \* "build" or "sync"
  neste,     \* the next kommune of the file to apply
  fil,       \* [Kommune -> version in $UT/<modus>.sql], Ingen: a failed fetch
  sett,      \* [Kommune -> version at the source when the run started]
  tapt,      \* kommuner whose transaction has not been committed in this run
  kilde,     \* [Kommune -> version at the source]
  norm,      \* [Kommune -> version in $UT/normalisert]
  skjema,    \* has Flyway created the schema?
  base,      \* [Kommune -> version of its data in the master]
  vokabular, \* kommuner whose concepts have been created in the master
  logget,    \* kommuner whose latest extract is logged as a failed fetch
  feil       \* the faults so far

kjoring == <<demo, modus, neste, fil, sett, tapt>>
master == <<base, vokabular, logget>>
vars == <<fase, kjoring, kilde, norm, skjema, master, feil>>

Init == /\ fase = "nede"
        /\ demo \in NORMALISER_DEMO
        /\ modus = "build"
        /\ neste = 1
        /\ fil = [k \in Kommune |-> Ingen]
        /\ sett = [k \in Kommune |-> Ingen]
        /\ tapt = Kommune
        /\ kilde = [k \in Kommune |-> 1]
        /\ norm = [k \in Kommune |-> Ingen]
        /\ skjema = FALSE
        /\ base = [k \in Kommune |-> Ingen]
        /\ vokabular = {}
        /\ logget = {}
        /\ feil = 0

\* A step that needs a fault to happen.
Feil == feil < MaksFeil /\ feil' = feil + 1

----------------------------------------------------------------------------
(* Start-up.                                                               *)

\* restart: unless-stopped, or the container is recreated with another setting.
Start == /\ fase = "nede"
         /\ fase' = "venter"
         /\ demo' \in NORMALISER_DEMO
         /\ tapt' = Kommune
         /\ UNCHANGED <<modus, neste, fil, sett, kilde, norm, skjema, master, feil>>

\* wait_for_schema returns 0.
SkjemaKlart == /\ fase = "venter" /\ skjema
               /\ fase' = "sjekk"
               /\ UNCHANGED <<kjoring, kilde, norm, skjema, master, feil>>

\* 120 tries have passed: exit 1.
GirOpp == /\ fase = "venter" /\ ~ skjema
          /\ fase' = "nede"
          /\ UNCHANGED <<kjoring, kilde, norm, skjema, master, feil>>

\* do_build or do_sync is called.
Begynn(m) == /\ modus' = m
             /\ sett' = kilde
             /\ tapt' = Kommune
             /\ fase' = IF demo THEN "normaliser" ELSE "generer"
             /\ UNCHANGED <<demo, neste, fil, kilde, norm, skjema, master>>

\* The vocabulary is empty: initial build.
ForsteBygg == /\ fase = "sjekk" /\ vokabular = {}
              /\ Begynn("build")
              /\ UNCHANGED feil

\* vocabulary present: skipping the initial build
HopperOver == /\ fase = "sjekk" /\ vokabular # {}
              /\ fase' = "sover"
              /\ UNCHANGED <<kjoring, kilde, norm, skjema, master, feil>>

\* could not query the vocabulary tables: exit 1
SjekkFeiler == /\ fase = "sjekk"
               /\ Feil
               /\ fase' = "nede"
               /\ UNCHANGED <<kjoring, kilde, norm, skjema, master>>

\* Faulty variant of Natt: the night always syncs.
NattSynker == /\ fase = "sover"
              /\ Begynn("sync")
              /\ UNCHANGED feil

\* SYNK_TID: seeds the vocabulary if an earlier build left it empty.
Natt == /\ fase = "sover"
        /\ Begynn(IF vokabular = {} THEN "build" ELSE "sync")
        /\ UNCHANGED feil

\* vocabulary_empty || tom=""
NattSjekkFeiler == /\ fase = "sover"
                   /\ Feil
                   /\ Begynn("sync")

----------------------------------------------------------------------------
(* generate                                                                *)

\* A fetch per kommune; those in hentet answered.  Anything less is a fault.
Henting(hentet) == IF hentet = Kommune THEN UNCHANGED feil ELSE Feil

\* Faulty variant of Normalisert: a file that exists is kept.
NormalisertEnGang(hentet) ==
  [k \in Kommune |-> IF k \in hentet /\ norm[k] = Ingen THEN kilde[k] ELSE norm[k]]

\* A kommune that cannot be fetched is skipped: the file from an earlier run stays.
\* An exception ends the script: so do the files of the kommuner from there on.
Normalisert(hentet) ==
  [k \in Kommune |-> IF /\ k \in hentet
                        /\ \A j \in hentet : j <= k => kilde[j] \notin GiftigNorm
                     THEN kilde[k] ELSE norm[k]]

\* normaliser.py; its exit code is only logged.
Normaliser(hentet) == /\ fase = "normaliser"
                      /\ Henting(hentet)
                      /\ norm' = Normalisert(hentet)
                      /\ fase' = "generer"
                      /\ UNCHANGED <<kjoring, kilde, skjema, master>>

\* The SQL per kommune, from the normalised file or from the endpoint.
Innhold(hentet) ==
  IF demo THEN norm
  ELSE [k \in Kommune |-> IF k \in hentet THEN kilde[k] ELSE Ingen]

\* last_inn.py or synk.py ends with exit code 0 or 2: the file is complete.
Generer(hentet) == /\ fase = "generer"
                   /\ demo => hentet = Kommune
                   /\ Henting(hentet)
                   /\ \A k \in Kommune : Innhold(hentet)[k] \notin Giftig
                   /\ fil' = Innhold(hentet)
                   /\ neste' = 1
                   /\ fase' = "anvend"
                   /\ UNCHANGED <<demo, modus, sett, tapt, kilde, norm, skjema, master>>

\* One record of one kommune raises an exception: no kommune at all is applied.
GenererGift(hentet) == /\ fase = "generer"
                       /\ demo => hentet = Kommune
                       /\ Henting(hentet)
                       /\ \E k \in Kommune : Innhold(hentet)[k] \in Giftig
                       /\ fase' = "sover"
                       /\ UNCHANGED <<kjoring, kilde, norm, skjema, master>>

\* The script fails for a reason that passes: nothing is applied.
GenererFeiler == /\ fase = "generer"
                 /\ Feil
                 /\ fase' = "sover"
                 /\ UNCHANGED <<kjoring, kilde, norm, skjema, master>>

----------------------------------------------------------------------------
(* apply                                                                   *)

\* Faulty variant of Logg: a failed fetch writes nothing.
LoggIkke(k) == UNCHANGED <<base, vokabular, logget>>

\* The branch for a failed fetch: the extract and one deviation, no data.
Logg(k) == /\ logget' = logget \cup {k}
           /\ UNCHANGED <<base, vokabular>>

\* The whole load of a kommune; only a build creates concepts.
Last(k) == /\ base' = [base EXCEPT ![k] = fil[k]]
           /\ vokabular' = IF modus = "build" THEN vokabular \cup {k} ELSE vokabular
           /\ logget' = logget \ {k}

\* The transaction of the next kommune commits.
Anvend == /\ fase = "anvend" /\ neste \in Kommune
          /\ IF fil[neste] = Ingen THEN Logg(neste) ELSE Last(neste)
          /\ tapt' = tapt \ {neste}
          /\ neste' = neste + 1
          /\ UNCHANGED <<fase, demo, modus, fil, sett, kilde, norm, skjema, feil>>

\* Faulty variant of Rullet: the concepts are created outside the transaction.
RulletUtenBegreper == /\ fase = "anvend" /\ neste \in Kommune
                      /\ Feil
                      /\ neste' = neste + 1
                      /\ vokabular' = vokabular \cup {neste}
                      /\ UNCHANGED <<fase, demo, modus, fil, sett, tapt, kilde, norm, skjema, base, logget>>

\* An error in the transaction: COMMIT rolls it back, and the next kommune runs.
Rullet == /\ fase = "anvend" /\ neste \in Kommune
          /\ Feil
          /\ neste' = neste + 1
          /\ UNCHANGED <<fase, demo, modus, fil, sett, tapt, kilde, norm, skjema, master>>

\* psql fails (the connection is lost): the rest of the file is not applied.
PsqlFeiler == /\ fase = "anvend" /\ neste \in Kommune
              /\ Feil
              /\ neste' = Antall + 1
              /\ UNCHANGED <<fase, demo, modus, fil, sett, tapt, kilde, norm, skjema, master>>

\* The run is over; the daemon sleeps until SYNK_TID.
Ferdig == /\ fase = "anvend" /\ neste \notin Kommune
          /\ fase' = "sover"
          /\ UNCHANGED <<kjoring, kilde, norm, skjema, master, feil>>

----------------------------------------------------------------------------
(* The surroundings.                                                       *)

\* The container is killed; open transactions are rolled back, files stay.
Krasj == /\ fase # "nede"
         /\ Feil
         /\ fase' = "nede"
         /\ UNCHANGED <<kjoring, kilde, norm, skjema, master>>

\* Killed while write_text was writing a file: what is left is not JSON.
KrasjUnderSkriving(k) == /\ fase = "normaliser"
                         /\ Feil
                         /\ fase' = "nede"
                         /\ norm' = [norm EXCEPT ![k] = Ingen]
                         /\ UNCHANGED <<kjoring, kilde, skjema, master>>

\* The backend migrates the database.
Migrer == /\ ~ skjema
          /\ skjema' = TRUE
          /\ UNCHANGED <<fase, kjoring, kilde, norm, master, feil>>

\* Something is changed in the source system of a kommune.
Endre(k) == /\ kilde[k] < MaksVersjon
            /\ kilde' = [kilde EXCEPT ![k] = @ + 1]
            /\ UNCHANGED <<fase, kjoring, norm, skjema, master, feil>>

----------------------------------------------------------------------------
Daemon == \/ Start \/ SkjemaKlart \/ GirOpp
          \/ ForsteBygg \/ HopperOver \/ SjekkFeiler
          \/ Natt \/ NattSjekkFeiler
          \/ \E hentet \in SUBSET Kommune : Normaliser(hentet) \/ Generer(hentet) \/ GenererGift(hentet)
          \/ GenererFeiler
          \/ Anvend \/ Rullet \/ PsqlFeiler \/ Ferdig

Omgivelser == \/ Krasj
              \/ Migrer
              \/ \E k \in Kommune : KrasjUnderSkriving(k) \/ Endre(k)

Next == Daemon \/ Omgivelser

Spec == Init /\ [][Next]_vars

\* The daemon is a sequential process that is restarted; the backend migrates.
FairSpec == Spec /\ WF_vars(Daemon) /\ WF_vars(Migrer)

----------------------------------------------------------------------------
(* Properties.                                                             *)

\* Types; concepts of a kommune are there only with its data, and a kommune of
\* this run is settled only once its transaction has been tried.
TypeOK ==
  /\ fase \in {"nede", "venter", "sjekk", "normaliser", "generer", "anvend", "sover"}
  /\ demo \in BOOLEAN
  /\ modus \in {"build", "sync"}
  /\ neste \in 1..(Antall + 1)
  /\ fil \in [Kommune -> Versjon]
  /\ sett \in [Kommune -> Versjon]
  /\ tapt \subseteq Kommune
  /\ kilde \in [Kommune -> Versjon]
  /\ norm \in [Kommune -> Versjon]
  /\ skjema \in BOOLEAN
  /\ base \in [Kommune -> Versjon]
  /\ vokabular \subseteq {k \in Kommune : base[k] # Ingen}
  /\ logget \subseteq Kommune
  /\ feil \in 0..MaksFeil

Fersk(k) == base[k] >= sett[k] \/ k \in logget

\* With the endpoints read directly: a kommune whose transaction has been committed
\* in the latest run has the data its source had when that run started, or newer,
\* or its failed fetch is logged.
FerskEllerLogget == ~ demo => \A k \in Kommune \ tapt : Fersk(k)

\* DEPLOY.md, whatever the setting: a kommune that fails to fetch is logged.
HentefeilLogges == \A k \in Kommune \ tapt : Fersk(k)

\* No source keeps a record that raises an exception: it is mended, again and again.
UtenGift == []<>(\A k \in Kommune : kilde[k] \notin Giftig)

\* However the first builds fail, a vocabulary comes to be.
VokabularBlirTil == UtenGift => <>(vokabular # {})

\* What a source holds, or something newer, reaches the master; but one record of one
\* kommune that raises an exception keeps every kommune out for as long as it is there.
KildenNarMasteren ==
  UtenGift => \A k \in Kommune : \A v \in 1..MaksVersjon : kilde[k] >= v ~> base[k] >= v
=============================================================================
