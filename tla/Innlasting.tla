------------------------------ MODULE Innlasting ------------------------------
(***************************************************************************)
(* Applying a load file: psql runs it, one transaction per kommune, one      *)
(* statement at a time.  Sessions overlap: the nightly run, a build or sync  *)
(* started by hand, a load piped from the host.                             *)
(***************************************************************************)
EXTENDS Lastefil

CONSTANT Okt      \* sessions

VARIABLES db, ny, ser,   \* the database: see Transaksjon
          ko,      \* [Okt -> the kommuner of its file still to run, in order]
          fil,     \* [Okt -> the file it runs]
          pos,     \* [Okt -> the next statement of the current kommune]
          logg,    \* [Okt -> deviations logged by the open transaction]
          lastet,  \* [Kommune -> the extract of its latest committed load]
          avvik    \* [Kommune -> the deviations that load logged]

INSTANCE Transaksjon

txvars == <<db, ny, ser>>
oktvars == <<ko, fil, pos, logg>>
vars == <<db, ny, ser, ko, fil, pos, logg, lastet, avvik>>

----------------------------------------------------------------------------
(* The session's place in its file.                                        *)

K(s) == Head(ko[s])
U(s) == fil[s][K(s)]
Na(s) == Tekst[U(s)][pos[s]]
Er(s, type) == ko[s] # <<>> /\ Na(s).type = type

Videre(s) == pos' = [pos EXCEPT ![s] = @ + 1]

NesteKommune(s) == /\ ko' = [ko EXCEPT ![s] = Tail(@)]
                   /\ pos' = [pos EXCEPT ![s] = 1]
                   /\ logg' = [logg EXCEPT ![s] = {}]
                   /\ UNCHANGED fil

\* The links of the kommune that the statement's snapshot has.
Slettes(s) == Lenkerader(K(s)) \cap Oyeblikk(s)

\* Rows the statement locks or must wait for.
Trenger(s) ==
  LET k == K(s)
      rad == Na(s).rad
  IN  CASE Er(s, "registrer") -> {RKommune(k)} \ {x \in Rader : db[x] # Ingen}
        [] Er(s, "bygg")      -> {RByggnad(k, rad.id)}
                                 \cup (IF rad.gate = Ingen THEN {} ELSE {RAdresse(k, rad.id)})
        [] Er(s, "ressurs")   -> {RRessurs(k, rad.id)}
        [] Er(s, "slett")     -> Slettes(s)
        [] Er(s, "lenke")     -> Lenkerad(k, rad)
        [] OTHER              -> {}

----------------------------------------------------------------------------
(* The statements.                                                         *)

\* run.sh build, run.sh sync, or a load piped from the host: a new file.
Start(s, f) ==
  /\ ko[s] = <<>>
  /\ ko' = [ko EXCEPT ![s] = Rekke]
  /\ fil' = [fil EXCEPT ![s] = f]
  /\ pos' = [pos EXCEPT ![s] = 1]
  /\ UNCHANGED <<txvars, logg, lastet, avvik>>

\* BEGIN, registrer_kildeuttrekk, the upserts of the kommune and its instance.
Registrer(s) ==
  /\ Er(s, "registrer")
  /\ Skriv(s, [x \in Trenger(s) |-> TRUE])
  /\ logg' = [logg EXCEPT ![s] = Leseavvik(U(s))]
  /\ Videre(s)
  /\ UNCHANGED <<ko, fil, lastet, avvik>>

\* i_blokk: the building and its address in a block of their own.
LastBygg(s) ==
  /\ Er(s, "bygg")
  /\ LET k == K(s)
         rad == Na(s).rad
         adr == RAdresse(k, rad.id)
     IN  /\ ~ rad.feil
         /\ Skriv(s, [x \in Trenger(s) |-> IF x = adr THEN NyAdresse(Verdi(s, adr), rad.gate)
                                           ELSE rad.verdi])
  /\ Videre(s)
  /\ UNCHANGED <<ko, fil, logg, lastet, avvik>>

\* Faulty variants of ByggFeiler: the handler logs nothing; it retries the block.
ByggFeilerStille(s) ==
  /\ Skriv(s, <<>>)
  /\ Videre(s)
  /\ UNCHANGED <<ko, fil, logg, lastet, avvik>>

ByggFeilerIgjen(s) ==
  /\ Skriv(s, <<>>)
  /\ logg' = [logg EXCEPT ![s] = @ \cup {<<"db_feil", Na(s).rad.id>>}]
  /\ UNCHANGED <<ko, fil, pos, lastet, avvik>>

\* EXCEPTION WHEN OTHERS: the block is undone and logged, the load goes on.
ByggFeiler(s) ==
  /\ Skriv(s, <<>>)
  /\ logg' = [logg EXCEPT ![s] = @ \cup {<<"db_feil", Na(s).rad.id>>}]
  /\ Videre(s)
  /\ UNCHANGED <<ko, fil, lastet, avvik>>

ByggAvvises(s) == Er(s, "bygg") /\ Na(s).rad.feil /\ ByggFeiler(s)

\* Faulty variant of LastRessurs: the column takes any number.
LastRessursUtenGrense(s) ==
  /\ Er(s, "ressurs")
  /\ Skriv(s, [x \in Trenger(s) |-> NyRessurs(Na(s).rad, Ingen)])
  /\ Videre(s)
  /\ UNCHANGED <<ko, fil, logg, lastet, avvik>>

LastRessurs(s) ==
  /\ Er(s, "ressurs")
  /\ LET k == K(s)
         rad == Na(s).rad
         b == ByggFor(U(s), rad.id)
         funnet == IF b # Ingen /\ RByggnad(k, b) \in Oyeblikk(s) THEN b ELSE Ingen
     IN  /\ rad.verdi # ForStor
         /\ Skriv(s, [x \in Trenger(s) |-> NyRessurs(rad, funnet)])
  /\ Videre(s)
  /\ UNCHANGED <<ko, fil, logg, lastet, avvik>>

\* Faulty variant of Avbryt: psql stops at the error (ON_ERROR_STOP=1).
AvbrytStopper(s) ==
  /\ Tilbakerull(s)
  /\ ko' = [ko EXCEPT ![s] = <<>>]
  /\ pos' = [pos EXCEPT ![s] = 1]
  /\ logg' = [logg EXCEPT ![s] = {}]
  /\ UNCHANGED <<fil, lastet, avvik>>

\* An error outside a block: the transaction is rolled back, its log with it, and
\* what is left of it up to COMMIT is ignored.  psql goes on with the next kommune.
Avbryt(s) ==
  /\ Tilbakerull(s)
  /\ NesteKommune(s)
  /\ UNCHANGED <<lastet, avvik>>

RessursAvvises(s) == Er(s, "ressurs") /\ Na(s).rad.verdi = ForStor /\ Avbryt(s)

\* DELETE: a link another session removed while it waited is passed over.
SlettLenker(s) ==
  /\ Er(s, "slett")
  /\ Opptatt(s, Trenger(s)) = {}
  /\ Skriv(s, [x \in {y \in Trenger(s) : Verdi(s, y) # Ingen} |-> Ingen])
  /\ Videre(s)
  /\ UNCHANGED <<ko, fil, logg, lastet, avvik>>

\* INSERT of one link, if the master knows the code; ON CONFLICT DO NOTHING.
LastLenke(s) ==
  /\ Er(s, "lenke")
  /\ Skriv(s, [x \in Trenger(s) |-> TRUE])
  /\ Videre(s)
  /\ UNCHANGED <<ko, fil, logg, lastet, avvik>>

\* The check of unknown ids, rydd_kildeuttrekk and COMMIT.
Fullfor(s) ==
  /\ Er(s, "commit")
  /\ Commit(s)
  /\ IF U(s) = Feilet THEN UNCHANGED <<lastet, avvik>>
     ELSE /\ lastet' = [lastet EXCEPT ![K(s)] = U(s)]
          /\ avvik' = [avvik EXCEPT ![K(s)] = logg[s] \cup UkjenteId(U(s))]
  /\ NesteKommune(s)

\* Lock waits.  PostgreSQL breaks a circle by failing one of the two statements:
\* in a block that is a db_feil for the building, elsewhere it is an abort.
VentPaLaas(s) == /\ ko[s] # <<>>
                 /\ Vent(s, Trenger(s))
                 /\ UNCHANGED <<oktvars, lastet, avvik>>

VenterPa(s, t) == Ventende(s) /\ Trenger(s) \cap DOMAIN ny[t] # {}

Vranglaas(s) ==
  /\ \E t \in Okt \ {s} : VenterPa(s, t) /\ VenterPa(t, s)
  /\ IF Er(s, "bygg") THEN ByggFeiler(s) ELSE Avbryt(s)

\* The container or the connection goes down: the rest of the file is not applied.
Krasj(s) ==
  /\ ko[s] # <<>>
  /\ Tilbakerull(s)
  /\ ko' = [ko EXCEPT ![s] = <<>>]
  /\ logg' = [logg EXCEPT ![s] = {}]
  /\ pos' = [pos EXCEPT ![s] = 1]
  /\ UNCHANGED <<fil, lastet, avvik>>

----------------------------------------------------------------------------
(* Others who write the same rows, one statement each, outside the load: the *)
(* geocoder and an editor.  They too wait for row locks.                   *)

SettStatus(k, b, g) ==
  /\ db[RAdresse(k, b)] # Ingen
  /\ \A t \in Okt : RAdresse(k, b) \notin DOMAIN ny[t]
  /\ db' = [db EXCEPT ![RAdresse(k, b)].geokoding = g]
  /\ UNCHANGED <<ny, ser, oktvars, lastet, avvik>>

\* matrikkel_adresse.py places the address.
Geokodet(k, b) == SettStatus(k, b, "matrikkel")

\* By hand: the address is placed, or marked as one that cannot be.
SattForHand(k, b) ==
  \/ SettStatus(k, b, "manuell")
  \/ db[RAdresse(k, b)] # Ingen /\ db[RAdresse(k, b)].geokoding = "ukjent" /\ SettStatus(k, b, "feilet")

----------------------------------------------------------------------------
Init == /\ TxInit
        /\ ko = [s \in Okt |-> <<>>]
        /\ fil = [s \in Okt |-> Ingen]
        /\ pos = [s \in Okt |-> 1]
        /\ logg = [s \in Okt |-> {}]
        /\ lastet = [k \in Kommune |-> Ingen]
        /\ avvik = [k \in Kommune |-> {}]

\* What psql and the database do with the next statement of the file.
Steg(s) == \/ Registrer(s)
           \/ LastBygg(s)
           \/ ByggAvvises(s)
           \/ LastRessurs(s)
           \/ RessursAvvises(s)
           \/ SlettLenker(s)
           \/ LastLenke(s)
           \/ Fullfor(s)
           \/ VentPaLaas(s)
           \/ Vranglaas(s)

Last == \E s \in Okt : \/ \E f \in Filer : Start(s, f)
                       \/ Steg(s)
                       \/ Krasj(s)

Adressearbeid == \E k \in Kommune, b \in ByggId : Geokodet(k, b) \/ SattForHand(k, b)

Spec == Init /\ [][Last]_vars

SpecMedAdresser == Init /\ [][Last \/ Adressearbeid]_vars

\* psql goes on as long as it can.  A waiter is queued for the row it waits for,
\* so that it is not passed over for ever: strong fairness.
Fairness == \A s \in Okt : SF_vars(Steg(s))

FairSpec == Spec /\ Fairness

----------------------------------------------------------------------------
(* Properties.                                                             *)

\* Every row has a value of its table, and no two sessions hold the same row.
TypeOK ==
  /\ \A rad \in Rader : AvTabellen(rad, db[rad])
  /\ \A s \in Okt : /\ DOMAIN ny[s] \subseteq Rader
                    /\ ko[s] = <<>> => ny[s] = <<>> /\ logg[s] = {} /\ ~ Ventende(s)
                    /\ ko[s] # <<>> => pos[s] \in DOMAIN Tekst[U(s)]
  /\ LaasEksklusiv

Hel == INSTANCE UdeltLast

\* However loads of a kommune overlap, wait and fail, each that commits has done at
\* that moment what it would have done alone.
LastesUdelt == Hel!Spec

\* However loads of a kommune overlap, fail and crash, its links in the database
\* are those of one extract, the latest one committed, and never a mixture.
KoblingerErEttUttrekks ==
  \A k \in Kommune : lastet[k] # Ingen =>
    {x \in Lenkerader(k) : db[x] # Ingen}
      = UNION {Lenkerad(k, l) : l \in Verdier(Lastbare(lastet[k]))}

\* Nothing is lost silently: each building, address and resource of the latest
\* committed load is in the database as delivered, with its building and its type,
\* or the load logged why not.
LastetEllerLogget ==
  \A k \in Kommune : lastet[k] # Ingen =>
    /\ \A rad \in Verdier(MedId(lastet[k].bygg)) :
         LET adr == db[RAdresse(k, rad.id)]
         IN  \/ /\ db[RByggnad(k, rad.id)] = rad.verdi
                /\ rad.gate # Ingen =>
                     adr # Ingen /\ (adr.tekst = rad.gate \/ adr.geokoding \notin {"ukjent", "feilet"})
             \/ <<"db_feil", rad.id>> \in avvik[k]
    /\ \A rad \in Verdier(MedId(lastet[k].ressurs)) :
         LET lagret == db[RRessurs(k, rad.id)]
             b == ByggFor(lastet[k], rad.id)
         IN  /\ lagret # Ingen
             /\ lagret.verdi = rad.verdi
             /\ lagret.bygg = b \/ <<"db_feil", b>> \in avvik[k]
             /\ lagret.lt = rad.lt \/ <<"ukjent_id", rad.lt>> \in avvik[k]

\* A load never rewrites the text of an address that is geocoded or manual, also
\* when the geocoder or an editor sets it while the load is under way.
AdresseVernet ==
  [][\A k \in Kommune, b \in ByggId :
       LET a == RAdresse(k, b)
       IN  db[a] # Ingen /\ db[a].geokoding \notin {"ukjent", "feilet"} =>
             db'[a] # Ingen /\ db'[a].tekst = db[a].tekst]_vars

\* No load waits for ever: lock circles are broken and every file comes to an end.
FilenBlirFerdig == \A s \in Okt : (ko[s] # <<>>) ~> (ko[s] = <<>>)

\* A record the database cannot take costs its own kommune at most: when the
\* last statement of a file has run, every other kommune of it is loaded, from this file.
AndreKommunerLastes ==
  [][\A s \in Okt : Okt = {s} /\ Steg(s) /\ ko'[s] = <<>> =>
       \A k \in Kommune :
         LET u == fil[s][k]
         IN  \/ u = Feilet
             \/ \E rad \in Verdier(u.ressurs) : rad.verdi = ForStor
             \/ lastet'[k] = u]_vars
=============================================================================
