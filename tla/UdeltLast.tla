------------------------------ MODULE UdeltLast ------------------------------
(***************************************************************************)
(* What the loads of the kommuner amount to: each takes place at one moment,  *)
(* undivided, whatever others do.  Innlasting implements it.                *)
(*                                                                         *)
(* A load writes what its extract says over the rows that are there then.    *)
(* What it may be unable to do is written here too: a building that fails in  *)
(* its block is left as it is and logged, and a resource of such a building   *)
(* has it only if an earlier load brought it.                               *)
(***************************************************************************)
EXTENDS Lastefil

VARIABLES db,     \* [Rader -> value or Ingen]
          avvik   \* [Kommune -> the deviations its latest load logged]

\* The buildings that do not fail.
Lastede(u, feilet) == {rad \in Verdier(MedId(u.bygg)) : rad.id \notin feilet}

\* The building a resource may be given.
Bygget(k, b, feilet) ==
  IF b \notin feilet THEN {b}
  ELSE {Ingen} \cup {x \in {b} : db[RByggnad(k, b)] # Ingen}

\* The rows a load of the kommune is about.
Skrives(k, u, feilet) ==
        {RKommune(k)} \cup Lenkerader(k)
   \cup {RRessurs(k, rad.id) : rad \in Verdier(MedId(u.ressurs))}
   \cup {RByggnad(k, rad.id) : rad \in Lastede(u, feilet)}
   \cup {RAdresse(k, rad.id) : rad \in {x \in Lastede(u, feilet) : x.gate # Ingen}}

\* The links are those of the extract, whatever was there.
Lenkene(k, u) == UNION {Lenkerad(k, l) : l \in Verdier(Lastbare(u))}

Lenkes(k, u) == \A x \in Lenkerader(k) : db'[x] = IF x \in Lenkene(k, u) THEN TRUE ELSE Ingen

\* Buildings and their addresses, and resources with their building and type.
Byggene(k, u, feilet) ==
  \A rad \in Lastede(u, feilet) :
    LET adr == RAdresse(k, rad.id)
    IN  /\ db'[RByggnad(k, rad.id)] = rad.verdi
        /\ rad.gate # Ingen => db'[adr] = NyAdresse(db[adr], rad.gate)

Ressursene(k, u, feilet) ==
  \A rad \in Verdier(MedId(u.ressurs)) :
    \E b \in Bygget(k, ByggFor(u, rad.id), feilet) : db'[RRessurs(k, rad.id)] = NyRessurs(rad, b)

\* Any building may fail, when loads wait for each other in a circle; one that the
\* database rejects does.  A resource that it rejects is never loaded.
Last(k, u) ==
  /\ \A rad \in Verdier(MedId(u.ressurs)) : rad.verdi # ForStor
  /\ DOMAIN db' = Rader
  /\ db'[RKommune(k)] = TRUE
  /\ Lenkes(k, u)
  /\ \E feilet \in SUBSET {rad.id : rad \in Verdier(MedId(u.bygg))} :
       /\ \A rad \in Lastede(u, feilet) : ~ rad.feil
       /\ avvik' = [avvik EXCEPT ![k] = Leseavvik(u) \cup {<<"db_feil", b>> : b \in feilet} \cup UkjenteId(u)]
       /\ Byggene(k, u, feilet)
       /\ Ressursene(k, u, feilet)
       /\ \A x \in Rader \ Skrives(k, u, feilet) : db'[x] = db[x]

\* The fetch failed: the kommune is registered and all else is as it was.
IkkeHentet(k) ==
  /\ db' = [db EXCEPT ![RKommune(k)] = TRUE]
  /\ UNCHANGED avvik

\* The geocoder or an editor sets the status of an address.
SettStatus(k, b, g) ==
  /\ db[RAdresse(k, b)] # Ingen
  /\ db' = [db EXCEPT ![RAdresse(k, b)].geokoding = g]
  /\ UNCHANGED avvik

Init == /\ db = [rad \in Rader |-> Ingen]
        /\ avvik = [k \in Kommune |-> {}]

Next == \/ \E k \in Kommune : \E u \in {f[k] : f \in Filer} :
             IF u = Feilet THEN IkkeHentet(k) ELSE Last(k, u)
        \/ \E k \in Kommune, b \in ByggId, g \in {"feilet", "matrikkel", "manuell"} : SettStatus(k, b, g)

Spec == Init /\ [][Next]_<<db, avvik>>
=============================================================================
