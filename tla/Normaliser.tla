------------------------------ MODULE Normaliser ------------------------------
(***************************************************************************)
(* What normaliser.py makes of a kommune's answer, for one code list, and   *)
(* how it is loaded.  The source knows its codes by local ids and free      *)
(* names; the normaliser maps a name to concepts of a vocabulary that       *)
(* belongs to its release, and writes the whole vocabulary and the          *)
(* translated links to a file.  The load of the file is that of Kodeverk    *)
(* for the vocabulary, and replaces the kommune's links.                    *)
(*                                                                         *)
(* The file of a kommune that could not be fetched, or whose turn never     *)
(* came because the script stopped, is the one of an earlier release.       *)
(* Links to resources outside the answer are in Innlasting.                *)
(* A resource has at most one lokaletype (rescategory_id), and is then a    *)
(* resource with at most one link.                                          *)
(***************************************************************************)
EXTENDS Kodeverk

CONSTANTS
  Utgave,    \* sequence of releases: records vokabular, kart and andre
  Kildedata  \* answers of a source: records koder and lenker

ASSUME Utgaver ==
  /\ Len(Utgave) \in Nat \ {0}
  /\ DOMAIN Utgave = 1..Len(Utgave)
  /\ \A u \in DOMAIN Utgave : \A i, j \in DOMAIN Utgave[u].vokabular :
       i # j => Utgave[u].vokabular[i].id # Utgave[u].vokabular[j].id

ASSUME Svar == \A d \in Kildedata : Len(d.koder) \in Nat /\ DOMAIN d.koder = 1..Len(d.koder)

VARIABLES
  utgave,      \* the release installed
  fil,         \* [Kilde -> <<release, answer>> its file was made of, or Ingen]
  lenker,      \* [Kilde -> pairs of a resource and a concept's id]
  lenkeavvik,  \* [Kilde -> ids its latest load logged as unknown to the master]
  lastet,      \* history: the file of its latest load
  bygd         \* history: releases of the files built so far

vars2 == <<navn, forelder, avvik, forvaltet, utgave, fil, lenker, lenkeavvik, lastet, bygd>>

----------------------------------------------------------------------------
(* The vocabulary and the mapping of a release.                            *)

Begreper(u) == SelectSeq(Utgave[u].vokabular, LAMBDA b : b.fasett # "exclude")

\* EKSKLUDER is one set for the three code lists: andre has the names of the two others.
Ekskluder(u) ==
  Utgave[u].andre \cup {Utgave[u].vokabular[i].navn :
     i \in {j \in DOMAIN Utgave[u].vokabular : Utgave[u].vokabular[j].fasett = "exclude"}}

\* A dict built from rows: of the positions with a key the last one counts.
Siste(pos) == CHOOSE i \in pos : \A j \in pos : j <= i

\* ider.get(navn)
IdFor(u, n) ==
  LET b == Begreper(u)
      pos == {i \in DOMAIN b : b[i].navn = n}
  IN  IF pos = {} THEN Ingen ELSE b[Siste(pos)].id

SamlingAv ==
  [u \in DOMAIN Utgave |->
    [i \in DOMAIN Begreper(u) |-> [id       |-> IdFor(u, Begreper(u)[i].navn),
                                   navn     |-> Begreper(u)[i].navn,
                                   forelder |-> IdFor(u, Begreper(u)[i].bredere)]]]

\* The collections of Kodeverk include what the releases write.
ASSUME Samlingene == \A u \in DOMAIN Utgave : SamlingAv[u] \in Samling

\* Concepts of a source name; none for one that is not mapped (it goes to stderr).
Oversett(u, s) == IF s \in DOMAIN Utgave[u].kart THEN Utgave[u].kart[s] \ Ekskluder(u) ELSE {}

\* Positions of the codes with id and name.
Koder(d) == {i \in DOMAIN d.koder : d.koder[i].id # Ingen /\ d.koder[i].navn # Ingen}

KoderMed(d, a) == {i \in Koder(d) : d.koder[i].id = a}

\* Faulty variant: the first row with an id counts.
KartForste(u, d, a) ==
  LET pos == KoderMed(d, a)
  IN  IF pos = {} THEN {}
      ELSE {IdFor(u, n) : n \in Oversett(u, d.koder[CHOOSE i \in pos : \A j \in pos : i <= j].navn)}

\* kart[kodetype].get(a, [])
Kart(u, d, a) ==
  LET pos == KoderMed(d, a)
  IN  IF pos = {} THEN {} ELSE {IdFor(u, n) : n \in Oversett(u, d.koder[Siste(pos)].navn)}

\* The links of a file: release f[1], answer f[2].
NyeLenker(f) == UNION {{<<l[1], x>> : x \in Kart(f[1], f[2], l[2])} : l \in f[2].lenker}

\* ider[n] raises KeyError when the mapping names a concept the vocabulary lacks.
Oversettes(u, d) == \A i \in Koder(d) : \A n \in Oversett(u, d.koder[i].navn) : IdFor(u, n) # Ingen

----------------------------------------------------------------------------
InitN == /\ Init
         /\ utgave = 1
         /\ fil = [k \in Kilde |-> Ingen]
         /\ lenker = [k \in Kilde |-> {}]
         /\ lenkeavvik = [k \in Kilde |-> {}]
         /\ lastet = [k \in Kilde |-> Ingen]
         /\ bygd = {}

\* A new release of the vocabulary and the mapping is installed.
Oppgrader == /\ utgave < Len(Utgave)
             /\ utgave' = utgave + 1
             /\ UNCHANGED <<navn, forelder, avvik, forvaltet, fil, lenker, lenkeavvik, lastet, bygd>>

\* One kommune of main.  A failed fetch and an exception leave its file as it is.
Skriv(k, d) == /\ Oversettes(utgave, d)
               /\ fil' = [fil EXCEPT ![k] = <<utgave, d>>]
               /\ UNCHANGED <<navn, forelder, avvik, forvaltet, utgave, lenker, lenkeavvik, lastet, bygd>>

\* Faulty variant: the links of an earlier load stay.
LenkUtenSlett(k, ls, n) ==
  /\ lenker' = [lenker EXCEPT ![k] = @ \cup {l \in ls : n[l[2]] # Ingen}]
  /\ lenkeavvik' = [lenkeavvik EXCEPT ![k] = {l[2] : l \in {x \in ls : n[x[2]] = Ingen}}]

\* DELETE and INSERT ... SELECT of the links, and ukjente_id_er_sql.
Lenk(k, ls, n) ==
  /\ lenker' = [lenker EXCEPT ![k] = {l \in ls : n[l[2]] # Ingen}]
  /\ lenkeavvik' = [lenkeavvik EXCEPT ![k] = {l[2] : l \in {x \in ls : n[x[2]] = Ingen}}]

LastFil(k) ==
  /\ lastet' = [lastet EXCEPT ![k] = fil[k]]
  /\ UNCHANGED <<utgave, fil>>

\* Faulty variant: the links come before the vocabulary in the file.
LastByggLenkerForst(k) ==
  /\ fil[k] # Ingen
  /\ Bygg(k, SamlingAv[fil[k][1]])
  /\ Lenk(k, NyeLenker(fil[k]), navn)
  /\ LastFil(k)
  /\ bygd' = bygd \cup {fil[k][1]}

LastBygg(k) ==
  /\ fil[k] # Ingen
  /\ Bygg(k, SamlingAv[fil[k][1]])
  /\ Lenk(k, NyeLenker(fil[k]), navn')
  /\ LastFil(k)
  /\ bygd' = bygd \cup {fil[k][1]}

LastSynk(k) ==
  /\ fil[k] # Ingen
  /\ Synk(k, SamlingAv[fil[k][1]])
  /\ Lenk(k, NyeLenker(fil[k]), navn)
  /\ LastFil(k)
  /\ UNCHANGED bygd

NextN == \/ Oppgrader
         \/ \E k \in Kilde : (\E d \in Kildedata : Skriv(k, d)) \/ LastBygg(k) \/ LastSynk(k)

SpecN == InitN /\ [][NextN]_vars2

----------------------------------------------------------------------------
(* Properties.                                                             *)

\* A committed link means what the source said: through local id, source name,
\* concept, master id and the master's own name, for files of any release that
\* were loaded in any order; and a code the source lists again counts once.
LenkeneMener ==
  \A k \in Kilde : \A l \in lenker[k] : \E s \in lastet[k][2].lenker :
    /\ s[1] = l[1]
    /\ \E i \in DOMAIN lastet[k][2].koder :
         LET rad == lastet[k][2].koder[i]
         IN  /\ rad.id = s[2]
             /\ rad.navn \in DOMAIN Utgave[lastet[k][1]].kart
             /\ navn[l[2]] \in Utgave[lastet[k][1]].kart[rad.navn]
             /\ \A j \in DOMAIN lastet[k][2].koder :
                  lastet[k][2].koder[j].id = s[2] /\ lastet[k][2].koder[j].navn # Ingen => j <= i

\* Nothing mapped is lost without a word: each concept a resource's codes map to is
\* linked, or its id is logged; and logged only if no build has seen the release,
\* however many files of other releases are loaded in between.
KartlagtLenkesEllerLogges ==
  [][\A k \in Kilde : LastBygg(k) \/ LastSynk(k) =>
       LET u == fil[k][1]
           d == fil[k][2]
       IN  /\ \A l \in d.lenker : \A x \in Kart(u, d, l[2]) :
                <<l[1], x>> \in lenker'[k] \/ x \in lenkeavvik'[k]
           /\ u \in bygd' => lenkeavvik'[k] = {}]_vars2
=============================================================================
