------------------------------ MODULE Sporbarhet ------------------------------
(***************************************************************************)
(* The trace of the runs: kildeuttrekk (one row per fetch) and synk_avvik   *)
(* (what that fetch could not load), the view of the current deviations,    *)
(* and the two ways rows go: rydd_kildeuttrekk at the end of a load and the *)
(* nightly prune_avvik of run.sh.                                          *)
(*                                                                         *)
(* A run writes a file and applies it later in one transaction, where the   *)
(* id is given.  A kommune is a source under one name: the file registers   *)
(* it and logs for it, and has the time of the fetch, hentet, in it.  The   *)
(* Matrikkel is registered as "matrikkel" and logged for as                 *)
(* "matrikkel-adresse" or "matrikkel-bygning", and its file has no time:    *)
(* hentet is when it is applied.                                           *)
(***************************************************************************)
EXTENDS Naturals, FiniteSets

CONSTANTS Kommune,    \* the kommuner, as sources
          Problem,    \* what can be wrong in a source
          Ingen,      \* NULL
          MaksTid     \* bound on the clock and on the number of fetches

\* What the Matrikkel's deviations are logged under.
Matrikkelavvik == {"matrikkel-adresse", "matrikkel-bygning"}

ASSUME IngenUkjent == Ingen \notin Nat
ASSUME Kildenavn == Kommune \cap (Matrikkelavvik \cup {"matrikkel"}) = {}

Kilde == Kommune \cup {"matrikkel"}
Avvikskilde == Kommune \cup Matrikkelavvik

\* The source whose extract a deviation belongs to, by what it is logged under.
KildeTil(d) == IF d \in Kommune THEN d ELSE "matrikkel"

VARIABLES
  uttrekk,   \* rows of kildeuttrekk
  avvik,     \* rows of synk_avvik
  nesteId,   \* the sequence of kildeuttrekk.id
  klokke,    \* the time
  filer,     \* load files written and not yet applied
  siste      \* history: [Kilde -> the latest fetch loaded, and what it found]

vars == <<uttrekk, avvik, nesteId, klokke, filer, siste>>

Uttrekk == [id : Nat, kilde : Kilde, hentet : Nat]
Avvik == [uttrekk : Nat \cup {Ingen}, kilde : Avvikskilde, problem : Problem \cup {"henting"},
          gammel : BOOLEAN]

\* What a file logs: pairs of what it is logged under and what is wrong.
Funn == Avvikskilde \X (Problem \cup {"henting"})
Fil == [kilde : Kilde, skrevet : Nat, feilet : BOOLEAN, funn : SUBSET Funn]

----------------------------------------------------------------------------
(* The views and the two deletions.                                        *)

\* ORDER BY hentet_at DESC, id DESC
Nyere(v, u) == v.hentet > u.hentet \/ (v.hentet = u.hentet /\ v.id > u.id)

\* row_number() OVER (PARTITION BY kilde ...): v comes before u.
Foran(v, u) == v.kilde = u.kilde /\ Nyere(v, u)

\* Faulty variant of Beholdes: one row too many stays.
BeholderTre(alle, k) ==
  {u \in alle : u.kilde = k =>
     ~ \E v, w, x \in alle : /\ v # w /\ w # x /\ v # x
                            /\ Foran(v, u) /\ Foran(w, u) /\ Foran(x, u)}

\* rydd_kildeuttrekk(k): the rows that stay, at most two per source.
Beholdes(alle, k) ==
  {u \in alle : u.kilde = k =>
     ~ \E v, w \in alle : v # w /\ Foran(v, u) /\ Foran(w, u)}

\* Faulty variant of UtenUttrekk: no foreign key.
UtenFremmednokkel(rader, alle) == rader

\* ON DELETE SET NULL: a deviation outlives its fetch.
UtenUttrekk(rader, alle) ==
  {IF \E u \in alle : u.id = a.uttrekk THEN a ELSE [a EXCEPT !.uttrekk = Ingen] : a \in rader}

\* DISTINCT ON (kilde) ... ORDER BY kilde, hentet_at DESC, id DESC
SisteUttrekk(alle) == {u \in alle : ~ \E v \in alle : v.kilde = u.kilde /\ Nyere(v, u)}

\* v_synk_avvik_gjeldende
Gjeldende == {a \in avvik : \E u \in SisteUttrekk(uttrekk) : u.id = a.uttrekk}

----------------------------------------------------------------------------
Init == /\ uttrekk = {}
        /\ avvik = {}
        /\ nesteId = 1
        /\ klokke = 1
        /\ filer = {}
        /\ siste = [k \in Kilde |-> [hentet |-> 0, funn |-> {}]]

NyFil(f) == /\ klokke < MaksTid
            /\ klokke' = klokke + 1
            /\ filer' = filer \cup {f}
            /\ UNCHANGED <<uttrekk, avvik, nesteId, siste>>

\* last_inn.py or synk.py writes the file of k, with the time of its fetch in it.
Skriv(k, funn) == NyFil([kilde |-> k, skrevet |-> klokke, feilet |-> FALSE, funn |-> {k} \X funn])

\* The same, when the fetch fails.
IkkeHentet(k) ==
  NyFil([kilde |-> k, skrevet |-> klokke, feilet |-> TRUE, funn |-> {<<k, "henting">>}])

\* Faulty variant of SkrivMatrikkel: registered under the name it logs for.
SkrivMatrikkelAdresse(funn) ==
  NyFil([kilde |-> "matrikkel-adresse", skrevet |-> klokke, feilet |-> FALSE, funn |-> funn])

\* matrikkel_adresse.py writes its file; one that fails leaves nothing to apply.
SkrivMatrikkel(funn) ==
  NyFil([kilde |-> "matrikkel", skrevet |-> klokke, feilet |-> FALSE, funn |-> funn])

\* p_hentet_at of registrer_kildeuttrekk: in the file of a kommune, DEFAULT now()
\* for the Matrikkel.
Hentet(f) == IF f.kilde \in Kommune THEN f.skrevet ELSE klokke

\* Faulty variant of Registrert: no time in any file.
RegistrertNaa(f) == [id |-> nesteId, kilde |-> f.kilde, hentet |-> klokke]

Registrert(f) == [id |-> nesteId, kilde |-> f.kilde, hentet |-> Hentet(f)]

\* logg_avvik: the id of the extract registered first in the transaction, and the
\* source as the call has it.
Logget(f) ==
  {[uttrekk |-> nesteId, kilde |-> d[1], problem |-> d[2], gammel |-> FALSE] : d \in f.funn}

\* psql applies the file: registrer_kildeuttrekk, logg_avvik for each deviation,
\* and rydd_kildeuttrekk, which the branch for a failed fetch does not have.
Anvend(f) ==
  LET alle == uttrekk \cup {Registrert(f)}
      igjen == IF f.feilet THEN alle ELSE Beholdes(alle, f.kilde)
  IN  /\ uttrekk' = igjen
      /\ avvik' = UtenUttrekk(avvik \cup Logget(f), igjen)
      /\ nesteId' = nesteId + 1
      /\ filer' = filer \ {f}
      /\ siste' = IF Hentet(f) < siste[f.kilde].hentet THEN siste
                  ELSE [siste EXCEPT ![f.kilde] = [hentet |-> Hentet(f), funn |-> f.funn]]
      /\ UNCHANGED klokke

\* The transaction fails: registration and deviations are rolled back with it.
Avbrutt(f) ==
  /\ filer' = filer \ {f}
  /\ UNCHANGED <<uttrekk, avvik, nesteId, klokke, siste>>

\* AVVIK_RETENTION_DAYS pass.
Eldes == /\ avvik' = {[a EXCEPT !.gammel = TRUE] : a \in avvik}
         /\ UNCHANGED <<uttrekk, nesteId, klokke, filer, siste>>

\* Faulty variant of Prune: every old row goes.
PruneAlt == /\ avvik' = {a \in avvik : ~ a.gammel}
            /\ UNCHANGED <<uttrekk, nesteId, klokke, filer, siste>>

\* prune_avvik: the old rows that are not current go.
Prune == /\ avvik' = {a \in avvik : ~ a.gammel \/ a \in Gjeldende}
         /\ UNCHANGED <<uttrekk, nesteId, klokke, filer, siste>>

----------------------------------------------------------------------------
Skrives == \/ \E k \in Kommune : IkkeHentet(k) \/ \E funn \in SUBSET Problem : Skriv(k, funn)
           \/ \E funn \in SUBSET (Matrikkelavvik \X Problem) : SkrivMatrikkel(funn)

Anvendes == \E f \in filer : Anvend(f) \/ Avbrutt(f)

Vedlikehold == Eldes \/ Prune

Next == Skrives \/ Anvendes \/ Vedlikehold

\* Several runs may be under way, and files be applied by hand in any order.
Spec == Init /\ [][Next]_vars

----------------------------------------------------------------------------
(* Properties.                                                             *)

\* Types; ids are below the sequence, and a file logs for its own source only.
TypeOK == /\ uttrekk \subseteq Uttrekk
          /\ avvik \subseteq Avvik
          /\ nesteId \in Nat
          /\ klokke \in Nat
          /\ filer \subseteq Fil
          /\ siste \in [Kilde -> [hentet : Nat, funn : SUBSET Funn]]
          /\ \A u \in uttrekk : u.id < nesteId
          /\ \A f \in filer : \A d \in f.funn : KildeTil(d[1]) = f.kilde

\* What the view of current deviations has of a source: of the Matrikkel both what
\* is logged for addresses and what is logged for buildings.
GjeldendeFor(k) ==
  {<<a.kilde, a.problem>> : a \in {x \in Gjeldende : KildeTil(x.kilde) = k}}

\* A deviation that points at a fetch points at one that is there, of the source
\* it belongs to, however the clean-ups and the loads interleave.
ReferanseHel ==
  /\ \A u, v \in uttrekk : u.id = v.id => u = v
  /\ \A a \in avvik : a.uttrekk # Ingen =>
       \E u \in uttrekk : u.id = a.uttrekk /\ u.kilde = KildeTil(a.kilde)

\* What is current for a source changes only when a file of that source is
\* applied: neither clean-up, nor another source's load, nor age takes it away.
GjeldendeVernet ==
  [][\A k \in Kilde :
       \/ \E f \in filer : f.kilde = k /\ Anvend(f)
       \/ GjeldendeFor(k)' = GjeldendeFor(k)]_vars

\* In whatever order files are applied, rolled back and cleaned up after, the view
\* of current deviations is what the latest fetch found: of a kommune the one that
\* was made last, of the Matrikkel the one that was applied last.
GjeldendeErSisteHenting == \A k \in Kilde : GjeldendeFor(k) = siste[k].funn

\* After a successful load a source has at most two fetches left.
RyddetEtterLast ==
  [][\A f \in filer : Anvend(f) /\ ~ f.feilet =>
       Cardinality({u \in uttrekk' : u.kilde = f.kilde}) <= 2]_vars
=============================================================================
