---------------------------- MODULE KjoringProofs ----------------------------
(***************************************************************************)
(* Proofs about Kjoring: its type invariant, and that with the endpoints     *)
(* read directly no kommune is left stale in silence.                       *)
(***************************************************************************)
EXTENDS Kjoring, TLAPS

\* What carries FerskEllerLogget through a run: the source only moves forward,
\* and a file being applied was fetched after the run had started.
HentetIDenneKjoringen ==
  /\ \A k \in Kommune : sett[k] <= kilde[k]
  /\ ~ demo /\ fase = "anvend" => \A k \in Kommune : fil[k] = Ingen \/ fil[k] >= sett[k]

\* The run's own variables and the master hold what their types say, and
\* concepts of a kommune are there only together with its data.
THEOREM TypeKorrekt == Spec => []TypeOK
<1>1. Init => TypeOK
  <2>1. 0 \in Versjon /\ 1 \in Versjon /\ 1 \in 1..(Antall + 1) /\ 0 \in 0..MaksFeil
    BY Innstillinger DEF Versjon
  <2>2. Init => demo \in BOOLEAN
    BY Innstillinger DEF Init
  <2>3. QED
    BY <2>1, <2>2 DEF Init, TypeOK, Ingen
<1>2. TypeOK /\ [Next]_vars => TypeOK'
  <2> SUFFICES ASSUME TypeOK, [Next]_vars PROVE TypeOK'
    OBVIOUS
  <2> USE Innstillinger DEF TypeOK, kjoring, master
  <2>1. CASE Start \/ SkjemaKlart \/ GirOpp \/ HopperOver
    BY <2>1 DEF Start, SkjemaKlart, GirOpp, HopperOver
  <2>2. CASE ForsteBygg \/ Natt
    BY <2>2 DEF ForsteBygg, Natt, Begynn
  <2>3. CASE SjekkFeiler \/ GenererFeiler \/ Krasj
    BY <2>3 DEF SjekkFeiler, GenererFeiler, Krasj, Feil
  <2>4. CASE NattSjekkFeiler
    BY <2>4 DEF NattSjekkFeiler, Begynn, Feil
  <2>5. ASSUME NEW hentet \in SUBSET Kommune, Normaliser(hentet) PROVE TypeOK'
    BY <2>5 DEF Normaliser, Normalisert, Henting, Feil
  <2>6. ASSUME NEW hentet \in SUBSET Kommune, Generer(hentet) PROVE TypeOK'
    BY <2>6 DEF Generer, Innhold, Henting, Feil, Versjon, Ingen
  <2>6a. ASSUME NEW hentet \in SUBSET Kommune, GenererGift(hentet) PROVE TypeOK'
    BY <2>6a DEF GenererGift, Henting, Feil
  <2>7. CASE Anvend
    <3>1. neste \in Kommune /\ neste' \in 1..(Antall + 1)
      BY <2>7 DEF Anvend, Kommune
    <3>2. CASE fil[neste] = Ingen
      BY <2>7, <3>1, <3>2 DEF Anvend, Logg
    <3>3. CASE fil[neste] # Ingen
      <4>1. base' \in [Kommune -> Versjon]
        BY <2>7, <3>1, <3>3 DEF Anvend, Last
      <4>2. vokabular' \subseteq {k \in Kommune : base'[k] # Ingen}
        BY <2>7, <3>1, <3>3 DEF Anvend, Last
      <4>3. QED
        BY <2>7, <3>1, <3>3, <4>1, <4>2 DEF Anvend, Last
    <3>4. QED
      BY <3>2, <3>3
  <2>8. CASE Rullet \/ PsqlFeiler
    <3>1. neste' \in 1..(Antall + 1) /\ feil' \in 0..MaksFeil
      BY <2>8 DEF Rullet, PsqlFeiler, Feil, Kommune
    <3>2. QED
      BY <2>8, <3>1 DEF Rullet, PsqlFeiler
  <2>9. CASE Ferdig
    BY <2>9 DEF Ferdig
  <2>10. ASSUME NEW k \in Kommune, KrasjUnderSkriving(k) PROVE TypeOK'
    BY <2>10 DEF KrasjUnderSkriving, Feil, Versjon, Ingen
  <2>11. CASE Migrer
    BY <2>11 DEF Migrer
  <2>12. ASSUME NEW k \in Kommune, Endre(k) PROVE TypeOK'
    BY <2>12 DEF Endre, Versjon
  <2>13. CASE UNCHANGED vars
    BY <2>13 DEF vars
  <2>14. QED
    BY <2>1, <2>2, <2>3, <2>4, <2>5, <2>6, <2>6a, <2>7, <2>8, <2>9, <2>10, <2>11, <2>12, <2>13
       DEF Next, Daemon, Omgivelser
<1>3. QED
  BY <1>1, <1>2, PTL DEF Spec

\* In a container with NORMALISER_DEMO=false: however runs fail, crash and repeat, a kommune
\* committed in the latest run is as fresh as its source was, or is logged.
THEOREM FerskEllerLoggetAlltid == Spec => []FerskEllerLogget
<1> DEFINE Inv == HentetIDenneKjoringen /\ FerskEllerLogget
<1>1. Init => Inv
  BY Innstillinger DEF Init, HentetIDenneKjoringen, FerskEllerLogget, Kommune, Ingen
<1>2. TypeOK /\ Inv /\ [Next]_vars => Inv'
  <2> SUFFICES ASSUME TypeOK, Inv, [Next]_vars PROVE Inv'
    OBVIOUS
  <2> USE DEF TypeOK, HentetIDenneKjoringen, FerskEllerLogget, Fersk, kjoring, master
  <2>1. CASE Start \/ SkjemaKlart \/ GirOpp \/ HopperOver
    BY <2>1 DEF Start, SkjemaKlart, GirOpp, HopperOver
  <2>2. ASSUME NEW m, Begynn(m) PROVE Inv'
    BY <2>2 DEF Begynn, Versjon
  <2>3. CASE SjekkFeiler \/ GenererFeiler \/ Krasj \/ Ferdig \/ Migrer
    BY <2>3 DEF SjekkFeiler, GenererFeiler, Krasj, Ferdig, Migrer
  <2>4. ASSUME NEW hentet \in SUBSET Kommune, Normaliser(hentet) PROVE Inv'
    BY <2>4 DEF Normaliser
  <2>5. ASSUME NEW hentet \in SUBSET Kommune, Generer(hentet) PROVE Inv'
    BY <2>5 DEF Generer, Innhold, Versjon
  <2>5a. ASSUME NEW hentet \in SUBSET Kommune, GenererGift(hentet) PROVE Inv'
    BY <2>5a DEF GenererGift
  <2>6. CASE Anvend
    <3>1. CASE fil[neste] = Ingen
      BY <2>6, <3>1 DEF Anvend, Logg
    <3>2. CASE fil[neste] # Ingen
      BY <2>6, <3>2 DEF Anvend, Last
    <3>3. QED
      BY <3>1, <3>2
  <2>7. CASE Rullet \/ PsqlFeiler
    BY <2>7 DEF Rullet, PsqlFeiler
  <2>8. ASSUME NEW k \in Kommune, KrasjUnderSkriving(k) PROVE Inv'
    BY <2>8 DEF KrasjUnderSkriving
  <2>9. ASSUME NEW k \in Kommune, Endre(k) PROVE Inv'
    BY <2>9 DEF Endre, Versjon
  <2>10. CASE UNCHANGED vars
    BY <2>10 DEF vars
  <2>11. QED
    BY <2>1, <2>2, <2>3, <2>4, <2>5, <2>5a, <2>6, <2>7, <2>8, <2>9, <2>10
       DEF Next, Daemon, Omgivelser, ForsteBygg, Natt, NattSjekkFeiler
<1>3. Inv => FerskEllerLogget
  OBVIOUS
<1>4. QED
  BY <1>1, <1>2, <1>3, TypeKorrekt, PTL DEF Spec
=============================================================================
