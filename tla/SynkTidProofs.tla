---------------------------- MODULE SynkTidProofs ----------------------------
(***************************************************************************)
(* Theorems about SynkTid, for any number of nights and restarts and any     *)
(* hours of the sync.                                                      *)
(***************************************************************************)
EXTENDS SynkTid, TLAPS

\* Now, the day of a moment and the history of the runs.
ITid == /\ tid \in 0..Horisont
        /\ starter \in [Dager -> 0..2]
        /\ sovnet \in 0..Horisont /\ vekkes \in 0..Horisont
        /\ sovnet <= tid
        /\ fase = "sover" => tid <= vekkes

\* A sleep ends later than it began and at the hour of the sync, on a day that has it once.
IVekkes == fase = "sover" /\ ~ Skifte(Dag(vekkes)) => Time(vekkes) = synk /\ sovnet < vekkes

\* No later moment is left for a day that has had its run: neither of those to come nor the
\* one a sleep is under way to.
Grense == IF fase = "sover" THEN sovnet ELSE tid

IStartet == \A d \in Dager : starter[d] >= 1 /\ ~ Skifte(d) =>
              \A t \in Tidspunkt(d, synk) : t <= Grense

INatt == ITid /\ IVekkes /\ IStartet /\ SoverTilNeste /\ EnGangPerDogn

----------------------------------------------------------------------------
(* The clocks.                                                             *)

\* Local time does not go back as far as a whole hour of UTC brings it forward.
LEMMA DagenGaar ==
  ASSUME NEW a \in Nat, NEW b \in Nat, a <= b
  PROVE  Dag(a) \in Nat /\ Dag(a) <= Dag(b)
<1>1. Lokal(a) \in Nat /\ Lokal(b) \in Nat /\ Lokal(a) <= Lokal(b)
  BY DEF Lokal
<1>2. \A x, y \in Nat : x <= y => x \div 24 \in Nat /\ x \div 24 <= y \div 24
  OBVIOUS
<1> QED
  BY <1>1, <1>2 DEF Dag

\* Every moment up to the horizon is on one of the days.
LEMMA DagenFinnes ==
  ASSUME NEW t \in 0..Horisont
  PROVE  Dag(t) \in Dager
<1>1. Horisont \in Nat BY Grenser DEF Horisont
<1>2. Lokal(t) \in Nat /\ Lokal(t) <= Horisont + 2 BY <1>1 DEF Lokal
<1>3. Lokal(t) \div 24 \in Nat /\ Lokal(t) \div 24 <= Horisont \div 24 + 1
  BY <1>1, <1>2
<1> QED
  BY <1>1, <1>3 DEF Dag, Dager

\* A day that neither skips nor repeats the hour has one moment of it.
LEMMA EttTidspunkt ==
  ASSUME NEW a \in 0..Horisont, NEW b \in 0..Horisont, Dag(a) = Dag(b), ~ Skifte(Dag(a)),
         Time(a) = synk, Time(b) = synk
  PROVE  a = b
  BY DEF Skifte, Tidspunkt

\* What a day without a moment, or with another hour's, says of it.
LEMMA IngenErSkifte ==
  ASSUME NEW d, Tidspunkt(d, synk) = {}
  PROVE  Skifte(d)
  BY DEF Skifte

----------------------------------------------------------------------------
(* Where a sleep may end.                                                  *)

\* The target is a moment of today that is still to come, or one of tomorrow after one of
\* today has been; of a day that skips the hour it may be another.
LEMMA MaalFakta ==
  ASSUME NEW m \in Maal, tid \in 0..Horisont
  PROVE  /\ m \in 0..Horisont /\ tid <= m
         /\ \/ Skifte(Dag(tid)) /\ m = tid
            \/ Dag(m) = Dag(tid) /\ Time(m) = synk /\ tid < m
            \/ /\ Dag(m) = Dag(tid) + 1 /\ tid < m
               /\ Time(m) = synk \/ Skifte(Dag(m))
               /\ \E i \in IDag : i <= tid
<1>1. Horisont \in Nat BY Grenser DEF Horisont
<1>2. CASE IDag = {}
  BY <1>1, <1>2, IngenErSkifte DEF Maal, IDag
<1>3. CASE IDag # {}
  <2>1. PICK i \in IDag : m \in (IF i <= tid THEN IMorgen ELSE {i})
    BY <1>3 DEF Maal
  <2>2. i \in 0..Horisont /\ Dag(i) = Dag(tid) /\ Time(i) = synk
    BY <2>1 DEF IDag, Tidspunkt
  <2>3. CASE ~ (i <= tid)
    BY <1>1, <2>1, <2>2, <2>3
  <2>4. CASE i <= tid
    <3>1. m \in IMorgen BY <2>1, <2>4
    <3>2. /\ m \in 0..Horisont /\ Dag(m) = Dag(tid) + 1
          /\ Time(m) = synk \/ Tidspunkt(Dag(m), synk) = {}
      BY <3>1 DEF IMorgen, Tidspunkt
    <3>3. tid < m
      <4> SUFFICES ASSUME ~ (tid < m) PROVE FALSE OBVIOUS
      <4>1. m \in Nat /\ tid \in Nat /\ m <= tid BY <1>1, <3>2
      <4>2. Dag(m) <= Dag(tid) /\ Dag(tid) \in Nat BY <4>1, DagenGaar
      <4> QED BY <3>2, <4>2
    <3> QED BY <1>1, <2>1, <2>4, <3>2, <3>3, IngenErSkifte
  <2> QED BY <2>3, <2>4
<1> QED BY <1>2, <1>3

\* A sleep that begins now passes no hour of the sync.
LEMMA SovnenPasserIngen ==
  ASSUME tid \in 0..Horisont, NEW m \in Maal, ~ Skifte(Dag(tid)), ~ Skifte(Dag(m))
  PROVE  Time(m) = synk /\ \A t \in (tid + 1)..(m - 1) : Time(t) # synk
<1>1. Horisont \in Nat BY Grenser DEF Horisont
<1>2. m \in 0..Horisont /\ tid <= m /\ Time(m) = synk
  BY MaalFakta
<1>3. ASSUME NEW t \in (tid + 1)..(m - 1), Time(t) = synk PROVE FALSE
  <2>1. t \in 0..Horisont /\ tid \in Nat /\ t \in Nat /\ m \in Nat /\ tid < t /\ t < m
    BY <1>1, <1>2, <1>3
  <2>2. Dag(tid) <= Dag(t) /\ Dag(t) <= Dag(m) /\ Dag(tid) \in Nat /\ Dag(t) \in Nat /\ Dag(m) \in Nat
    BY <2>1, DagenGaar
  <2>3. Dag(t) # Dag(m)
    BY <1>2, <1>3, <2>1, EttTidspunkt
  <2>4. Dag(m) = Dag(tid) + 1 /\ \E i \in IDag : i <= tid
    BY <2>2, <2>3, MaalFakta
  <2>5. PICK i \in IDag : i <= tid
    BY <2>4
  <2>6. i \in 0..Horisont /\ Dag(i) = Dag(tid) /\ Time(i) = synk
    BY <2>5 DEF IDag, Tidspunkt
  <2>7. Dag(t) = Dag(tid)
    BY <2>2, <2>3, <2>4
  <2>8. t = i
    BY <1>3, <2>1, <2>6, <2>7, EttTidspunkt
  <2> QED
    BY <1>1, <2>1, <2>5, <2>6, <2>8
<1> QED
  BY <1>2, <1>3

----------------------------------------------------------------------------
(* The invariant.                                                          *)

\* Days, hours and changes of the clocks depend on the zone and SYNK_TID alone.
LEMMA SammeDager ==
  ASSUME sone' = sone, synk' = synk
  PROVE  /\ \A t : Dag(t)' = Dag(t) /\ Time(t)' = Time(t)
         /\ \A d : Tidspunkt(d, synk)' = Tidspunkt(d, synk) /\ (Skifte(d)' <=> Skifte(d))
<1>1. \A t : Dag(t)' = Dag(t) /\ Time(t)' = Time(t)
  BY DEF Dag, Time, Lokal
<1>2. \A d : Tidspunkt(d, synk)' = Tidspunkt(d, synk)
  BY <1>1 DEF Tidspunkt
<1> QED
  BY <1>1, <1>2 DEF Skifte

LEMMA NattInit == Init => INatt
<1> SUFFICES ASSUME Init PROVE INatt OBVIOUS
<1>1. Horisont \in Nat /\ 23 <= Horisont BY Grenser DEF Horisont
<1>2. \A d \in Dager : starter[d] = 0 BY DEF Init
<1>3. ITid BY <1>1 DEF Init, ITid
<1>4. fase # "sover" BY DEF Init
<1> QED
  BY <1>2, <1>3, <1>4 DEF INatt, IVekkes, IStartet, SoverTilNeste, EnGangPerDogn

\* The work is done: the sleep is right, and it is not under way to a day that has had its run.
LEMMA NattSov == INatt /\ Sov => INatt'
<1> SUFFICES ASSUME INatt, Sov PROVE INatt' OBVIOUS
<1>1. vekkes' \in Maal /\ sovnet' = tid /\ fase' = "sover" /\ fase = "arbeider"
  BY DEF Sov
<1>2. tid' = tid /\ sone' = sone /\ synk' = synk /\ starter' = starter BY DEF Sov
<1>3. Horisont \in Nat BY Grenser DEF Horisont
<1>4. tid \in 0..Horisont BY DEF INatt, ITid
<1>5. vekkes' \in 0..Horisont /\ tid <= vekkes' BY <1>1, <1>4, MaalFakta
<1>6. ITid' BY <1>1, <1>2, <1>3, <1>4, <1>5 DEF INatt, ITid, Dager, Horisont
<1>7. ~ Skifte(Dag(vekkes')) => Time(vekkes') = synk /\ tid < vekkes'
  <2>1. Skifte(Dag(tid)) /\ vekkes' = tid => Skifte(Dag(vekkes')) OBVIOUS
  <2> QED BY <1>1, <1>4, <2>1, MaalFakta
<1>8. IVekkes' BY <1>1, <1>2, <1>7, SammeDager DEF IVekkes
<1>9. Grense' = Grense BY <1>1, <1>2 DEF Grense
<1>10. IStartet' BY <1>2, <1>9, SammeDager DEF INatt, IStartet
<1>11. SoverTilNeste' BY <1>1, <1>2, <1>4, SovnenPasserIngen, SammeDager DEF SoverTilNeste
<1>12. EnGangPerDogn' BY <1>2, SammeDager DEF INatt, EnGangPerDogn
<1> QED BY <1>6, <1>8, <1>10, <1>11, <1>12 DEF INatt

\* The nightly run: it is the moment of its day, and the day has had none.
LEMMA NattNatt == INatt /\ Natt => INatt'
<1> SUFFICES ASSUME INatt, Natt PROVE INatt' OBVIOUS
<1> DEFINE d0 == Dag(tid)
<1>1. /\ fase = "sover" /\ fase' = "arbeider" /\ tid' = tid /\ sone' = sone /\ synk' = synk
      /\ sovnet' = sovnet /\ vekkes' = vekkes
      /\ starter' = [starter EXCEPT ![d0] = IF @ = 2 THEN 2 ELSE @ + 1]
  BY DEF Natt
<1>2. Horisont \in Nat BY Grenser DEF Horisont
<1>3. tid \in 0..Horisont /\ vekkes \in 0..Horisont /\ sovnet \in 0..Horisont /\ vekkes = tid /\ sovnet <= tid
  BY <1>1, <1>2 DEF INatt, ITid, Natt
<1>4. d0 \in Dager BY <1>3, DagenFinnes
<1>5. starter' \in [Dager -> 0..2] BY <1>1, <1>4 DEF INatt, ITid
<1>6. ITid' BY <1>1, <1>3, <1>5 DEF INatt, ITid, Dager, Horisont
<1>7. \A d \in Dager : d # d0 => starter'[d] = starter[d] BY <1>1 DEF INatt, ITid
<1>8. ~ Skifte(d0) => starter[d0] = 0 /\ tid \in Tidspunkt(d0, synk)
  <2> SUFFICES ASSUME ~ Skifte(d0) PROVE starter[d0] = 0 /\ tid \in Tidspunkt(d0, synk) OBVIOUS
  <2>1. Time(vekkes) = synk /\ sovnet < vekkes BY <1>1, <1>3 DEF INatt, IVekkes
  <2>2. tid \in Tidspunkt(d0, synk) BY <1>3, <2>1 DEF Tidspunkt
  <2>3. starter[d0] \in 0..2 BY <1>4 DEF INatt, ITid
  <2>4. starter[d0] >= 1 => tid <= sovnet BY <1>1, <1>4, <2>2 DEF INatt, IStartet, Grense
  <2> QED BY <1>2, <1>3, <2>1, <2>2, <2>3, <2>4
<1>9. IStartet'
  <2> SUFFICES ASSUME NEW d \in Dager, starter'[d] >= 1, ~ Skifte(d), NEW t \in Tidspunkt(d, synk)
      PROVE  t <= tid
    BY <1>1, SammeDager DEF IStartet, Grense
  <2>1. t \in 0..Horisont BY DEF Tidspunkt
  <2>2. CASE d = d0
    <3>1. t \in 0..Horisont /\ Dag(t) = d0 /\ Time(t) = synk /\ Time(tid) = synk
      BY <1>8, <2>2 DEF Tidspunkt
    <3>2. t = tid BY <1>3, <2>2, <3>1, EttTidspunkt
    <3> QED BY <1>2, <1>3, <3>2
  <2>3. CASE d # d0
    <3>1. t <= sovnet BY <1>1, <1>7, <2>3 DEF INatt, IStartet, Grense
    <3> QED BY <1>2, <1>3, <2>1, <3>1
  <2> QED BY <2>2, <2>3
<1>10. EnGangPerDogn'
  <2> SUFFICES ASSUME NEW d \in Dager, ~ Skifte(d) PROVE starter'[d] <= 1
    BY <1>1, SammeDager DEF EnGangPerDogn
  <2>1. CASE d = d0 BY <1>1, <1>4, <1>8, <2>1 DEF INatt, ITid
  <2>2. CASE d # d0 BY <1>7, <2>2 DEF INatt, EnGangPerDogn
  <2> QED BY <2>1, <2>2
<1>11. IVekkes' /\ SoverTilNeste' BY <1>1 DEF IVekkes, SoverTilNeste
<1> QED BY <1>6, <1>9, <1>10, <1>11 DEF INatt

\* An hour passes: a sleep is not overslept.
LEMMA NattKlokke == INatt /\ Klokke => INatt'
<1> SUFFICES ASSUME INatt, Klokke PROVE INatt' OBVIOUS
<1>1. /\ tid' = tid + 1 /\ tid < MaksTid /\ sone' = sone /\ synk' = synk /\ fase' = fase
      /\ sovnet' = sovnet /\ vekkes' = vekkes /\ starter' = starter
  BY DEF Klokke
<1>2. Horisont \in Nat /\ MaksTid \in Nat /\ MaksTid <= Horisont BY Grenser DEF Horisont
<1>3. tid \in 0..Horisont /\ vekkes \in 0..Horisont /\ sovnet \in 0..Horisont /\ sovnet <= tid
  BY DEF INatt, ITid
<1>4. fase = "sover" => tid + 1 <= vekkes BY <1>2, <1>3 DEF Klokke
<1>5. ITid' BY <1>1, <1>2, <1>3, <1>4 DEF INatt, ITid, Dager, Horisont
<1>6. Grense \in Nat /\ Grense' \in Nat /\ Grense <= Grense' BY <1>1, <1>2, <1>3 DEF Grense
<1>7. IStartet'
  <2> SUFFICES ASSUME NEW d \in Dager, starter[d] >= 1, ~ Skifte(d), NEW t \in Tidspunkt(d, synk)
      PROVE  t <= Grense'
    BY <1>1, SammeDager DEF IStartet
  <2>1. t \in Nat BY <1>2 DEF Tidspunkt
  <2>2. t <= Grense BY DEF INatt, IStartet
  <2> QED BY <1>6, <2>1, <2>2
<1>8. IVekkes' /\ SoverTilNeste' /\ EnGangPerDogn'
  BY <1>1, SammeDager DEF INatt, IVekkes, SoverTilNeste, EnGangPerDogn
<1> QED BY <1>5, <1>7, <1>8 DEF INatt

\* The container starts or goes down, and a sleep with it.
LEMMA NattOppNed == INatt /\ (Oppstart \/ Stopp) => INatt'
<1> SUFFICES ASSUME INatt, Oppstart \/ Stopp PROVE INatt' OBVIOUS
<1>1. /\ fase' # "sover" /\ tid' = tid /\ sone' = sone /\ synk' = synk
      /\ sovnet' = sovnet /\ vekkes' = vekkes /\ starter' = starter
  BY DEF Oppstart, Stopp
<1>2. Horisont \in Nat BY Grenser DEF Horisont
<1>3. tid \in 0..Horisont /\ sovnet \in 0..Horisont /\ sovnet <= tid BY DEF INatt, ITid
<1>4. ITid' BY <1>1 DEF INatt, ITid, Dager, Horisont
<1>5. Grense \in Nat /\ Grense <= Grense' /\ Grense' = tid BY <1>1, <1>2, <1>3 DEF Grense
<1>6. IStartet'
  <2> SUFFICES ASSUME NEW d \in Dager, starter[d] >= 1, ~ Skifte(d), NEW t \in Tidspunkt(d, synk)
      PROVE  t <= Grense'
    BY <1>1, SammeDager DEF IStartet
  <2>1. t \in Nat BY <1>2 DEF Tidspunkt
  <2>2. t <= Grense BY DEF INatt, IStartet
  <2> QED BY <1>2, <1>3, <1>5, <2>1, <2>2
<1>7. IVekkes' /\ SoverTilNeste' /\ EnGangPerDogn'
  BY <1>1, SammeDager DEF INatt, IVekkes, SoverTilNeste, EnGangPerDogn
<1> QED BY <1>4, <1>6, <1>7 DEF INatt

LEMMA NattAlltid == Spec => []INatt
<1>1. INatt /\ [Next]_vars => INatt'
  <2> SUFFICES ASSUME INatt, [Next]_vars PROVE INatt' OBVIOUS
  <2>1. CASE UNCHANGED vars
    <3>1. /\ fase' = fase /\ tid' = tid /\ sone' = sone /\ synk' = synk
          /\ sovnet' = sovnet /\ vekkes' = vekkes /\ starter' = starter
      BY <2>1 DEF vars
    <3>2. Grense' = Grense /\ ITid'
      BY <3>1 DEF INatt, ITid, Grense, Dager, Horisont
    <3> QED
      BY <3>1, <3>2, SammeDager DEF INatt, IVekkes, IStartet, SoverTilNeste, EnGangPerDogn
  <2> QED
    BY <2>1, NattSov, NattNatt, NattKlokke, NattOppNed DEF Next
<1> QED
  BY <1>1, NattInit, PTL DEF Spec

\* However many nights and restarts, whatever the hour and however long the runs: a sleep of
\* run.sh daemon ends at the hour SYNK_TID and passes none, unless one of its days skips or
\* repeats that hour.
THEOREM SoverTilNesteAlltid == Spec => []SoverTilNeste
<1>1. INatt => SoverTilNeste BY DEF INatt
<1> QED BY <1>1, NattAlltid, PTL

\* A day has one nightly run at most, unless the clocks make it skip or repeat the hour.
THEOREM EnGangPerDognAlltid == Spec => []EnGangPerDogn
<1>1. INatt => EnGangPerDogn BY DEF INatt
<1> QED BY <1>1, NattAlltid, PTL
=============================================================================
