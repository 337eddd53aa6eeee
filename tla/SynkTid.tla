------------------------------- MODULE SynkTid -------------------------------
(***************************************************************************)
(* When the nightly run starts: seconds_until_sync and the loop of daemon   *)
(* in etl/run.sh.  The target is a local time, the sleep is a number of      *)
(* seconds, and between the two the clocks may change.  Time is counted in   *)
(* hours of UTC; one change, of the night after the first.                  *)
(***************************************************************************)
EXTENDS Integers

CONSTANTS SynkTider,  \* the values of SYNK_TID, as local hours
          Soner,      \* subset of {"vaar", "host", "ingen"}: what the clocks do
          MaksTid,    \* bound: the hours that pass
          MaksStopp   \* bound: restarts of the container

ASSUME Grenser == MaksTid \in Nat /\ MaksStopp \in Nat

VARIABLES tid,       \* now
          sone, synk,
          fase,      \* the daemon: "nede", "arbeider" (a load or the start-up), "sover"
          sovnet, vekkes, \* when the sleep began and when it ends
          starter,   \* history: [local day -> nightly runs started], 2 is two or more
          stopp

vars == <<tid, sone, synk, fase, sovnet, vekkes, starter, stopp>>

Horisont == MaksTid + 48
Dager == 0..(Horisont \div 24 + 1)

\* The clocks change at 01:00 UTC: from 02:00 to 03:00 in spring, back in autumn.
Lokal(t) == t + CASE sone = "vaar" -> IF t < 25 THEN 1 ELSE 2
                  [] sone = "host" -> IF t < 25 THEN 2 ELSE 1
                  [] OTHER         -> 1

Dag(t) == Lokal(t) \div 24
Time(t) == Lokal(t) % 24

\* The moments that are the hour h of day d: one, none or two.
Tidspunkt(d, h) == {t \in 0..Horisont : Dag(t) = d /\ Time(t) = h}

\* date -d "today HH:MM" refuses an hour that is skipped and picks one of two.
IDag == Tidspunkt(Dag(tid), synk)

\* date -d "tomorrow HH:MM" moves a skipped hour to the next.
IMorgen == LET t == Tidspunkt(Dag(tid) + 1, synk)
           IN  IF t # {} THEN t ELSE Tidspunkt(Dag(tid) + 1, synk + 1)

\* Faulty variants: [ "$maal" -lt "$naa" ]; a day is 24 hours.
MaalMindre ==
  IF IDag = {} THEN {tid}
  ELSE UNION {IF m < tid THEN IMorgen ELSE {m} : m \in IDag}

MaalDognet ==
  IF IDag = {} THEN {tid}
  ELSE {IF m <= tid THEN m + 24 ELSE m : m \in IDag}

\* Where the sleep may end.  Without a target of today the comparison is an error
\* and the difference negative: sleep refuses it and returns at once.
Maal ==
  IF IDag = {} THEN {tid}
  ELSE UNION {IF m <= tid THEN IMorgen ELSE {m} : m \in IDag}

----------------------------------------------------------------------------
Init == /\ tid \in 0..23
        /\ sone \in Soner /\ synk \in SynkTider
        /\ fase = "nede"
        /\ sovnet = tid /\ vekkes = tid
        /\ starter = [d \in Dager |-> 0]
        /\ stopp = 0

\* The daemon starts: the initial build, or nothing.
Oppstart == /\ fase = "nede"
            /\ fase' = "arbeider"
            /\ UNCHANGED <<tid, sone, synk, sovnet, vekkes, starter, stopp>>

\* The work is done: next sync at SYNK_TID.
Sov == /\ fase = "arbeider"
       /\ fase' = "sover"
       /\ sovnet' = tid
       /\ vekkes' \in Maal
       /\ UNCHANGED <<tid, sone, synk, starter, stopp>>

\* The nightly run.
Natt == /\ fase = "sover" /\ tid >= vekkes
        /\ fase' = "arbeider"
        /\ starter' = [starter EXCEPT ![Dag(tid)] = IF @ = 2 THEN 2 ELSE @ + 1]
        /\ UNCHANGED <<tid, sone, synk, sovnet, vekkes, stopp>>

\* An hour passes; a sleep is not overslept.
Klokke == /\ tid < MaksTid
          /\ fase = "sover" => tid < vekkes
          /\ tid' = tid + 1
          /\ UNCHANGED <<sone, synk, fase, sovnet, vekkes, starter, stopp>>

Stopp == /\ fase # "nede" /\ stopp < MaksStopp
         /\ fase' = "nede"
         /\ stopp' = stopp + 1
         /\ UNCHANGED <<tid, sone, synk, sovnet, vekkes, starter>>

Next == Oppstart \/ Sov \/ Natt \/ Klokke \/ Stopp

Spec == Init /\ [][Next]_vars

----------------------------------------------------------------------------
(* Properties.                                                             *)

\* The day skips or repeats the hour SYNK_TID.
Skifte(d) == ~ \E t \in Tidspunkt(d, synk) : Tidspunkt(d, synk) = {t}

\* "Every night at SYNK_TID" (DEPLOY.md:83), whenever the daemon came up, however
\* long a run took and whatever the clocks did: each sleep ends at the hour
\* SYNK_TID and passes none, unless one of its days skips or repeats that hour.
SoverTilNeste ==
  fase = "sover" /\ ~ Skifte(Dag(sovnet)) /\ ~ Skifte(Dag(vekkes)) =>
    /\ Time(vekkes) = synk
    /\ \A t \in (sovnet + 1)..(vekkes - 1) : Time(t) # synk

\* No day has two nightly runs, with restarts and long runs, unless it skips or
\* repeats the hour SYNK_TID.
EnGangPerDogn == \A d \in Dager : starter[d] <= 1 \/ Skifte(d)
=============================================================================
