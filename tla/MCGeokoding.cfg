SPECIFICATION FairSpec
CONSTANTS
  t1 = t1  t2 = t2  t3 = t3  t4 = t4
  v1 = v1  v2 = v2  v3 = v3  v4 = v4
  Bygg = {b1}
  Tekst = {t1, t2, t3, t4}
  Gate <- Gater
  Nummer <- Numre
  Delt = {t4}
  Sted = {v1, v2, v3, v4}
  Matrikkel <- Register
  VegNavn <- To
  Kjoringer = {natt, hand}
  Natt = natt
  Ingen = Ingen
  Manuelt = Manuelt
  MaksFeil = 2
INVARIANTS TypeOK StedErTekstens
PROPERTIES MatchVernet FullfortEllerLogget ManueltBlir BlirFullfort
