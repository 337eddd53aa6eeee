SPECIFICATION FairSpec
CONSTANTS
  k1 = k1  k2 = k2  b1 = b1  b2 = b2  r1 = r1  r2 = r2
  c1 = c1  c2 = c2  cx = cx  v1 = v1  v2 = v2  g1 = g1  g2 = g2
  ByggId = {b1, b2}
  RessursId = {r1, r2}
  Kode = {c1, c2}
  Fremmed = {cx}
  Innhold = {v1, v2}
  Gate = {g1, g2}
  Ingen = Ingen
  ForStor = ForStor
  Feilet = Feilet
  Okt = {s1, s2}
  Kommune = {k1}
  Rekke <- EnRekke
  Filer <- FilerOverlapp
INVARIANT KoblingerErEttUttrekks
PROPERTIES FilenBlirFerdig LastesUdelt
