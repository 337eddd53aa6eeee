SPECIFICATION Spec
CONSTANTS
  k1 = k1  k2 = k2  nr = nr  bergen = bergen  lt = lt  a1 = a1  a2 = a2  f1 = f1  f2 = f2  ord = ord
  Ressurs = {1, 2, 3}
  Bygg = {1, 2, 3}
  Kommune = {k1, k2}
  Kommunenr = {k1, k2, nr}
  Kommuneord = {k1, k2, nr, bergen}
  Lokaletype = {lt}
  Aktivitet = {a1, a2}
  Fasilitet = {f1, f2}
  Ord = {ord}
  Ingen = Ingen
  Eier <- TreEiere
  ByggNavn <- Navnelike
  Avstand <- EnUtenPosisjon
  Utgave <- Utgaver
  Foresporsel <- Foresporsler
  STANDARD_STORRELSE = 2
  MAKS_STORRELSE = 3
  MAKS_RADIUS_METER = 5
  IntHalv = 32
  MaksEndringer = 1
INVARIANTS TypeOK BladdAlt SvarHenger SideUtenforErTom PanelTreffer
