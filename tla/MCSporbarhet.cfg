SPECIFICATION Spec
CONSTANTS
  Kommune = {k1}
  Problem = {p1}
  Ingen = Ingen
  MaksTid = 5
INVARIANTS TypeOK ReferanseHel GjeldendeErSisteHenting
PROPERTIES GjeldendeVernet RyddetEtterLast
