SPECIFICATION Spec
CONSTANTS
  i1 = i1  i2 = i2  i3 = i3
  n1 = n1  n2 = n2  n3 = n3
  Id = {i1, i2, i3}
  Navn = {n1, n2, n3}
  Ingen = Ingen
  Tom = Tom
  Kilde = {k1}
  Samling <- Uenige
  MaksForvaltninger = 4
INVARIANTS TypeOK VelFormet
PROPERTIES LoverVokabular AvvikDekker
