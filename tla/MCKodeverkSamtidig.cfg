SPECIFICATION Spec
CONSTANTS
  i1 = i1  i2 = i2  i3 = i3
  n1 = n1  n2 = n2  n3 = n3
  Id = {i1, i2, i3}
  Navn = {n1, n2, n3}
  Ingen = Ingen
  Tom = Tom
  Kilde = {k1, k2}
  Samling <- Samlinger
  Okt = {s1, s2}
  MaksForvaltninger = 1
INVARIANTS TypeOK RentSamtidig
PROPERTIES LoverVokabular AvvikDekkerSamtidig
