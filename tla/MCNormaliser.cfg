SPECIFICATION SpecN
CONSTANTS
  i1 = i1  i2 = i2  i3 = i3  i4 = i4
  n1 = n1  n2 = n2  n3 = n3  n4 = n4  x1 = x1  x2 = x2
  s1 = s1  s2 = s2  s3 = s3  s4 = s4
  a1 = a1  a2 = a2  a3 = a3  r1 = r1  r2 = r2
  Id = {i1, i2, i3}
  Navn = {n1, n2, n3}
  Ingen = Ingen
  Tom = Tom
  Kilde = {k1, k2}
  Samling <- Samlinger
  MaksForvaltninger = 0
  Utgave <- Utgavene
  Kildedata <- Svarene
INVARIANT LenkeneMener
PROPERTIES RentVedKontrakt KartlagtLenkesEllerLogges
