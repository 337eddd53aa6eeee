SPECIFICATION FairSpec
CONSTANTS
  Antall = 2
  NORMALISER_DEMO = {TRUE, FALSE}
  Giftig = {2, 3}
  GiftigNorm = {2}
  MaksVersjon = 4
  MaksFeil = 2
INVARIANTS TypeOK FerskEllerLogget
PROPERTIES VokabularBlirTil KildenNarMasteren
