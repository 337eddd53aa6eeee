SPECIFICATION Spec
CONSTANTS
  Antall = 2
  NORMALISER_DEMO = {TRUE}
  Giftig = {}
  GiftigNorm = {}
  MaksVersjon = 2
  MaksFeil = 2
INVARIANT HentefeilLogges
