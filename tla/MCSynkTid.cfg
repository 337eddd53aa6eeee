SPECIFICATION Spec
CONSTANTS
  SynkTider = {0, 2, 3, 23}
  Soner = {"vaar", "host", "ingen"}
  MaksTid = 76
  MaksStopp = 2
INVARIANTS SoverTilNeste EnGangPerDogn
CHECK_DEADLOCK FALSE
