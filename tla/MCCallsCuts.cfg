SPECIFICATION FairSpec
CONSTANTS
  Users = {u1, u2}
  None = None
  SlowChecks = FALSE
  MicGranted = TRUE
  MaxRings = 1
  MaxCuts = 2
  MaxFrames = 1
CHECK_DEADLOCK FALSE
INVARIANT CalleeHearsRing
PROPERTY PhaseMovesOn
