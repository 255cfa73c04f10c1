SPECIFICATION Spec
CONSTANTS
  Users = {u1, u2}
  None = None
  SlowChecks = TRUE
  MicGranted = TRUE
  MaxRings = 2
  MaxCuts = 0
  MaxFrames = 1
SYMMETRY Symmetry
CHECK_DEADLOCK FALSE
INVARIANTS MicNeedsPick PhaseTimed
\* Comments of the code that are not so: TLC refutes each of these, written in the
\* place of what is checked above.
\*   invariants: MicOffAfterCall, BusyMeansAnotherCall, RingRecordHasCall,
\*     RingingHasCaller
\*   properties: OfferFindsConnection, AcceptIsOfThisRing
