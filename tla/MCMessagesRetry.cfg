SPECIFICATION FairSpec
CONSTANTS
  Users = {u1, u2}
  Writers = {u1}
  Uses = {"retry"}
  MaxSends = 2
  MaxCuts = 1
  MaxQueue = 1
CHECK_DEADLOCK FALSE
INVARIANT SendingTracked
PROPERTY SendingEnds
