SPECIFICATION RelayPartsSpec
CONSTANTS
  \* RelayGroups
  Users = {u1, u2, u3}
  Groups = {g1}
  None = None
  MayFail = FALSE
  MayDelete = FALSE
  MaxInvites = 2
  MaxQueue = 2
  MaxRestarts = 1
  \* RelayGate
  People = {A, B}
  Slots = {s1}
  Ttl = 1
  Latency = 1
  MaxTime = 5
  MaxChanges = 2
  \* RelayGuards
  EventLimit = 2
  AbuseFactor = 2
  SendLimit = 2
  ByteLimit = 3
  RateWindow = 1
  ByteWindow = 2
  SmallFrame = 1
  Sizes = {1, 2}
  MaxMissedPongs = 2
  MaxClock = 3
  MaxFrames = 5
  \* PushPings
  Devices = {d1}
  LongPause = 2
  ShortPause = 1
  MaxMoment = 4
  MaxNaming = 2
SYMMETRY UsersAlike
CHECK_DEADLOCK FALSE
INVARIANTS
  QueueRebuildsMemory
  DeliveredWasAllowed
PROPERTIES
  TimeoutHitsOwnInvite
  PingsSpaced
  AnswererStays
\* Comments of the code that are not so: TLC refutes each of these, written in the
\* place of what is checked above.
\*   invariants: DocHiccupHides, DocDeclineForgets
