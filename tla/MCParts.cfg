SPECIFICATION PartsSpec
CONSTANTS
  \* GroupChat
  Owner = o
  Guests = {a, b}
  MaxActs = 3
  MaxBreaks = 1
  \* TapRouting
  MaxMoves = 4
  \* CallScreens
  MaxCalls = 2
  MaxTouches = 4
  MaxDepth = 4
  \* ChatScreen
  MaxSwitches = 2
  Jobs = {j1, j2}
  MaxTaps = 3
  MaxVisits = 2
  \* VideoPick
  MaxBytes = 5
  MaxSeconds = 1
  TopBytes = 7
  \* Signup
  Names = {"ann", "bob"}
  RandomNames = {"quietotter"}
  Attempts = 2
  MaxEdits = 2
  MaxTrouble = 1
  \* LocalDb
  MaxCallers = 2
  MaxKeys = 3
  MaxMishaps = 3
  \* DeviceKeys
  WriterPhones = {w1}
  ReaderPhones = {r1, r2}
  ActiveKeys = 2
  TargetKeys = 2
  Lookups = 2
  MaxPairs = 4
  \* HistoryPages
  PageSize = 1
  Times = {1, 2}
  Authors = {"me", "you"}
  MaxMessages = 3
  MaxMarks = 1
  MaxStarts = 1
CHECK_DEADLOCK FALSE
INVARIANTS
  RosterCaughtUp
  SentReachedMember
  ScreenFollowsCall
  ContentVouched
  RecordModeEnds
  VideoVerdict
  ColdTapOnce
  PickedNameKept
  KeyOpensHistory
  NoGap
  ReadByAddressed
PROPERTY HistoryKept
\* Comments of the code that are not so: TLC refutes each of these, written in the
\* place of what is checked above.
\*   invariants: LeftIsGone, GroupsReappear, PromptIsPending, ShownIsRecorded,
\*     PlaybackRestored, NothingStale, KeptUntilOpened, MarksKept, PinsKept,
\*     RestOnDemand, DocBlankScreen, DocFitsIsSent, DocRaceRetried
\*   properties: DeletedStaysDeleted, WarmTapStays, DocAcceptStays,
\*     DocRingShown
