SPECIFICATION AccountSpec
CONSTANTS Accounts = {A, B}
 NoOne = NoOne
 Handlers = {h1, h2}
 MaxKeys = 2
 MaxCalls = 3
 MaxFaults = 0
SYMMETRY Symmetry
CONSTRAINT RelayOutOfReach
CHECK_DEADLOCK FALSE
INVARIANTS PublishedKeysHeld 
\* Comments of the code that are not so: TLC refutes each of these, written in the
\* place of what is checked above.
\*   invariants: SignedOutDisconnected, ProfileIsSession, TokenMovesWithAccount,
\*     SignedOutNoPushes, DeletedLeavesNoKey, and LinkFollowsSession without the
\*     constraint
