SPECIFICATION Spec
CONSTANTS
  Users = {u1, u2}
  Groups = {g1}
  None = None
  MayFail = TRUE
  MayDelete = TRUE
  MaxInvites = 2
  MaxQueue = 2
  MaxRestarts = 2
CHECK_DEADLOCK FALSE
INVARIANT MembersConsented
\* Comments of the code that are not so: TLC refutes each of these, written in the
\* place of what is checked above.
\*   invariants: NothingStored, NoGhostMembers
\*   properties: TimeoutTellsInviter
