SPECIFICATION Spec
CONSTANTS
  Users = {u1, u2}
  Calls = {c1, c2}
  None = None
  MaxWrites = 3
  MaxBegun = 3
  MAX_REFRESH_RETRIES = 1
SYMMETRY Symmetry
CHECK_DEADLOCK FALSE
INVARIANTS InsertFindsRoom NeverBothShown
PROPERTIES SnapshotsForward
\* Comments of the code that are not so: TLC refutes each of these, written in the
\* place of what is checked above.
\*   invariants: BlockedHidden
