SPECIFICATION Spec
CONSTANTS
  Users = {u1, u2}
  Writers = {u1}
  Uses = {"read", "delete", "clear"}
  MaxSends = 1
  MaxCuts = 1
  MaxQueue = 1
CHECK_DEADLOCK FALSE
INVARIANTS TicksTrue OneBubble
\* Comments of the code that are not so: TLC refutes each of these, written in the
\* place of what is checked above.
\*   invariants: FailedIsGone, DeleteApplied, ClearedStaysCleared
\*   properties: HydrateKeepsMemory
\*   With MaxQueue = 2: the invariant OneRow.
