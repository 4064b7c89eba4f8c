CONSTANTS
  a = a
  b = b
  alice = alice
  bob = bob
  None = None
  Subjects = {alice, bob}
  Callers = {a, b}
  SubjectOf <- Owners
  Kinds <- Pairs
  Lists = {1, 2}
  EventsCapacity = 1
  MaxChanges = 1
  MaxFaults = 1
  TextCapacity = 1
  ServerCapacity = 1
SPECIFICATION Spec
CHECK_DEADLOCK FALSE
INVARIANTS TypeOK EveryEntryWatched ClientToldVerdict RefusedNotRelayed
PROPERTIES VerdictFollows AskingReturns SessionEnds
