\* Two imports at once at most, one run by hand, and the few events of each
\* scenario.
SPECIFICATION FairSpec
CONSTANTS
  Hands = {hand}
  Procs = {p1, p2}
  Scenarios <- FewEvents
INVARIANTS
  SavedAgrees
  StatusTells
  OneImport
  ReadyIsComplete
PROPERTIES
  FollowsLifecycle
  ImportingEnds
