\* Two installations, two slots, and the few events of each scenario.
SPECIFICATION FairSpec
CONSTANTS
  Capacity = 2
  Scenarios <- FewEvents
INVARIANTS
  TypeOK
  SlotAccounting
  FollowUpArrives
PROPERTIES
  QueueDrains
