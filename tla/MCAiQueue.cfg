\* Two callers, three rows (so that one caller comes back), one failure.
SPECIFICATION FairSpec
CONSTANTS
  Callers = {c1, c2}
  Cron = cron
  Priorities = {0}
  MaxSlots = 3
  MaxFaults = 1
INVARIANTS
  Bookkeeping
  NoLostWakeup
  NoStrandedLine
  NoZombieRow
  RunnerIsActive
PROPERTIES
  WaitEnds
  OrphanSwept
  ImplementsLine
