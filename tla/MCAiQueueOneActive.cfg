\* Two callers and no failure at all.
SPECIFICATION Spec
CONSTANTS
  Callers = {c1, c2}
  Cron = cron
  Priorities = {0}
  MaxSlots = 2
  MaxFaults = 0
INVARIANTS
  AtMostOneActive
