\* No failure, no cancelled queue: one re-queue is enough.
SPECIFICATION Spec
CONSTANTS
  Clients = {u1}
  Requests = {"rerun"}
  Budgets <- OneRequest
  MaxDefers = 2
INVARIANTS
  NotLeftClassifying
