\* One client, every request at any moment, or one failure or restart and retries.
SPECIFICATION FairSpec
CONSTANTS
  Clients = {u1}
  Requests = {"replace", "rerun", "classify_only", "resume", "embed", "cancel", "retry"}
  Budgets <- OneEvent
  MaxDefers = 2
INVARIANTS
  Settled
  ReadyIsCurrent
  EmbeddingIsCurrent
PROPERTIES
  JobsEnd
