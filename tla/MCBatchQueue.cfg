\* Two workers submit next to a regular caller; one of two models is Mistrals.
SPECIFICATION FairSpec
CONSTANTS
  c1 = c1
  c2 = c2
  u1 = u1
  u2 = u2
  m1 = m1
  m2 = m2
  k1 = k1
  Client = {c1, c2}
  Caller = {u1}
  Model = {m1, m2}
  Key = {k1}
  Mistral = {m1}
  Cap <- OneSlot
  max_batch_size = 2
  MaxReports = 1
INVARIANTS FullQueueSignalled NoEntryLost
PROPERTIES ResultsArrive
