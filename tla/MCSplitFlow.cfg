\* A client of the tool loop, whose answered calls report on in the background,
\* and two threads of the server share a model with two slots and a ceiling to
\* learn; one message, client or server is lost.
SPECIFICATION FairSpec
CONSTANTS
  c1 = c1
  m1 = m1
  s1 = s1
  s2 = s2
  NotLearned = NotLearned
  Uncapped = Uncapped
  NoModel = NoModel
  Client = {c1}
  ToolLoop = {c1}
  Thread = {s1, s2}
  Model = {m1}
  MaxInFlight <- TwoSlots
  Unknown = {m1}
  Announcing = {m1}
  Garbling = {m1}
  Span = 1
  MaxLearned = 2
  Cooldowns = {1}
  MaxRetries = 1
  MaxFaults = 1
  FreeBound = 2
  WindowBound = 4
INVARIANT SlotsBalance
PROPERTIES CeilingHeld RetriesElsewhere LearnedNeverStarves
