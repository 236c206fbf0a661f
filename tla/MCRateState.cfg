\* Two tasks mark, check, clear and wait for two ids.
SPECIFICATION Spec
CONSTANTS
  t1 = t1
  t2 = t2
  a = a
  b = b
  Task = {t1, t2}
  Id = {a, b}
  ErrorType <- ErrorTypes
  Cooldown <- Cooldowns
  RetryAfters = {1, 3}
  DayMs = 1
  TicksPerMs = 2
  NoExpiry = NoExpiry
  MaxTime = 4
SYMMETRY Symmetry
INVARIANTS RetryHintSuffices BlockBounded SleepNotTooLong
\* The clock stops at MaxTime, and with it every sleeper.
CHECK_DEADLOCK FALSE
