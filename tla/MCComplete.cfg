\* Two clients, waiting, pinned or neither, fail over between models.
SPECIFICATION FairSpec
CONSTANTS
  t1 = t1
  t2 = t2
  m1 = m1
  m2 = m2
  NoLimit = NoLimit
  Task = {t1, t2}
  Model = {m1, m2}
  Cap <- Caps
  Keyed = {m2}
  Setup <- Unready
  Request <- AskMixed
  MaxAttempts = 2
  Cooldown = 1
  RetryMs = {0, 2}
  DrainMs = {1}
INVARIANTS SlotsAccounted AnswerTruthful
PROPERTIES FailedNotCalledAgain AllAttemptsMade KeyRetryAfterHonoured Settles
