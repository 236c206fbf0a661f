\* Two tasks select and report on two brands with a key each at most; requests
\* by group, by pin and by a step without rules.
SPECIFICATION Spec
CONSTANTS
  t1 = t1
  t2 = t2
  m1 = m1
  m2 = m2
  m3 = m3
  B1 = B1
  B2 = B2
  k1 = k1
  k2 = k2
  NoKey = NoKey
  NoLimit = NoLimit
  None = None
  plain = plain
  open = open
  pair = pair
  off = off
  empty = empty
  Step = {open}
  Group = {pair, off, empty}
  Language = {"en"}
  Category = {"text", "audio"}
  Task = {t1, t2}
  Model = {m1, m3}
  Brand = {B1, B2}
  Key = {k1}
  Catalog <- SmallCatalog
  Pool <- OneKey
  Cap <- Caps
  Free = {m3}
  Unknown = {m3}
  Latency <- Latencies
  Request <- AskRouted
  ErrorType = {"rpm", "timeout"}
SYMMETRY Symmetry
INVARIANT ExhaustionJustified
PROPERTIES PrepaidFirst CeilingKept SlowOnlyAsFallback ServesWithinTerms SlotsSpec
