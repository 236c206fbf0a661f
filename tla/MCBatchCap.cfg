\* The report of a finished batch gives back the slot of a regular call.
SPECIFICATION Spec
CONSTANTS
  c1 = c1
  c2 = c2
  u1 = u1
  u2 = u2
  m1 = m1
  m2 = m2
  k1 = k1
  Client = {c1}
  Caller = {u1, u2}
  Model = {m1}
  Key = {k1}
  Mistral = {m1}
  Cap <- OneSlot
  max_batch_size = 1
  MaxReports = 1
SYMMETRY Symmetry
INVARIANTS CapHeld
