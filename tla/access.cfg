SPECIFICATION Spec
CONSTANTS
  Admins = {a1, a2}
  Logins = {u1}
  MaxTokens = 2
  MaxEdits = 6
  Requests = {r1, r2, r3}
  Attempts = {t1, t2}
  PerPhone = 2
  MaxScans = 2
  MaxOverlap = 2
INVARIANTS CodeEntersOnce
PROPERTIES OpensWithPapers OnlyTheNewestEnters
CHECK_DEADLOCK FALSE
SYMMETRY MCSymmetry
