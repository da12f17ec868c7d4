SPECIFICATION FairSpec
CONSTANTS
  Work = {w1, w2}
  Suspensions = {s1}
  Background = {bg}
  None = None
SYMMETRY Symmetry
INVARIANT
  NeverSkipped
