SPECIFICATION Spec
CONSTANTS
  Users = {u1, u2}
  Orders = {o1}
  Questions = {q1}
  Calls = {c1, c2}
  Rates = {1}
  Reward = 2
  Texts = {t1}
  MaxEntries = 2
SYMMETRY Symmetry
INVARIANTS OneAnswerIsRewarded
