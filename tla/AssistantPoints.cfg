SPECIFICATION Spec
CONSTANTS
  Users = {u1, u2}
  Orders = {o1, o2}
  Questions = {q1}
  Calls = {c1, c2}
  Rates = {0, 1}
  Reward = 2
  Texts = {t1}
  MaxEntries = 3
SYMMETRY Symmetry
INVARIANTS LedgerExplainsBalance RefundsUndoSpends DebtIsMetered AwardsMatchLedger
PROPERTIES RewardNeedsOpenQuestion
