SPECIFICATION Spec
CONSTANTS
  x1 = x1
  x2 = x2
  d1 = d1
  d2 = d2
  u1 = u1
  u2 = u2
  r1 = r1
  Reviews = {r1}
  SuiteRequired = FALSE
  Admins = {x1, x2}
  Staff = {x2}
  Reviewers = {d1, d2}
  Runners = {u1, u2}
  MaxApprovals = 1
  MaxLedger = 4
  Overlaps = {TRUE, FALSE}
INVARIANT LedgerAccounts
INVARIANT SerialApprovals
PROPERTY PromotionsGated
CHECK_DEADLOCK FALSE
