SPECIFICATION SocialSpec
CONSTANTS
  u1 = u1
  u2 = u2
  t1 = t1
  t2 = t2
  Store = {s1}
  Flow = {w1, w2}
  Manual = {m1}
  User = {u1, u2}
  Tab = {t1, t2}
  MaxCalls = 4
INVARIANTS StoresConsistent SentOncePerArming PublishedWasSent
SYMMETRY MCSymmetry
CHECK_DEADLOCK FALSE
