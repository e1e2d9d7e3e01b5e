SPECIFICATION MCSpec
CONSTANTS
  u1 = u1
  u2 = u2
  n1 = n1
  n2 = n2
  m1 = m1
  m2 = m2
  p1 = p1
  p2 = p2
  s1 = s1
  s2 = s2
  s3 = s3
  g1 = g1
  ip1 = ip1
  Nobody = Nobody
  Accounts = {u1, u2}
  Addresses = {ip1}
  Names = {n1, n2, m1, m2}
  Holder <- HolderOf
  Groups = {g1}
  Requests = {p1, p2}
  Sids = {s1, s2, s3}
  Forms <- SomeForms
  MaxFails = 2
  MaxPassword = 6
  MaxRequest = 4
  MaxStop = 1
INVARIANTS
  TypeOK
  AdminRemains
  AdminHasPassword
  LimitsFollowGroups
  StraysAreExplained
  SignedOut
  LockKeepsOut
CONSTRAINT OneBudget
SYMMETRY Symmetry
CHECK_DEADLOCK FALSE
