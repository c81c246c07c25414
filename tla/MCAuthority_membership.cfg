SPECIFICATION Spec
CONSTANTS
  a = a
  b = b
  t1 = t1
  t2 = t2
  Person = {a, b}
  Nobody = Nobody
  First = a
  Thread = {t1}
  MaxRequests = 4
INVARIANT MembershipConstrains
CHECK_DEADLOCK FALSE
