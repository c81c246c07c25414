SPECIFICATION MCSpec
CONSTANTS
  a = a
  b = b
  t1 = t1
  t2 = t2
  Person = {a, b}
  Nobody = Nobody
  First = a
  Thread = {t1, t2}
  MaxRequests = 2
INVARIANT CounselIsLegal
PROPERTIES AnAdminRemains AuthorityWhenUsed RequestsEnd
CHECK_DEADLOCK FALSE
