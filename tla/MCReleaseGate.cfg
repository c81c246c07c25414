SPECIFICATION Spec
CONSTANTS
  r1 = r1  r2 = r2  boot = boot  i1 = i1  i2 = i2  p1 = p1  p2 = p2
  Releases = {r1, r2}
  Bootstrap = boot
  Instances = {i1, i2}
  Persons = {p1, p2}
  Blockers = {}
  Length <- MCLength
  Worlds <- MCWorlds
INVARIANTS ReleaseIsSound OneAccountEach
PROPERTIES OnlyProven GatesEnd
CHECK_DEADLOCK FALSE
