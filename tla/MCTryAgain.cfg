SPECIFICATION ClientSpec
CONSTANTS
  s1 = s1
  s2 = s2
  s3 = s3
  m1 = m1
  m2 = m2
  Session = {s1, s2}
  Match = {m1, m2}
  Name <- MCName
  NameOf <- MCNameOf
  NoMatch = NoMatch
  MaxEvents = 3
  MaxQueued = 2
INVARIANTS
  FailureCanBeRetried
CHECK_DEADLOCK FALSE
