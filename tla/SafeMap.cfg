SPECIFICATION FairSpec
CONSTANTS
  Callers = {c1, c2}
  Keys = {k1, k2}
  Values = {v1, v2}
  NoValue = NoValue
  NoCaller = NoCaller
INVARIANT TypeOK
PROPERTIES
  Linearizable
  CallsEnd
\* Once every caller has panicked on the closed map nothing can happen.
CHECK_DEADLOCK FALSE
