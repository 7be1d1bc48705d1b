SPECIFICATION LoginSpec
CONSTANTS
  Calls = {c1, c2, c3}
  Names = {n1, n2, n3}
  Idents = {i1,i2}
  NoIdent = NoIdent
  Logins = {l1, l2}
  Sessions = {s1, s2}
  NoUser = NoUser
  MaxTries = 2
SYMMETRY Symmetry
INVARIANTS
  LoginTypeOK
  OneUserEach
  SessionsResolve
\* The log-ins and the calls end.
CHECK_DEADLOCK FALSE
