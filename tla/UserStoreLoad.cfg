SPECIFICATION Spec
CONSTANTS
  Calls = {c1, c2, c3}
  Names = {n1, n2, n3}
  Idents = {i1, i2, i3}
  NoIdent = NoIdent
SYMMETRY Symmetry
INVARIANT LoadFindsTheUser
\* The calls end.
CHECK_DEADLOCK FALSE
