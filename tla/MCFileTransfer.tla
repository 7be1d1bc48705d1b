--------------------------- MODULE MCFileTransfer ---------------------------
(* Two files on a small instance: one of several chunks, and an empty one.  *)
EXTENDS FileTransfer

CONSTANTS t1, t2
TwoFiles == {t1, t2}
AFileAndAnEmptyOne == [t \in TwoFiles |-> IF t = t1 THEN 5 ELSE 0]
==============================================================================
