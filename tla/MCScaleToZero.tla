----------------------------- MODULE MCScaleToZero -----------------------------
(* Small instances of ScaleToZero for TLC.                                  *)
EXTENDS ScaleToZero

MCQuorum == <<4, 5>>
MCOffered == {}
MCKind(least, edits, legacy) ==
  [min |-> least, max |-> 1, reserve |-> 0, moves |-> edits, parks |-> legacy]
MCKinds == {MCKind(0, 0, FALSE), MCKind(0, 0, TRUE), MCKind(1, 1, FALSE)}
===============================================================================
