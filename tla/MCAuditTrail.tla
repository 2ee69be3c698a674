---------------------------- MODULE MCAuditTrail ----------------------------
(***************************************************************************)
(* Model checking of the audit trail: keys and contents are model values,  *)
(* interchangeable among themselves.                                       *)
(***************************************************************************)
EXTENDS AuditTrail, TLC

CONSTANTS k1, k2, c1, c2

ModelKeys == {k1, k2}
ModelContents == {c1, c2}
Symmetric == Permutations(ModelKeys) \cup Permutations(ModelContents)
==============================================================================
