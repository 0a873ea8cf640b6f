------------------------- MODULE MCProtocolFeatures -------------------------
(***************************************************************************)
(* A small instance of ProtocolFeatures: a feature that anyone may         *)
(* activate (as preactivate_feature itself), two that need preactivation,  *)
(* one of which depends on the other, and one that is allowed only later.  *)
(***************************************************************************)
EXTENDS ProtocolFeatures

CONSTANTS preactivate, base, derived, late

MCFeature == {preactivate, base, derived, late}

MCRequires ==
    [f \in MCFeature |-> IF f = derived THEN {preactivate, base} ELSE {}]

MCEarliest == [f \in MCFeature |-> IF f = late THEN 3 ELSE 0]
=============================================================================
