------------------------- MODULE MCDocumentedClaims -------------------------
(***************************************************************************)
(* Instantiates DocumentedClaims for TLC.                                  *)
(***************************************************************************)
EXTENDS DocumentedClaims

OnlyConfirm == {[matched |-> TRUE, effect |-> "none"]}

OnlyFallback == {[matched |-> FALSE, effect |-> "none"]}

=============================================================================
