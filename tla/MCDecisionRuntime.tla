-------------------------- MODULE MCDecisionRuntime -------------------------
(***************************************************************************)
(* Instantiates DecisionRuntime for TLC.                                   *)
(***************************************************************************)
EXTENDS DecisionRuntime

\* A plain confirmation, an escalation, an unmatched signal and a block.
AllOutcomes ==
  {[matched |-> TRUE, effect |-> "none"],
   [matched |-> TRUE, effect |-> "escalate"],
   [matched |-> FALSE, effect |-> "none"],
   [matched |-> TRUE, effect |-> "block"]}

ConfirmOrEscalate ==
  {[matched |-> TRUE, effect |-> "none"],
   [matched |-> TRUE, effect |-> "escalate"]}

\* Every way an evaluation can end that reads differently from the ledger.
Resolvable == AllOutcomes \ {[matched |-> TRUE, effect |-> "block"]}

=============================================================================
