---------------------------- MODULE MCLedgerChain ---------------------------
(***************************************************************************)
(* Instantiates LedgerChain for TLC: three events of one trace, one of     *)
(* another.                                                                *)
(***************************************************************************)
EXTENDS LedgerChain

CONSTANTS a1, a2, a3, b1, A, B

TwoTraces == [e \in Event |-> IF e = b1 THEN B ELSE A]

=============================================================================
