--------------------------- MODULE MCCashRegister ---------------------------
(* Small instances of CashRegisterSync.                                    *)
EXTENDS CashRegisterSync, TLC

CONSTANTS d1, d2, b1, b2

EveryBranch == [d \in Device |-> Branch]
FirstBranch == [d \in Device |-> {b1}]

Symmetric == Permutations(Device)
=============================================================================
