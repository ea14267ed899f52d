------------------------------ MODULE MCTestGate ------------------------------
(***************************************************************************)
(* Two tests of one module and a third one of another.                     *)
(***************************************************************************)
EXTENDS TestGate

SuiteTests == {"a1", "a2", "b1"}
SuiteClusters == {"a", "b"}
SuiteClusterOf == [t \in SuiteTests |-> IF t = "b1" THEN "b" ELSE "a"]
=============================================================================
