---------------------------- MODULE MCGateStation ----------------------------
(***************************************************************************)
(* One failing test per file, each a group of its own.                     *)
(***************************************************************************)
EXTENDS GateStation

SourceFiles == {"f1", "f2"}
OneFile == {"f1"}
OwnGroup == [t \in Tests |-> t]
=============================================================================
