---------------------------- MODULE MCSpawnRequests ----------------------------
(***************************************************************************)
(* Values of the CONSTANTS of SpawnRequests that a configuration file      *)
(* cannot write down.                                                      *)
(***************************************************************************)
EXTENDS SpawnRequests

(* A worker says it is done, with and without having ended.                 *)
DoneUpdates == {<<TRUE, TRUE>>, <<FALSE, TRUE>>}

NoUpdates == {}
=============================================================================
