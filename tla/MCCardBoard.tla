----------------------------- MODULE MCCardBoard -----------------------------
(***************************************************************************)
(* Values of the CONSTANTS of CardBoard that a configuration file cannot   *)
(* write down.                                                             *)
(***************************************************************************)
EXTENDS CardBoard

(* A worker says it is done, as its prompt tells it to.                     *)
DoneUpdate == {<<TRUE, TRUE>>}

(* A terminal status, or one that takes it back; ended_at is not given.      *)
StatusUpdates == BOOLEAN \X {FALSE}
=============================================================================
