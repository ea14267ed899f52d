---------------------------- MODULE CardLifecycle ----------------------------
(***************************************************************************)
(* What the card board promises, whatever order its writers come in:       *)
(*                                                                         *)
(*   - a card is handed to a worker only while it is planned, so no two    *)
(*     workers are given the same unfinished card;                         *)
(*   - it enters review only out of development, by a report;              *)
(*   - it reaches integration only when a report on it is on file;         *)
(*   - every move other than the hand-over leaves it without an owner.     *)
(*                                                                         *)
(* The promise does not say that a card moves only forward: a loop whose   *)
(* rows are stale may return, route or retire a card that others have      *)
(* moved since.                                                            *)
(***************************************************************************)
CONSTANTS CardIds, AgentIds, None

VARIABLES
    stage,      \* the board column of a card
    owner,      \* the agent it is assigned to, or None
    reported    \* whether a report on it is on file

vars == <<stage, owner, reported>>

Init ==
    /\ stage = [c \in CardIds |-> "planned"]
    /\ owner = [c \in CardIds |-> None]
    /\ reported = [c \in CardIds |-> FALSE]

(* Leave the card in stage s without an owner.                              *)
Move(c, s) ==
    /\ stage' = [stage EXCEPT ![c] = s]
    /\ owner' = [owner EXCEPT ![c] = None]

Assign(c, a) ==
    /\ stage[c] = "planned"
    /\ stage' = [stage EXCEPT ![c] = "development"]
    /\ owner' = [owner EXCEPT ![c] = a]
    /\ UNCHANGED reported

(* A report is filed: it hands a card in, retires it, passes its review or  *)
(* changes nothing.                                                         *)
Report(c) ==
    /\ reported' = [reported EXCEPT ![c] = TRUE]
    /\ \/ stage[c] = "development" /\ \E s \in {"review", "done"} : Move(c, s)
       \/ stage[c] = "review" /\ \E s \in {"integration", "done"} : Move(c, s)
       \/ UNCHANGED <<stage, owner>>

(* Review and integration outcomes.                                         *)
Route(c) ==
    /\ reported[c]
    /\ \E s \in {"integration", "done"} : Move(c, s)
    /\ UNCHANGED reported

Return(c) == Move(c, "planned") /\ UNCHANGED reported

(* One repair may retire several duplicates.                                *)
Retire(C) ==
    /\ stage' = [c \in CardIds |-> IF c \in C THEN "done" ELSE stage[c]]
    /\ owner' = [c \in CardIds |-> IF c \in C THEN None ELSE owner[c]]
    /\ UNCHANGED reported

Next ==
    \/ \E c \in CardIds : Report(c) \/ Route(c) \/ Return(c) \/ \E a \in AgentIds : Assign(c, a)
    \/ \E C \in SUBSET CardIds : Retire(C)

Spec == Init /\ [][Next]_vars
=============================================================================
