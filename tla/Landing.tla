-------------------------------- MODULE Landing --------------------------------
(***************************************************************************)
(* What the integration loop and the repairs of its failures promise about *)
(* the work of a card, whatever git does and wherever a pass is killed:    *)
(*                                                                         *)
(*   - the mainline only grows, and only to land a card that was handed in;*)
(*   - a card counts as integrated only once its commit is on the mainline;*)
(*   - what was handed in may fail or be handed in again, but nobody is    *)
(*     asked to do it again;                                               *)
(*   - a card of the plan is closed only after it was handed in, and then  *)
(*     its commit is on the mainline or not worth merging;                 *)
(*   - a resolver is a new card, made for a card that was handed in.       *)
(*                                                                         *)
(* The states "failed", "closed" and "integrated" are not final: reviews   *)
(* and repairs write rows they selected before, and may turn any of them   *)
(* into another.                                                           *)
(***************************************************************************)
CONSTANTS
    CardIds,
    Plan,           \* the cards that are there from the beginning
    Droppable       \* cards whose commit is not worth merging

VARIABLES
    progress,   \* what has become of the work of a card
    mainline    \* commits on the mainline

vars == <<progress, mainline>>

Init ==
    /\ progress = [c \in CardIds |-> IF c \in Plan THEN "open" ELSE "absent"]
    /\ mainline = {}

Is(c, states) == progress[c] \in states

WasHandedIn(c) == ~Is(c, {"absent", "open"})

Put(c, state) == progress' = [progress EXCEPT ![c] = state] /\ UNCHANGED mainline

HandIn(c) == ~Is(c, {"absent"}) /\ Put(c, "handed")

(* c lands, with what else is in its branch.                                *)
Land(c, C) ==
    /\ WasHandedIn(c) /\ c \in mainline \cup C
    /\ mainline' = mainline \cup C
    /\ UNCHANGED progress

Fail(c) == WasHandedIn(c) /\ Put(c, "failed")

Integrate(c) == WasHandedIn(c) /\ c \in mainline /\ Put(c, "integrated")

Close(c) ==
    /\ ~Is(c, {"absent"})
    /\ c \in Plan => WasHandedIn(c) /\ c \in mainline \cup Droppable
    /\ Put(c, "closed")

Resolve(c, r) == WasHandedIn(c) /\ Is(r, {"absent"}) /\ Put(r, "open")

Next ==
    \/ \E c \in CardIds : HandIn(c) \/ Fail(c) \/ Integrate(c) \/ Close(c)
    \/ \E c, r \in CardIds : Resolve(c, r)
    \/ \E c \in CardIds, C \in SUBSET CardIds : Land(c, C)

Spec == Init /\ [][Next]_vars
=============================================================================
