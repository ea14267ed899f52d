-------------------------------- MODULE Cards --------------------------------
(***************************************************************************)
(* The rows of the `worklanes` table (the cards of the board) and the      *)
(* functions of db.py that rewrite one row.  Every operator here takes a   *)
(* card and returns the card the corresponding UPDATE leaves behind, so    *)
(* the modules that model the actors (scheduler, MCP server, integration   *)
(* loop, operator commands) share one reading of db.py.                    *)
(*                                                                         *)
(* A card keeps                                                            *)
(*   role, ireq    role_type and integration_required;                     *)
(*   stage, status the board column and the older per-lane status;         *)
(*   owner         owner_agent_id (None is SQL NULL);                      *)
(*   worktree      the pair worktree_path/branch_name: a worktree name     *)
(*                 stands for that directory and its branch work/<name>,   *)
(*                 Root for the repository root with branch_name = '',     *)
(*                 None for two empty columns;                             *)
(*   logged        to_stage of the card's newest card_stage_transitions    *)
(*                 row.                                                    *)
(* Titles, notes, priorities and time stamps are left out.                 *)
(***************************************************************************)

CONSTANTS
    AgentIds,    \* values of agents.id
    Worktrees,   \* names of per-developer worktrees
    Root,        \* the repository root used as a worktree
    None         \* SQL NULL or an empty column

ASSUME CardConstants ==
    /\ None \notin AgentIds
    /\ None \notin Worktrees
    /\ Root \notin Worktrees
    /\ Root # None

Stages == {"planned", "development", "review", "integration", "done"}

(* The keys of STATUS_STAGE that some statement of the code writes.         *)
MappedStatuses ==
    {"queued", "assigned", "needs_verification", "ready_for_integration",
     "integration_failed", "integrated", "done"}

(* Statuses outside STATUS_STAGE: init_db leaves the stage alone.           *)
UnmappedStatuses == {"blocked", "failed", "stale"}

Statuses == MappedStatuses \cup UnmappedStatuses

StageForStatus(status) ==
    CASE status = "assigned" -> "development"
      [] status = "needs_verification" -> "review"
      [] status \in {"ready_for_integration", "integration_failed"} -> "integration"
      [] status \in {"integrated", "done"} -> "done"
      [] OTHER -> "planned"

CodeRoles == {"Developer", "Designer", "Conflict Resolver", "Reproducer"}

Roles == CodeRoles \cup {"Coordinator", "Auditor", "Integrator", "Architect"}

Card == [role : Roles, ireq : BOOLEAN, stage : Stages, status : Statuses,
         owner : AgentIds \cup {None}, worktree : Worktrees \cup {Root, None},
         logged : Stages]

(***************************************************************************)
(* Writes.                                                                 *)
(***************************************************************************)

(* queue_worklane: every caller either leaves `stage` to the status or      *)
(* passes the stage the status stands for, and the status is 'queued'.      *)
QueueWorklane(role, ireq) ==
    [role |-> role, ireq |-> ireq, stage |-> "planned", status |-> "queued",
     owner |-> None, worktree |-> None, logged |-> "planned"]

(* record_card_transition is called only when the stage really changes.     *)
RecordTransition(card, stage) ==
    IF card.stage # stage THEN stage ELSE card.logged

(* Mutants of move_card_stage: the arguments of the UPDATE swapped; the     *)
(* owner kept.  A mutant stands before the definition it is a bug in; no    *)
(* specification uses it.                                                   *)
MoveCardStageSwapped(card, stage, status) ==
    [card EXCEPT !.stage = status, !.status = stage, !.owner = None,
                 !.logged = RecordTransition(card, stage)]

MoveCardStageKeepsOwner(card, stage, status) ==
    [card EXCEPT !.stage = stage, !.status = status,
                 !.logged = RecordTransition(card, stage)]

(* move_card_stage: leaving development drops the owner and keeps the       *)
(* branch and the worktree.  No caller moves a card to development.         *)
MoveCardStage(card, stage, status) ==
    [card EXCEPT !.stage = stage, !.status = status, !.owner = None,
                 !.logged = RecordTransition(card, stage)]

(* Mutant: assign_card without its transition row.                          *)
AssignCardUnlogged(card, agent, worktree) ==
    [card EXCEPT !.stage = "development", !.status = "assigned",
                 !.owner = agent, !.worktree = worktree]

(* assign_card: no condition on the stage the card is in.                   *)
AssignCard(card, agent, worktree) ==
    [card EXCEPT !.stage = "development", !.status = "assigned",
                 !.owner = agent, !.worktree = worktree,
                 !.logged = RecordTransition(card, "development")]

(* update_worklane_status; its callers never pass a development status.     *)
UpdateWorklaneStatus(card, status) ==
    MoveCardStage(card, StageForStatus(status), status)

(* Mutant: requeued work waits for a review.                                *)
RequeueToReview(card) == MoveCardStage(card, "review", "needs_verification")

RequeueCard(card) == MoveCardStage(card, "planned", "queued")

CompleteCard(card) ==
    MoveCardStage(card, "done", IF card.ireq THEN "integrated" ELSE "done")

(* Mutant: retired through update_worklane_status, which knows no 'stale'.  *)
RetireByStatus(card) == UpdateWorklaneStatus(card, "stale")

RetireCard(card) == MoveCardStage(card, "done", "stale")

(* One row of review_ready_cards: a report is on file, the row is routed by *)
(* its integration_required flag alone.                                     *)
AcceptReview(card) ==
    IF card.ireq THEN MoveCardStage(card, "integration", "ready_for_integration")
    ELSE CompleteCard(card)

(* The bulk UPDATE of retire_capacity_cards and                             *)
(* dedupe_global_test_failure_cards: the columns of retire_card without its *)
(* transition row.                                                          *)
RetireUnlogged(card) ==
    [card EXCEPT !.stage = "done", !.status = "stale", !.owner = None]

(* ensure_card_schema runs on every connection and re-derives columns.      *)
Backfill(card) ==
    [card EXCEPT
        !.stage = IF card.status \in MappedStatuses
                  THEN StageForStatus(card.status) ELSE card.stage,
        !.ireq = card.role \in CodeRoles /\ card.ireq]

(***************************************************************************)
(* agent_report: the report kinds the routing of record_agent_report tells *)
(* apart.  A report without a stage is stored but not accepted.            *)
(***************************************************************************)
ReadyKinds == {"completed", "ready_for_integration"}
PassedKinds == {"review_passed", "ready_for_integration"}

(* 'blocked_duplicate' is a report of status 'blocked' whose text holds one *)
(* of DUPLICATE_BLOCKED_MARKERS.                                            *)
NonActionableKinds == {"superseded", "blocked_duplicate"}
BlockerKinds == {"blocked", "failed", "blocked_duplicate"}

ReportKinds == ReadyKinds \cup PassedKinds \cup NonActionableKinds
                 \cup BlockerKinds \cup {"working"}

(* Mutant: a blocked card is queued again by its status alone.              *)
BlockerQueues(kind) == "queued"

BlockerStatus(kind) == IF kind = "failed" THEN "failed" ELSE "blocked"

IsNonActionable(card, kind) ==
    card.stage = "development" /\ kind \in NonActionableKinds

(* Mutant: a ready report counts in any stage.                              *)
ReportAnyStage(card, kind) ==
    CASE kind \in ReadyKinds -> MoveCardStage(card, "review", "needs_verification")
      [] IsNonActionable(card, kind) -> RetireCard(card)
      [] card.stage = "review" /\ kind \in PassedKinds \ ReadyKinds -> AcceptReview(card)
      [] kind \in BlockerKinds /\ ~IsNonActionable(card, kind) ->
             [card EXCEPT !.status = BlockerStatus(kind)]
      [] OTHER -> card

(* record_agent_report on the card row, for an accepted report.  The        *)
(* reporting agent is not compared with the owner.                          *)
ReportCard(card, kind) ==
    CASE card.stage = "development" /\ kind \in ReadyKinds ->
             MoveCardStage(card, "review", "needs_verification")
      [] IsNonActionable(card, kind) -> RetireCard(card)
      [] card.stage = "review" /\ kind \in PassedKinds -> AcceptReview(card)
      [] kind \in BlockerKinds /\ ~IsNonActionable(card, kind) ->
             [card EXCEPT !.status = BlockerStatus(kind)]
      [] OTHER -> card

(***************************************************************************)
(* Reads.                                                                  *)
(***************************************************************************)

(* find_or_create_card: the row an unresolved source key still stands for.  *)
Unresolved(card) == card.stage # "done" /\ card.status # "stale"

(* The predicate scheduler.py repeats in requeue_developers_without_cards,  *)
(* agent_development_card_count and requeue_agent_cards.                    *)
HeldBy(card, agent, worktree) ==
    /\ card.stage = "development"
    /\ \/ card.owner = agent
       \/ worktree # None /\ card.worktree = worktree

(* Mutant: a failed lane is taken again.                                    *)
ReadyLaneRetries(card) ==
    /\ card.stage = "integration" \/ card.status \in {"needs_verification", "ready_for_integration"}
    /\ card.worktree \in Worktrees

(* _ready_lanes without its gate clause.                                    *)
ReadyLane(card) ==
    /\ card.stage = "integration" \/ card.status \in {"needs_verification", "ready_for_integration"}
    /\ card.status # "integration_failed"
    /\ card.worktree \in Worktrees

(* retire_unrecoverable_integration_failures looks at these originals.      *)
FailedLane(card) ==
    /\ card.stage = "integration"
    /\ card.status = "integration_failed"
    /\ card.worktree \in Worktrees

(***************************************************************************)
(* What every write must preserve.                                         *)
(***************************************************************************)

(* The stage is what init_db would derive from the status, and only a       *)
(* code-producing role asks for integration.                                *)
BackfillIsIdentity(card) == Backfill(card) = card

(* A card has an owner exactly while it is in development.                  *)
OwnedInDevelopment(card) == (card.owner # None) <=> (card.stage = "development")

(* The newest transition row names the stage the card is in.                *)
TrailAgrees(card) == card.logged = card.stage
=============================================================================
