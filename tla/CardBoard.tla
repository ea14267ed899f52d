------------------------------ MODULE CardBoard ------------------------------
(***************************************************************************)
(* The card board under the actors that rewrite it at the same time:       *)
(*                                                                         *)
(*   - the scheduler tick (tick_once), one action per row of each of its   *)
(*     loops: every iteration ends in a log_event, which commits, so the   *)
(*     rows a loop selected are stale for all iterations but the first;    *)
(*   - the integration pass (integration_action), on its own thread and    *)
(*     connection, with the git outcome of a lane left open;               *)
(*   - the MCP servers of the Developers, whose agent_report and           *)
(*     memory_update_agent calls arrive between any two commits;           *)
(*   - their surroundings: processes that die, tmux errors, aborted passes; *)
(*   - the operator: stop, run, reset-counters.                            *)
(*                                                                         *)
(* Cards are numbered in claim order (priority, id).  Developer names are  *)
(* numbered as spawn_agent numbers them; number n stands for the row       *)
(* developer-n, its worktree and its branch work/developer-n.              *)
(***************************************************************************)
EXTENDS Cards, Naturals, FiniteSets

CONSTANTS
    CardIds,            \* a set of numbers
    IntegrationCards,   \* the cards created with integration_required
    TestCards,          \* the cards the test loop queued for a failing run
    MinCount,           \* min_count of Developer in the team preset
    RootWorktree,       \* there is no commit, or git worktree add may fail
    Dead, Waiting,      \* a process that is gone, one not yet prompted
    Kinds,              \* bound: the report kinds the workers use
    Updates,            \* bound: the <<over, ended>> pairs they set themselves
    MaxFaults           \* bound: tmux errors and aborted passes

Names == Worktrees      \* bound: the developer names there ever are

ASSUME BoardConstants ==
    /\ CardIds \subseteq Nat /\ IsFiniteSet(CardIds)
    /\ IntegrationCards \subseteq CardIds /\ TestCards \subseteq CardIds
    /\ Names \subseteq Nat \ {0} /\ IsFiniteSet(Names)
    /\ AgentIds \subseteq Nat \ {0}
    /\ MinCount \in Nat /\ MaxFaults \in Nat /\ RootWorktree \in BOOLEAN
    /\ Kinds \subseteq ReportKinds \ {None} /\ Updates \subseteq BOOLEAN \X BOOLEAN
    /\ Dead # Waiting /\ Dead \notin CardIds /\ Waiting \notin CardIds

VARIABLES
    cards,      \* worklanes
    filed,      \* status of the newest agent_reports row of a card, or None
    agents,     \* agents rows by name
    proc,       \* the Codex process of a name: dead, waiting for its first
                \* prompt, or at the card it was last prompted with
    pc,         \* where the scheduler tick is
    todo,       \* agent rows its current loop has still to visit
    rows,       \* card rows its current loop has still to visit
    victim,     \* the agent mark_agent_missing is taking down
    spawns,     \* Developers ensure_team has still to start
    fresh,      \* the row spawn_agent has inserted and not yet given a card
    ipc, irows, \* the same for the integration pass
    stopped,    \* harness_stopped
    faults

tick == <<pc, todo, rows, victim, spawns, fresh>>
pass == <<ipc, irows>>
vars == <<cards, filed, agents, proc, tick, pass, stopped, faults>>

(* `exists` is FALSE before the first upsert of a name and after a DELETE;  *)
(* the other columns stay, for a loop that selected the row before that.    *)
(* `over` is is_terminal_agent_status(status) (no statement of the code     *)
(* tells crash, success and stopped apart), `ended` is ended_at not null.   *)
AgentRow == [exists : BOOLEAN, id : AgentIds \cup {None}, over : BOOLEAN,
             ended : BOOLEAN, worktree : Names \cup {Root, None}]

NoRow == [exists |-> FALSE, id |-> None, over |-> TRUE, ended |-> TRUE,
          worktree |-> None]

ProcStates == CardIds \cup {Dead, Waiting}

TickPcs == {"idle", "missing", "review", "superseded", "terminal", "dedupe",
            "settle", "carded", "team", "spawn", "liveness"}
RowClasses == {"active", "ended", "terminal"}

TypeOK ==
    /\ cards \in [CardIds -> Card]
    /\ filed \in [CardIds -> Kinds \cup {None}]
    /\ agents \in [Names -> AgentRow]
    /\ proc \in [Names -> ProcStates]
    /\ pc \in TickPcs
    /\ todo \subseteq Names \X RowClasses
    /\ rows \subseteq CardIds \X (Names \cup {None})
    /\ victim \in Names \cup {None}
    /\ spawns \in 0..MinCount
    /\ fresh \in Names \cup {None}
    /\ ipc \in {"idle", "review", "lanes"}
    /\ irows \subseteq CardIds
    /\ stopped \in BOOLEAN
    /\ faults \in 0..MaxFaults

Init ==
    /\ cards = [c \in CardIds |-> QueueWorklane("Developer", c \in IntegrationCards)]
    /\ filed = [c \in CardIds |-> None]
    /\ agents = [n \in Names |-> NoRow]
    /\ proc = [n \in Names |-> Dead]
    /\ pc = "idle" /\ todo = {} /\ rows = {} /\ victim = None
    /\ spawns = 0 /\ fresh = None
    /\ ipc = "idle" /\ irows = {}
    /\ stopped = FALSE
    /\ faults = 0

(***************************************************************************)
(* Reads.                                                                  *)
(***************************************************************************)

HasRow(n) == agents[n].exists

(* is_active_agent_status of an existing row.                               *)
Active(n) == HasRow(n) /\ ~agents[n].over

Alive(n) == proc[n] # Dead

RowClass(n) == IF ~Active(n) THEN "terminal"
               ELSE IF agents[n].ended THEN "ended" ELSE "active"

Rows(S) == {<<n, RowClass(n)>> : n \in S}

Held(n) == {c \in CardIds : HeldBy(cards[c], agents[n].id, agents[n].worktree)}

(* Mutant: the card a Developer already holds is offered again.             *)
CandidatesUnfinished == {c \in CardIds : cards[c].stage # "done"}

(* planned_developer_candidates with the gate open: neither gate-station    *)
(* mode nor a hard blocker is set, and no recovery or report-only card.     *)
Candidates == {c \in CardIds : cards[c].stage = "planned"}

InDevelopment == {c \in CardIds : cards[c].stage = "development"}

(* Mutant: review selects by status, and a blocker report changes that.     *)
InReviewByStatus == {c \in CardIds : cards[c].status = "needs_verification"}

InReview == {c \in CardIds : cards[c].stage = "review"}

FirstCandidate(c) == c \in Candidates /\ \A d \in Candidates : c <= d

(* Mutant: only live owners are joined.                                     *)
OwnersAlive(c) == {n \in Names : Active(n) /\ agents[n].id = cards[c].owner}

(* JOIN agents ON owner_agent_id = agents.id                                *)
Owners(c) == {n \in Names : HasRow(n) /\ agents[n].id = cards[c].owner}

Terminal(n) == HasRow(n) /\ (agents[n].over \/ agents[n].ended)

(***************************************************************************)
(* Writes.                                                                 *)
(***************************************************************************)

Fault == faults < MaxFaults /\ faults' = faults + 1

(* update_agent_status with a terminal status: an UPDATE by name, without   *)
(* effect on a missing row.                                                 *)
EndAgent(n) ==
    IF HasRow(n) THEN [agents EXCEPT ![n] = [@ EXCEPT !.over = TRUE, !.ended = TRUE]] ELSE agents

(* The worker a non-actionable report leaves waiting for its next card.     *)
Revive(n) ==
    IF HasRow(n) THEN [agents EXCEPT ![n] = [@ EXCEPT !.over = FALSE, !.ended = FALSE]] ELSE agents

(* kill_agent_window is best effort.                                        *)
KillWindow(n) == \E state \in {Dead, proc[n]} : proc' = [proc EXCEPT ![n] = state]

(* target_exists, with tmux errors read as an absent target.                *)
Unreachable(n) == \/ ~Alive(n) /\ UNCHANGED faults
                  \/ Alive(n) /\ Fault
Reachable(n) == Alive(n) /\ UNCHANGED faults

(***************************************************************************)
(* The scheduler tick: Advance leaves a loop that has no rows left and     *)
(* runs the SELECT of the next one.                                        *)
(***************************************************************************)

NextStep == CASE pc = "idle" -> "missing"
              [] pc = "missing" -> "review"
              [] pc = "review" -> "superseded"
              [] pc = "superseded" -> "terminal"
              [] pc = "terminal" -> "dedupe"
              [] pc = "dedupe" -> "settle"
              [] pc = "settle" -> "carded"
              [] pc = "carded" -> "team"
              [] pc = "team" -> "spawn"
              [] pc = "spawn" -> "liveness"
              [] pc = "liveness" -> "idle"

SelectAgents(step) ==
    CASE step = "missing" -> Rows({n \in Names : HasRow(n)})
      [] step \in {"carded", "team", "liveness"} -> Rows({n \in Names : Active(n)})
      [] OTHER -> {}

(* dedupe_global_test_failure_cards keeps a card with a live owner before   *)
(* one without, then by stage, then the newest.                             *)
Unfinished == {c \in TestCards : cards[c].stage # "done"}

DedupeRank(c) ==
    (IF \E n \in Names : Active(n) /\ (cards[c].owner = agents[n].id \/ cards[c].worktree = agents[n].worktree)
     THEN 0 ELSE 3)
    + (IF cards[c].stage = "development" THEN 0 ELSE IF cards[c].stage = "planned" THEN 1 ELSE 2)

Outranks(c, d) == \/ DedupeRank(c) < DedupeRank(d)
                  \/ DedupeRank(c) = DedupeRank(d) /\ c > d

SelectCards(step) ==
    CASE step = "review" -> InReview \X {None}
      [] step = "superseded" ->
             {row \in InDevelopment \X (Names \cup {None}) :
                 /\ filed[row[1]] = "superseded"
                 /\ IF Owners(row[1]) = {} THEN row[2] = None ELSE row[2] \in Owners(row[1])}
      [] step = "terminal" -> {c \in InDevelopment : \E n \in Owners(c) : Terminal(n)} \X {None}
      [] step = "dedupe" -> {c \in Unfinished : \E d \in Unfinished : Outranks(d, c)} \X {None}
      [] step = "settle" -> {c \in CardIds : FailedLane(cards[c])} \X {None}
      [] OTHER -> {}

(* ensure_team: `pressured` is the verdict of integration_backpressure.     *)
Smaller(a, b) == IF a < b THEN a ELSE b

Missing(pressured) ==
    LET active == Cardinality({n \in Names : Active(n)})
        queued == Cardinality(Candidates)
        target == IF pressured THEN Smaller(MinCount, IF active = 0 THEN 1 ELSE active)
                  ELSE MinCount
        wanted == IF queued > 0 THEN Smaller(target, active + queued) ELSE active
    IN IF wanted > active THEN wanted - active ELSE 0

Advance ==
    /\ ~stopped
    /\ todo = {} /\ rows = {} /\ victim = None /\ spawns = 0 /\ fresh = None
    /\ pc' = NextStep
    /\ todo' = SelectAgents(NextStep)
    /\ rows' = SelectCards(NextStep)
    /\ IF NextStep = "spawn" THEN \E pressured \in BOOLEAN : spawns' = Missing(pressured)
       ELSE spawns' = 0
    /\ UNCHANGED <<cards, filed, agents, proc, victim, fresh, pass, stopped, faults>>

(* mark_agent_missing: the agent's cards are selected, then git status runs *)
(* in the worktree, then the rows are requeued one by one.                  *)
StartTeardown(n) ==
    /\ victim' = n
    /\ rows' = {<<c, None>> : c \in Held(n)}

(* reconcile_missing_tmux_agents, active_agent_count and                    *)
(* check_agent_liveness visit one selected agent row.                       *)
VisitAgent ==
    /\ pc \in {"missing", "team", "liveness"} /\ victim = None
    /\ \E visit \in todo :
        LET n == visit[1] IN
        /\ todo' = todo \ {visit}
        /\ \/ /\ visit[2] = "terminal"
              /\ IF Alive(n) THEN KillWindow(n) ELSE UNCHANGED proc
              /\ UNCHANGED <<victim, rows, faults>>
           \/ /\ visit[2] = "ended" /\ pc # "liveness"
              /\ StartTeardown(n)
              /\ UNCHANGED <<proc, faults>>
           \/ /\ visit[2] = "active" \/ pc = "liveness"
              /\ Unreachable(n)
              /\ StartTeardown(n)
              /\ UNCHANGED proc
           \/ /\ visit[2] = "active" \/ pc = "liveness"
              /\ Reachable(n)
              /\ UNCHANGED <<proc, victim, rows>>
    /\ UNCHANGED <<cards, filed, agents, pc, spawns, fresh, pass, stopped>>

(* requeue_agent_cards on one selected row.                                 *)
TeardownCard ==
    /\ victim # None
    /\ \E row \in rows :
        /\ rows' = rows \ {row}
        /\ cards' = [cards EXCEPT ![row[1]] = RequeueCard(@)]
    /\ UNCHANGED <<filed, agents, proc, pc, todo, victim, spawns, fresh, pass, stopped, faults>>

TeardownEnd ==
    /\ victim # None /\ rows = {}
    /\ agents' = EndAgent(victim)
    /\ IF pc = "carded" THEN UNCHANGED proc ELSE KillWindow(victim)
    /\ victim' = None
    /\ UNCHANGED <<cards, filed, pc, todo, rows, spawns, fresh, pass, stopped, faults>>

(* review_ready_cards on one selected row.                                  *)
ReviewCard ==
    /\ pc = "review"
    /\ \E row \in rows :
        /\ rows' = rows \ {row}
        /\ cards' = IF filed[row[1]] = None THEN cards
                    ELSE [cards EXCEPT ![row[1]] = AcceptReview(@)]
    /\ UNCHANGED <<filed, agents, proc, pc, todo, victim, spawns, fresh, pass, stopped, faults>>

(* retire_non_actionable_development_cards on one selected row.             *)
RetireSuperseded ==
    /\ pc = "superseded"
    /\ \E row \in rows :
        /\ rows' = rows \ {row}
        /\ cards' = [cards EXCEPT ![row[1]] = RetireCard(@)]
        /\ agents' = IF row[2] = None THEN agents ELSE Revive(row[2])
    /\ UNCHANGED <<filed, proc, pc, todo, victim, spawns, fresh, pass, stopped, faults>>

(* requeue_cards_from_terminal_agents on one selected row.                  *)
RequeueTerminal ==
    /\ pc = "terminal"
    /\ \E row \in rows :
        /\ rows' = rows \ {row}
        /\ cards' = [cards EXCEPT ![row[1]] = RequeueCard(@)]
    /\ UNCHANGED <<filed, agents, proc, pc, todo, victim, spawns, fresh, pass, stopped, faults>>

(* dedupe_global_test_failure_cards: one executemany over the duplicates.   *)
RetireDuplicates ==
    /\ pc = "dedupe" /\ rows # {}
    /\ rows' = {}
    /\ cards' = [c \in CardIds |-> IF <<c, None>> \in rows THEN RetireUnlogged(cards[c]) ELSE cards[c]]
    /\ UNCHANGED <<filed, agents, proc, pc, todo, victim, spawns, fresh, pass, stopped, faults>>

(* retire_unrecoverable_integration_failures on one selected row: git says  *)
(* the branch is pending, contained in the mainline, or gone.               *)
SettleFailure ==
    /\ pc = "settle"
    /\ \E row \in rows, branch \in {"pending", "merged", "missing"} :
        /\ rows' = rows \ {row}
        /\ cards' = CASE branch = "pending" -> cards
                      [] branch = "merged" -> [cards EXCEPT ![row[1]] = CompleteCard(@)]
                      [] branch = "missing" -> [cards EXCEPT ![row[1]] = RetireCard(@)]
    /\ UNCHANGED <<filed, agents, proc, pc, todo, victim, spawns, fresh, pass, stopped, faults>>

(* requeue_developers_without_cards on one selected Developer: exactly one  *)
(* card is fine, none means claim the next one, anything else stops it.     *)
KeepCarded ==
    /\ pc = "carded" /\ victim = None
    /\ \E visit \in todo :
        /\ \E c \in CardIds : Held(visit[1]) = {c}
        /\ todo' = todo \ {visit}
    /\ UNCHANGED <<cards, filed, agents, proc, pc, rows, victim, spawns, fresh, pass, stopped, faults>>

(* assign_card looks the owner's id up by name.                             *)
Claim(n, c) == [cards EXCEPT ![c] =
                    AssignCard(@, IF HasRow(n) THEN agents[n].id ELSE None, agents[n].worktree)]

(* A prompt that cannot be sent returns the card and crashes the agent.     *)
ReassignIdle ==
    /\ pc = "carded" /\ victim = None
    /\ \E visit \in todo, c \in CardIds :
        LET n == visit[1] IN
        /\ Held(n) = {} /\ FirstCandidate(c)
        /\ todo' = todo \ {visit}
        /\ cards' = Claim(n, c)
        /\ \/ /\ Reachable(n)
              /\ proc' = [proc EXCEPT ![n] = c]
              /\ UNCHANGED <<victim, rows>>
           \/ /\ Unreachable(n)
              /\ victim' = n
              /\ rows' = {<<c, None>>}
              /\ UNCHANGED proc
    /\ UNCHANGED <<filed, agents, pc, spawns, fresh, pass, stopped>>

StopUncarded ==
    /\ pc = "carded" /\ victim = None
    /\ \E visit \in todo :
        LET n == visit[1] IN
        /\ \/ \E c, d \in Held(n) : c # d
           \/ Held(n) = {} /\ Candidates = {}
        /\ todo' = todo \ {visit}
        /\ agents' = EndAgent(n)
        /\ KillWindow(n)
    /\ UNCHANGED <<cards, filed, pc, rows, victim, spawns, fresh, pass, stopped, faults>>

(* Mutant: the next name counts the live Developers only.                   *)
NextNameActive == Cardinality({n \in Names : Active(n)}) + 1

(* spawn_agent for a Developer without a card of its own.  The name counts  *)
(* the Developer rows; upsert_agent overwrites a row of that name.          *)
NextName == Cardinality({n \in Names : HasRow(n)}) + 1

(* Mutant: the fall-back for every Developer.                               *)
AgentCwdRoot(n) == {Root}

(* agent_cwd: without a worktree a Developer works in the repository root,  *)
(* with an empty branch; a worktree that is there is used again.            *)
AgentCwd(n) == IF RootWorktree /\ agents[n].worktree # n THEN {n, Root} ELSE {n}

(* agents.id of an INSERT: one more than the largest there is.              *)
NextId(id) == /\ \A n \in Names : HasRow(n) => agents[n].id < id
              /\ id = 1 \/ \E n \in Names : HasRow(n) /\ agents[n].id + 1 = id

SpawnRefused ==
    /\ pc = "spawn" /\ spawns > 0 /\ fresh = None
    /\ \/ (Candidates = {} \/ NextName \notin Names) /\ UNCHANGED faults
       \/ Fault
    /\ spawns' = spawns - 1
    /\ UNCHANGED <<cards, filed, agents, proc, pc, todo, rows, victim, fresh, pass, stopped>>

SpawnInsert ==
    /\ pc = "spawn" /\ spawns > 0 /\ fresh = None
    /\ Candidates # {} /\ NextName \in Names
    /\ \E id \in AgentIds, cwd \in AgentCwd(NextName) :
        LET n == NextName IN
        /\ IF HasRow(n) THEN id = agents[n].id ELSE NextId(id)
        /\ agents' = [agents EXCEPT ![n] = [exists |-> TRUE, id |-> id, over |-> FALSE,
                                            ended |-> FALSE, worktree |-> cwd]]
        /\ proc' = [proc EXCEPT ![n] = IF Alive(n) THEN @ ELSE Waiting]
        /\ fresh' = n
    /\ UNCHANGED <<cards, filed, pc, todo, rows, victim, spawns, pass, stopped, faults>>

SpawnClaim ==
    /\ fresh # None
    /\ \/ /\ Candidates = {}
          /\ agents' = EndAgent(fresh)
          /\ UNCHANGED <<cards, proc, faults>>
       \/ \E c \in CardIds :
          /\ FirstCandidate(c)
          /\ cards' = Claim(fresh, c)
          /\ \/ Reachable(fresh) /\ proc' = [proc EXCEPT ![fresh] = c]
             \/ Unreachable(fresh) /\ UNCHANGED proc
          /\ UNCHANGED agents
    /\ fresh' = None
    /\ spawns' = spawns - 1
    /\ UNCHANGED <<filed, pc, todo, rows, victim, pass, stopped>>

(* supervised_once swallows the exception that ends a tick early, and a     *)
(* killed supervisor leaves the same state; what was committed stays.       *)
TickAbort ==
    /\ pc # "idle" /\ Fault
    /\ pc' = "idle" /\ todo' = {} /\ rows' = {} /\ victim' = None
    /\ spawns' = 0 /\ fresh' = None
    /\ UNCHANGED <<cards, filed, agents, proc, pass, stopped>>

SchedulerStep ==
    \/ Advance \/ VisitAgent \/ TeardownCard \/ TeardownEnd
    \/ ReviewCard \/ RetireSuperseded \/ RequeueTerminal
    \/ RetireDuplicates \/ SettleFailure
    \/ KeepCarded \/ ReassignIdle \/ StopUncarded
    \/ SpawnRefused \/ SpawnInsert \/ SpawnClaim

(***************************************************************************)
(* The integration pass.                                                   *)
(***************************************************************************)

PassAdvance ==
    /\ ~stopped /\ irows = {}
    /\ \/ ipc = "idle" /\ ipc' = "review" /\ irows' = InReview
       \/ ipc = "review" /\ ipc' = "lanes" /\ irows' = {c \in CardIds : ReadyLane(cards[c])}
       \/ ipc = "lanes" /\ ipc' = "idle" /\ irows' = {}
    /\ UNCHANGED <<cards, filed, agents, proc, tick, stopped, faults>>

PassReview ==
    /\ ipc = "review"
    /\ \E c \in irows :
        /\ irows' = irows \ {c}
        /\ cards' = IF filed[c] = None THEN cards ELSE [cards EXCEPT ![c] = AcceptReview(@)]
    /\ UNCHANGED <<filed, agents, proc, tick, ipc, stopped, faults>>

(* integrate_once on one selected lane: pushed or already merged, failed    *)
(* before or during the merge, or a report-only change.                     *)
PassLane ==
    /\ ipc = "lanes"
    /\ \E c \in irows, outcome \in {"integrated", "failed", "skipped"} :
        /\ irows' = irows \ {c}
        /\ cards' = [cards EXCEPT ![c] =
                        CASE outcome = "integrated" -> CompleteCard(@)
                          [] outcome = "failed" -> UpdateWorklaneStatus(@, "integration_failed")
                          [] outcome = "skipped" -> RetireCard(@)]
    /\ UNCHANGED <<filed, agents, proc, tick, ipc, stopped, faults>>

PassAbort ==
    /\ ipc # "idle" /\ Fault
    /\ ipc' = "idle" /\ irows' = {}
    /\ UNCHANGED <<cards, filed, agents, proc, tick, stopped>>

PassStep == PassAdvance \/ PassReview \/ PassLane

(***************************************************************************)
(* The Developers, through their MCP servers, and what befalls them.       *)
(***************************************************************************)

(* record_agent_report on the card the process was last prompted with.  A   *)
(* process the scheduler has given up on may still be running.              *)
AgentReport ==
    \E n \in Names, kind \in Kinds, withStage \in BOOLEAN :
        /\ proc[n] \in CardIds
        /\ LET c == proc[n] IN
            /\ filed' = [filed EXCEPT ![c] = kind]
            /\ cards' = IF withStage THEN [cards EXCEPT ![c] = ReportCard(@, kind)] ELSE cards
            /\ agents' = IF withStage /\ IsNonActionable(cards[c], kind) THEN Revive(n) ELSE agents
        /\ UNCHANGED <<proc, tick, pass, stopped, faults>>

(* Mutant: a worker that says it is done is deleted.                        *)
SelfUpdateDeletes(row, update) ==
    [row EXCEPT !.over = update[1], !.ended = IF update[2] THEN TRUE ELSE @,
                !.exists = ~update[2]]

(* memory_update_agent refuses when stopped and never un-ends a row.        *)
SelfUpdate(row, update) ==
    [row EXCEPT !.over = update[1], !.ended = IF update[2] THEN TRUE ELSE @]

UpdateAgent ==
    \E n \in Names, update \in Updates :
        /\ Alive(n) /\ HasRow(n) /\ ~stopped
        /\ agents[n].ended => update[2]
        /\ agents' = [agents EXCEPT ![n] = SelfUpdate(@, update)]
        /\ UNCHANGED <<cards, filed, proc, tick, pass, stopped, faults>>

ProcessDies ==
    /\ \E n \in Names : Alive(n) /\ proc' = [proc EXCEPT ![n] = Dead]
    /\ UNCHANGED <<cards, filed, agents, tick, pass, stopped, faults>>

WorkerStep == AgentReport \/ UpdateAgent \/ ProcessDies

(***************************************************************************)
(* The operator.                                                           *)
(***************************************************************************)

(* ./harness stop: windows are killed as far as tmux allows.  The end of    *)
(* the supervisor's passes is taken as immediate here; module Supervisor    *)
(* looks at it more closely.                                                *)
Stop ==
    /\ ~stopped
    /\ stopped' = TRUE
    /\ \E survivors \in SUBSET Names : proc' = [n \in Names |-> IF n \in survivors THEN proc[n] ELSE Dead]
    /\ agents' = [n \in Names |-> IF Active(n)
                                  THEN [agents[n] EXCEPT !.over = TRUE, !.ended = TRUE]
                                  ELSE agents[n]]
    /\ pc' = "idle" /\ todo' = {} /\ rows' = {} /\ victim' = None /\ spawns' = 0 /\ fresh' = None
    /\ ipc' = "idle" /\ irows' = {}
    /\ UNCHANGED <<cards, filed, faults>>

Run ==
    /\ stopped
    /\ stopped' = FALSE
    /\ UNCHANGED <<cards, filed, agents, proc, tick, pass, faults>>

(* ./harness reset-counters: terminal agent rows are deleted and failed     *)
(* lanes are made ready again.                                              *)
ResetCounters ==
    /\ agents' = [n \in Names |-> [agents[n] EXCEPT !.exists = Active(n)]]
    /\ cards' = [c \in CardIds |->
                    IF cards[c].status = "integration_failed"
                    THEN [cards[c] EXCEPT !.status = "ready_for_integration", !.stage = "integration"]
                    ELSE cards[c]]
    /\ UNCHANGED <<filed, proc, tick, pass, stopped, faults>>


-----------------------------------------------------------------------------
ServiceStep == SchedulerStep \/ TickAbort \/ PassStep \/ PassAbort \/ WorkerStep

Next == ServiceStep \/ Stop \/ Run

Spec == Init /\ [][Next]_vars

(* The scheduler thread and the integration thread keep looping             *)
(* (supervised_loop never returns); no worker has to report or to live, and *)
(* the operator may do as he likes.                                         *)
FairSpec == Spec /\ WF_vars(SchedulerStep) /\ WF_vars(PassStep)

(* A harness nobody stops.                                                  *)
ServiceSpec == Init /\ [][ServiceStep]_vars

(* The operator may also reset the counters.                                *)
ResetSpec == Init /\ [][Next \/ ResetCounters]_vars

(***************************************************************************)
(* Properties.                                                             *)
(***************************************************************************)

(* init_db re-derives stage and integration_required on every connection:   *)
(* that must never move a card behind the back of the actor that wrote it,  *)
(* though reports set a status outside STATUS_STAGE in any stage.           *)
BackfillMovesNothing == \A c \in CardIds : BackfillIsIdentity(cards[c])

(* A card has an owner exactly while it is in development, whatever order   *)
(* reports, repairs and integration outcomes come in.                       *)
DevelopmentIsOwned == \A c \in CardIds : OwnedInDevelopment(cards[c])

(* card_stage_transitions ends with the stage the card is in.               *)
TrailIsComplete == \A c \in CardIds : TrailAgrees(cards[c])

(* PLAN.md: exactly one card per Developer.  No live Developer is matched   *)
(* by two development cards, by owner or by worktree.                       *)
OneCardPerDeveloper == \A n \in Names : Active(n) => \A c, d \in Held(n) : c = d

(* Nothing waits for review or integration, or counts as integrated,        *)
(* without a report on file, though the rows a loop selected may be stale   *)
(* by the time it moves them.                                               *)
AcceptedOnReport ==
    \A c \in CardIds :
        \/ cards[c].stage \in {"review", "integration"}
        \/ cards[c].status \in {"integrated", "done"}
        => filed[c] # None

(* The owner id of a development card is the id of an agents row (there is  *)
(* no foreign key): else no repair of the tick finds the card again.        *)
OwnerRowExists == \A c \in CardIds : cards[c].owner # None => Owners(c) # {}

(* A card enters review from development, by a ready report: no repair and  *)
(* no integration outcome puts it there.                                    *)
ReviewFollowsReport ==
    [][\A c \in CardIds : cards'[c].stage = "review" /\ cards[c].stage # "review"
          => cards[c].stage = "development" /\ filed'[c] \in ReadyKinds]_vars

(* The board keeps the promise of CardLifecycle: a card is assigned only    *)
(* while planned, reviewed only out of development, routed only on report.  *)
Lifecycle == INSTANCE CardLifecycle WITH
    stage <- [c \in CardIds |-> cards[c].stage],
    owner <- [c \in CardIds |-> cards[c].owner],
    reported <- [c \in CardIds |-> filed[c] # None]

KeepsLifecycle == Lifecycle!Spec

(* Only work that was not handed in goes back to planned.                   *)
RequeueFromDevelopment ==
    [][\A c \in CardIds : cards'[c].stage = "planned" => cards[c].stage \in {"planned", "development"}]_vars

(* "Stopped because no assigned development card was found": a Developer    *)
(* that owns a card is not stopped for want of one, though its card is      *)
(* looked up by worktree too and reports and repairs move the others.       *)
CardedAreKept ==
    [][StopUncarded => \A n \in Names, c \in InDevelopment :
            Active(n) /\ cards[c].owner = agents[n].id => ~agents'[n].over]_vars

(* A development card of a worker that has ended does not stay with it,     *)
(* nor with another one that has, unless the harness is stopped for good.   *)
LostWorkReturns ==
    \A c \in CardIds :
        LET lost == cards[c].stage = "development" /\ \E n \in Names : cards[c].owner = agents[n].id /\ Terminal(n)
        IN []<>(~lost \/ stopped)

(* A card that reached review leaves it.                                    *)
ReviewIsTaken == \A c \in CardIds : []<>(cards[c].stage # "review" \/ stopped)
=============================================================================
