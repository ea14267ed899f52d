----------------------------- MODULE GateStation -----------------------------
(***************************************************************************)
(* The gate station: how the scheduler, the test loop, the Developers and  *)
(* the integration loop repair a red test suite together.                  *)
(*                                                                         *)
(* A card is known by what it is for: two rows can carry the key of the    *)
(* owner of the gate (test-failure:global-suite), because the scheduler    *)
(* and the test loop both look for it first and create it later; a file    *)
(* stands for its card gate-cluster:<file> (one failing test per file),    *)
(* "recovery" for a card gate-crash-recovery:%, "product" for the other    *)
(* work.  A row that is done is forgotten (None), but for one case: the    *)
(* test loop may queue an owner card again that was settled meanwhile.     *)
(* Priorities are left out: any candidate may be claimed first.            *)
(*                                                                         *)
(* A tick of the scheduler tears dead Developers down, manages the station *)
(* and repairs the board, and hands out cards; a pass of the test loop     *)
(* runs the suite and queues the owner card.  Both look for that card in   *)
(* one action and create it in the next.  The finer steps are in CardBoard *)
(* (windows, agent rows), TestGate (the loop) and Integration (branches):  *)
(* here a Developer is busy with its card or gone, and a lane that is      *)
(* integrated repairs files of the mainline.                               *)
(***************************************************************************)
EXTENDS Cards, GateMode

CONSTANTS
    HasMetric,          \* the suite prints the accepted metric of the goal
    InventoryIsGate,    \* gate_inventory_command names the suite; nothing else
                        \* records a run of it
    MaxBreaks,          \* bound: files that break on the mainline
    MaxFaults           \* bound: Developers that die and lanes that fail

Files == Tests
OwnerSlots == {"ownerA", "ownerB"}
Slots == OwnerSlots \cup Files \cup {"recovery", "product"}
GateSlots == Slots \ {"product"}
Developers == AgentIds

ASSUME StationConstants ==
    /\ Worktrees = AgentIds
    /\ Files \cap (OwnerSlots \cup {"recovery", "product"}) = {}
    /\ HasMetric \in BOOLEAN /\ InventoryIsGate \in BOOLEAN
    /\ MaxBreaks \in Nat /\ MaxFaults \in Nat

VARIABLES
    cards,      \* the unresolved row of each kind, or None
    newest,     \* of two unresolved owner cards the one with the larger id
    broken,     \* files whose test fails on the mainline
    run,        \* the newest row of test_runs
    gate,       \* what the test loop made of it
    station,    \* gate_station_mode
    ready,      \* gate_station_inventory_ready
    ingested,   \* gate_station_inventory_run_id is the id of run
    stalled,    \* red_banner starts with PROGRESS STALLED
    gone,       \* Developers with a dead process and an active row
    tick,       \* "owner" when the tick has found no owner card
    loop,       \* "fix" when the test loop has looked for one
    found,      \* the owner card the loop wants to queue again, or None
    breaks, faults

mode == <<station, ready, ingested, stalled>>
suite == <<broken, run, gate>>
bounds == <<breaks, faults>>
vars == <<cards, newest, suite, mode, gone, tick, loop, found, bounds>>

TypeOK ==
    /\ cards \in [Slots -> Card \cup {None}]
    /\ newest \in OwnerSlots
    /\ broken \subseteq Files /\ run \in Run /\ gate \in Gate
    /\ station \in BOOLEAN /\ ready \in BOOLEAN /\ ingested \in BOOLEAN /\ stalled \in BOOLEAN
    /\ gone \subseteq Developers
    /\ tick \in {"claim", "owner"}
    /\ loop \in {"run", "fix"} /\ found \in OwnerSlots \cup {None}
    /\ breaks \in 0..MaxBreaks /\ faults \in 0..MaxFaults

(* A green suite, and one card of product work the metric may have been     *)
(* waiting for too long.  The inventory may be that of an earlier red gate. *)
Init ==
    /\ cards = [s \in Slots |-> IF s = "product" THEN QueueWorklane("Developer", TRUE) ELSE None]
    /\ newest = "ownerA"
    /\ broken = {} /\ run = [status |-> "passed", rows |-> {}]
    /\ gate = [mode |-> "green", known |-> {}]
    /\ stalled \in {FALSE, HasMetric} /\ station = stalled
    /\ ready \in BOOLEAN /\ ingested = FALSE
    /\ gone = {} /\ tick = "claim" /\ loop = "run" /\ found = None
    /\ breaks = 0 /\ faults = 0

(***************************************************************************)
(* Reads.                                                                  *)
(***************************************************************************)

Open == {s \in Slots : cards[s] # None}
InStage(stage) == {s \in Open : cards[s].stage = stage}

HeldCards(w) == {s \in Open : HeldBy(cards[s], w, w)}

OpenOwners == OwnerSlots \cap Open

(* The first row of a SELECT on the owner key ORDER BY id.                  *)
FirstOwner(s) == s \in OpenOwners /\ (s = newest => OpenOwners = {s})

(* Mutant: the station is entered and never left.                           *)
StationStays == station \/ run.status = "failed"

(* gate_station_should_run.  The banner counts whatever the gate says.      *)
ShouldRun ==
    \/ run.status = "failed"
    \/ stalled
    \/ gate.mode \in {"hard_blocker"} \cup KnownRedModes

(* active_gate_station_owner_keys.  A recovery card names no file.          *)
Occupied == Files \cap InStage("development")

(* planned_developer_candidates.                                            *)
Candidates ==
    LET planned == InStage("planned") IN
    CASE station /\ ready -> (planned \cap GateSlots) \ Occupied
      [] station /\ ~ready -> planned \cap (OwnerSlots \cup {"recovery"})
      [] ~station /\ gate.mode = "hard_blocker" -> planned \cap OwnerSlots
      [] OTHER -> planned

(***************************************************************************)
(* Writes.                                                                 *)
(***************************************************************************)

Fault == faults < MaxFaults /\ faults' = faults + 1

(* A done row is forgotten.                                                 *)
Row(card) == IF card.stage = "done" THEN None ELSE card

Set(s, card) == cards' = [cards EXCEPT ![s] = Row(card)]

NewCard == QueueWorklane("Developer", TRUE)

(* create_card on the owner key, in a row nobody is about to write.         *)
FreeRow(s) ==
    LET free == OwnerSlots \ (Open \cup {found})
    IN s \in free /\ (s = "ownerA" \/ "ownerA" \notin free)

(***************************************************************************)
(* The test loop (module TestGate has all of its steps).                   *)
(***************************************************************************)

(* The suite fails when a file is broken, with a row per broken file or,    *)
(* when the command itself fails, with none.                                *)
RunTests ==
    /\ \E rows \in {broken, {}} :
        run' = [status |-> IF broken = {} THEN "passed" ELSE "failed", rows |-> rows]
    /\ gate' = UpdateTestGateState(gate, run', HasMetric)
    /\ ingested' = FALSE

(* queue_test_fix_lane reads the card: one that is there is left as it is   *)
(* (but for notes and priority) unless its integration had failed.          *)
RunSuite ==
    /\ loop = "run"
    /\ RunTests
    /\ \/ broken = {} /\ UNCHANGED <<loop, found>>
       \/ broken # {} /\ OpenOwners = {} /\ loop' = "fix" /\ UNCHANGED found
       \/ /\ broken # {}
          /\ \E s \in OwnerSlots :
              /\ FirstOwner(s)
              /\ IF cards[s].status = "integration_failed"
                 THEN loop' = "fix" /\ found' = s
                 ELSE UNCHANGED <<loop, found>>
    /\ UNCHANGED <<cards, newest, broken, station, ready, stalled, gone, tick, bounds>>

QueueFix ==
    /\ loop = "fix"
    /\ IF found = None
       THEN \E s \in OwnerSlots : FreeRow(s) /\ Set(s, NewCard) /\ newest' = s
       ELSE /\ Set(found, RequeueCard(IF found \in Open THEN cards[found] ELSE NewCard))
            /\ UNCHANGED newest
    /\ loop' = "run" /\ found' = None
    /\ UNCHANGED <<suite, mode, gone, tick, bounds>>

LoopStep == RunSuite \/ QueueFix

(***************************************************************************)
(* The scheduler tick.                                                     *)
(***************************************************************************)

AllBusy == \A w \in Developers : HeldCards(w) # {}

(* No card is left to hand out: the next tick begins.                       *)
TickBegins == tick = "claim" /\ (Candidates = {} \/ AllBusy)

(* requeue_agent_cards: dirty work on a gate card is kept in its worktree   *)
(* for a recovery card (bound: one of them), anything else is queued again. *)
TearDown ==
    /\ TickBegins
    /\ \E w \in gone, dirty \in BOOLEAN :
        /\ gone' = gone \ {w}
        /\ LET saved == IF dirty THEN HeldCards(w) \cap GateSlots ELSE {} IN
            cards' = [s \in Slots |->
                CASE s = "recovery" /\ saved # {} -> NewCard
                  [] s \in saved \ {"recovery"} -> Row(RetireCard(cards[s]))
                  [] s \in HeldCards(w) \ saved -> RequeueCard(cards[s])
                  [] OTHER -> cards[s]]
        /\ dirty => "recovery" \notin Open \/ "recovery" \in HeldCards(w)
    /\ UNCHANGED <<newest, suite, mode, tick, loop, found, bounds>>

(* review_ready_cards.                                                      *)
Reviewed(card) ==
    IF card # None /\ card.stage = "review" THEN AcceptReview(card) ELSE card

OwnersOf(board) == {s \in OwnerSlots : board[s] # None}

(* Mutant: the newest of two owner cards stays.                             *)
RetiredByAge(board, idle) ==
    IF OwnersOf(board) = OwnerSlots THEN OwnerSlots \ {newest'} ELSE {}

Rank(card) ==
    CASE card.stage = "development" -> 0 [] card.stage = "planned" -> 1 [] OTHER -> 2

(* dedupe_global_test_failure_cards: a card with an active worker stays,    *)
(* then one in development, then one that is planned, then the newest.      *)
(* Active are the Developers with a card and those that wait for the next   *)
(* one, and the worktree of a card handed in may be one of theirs.          *)
Retired(board, idle) ==
    LET busy == {w \in Developers : HeldCards(w) # {}}
        active(s) == board[s].owner # None \/ board[s].worktree \in busy \cup idle
        outranks(s, t) ==
            \/ active(s) /\ ~active(t)
            \/ /\ active(s) = active(t)
               /\ \/ Rank(board[s]) < Rank(board[t])
                  \/ Rank(board[s]) = Rank(board[t]) /\ s = newest'
    IN {t \in OwnersOf(board) : \E s \in OwnersOf(board) \ {t} : outranks(s, t)}

(* ingest_gate_inventory: a run of the inventory that has not been read     *)
(* yet, and its failing files that have no card.                            *)
InventoryEnded ==
    station' /\ InventoryIsGate /\ run.status = "failed" /\ run.rows # {} /\ ~ingested

Ingested(board) == IF InventoryEnded THEN {f \in run.rows : board[f] = None} ELSE {}

(* The rest of manage_gate_station, and the repairs after it.  The flag     *)
(* ready is never taken back.                                               *)
RepairBoard(board) ==
    /\ \E dropped \in {Retired(board, idle) : idle \in SUBSET Developers} :
        cards' = [s \in Slots |->
            CASE s \in Ingested(board) -> NewCard
              [] s \in dropped -> Row(RetireUnlogged(board[s]))
              [] OTHER -> Reviewed(board[s])]
    /\ ready' = (ready \/ InventoryEnded) /\ ingested' = (ingested \/ InventoryEnded)
    /\ tick' = "claim"

(* manage_gate_station: find_or_create_card on the owner key first looks    *)
(* for a row.                                                               *)
ManageStation ==
    /\ TickBegins /\ gone = {}
    /\ station' = ShouldRun
    /\ UNCHANGED newest
    /\ IF station' /\ OpenOwners = {}
       THEN tick' = "owner" /\ UNCHANGED <<cards, ready, ingested>>
       ELSE RepairBoard(cards)
    /\ UNCHANGED <<suite, stalled, gone, loop, found, bounds>>

EnsureOwner ==
    /\ tick = "owner"
    /\ UNCHANGED station
    /\ \E s \in OwnerSlots :
        /\ FreeRow(s) /\ newest' = s
        /\ RepairBoard([cards EXCEPT ![s] = NewCard])
    /\ UNCHANGED <<suite, stalled, gone, loop, found, bounds>>

(* claim_developer_card, for a Developer that waits or is started for it.   *)
Claim ==
    /\ tick = "claim"
    /\ \E w \in Developers, s \in Candidates :
        /\ HeldCards(w) = {}
        /\ Set(s, AssignCard(cards[s], w, w))
    /\ UNCHANGED <<newest, suite, mode, gone, tick, loop, found, bounds>>

TickStep == TearDown \/ ManageStation \/ EnsureOwner \/ Claim

(***************************************************************************)
(* The integration loop (module Integration has all of its steps).         *)
(***************************************************************************)

(* Mutant: the filter of a hard blocker names the cards of the station.     *)
LaneTakenClusters(s) ==
    /\ s \in Open /\ ReadyLane(cards[s])
    /\ gate.mode = "hard_blocker" => s \in GateSlots \ OwnerSlots

(* Mutant: red or green, only the owner of the gate is integrated.          *)
LaneTakenOwnersOnly(s) == s \in Open /\ ReadyLane(cards[s]) /\ s \in OwnerSlots

(* _ready_lanes: behind a hard blocker only keys test-failure:%.            *)
LaneTaken(s) ==
    /\ s \in Open /\ ReadyLane(cards[s])
    /\ gate.mode = "hard_blocker" => s \in OwnerSlots

TakenLanes == {s \in Slots : LaneTaken(s)}

(* What changes do to the mainline: the owner of the gate repairs at least  *)
(* one file, a cluster card its own, a recovered patch any.                 *)
Mainlines(S) ==
    {B \in SUBSET broken :
        /\ B \cap S = {}
        /\ S \cap OwnerSlots # {} /\ broken # {} => B # broken
        /\ S \cap (OwnerSlots \cup {"recovery"}) = {} => B = broken \ S}

(* A change may move the metric, and with it the banner goes.               *)
Land(S) ==
    /\ broken' \in Mainlines(S)
    /\ cards' = [s \in Slots |-> IF s \in S THEN Row(CompleteCard(cards[s])) ELSE cards[s]]
    /\ stalled' \in {stalled, FALSE}
    /\ UNCHANGED <<newest, run, gate, station, ready, ingested, gone, tick, loop, found, bounds>>

(* A pass takes the lanes one by one; the others may act in between.        *)
Integrate == \E S \in SUBSET TakenLanes \ {{}} : Land(S)

WholePass == \E S \in {TakenLanes} \ {{}} : Land(S)

IntegrationFails ==
    /\ Fault
    /\ \E s \in Slots :
        /\ LaneTaken(s)
        /\ Set(s, UpdateWorklaneStatus(cards[s], "integration_failed"))
    /\ UNCHANGED <<newest, suite, mode, gone, tick, loop, found, breaks>>

(* A Conflict Resolver has landed the change, and the tick settles the      *)
(* failed lane.  The key of a resolver is integration-failure:%, so a hard  *)
(* blocker keeps it out of the pass like any other product work.            *)
SettleFailure ==
    /\ gate.mode # "hard_blocker"
    /\ \E s \in Slots : s \in Open /\ FailedLane(cards[s]) /\ Land({s})

(***************************************************************************)
(* The Developers and the world.                                           *)
(***************************************************************************)

Report ==
    /\ \E w \in Developers \ gone : \E s \in HeldCards(w) :
        Set(s, ReportCard(cards[s], "completed"))
    /\ UNCHANGED <<newest, suite, mode, gone, tick, loop, found, bounds>>

ProcessDies ==
    /\ Fault
    /\ \E w \in Developers \ gone : HeldCards(w) # {} /\ gone' = gone \cup {w}
    /\ UNCHANGED <<cards, newest, suite, mode, tick, loop, found, breaks>>

(* A commit on the mainline breaks a file.                                  *)
FileBreaks ==
    /\ breaks < MaxBreaks /\ breaks' = breaks + 1
    /\ \E f \in Files \ broken : broken' = broken \cup {f}
    /\ UNCHANGED <<cards, newest, run, gate, mode, gone, tick, loop, found, faults>>

-----------------------------------------------------------------------------
Next ==
    \/ LoopStep \/ TickStep \/ Integrate \/ IntegrationFails \/ SettleFailure
    \/ Report \/ ProcessDies \/ FileBreaks

Spec == Init /\ [][Next]_vars

(* The three loops run for ever, a pass visits every lane that is ready     *)
(* (with one file five cards exist, and INTEGRATION_LIMIT is 5), and        *)
(* Developers finish what they take.                                        *)
FairSpec ==
    /\ Spec
    /\ WF_vars(LoopStep) /\ WF_vars(TickStep)
    /\ WF_vars(WholePass)
    /\ WF_vars(SettleFailure) /\ WF_vars(Report)

(***************************************************************************)
(* Properties.                                                             *)
(***************************************************************************)

(* "Maintain one exact owner": the scheduler and the test loop may create   *)
(* two owner cards, but the repair of the board leaves one, and never       *)
(* another one than that of a Developer at work.                            *)
OneOwnerIsKept ==
    [][(ManageStation \/ EnsureOwner) /\ tick' = "claim" =>
            /\ Cardinality(OwnersOf(cards')) <= 1
            /\ OwnerSlots \cap InStage("development") # {} =>
                    OwnersOf(cards') \subseteq InStage("development")]_vars

(* A suite that is red turns green: whatever the gate calls the failures,   *)
(* the station gets a worker for them, their repair passes the filter of    *)
(* the integration loop, and a lost worker or a failed merge only delays it.*)
RedSuiteTurnsGreen == (broken # {}) ~> (gate.mode = "green")

(* The repair of a cluster is integrated in the end, although a hard        *)
(* blocker keeps it out of the pass.                                        *)
ClusterFixLands ==
    \A f \in Files : (f \in Open /\ ReadyLane(cards[f])) ~> ~(f \in Open /\ ReadyLane(cards[f]))

(* A red suite only delays product work, whatever the inventory says and    *)
(* whoever is lost in the repair.  (Behind a stalled banner it waits for    *)
(* ever, also when the gate is green: the station offers nothing else.)     *)
ProductWorkResumes ==
    ("product" \in InStage("planned")) ~> ("product" \notin InStage("planned") \/ stalled)
=============================================================================
