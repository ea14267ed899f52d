------------------------------- MODULE TestGate -------------------------------
(***************************************************************************)
(* The test loop (run_tests_once): it runs the full suite again and again, *)
(* classifies the result (module GateMode), keeps a bug report per failing *)
(* test, queues the card that repairs the suite and asks for an Architect  *)
(* when a test keeps failing.  Each action ends at a commit; the loop may  *)
(* be killed between two of them.                                          *)
(*                                                                         *)
(* The card and the request are rows that the scheduler, the workers and   *)
(* the integration loop move on; here they only change between the states  *)
(* the test loop tells apart.                                              *)
(***************************************************************************)
EXTENDS GateMode

CONSTANTS
    EscalateAfter,  \* occurrences that do not yet ask for an Architect
    MaxCrashes      \* bound: passes of the loop that are cut short

ASSUME TestGateConstants == EscalateAfter \in Nat /\ MaxCrashes \in Nat

VARIABLES
    gate,       \* the gate as committed
    run,        \* the newest row of test_runs
    classified, \* whether gate says what became of that row
    bugs,       \* occurrences of the open bug report of a test, 0 without one
    fix,        \* the card test-failure:global-suite
    found,      \* what the loop has read of it
    asked,      \* tests _architect_escalation_exists answers yes for
    pc,         \* where the loop is in its pass
    todo,       \* tests maybe_invoke_architect has still to look at
    crashes

vars == <<gate, run, classified, bugs, fix, found, asked, pc, todo, crashes>>

(* "none" without an unresolved card, "failed" when it is integration_failed. *)
FixStates == {"none", "open", "failed"}

(* Occurrences are counted up to the first number that escalates.           *)
Occurrences == 0..(EscalateAfter + 1)

TypeOK ==
    /\ gate \in Gate
    /\ run \in Run
    /\ classified \in BOOLEAN
    /\ bugs \in [Tests -> Occurrences]
    /\ fix \in FixStates /\ found \in FixStates
    /\ asked \subseteq Tests
    /\ pc \in {"idle", "gate", "note", "select", "fix", "escalate", "resolve"}
    /\ todo \subseteq Tests
    /\ crashes \in 0..MaxCrashes

(* No run yet reads like a run that passed.                                 *)
Init ==
    /\ gate = [mode |-> "unset", known |-> {}]
    /\ run = [status |-> "passed", rows |-> {}] /\ classified = FALSE
    /\ bugs = [t \in Tests |-> 0]
    /\ fix = "none" /\ found = "none"
    /\ asked = {} /\ pc = "idle" /\ todo = {} /\ crashes = 0

Failing == IF run.status = "failed" THEN run.rows ELSE {}

(***************************************************************************)
(* One pass of the loop.                                                   *)
(***************************************************************************)

(* record_test_run.                                                         *)
RunSuite ==
    /\ pc = "idle"
    /\ run' \in Run /\ classified' = FALSE
    /\ pc' = "gate"
    /\ UNCHANGED <<gate, bugs, fix, found, asked, todo, crashes>>

UpdateGate ==
    /\ pc = "gate"
    /\ \E metric \in BOOLEAN : gate' = UpdateTestGateState(gate, run, metric)
    /\ classified' = TRUE /\ pc' = "note"
    /\ UNCHANGED <<run, bugs, fix, found, asked, todo, crashes>>

Counted(n) == IF n > EscalateAfter THEN n ELSE n + 1

(* note_failing_tests.                                                      *)
NoteFailing ==
    /\ pc = "note"
    /\ bugs' = [t \in Tests |-> IF t \in Failing THEN Counted(bugs[t]) ELSE bugs[t]]
    /\ pc' = IF run.status = "failed" THEN "select" ELSE "resolve"
    /\ UNCHANGED <<gate, run, classified, fix, found, asked, todo, crashes>>

(* queue_test_fix_lane looks for the card first and writes later.           *)
SelectFix ==
    /\ pc = "select"
    /\ found' = fix /\ pc' = "fix"
    /\ UNCHANGED <<gate, run, classified, bugs, fix, asked, todo, crashes>>

(* maybe_invoke_architect selects the open reports of the last 24 hours:    *)
(* the failing tests, and any others that are recent enough.                *)
SelectRepeated ==
    /\ LET repeated == {t \in Tests : bugs[t] > EscalateAfter} IN
        \E recent \in SUBSET repeated :
            Failing \cap repeated \subseteq recent /\ todo' = recent
    /\ pc' = "escalate"

(* Mutant: an open card is touched, whatever became of it.                  *)
QueueFixTouches ==
    /\ pc = "fix"
    /\ fix' = IF found = "none" THEN "open" ELSE fix
    /\ found' = "none"
    /\ SelectRepeated
    /\ UNCHANGED <<gate, run, classified, bugs, asked, crashes>>

(* requeue_card asks nothing of the row: it revives a card that was settled *)
(* since it was read.                                                       *)
QueueFix ==
    /\ pc = "fix"
    /\ fix' = IF found = "open" THEN fix ELSE "open"
    /\ found' = "none"
    /\ SelectRepeated
    /\ UNCHANGED <<gate, run, classified, bugs, asked, crashes>>

KnownRed(t) ==
    LET known == KnownGateFailures(gate) IN known # {} /\ SameFailureCluster(known, {t})

(* Mutant: any red gate excuses a test from escalation.                     *)
EscalateNone ==
    /\ pc = "escalate"
    /\ \E t \in todo :
        /\ todo' = todo \ {t}
        /\ asked' = IF gate.mode # "green" THEN asked ELSE asked \cup {t}
    /\ UNCHANGED <<gate, run, classified, bugs, fix, found, pc, crashes>>

(* queue_spawn_request, for a test no request and no card stands for yet.   *)
Escalate ==
    /\ pc = "escalate"
    /\ \E t \in todo :
        /\ todo' = todo \ {t}
        /\ asked' = IF KnownRed(t) THEN asked ELSE asked \cup {t}
    /\ UNCHANGED <<gate, run, classified, bugs, fix, found, pc, crashes>>

EndFailed ==
    /\ pc = "escalate" /\ todo = {}
    /\ pc' = "idle"
    /\ UNCHANGED <<gate, run, classified, bugs, fix, found, asked, todo, crashes>>

(* Mutant: a run without rows closes nothing.                               *)
ResolveListed ==
    /\ pc = "resolve"
    /\ bugs' = [t \in Tests |-> IF t \in run.rows THEN 0 ELSE bugs[t]]
    /\ pc' = "idle"
    /\ UNCHANGED <<gate, run, classified, fix, found, asked, todo, crashes>>

(* resolve_fixed_tests.                                                     *)
ResolveFixed ==
    /\ pc = "resolve"
    /\ bugs' = [t \in Tests |-> IF t \in run.rows \/ run.rows = {} THEN 0 ELSE bugs[t]]
    /\ pc' = "idle"
    /\ UNCHANGED <<gate, run, classified, fix, found, asked, todo, crashes>>

LoopStep ==
    \/ RunSuite \/ UpdateGate \/ NoteFailing \/ SelectFix \/ QueueFix
    \/ Escalate \/ EndFailed \/ ResolveFixed

Crash ==
    /\ pc # "idle" /\ crashes < MaxCrashes
    /\ crashes' = crashes + 1
    /\ pc' = "idle" /\ found' = "none" /\ todo' = {}
    /\ UNCHANGED <<gate, run, classified, bugs, fix, asked>>

(***************************************************************************)
(* The rest of the harness.                                                *)
(***************************************************************************)

(* The card fails in integration, or is done: repaired, settled, retired.   *)
FixMoves ==
    /\ \/ fix = "open" /\ fix' \in {"failed", "none"}
       \/ fix = "failed" /\ fix' = "none"
    /\ UNCHANGED <<gate, run, classified, bugs, found, asked, pc, todo, crashes>>

(* The request was cancelled or failed, and its card is done.  (A request    *)
(* that was started stays 'started' and absorbs every later one.)           *)
RequestMoves ==
    /\ \E t \in asked : asked' = asked \ {t}
    /\ UNCHANGED <<gate, run, classified, bugs, fix, found, pc, todo, crashes>>

Next == LoopStep \/ Crash \/ FixMoves \/ RequestMoves

Spec == Init /\ [][Next]_vars

(* The supervisor starts the loop again after every pass.                   *)
FairSpec == Spec /\ WF_vars(LoopStep)

(***************************************************************************)
(* Properties.                                                             *)
(***************************************************************************)

(* What the gate says fits the newest run it has classified: green after a  *)
(* run that passed and only then; in quarantine, every failure of the run   *)
(* is known and the known ones are within the limit, whatever order of runs *)
(* led there.                                                               *)
QuarantineIsCurrent ==
    /\ gate.mode \in KnownRedModes =>
            gate.known # {} /\ Cardinality(gate.known) <= QuarantineLimit
    /\ classified =>
            /\ gate.mode = "green" <=> run.status = "passed"
            /\ gate.mode \in KnownRedModes => run.rows \subseteq gate.known

(* While the gate stays in quarantine no known failure is forgotten and no  *)
(* failure of another group becomes known: new groups pass through a hard   *)
(* blocker or a green run first.                                            *)
QuarantineStaysInClusters ==
    [][gate.mode \in KnownRedModes /\ gate'.mode \in KnownRedModes =>
            /\ gate.known \subseteq gate'.known
            /\ \A t \in gate'.known : \E s \in gate.known : ClusterOf[t] = ClusterOf[s]]_vars

(* A failed run does not stay without a card somebody can work on: the card *)
(* is created, or queued again when its integration had failed.             *)
RedSuiteIsQueued ==
    (run.status = "failed" /\ fix # "open") ~> (fix = "open" \/ run.status = "passed")

(* The bug report of a test that passes from some point on is closed for    *)
(* good, also when the runner prints no rows and passes are cut short.      *)
FixedTestIsClosed ==
    \A t \in Tests :
        <>[](run.status = "passed" /\ (t \in run.rows \/ run.rows = {})) => <>[](bugs[t] = 0)

(* A test that blocks the gate often enough is brought to an Architect.     *)
RepeatedFailureIsEscalated ==
    \A t \in Tests :
        []<>(gate.mode = "hard_blocker" /\ t \in Failing /\ bugs[t] > EscalateAfter /\ pc = "select")
            => []<>(t \in asked)
=============================================================================
