------------------------------- MODULE GateMode -------------------------------
(***************************************************************************)
(* The mode of the global test gate (testing_loop.py): the test loop       *)
(* classifies every run of the full suite as green, as known debt that is  *)
(* put in quarantine, or as a hard blocker, from the failures of the run   *)
(* and the failures it already knows.                                      *)
(*                                                                         *)
(* A gate is the pair test_gate_mode, test_gate_failures_json.  Only the   *)
(* full-suite command is meant: runs of other commands leave it alone.     *)
(***************************************************************************)
EXTENDS Naturals, FiniteSets

CONSTANTS
    Tests,              \* values of test_results.nodeid
    Clusters,           \* groups of related tests
    ClusterOf,          \* _failure_cluster: the group of a test
    QuarantineLimit     \* KNOWN_RED_QUARANTINE_LIMIT

ASSUME GateConstants ==
    /\ IsFiniteSet(Tests)
    /\ ClusterOf \in [Tests -> Clusters]
    /\ QuarantineLimit \in Nat

KnownRedModes == {"quarantined_known_red", "soft_known_red"}

(* "unset" before the first run of the suite.                               *)
Modes == {"unset", "green", "hard_blocker"} \cup KnownRedModes

Gate == [mode : Modes, known : SUBSET Tests]

(* A run of the suite with the rows the test loop looks at: the failed ones *)
(* of a failed run, the passed ones of a passed run.  Either may be empty:  *)
(* some runners print no line per test.                                     *)
Run == [status : {"passed", "failed"}, rows : SUBSET Tests]

KnownGateFailures(gate) == IF gate.mode \in KnownRedModes THEN gate.known ELSE {}

SameFailureCluster(previous, current) ==
    \A t \in current : \E s \in previous : ClusterOf[t] = ClusterOf[s]

(* Mutant: the limit is held against the failures of this run alone.        *)
BlocksByRunOnly(gate, failing) ==
    LET previous == KnownGateFailures(gate) IN
    \/ failing = {} \/ Cardinality(failing) > QuarantineLimit
    \/ previous # {} /\ ~SameFailureCluster(previous, failing)

(* The early returns that look at the failures of the run.  A failure that  *)
(* is known is in a known group.                                            *)
Refused(gate, failing) ==
    LET previous == KnownGateFailures(gate) IN
    \/ failing = {}
    \/ Cardinality(failing) > QuarantineLimit
    \/ previous # {} /\ ~SameFailureCluster(previous, failing)

(* The last early return holds the limit against all that is known then.    *)
Blocks(gate, failing) ==
    \/ Refused(gate, failing)
    \/ Cardinality(KnownGateFailures(gate) \cup failing) > QuarantineLimit

RedMode(gate, failing, metric) ==
    IF Blocks(gate, failing) THEN "hard_blocker"
    ELSE IF metric THEN "soft_known_red" ELSE "quarantined_known_red"

(* Mutant: known failures are replaced, not added to.                       *)
UpdateForgets(gate, run, metric) ==
    IF run.status = "passed" THEN [mode |-> "green", known |-> {}]
    ELSE [mode |-> RedMode(gate, run.rows, metric),
          known |-> run.rows]

(* update_test_gate_state; metric says whether the run printed the metric.  *)
(* A run that is refused is recorded with its own failures, any other with  *)
(* all that is known by then.  (A run without rows is recorded with the     *)
(* marker command-level-failure; _known_gate_failures does not read what a  *)
(* hard blocker has recorded, so no test stands for it here.)               *)
UpdateTestGateState(gate, run, metric) ==
    IF run.status = "passed" THEN [mode |-> "green", known |-> {}]
    ELSE [mode |-> RedMode(gate, run.rows, metric),
          known |-> IF Refused(gate, run.rows) THEN run.rows
                    ELSE KnownGateFailures(gate) \cup run.rows]
=============================================================================
