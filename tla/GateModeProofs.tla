---------------------------- MODULE GateModeProofs ----------------------------
(***************************************************************************)
(* What update_test_gate_state returns, for every set of tests, every      *)
(* grouping and every limit.                                               *)
(***************************************************************************)
EXTENDS GateMode, FiniteSetTheorems, TLAPS

(* The set of known failures is a finite set of tests.                      *)
LEMMA KnownFinite ==
    ASSUME NEW S \in SUBSET Tests
    PROVE  IsFiniteSet(S) /\ Cardinality(S) \in Nat
  BY GateConstants, FS_Subset, FS_CardinalityType

(* What is known before a run of the suite are tests.                       *)
LEMMA KnownTests ==
    ASSUME NEW g \in Gate
    PROVE  KnownGateFailures(g) \in SUBSET Tests
  BY DEF Gate, KnownGateFailures

(* A failed run that does not block leaves a quarantine within the limit:   *)
(* not empty, with every failure of the run, and with nothing from a group  *)
(* that was not known unless nothing was known.                             *)
LEMMA UnblockedRun ==
    ASSUME NEW g \in Gate, NEW rows \in SUBSET Tests, ~Blocks(g, rows),
           NEW known, known = KnownGateFailures(g) \cup rows
    PROVE  /\ known \in SUBSET Tests /\ known # {}
           /\ rows \subseteq known
           /\ Cardinality(known) <= QuarantineLimit
           /\ KnownGateFailures(g) # {} => SameFailureCluster(KnownGateFailures(g), rows)
  <1>1. known \in SUBSET Tests /\ rows \subseteq known
    BY KnownTests
  <1>2. known # {}
    BY DEF Blocks, Refused
  <1>3. Cardinality(known) \in Nat
    BY <1>1, KnownFinite
  <1>4. ~(Cardinality(known) > QuarantineLimit)
    BY DEF Blocks
  <1>5. Cardinality(known) <= QuarantineLimit
    BY <1>3, <1>4, GateConstants
  <1>6. KnownGateFailures(g) # {} => SameFailureCluster(KnownGateFailures(g), rows)
    BY DEF Blocks, Refused
  <1> QED BY <1>1, <1>2, <1>5, <1>6

(* update_test_gate_state returns a gate that fits the run it was given.    *)
LEMMA UpdateFits ==
    ASSUME NEW g \in Gate, NEW r \in Run, NEW metric \in BOOLEAN,
           NEW h, h = UpdateTestGateState(g, r, metric)
    PROVE  /\ h \in Gate
           /\ h.mode = "green" <=> r.status = "passed"
           /\ h.mode \in KnownRedModes =>
                /\ r.rows \subseteq h.known /\ h.known # {}
                /\ Cardinality(h.known) <= QuarantineLimit
                /\ KnownGateFailures(g) \subseteq h.known
                /\ KnownGateFailures(g) # {} => SameFailureCluster(KnownGateFailures(g), h.known)
  <1>0. r.status \in {"passed", "failed"} /\ r.rows \in SUBSET Tests
    BY DEF Run
  <1>1. CASE r.status = "passed"
    <2>1. h = [mode |-> "green", known |-> {}]
      BY <1>1 DEF UpdateTestGateState
    <2> QED BY <1>1, <2>1 DEF Gate, Modes, KnownRedModes
  <1>2. CASE r.status = "failed" /\ Blocks(g, r.rows)
    <2> DEFINE known == IF Refused(g, r.rows) THEN r.rows
                        ELSE KnownGateFailures(g) \cup r.rows
    <2>1. h = [mode |-> "hard_blocker", known |-> known]
      BY <1>2 DEF UpdateTestGateState, RedMode
    <2>2. known \in SUBSET Tests
      BY <1>0, KnownTests
    <2> QED BY <1>2, <2>1, <2>2 DEF Gate, Modes, KnownRedModes
  <1>3. CASE r.status = "failed" /\ ~Blocks(g, r.rows)
    <2> DEFINE known == KnownGateFailures(g) \cup r.rows
    <2>1. h = [mode |-> IF metric THEN "soft_known_red" ELSE "quarantined_known_red",
               known |-> known]
      BY <1>3 DEF UpdateTestGateState, RedMode, Blocks
    <2>2. /\ known \in SUBSET Tests /\ known # {} /\ r.rows \subseteq known
          /\ Cardinality(known) <= QuarantineLimit
          /\ KnownGateFailures(g) # {} => SameFailureCluster(KnownGateFailures(g), r.rows)
      BY <1>0, <1>3, UnblockedRun
    <2>3. h.known = known /\ h.mode \in KnownRedModes /\ h.mode # "green"
      BY <2>1 DEF KnownRedModes
    <2>4. h \in Gate
      BY <2>1, <2>2 DEF Gate, Modes, KnownRedModes
    <2>5. KnownGateFailures(g) # {} => SameFailureCluster(KnownGateFailures(g), known)
      BY <2>2 DEF SameFailureCluster
    <2> QED BY <1>3, <2>2, <2>3, <2>4, <2>5
  <1> QED BY <1>0, <1>1, <1>2, <1>3
=============================================================================
