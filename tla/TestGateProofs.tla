---------------------------- MODULE TestGateProofs ----------------------------
(***************************************************************************)
(* The test loop, for every set of tests, every grouping and every limit:  *)
(* its types, and what the gate says of the newest run in every state.     *)
(***************************************************************************)
EXTENDS TestGate, GateModeProofs

-----------------------------------------------------------------------------
(* Every variable of the test loop keeps its type.                          *)
THEOREM TestGateTypeCorrect == Spec => []TypeOK
  <1>1. Init => TypeOK
    <2> SUFFICES ASSUME Init PROVE TypeOK
      OBVIOUS
    <2> USE DEF Init
    <2>1. gate \in Gate
      BY DEF Gate, Modes
    <2>2. run \in Run
      BY DEF Run
    <2>3. 0 \in Occurrences /\ crashes \in 0..MaxCrashes
      BY TestGateConstants DEF Occurrences
    <2>4. bugs \in [Tests -> Occurrences]
      BY <2>3
    <2> QED BY <2>1, <2>2, <2>3, <2>4 DEF TypeOK, FixStates
  <1>2. TypeOK /\ [Next]_vars => TypeOK'
    <2> SUFFICES ASSUME TypeOK, [Next]_vars PROVE TypeOK'
      OBVIOUS
    <2> USE DEF TypeOK
    <2>1. CASE RunSuite
      BY <2>1 DEF RunSuite
    <2>2. CASE UpdateGate
      <3>1. PICK metric \in BOOLEAN : gate' = UpdateTestGateState(gate, run, metric)
        BY <2>2 DEF UpdateGate
      <3>2. gate' \in Gate
        BY <3>1, UpdateFits
      <3> QED BY <2>2, <3>2 DEF UpdateGate
    <2>3. CASE NoteFailing
      <3>1. \A n \in Occurrences : Counted(n) \in Occurrences
        BY TestGateConstants DEF Counted, Occurrences
      <3>2. bugs' \in [Tests -> Occurrences]
        BY <2>3, <3>1 DEF NoteFailing
      <3> QED BY <2>3, <3>2 DEF NoteFailing
    <2>4. CASE SelectFix
      BY <2>4 DEF SelectFix
    <2>5. CASE QueueFix
      BY <2>5 DEF QueueFix, SelectRepeated, FixStates
    <2>6. CASE Escalate
      BY <2>6 DEF Escalate
    <2>7. CASE EndFailed
      BY <2>7 DEF EndFailed
    <2>8. CASE ResolveFixed
      <3>1. 0 \in Occurrences
        BY TestGateConstants DEF Occurrences
      <3>2. bugs' \in [Tests -> Occurrences]
        BY <2>8, <3>1 DEF ResolveFixed
      <3> QED BY <2>8, <3>2 DEF ResolveFixed
    <2>9. CASE Crash
      <3>1. crashes' \in 0..MaxCrashes
        BY <2>9, TestGateConstants DEF Crash
      <3> QED BY <2>9, <3>1 DEF Crash, FixStates
    <2>10. CASE FixMoves
      BY <2>10 DEF FixMoves, FixStates
    <2>11. CASE RequestMoves
      BY <2>11 DEF RequestMoves
    <2>12. CASE UNCHANGED vars
      BY <2>12 DEF vars
    <2> QED
      BY <2>1, <2>2, <2>3, <2>4, <2>5, <2>6, <2>7, <2>8, <2>9, <2>10, <2>11, <2>12
         DEF Next, LoopStep
  <1> QED BY <1>1, <1>2, PTL DEF Spec

(* Only two actions touch what the gate invariant reads.                    *)
LEMMA GateMoves ==
    ASSUME [Next]_vars
    PROVE  RunSuite \/ UpdateGate \/ UNCHANGED <<gate, run, classified>>
  BY DEF Next, LoopStep, NoteFailing, SelectFix, QueueFix, Escalate, EndFailed,
         ResolveFixed, Crash, FixMoves, RequestMoves, vars

(* The gate always fits the newest run it has classified, and a quarantine  *)
(* is never empty nor beyond the limit.                                     *)
THEOREM GateFitsRun == Spec => []QuarantineIsCurrent
  <1>1. Init => QuarantineIsCurrent
    BY DEF Init, QuarantineIsCurrent, KnownRedModes
  <1>2. TypeOK /\ QuarantineIsCurrent /\ [Next]_vars => QuarantineIsCurrent'
    <2> SUFFICES ASSUME TypeOK, QuarantineIsCurrent, [Next]_vars PROVE QuarantineIsCurrent'
      OBVIOUS
    <2>1. CASE RunSuite
      BY <2>1 DEF RunSuite, QuarantineIsCurrent
    <2>2. CASE UpdateGate
      <3>1. PICK metric \in BOOLEAN : gate' = UpdateTestGateState(gate, run, metric)
        BY <2>2 DEF UpdateGate
      <3>2. gate \in Gate /\ run \in Run /\ run' = run
        BY <2>2 DEF TypeOK, UpdateGate
      <3> QED BY <3>1, <3>2, UpdateFits DEF QuarantineIsCurrent
    <2>3. CASE UNCHANGED <<gate, run, classified>>
      BY <2>3 DEF QuarantineIsCurrent
    <2> QED BY <2>1, <2>2, <2>3, GateMoves
  <1> QED BY <1>1, <1>2, TestGateTypeCorrect, PTL DEF Spec

(* A quarantine only grows, and only within the groups it started with,     *)
(* until a green run or a hard blocker ends it.                             *)
THEOREM QuarantineGrowsInClusters == Spec => QuarantineStaysInClusters
  <1>1. TypeOK /\ QuarantineIsCurrent /\ [Next]_vars =>
          (gate.mode \in KnownRedModes /\ gate'.mode \in KnownRedModes =>
              /\ gate.known \subseteq gate'.known
              /\ \A t \in gate'.known : \E s \in gate.known : ClusterOf[t] = ClusterOf[s])
    <2> SUFFICES ASSUME TypeOK, QuarantineIsCurrent, [Next]_vars,
                        gate.mode \in KnownRedModes, gate'.mode \in KnownRedModes
                 PROVE  /\ gate.known \subseteq gate'.known
                        /\ \A t \in gate'.known : \E s \in gate.known : ClusterOf[t] = ClusterOf[s]
      OBVIOUS
    <2>1. CASE UpdateGate
      <3>1. PICK metric \in BOOLEAN : gate' = UpdateTestGateState(gate, run, metric)
        BY <2>1 DEF UpdateGate
      <3>2. KnownGateFailures(gate) = gate.known /\ gate.known # {}
        BY DEF KnownGateFailures, QuarantineIsCurrent
      <3>3. gate.known \subseteq gate'.known /\ SameFailureCluster(gate.known, gate'.known)
        BY <3>1, <3>2, UpdateFits DEF TypeOK
      <3> QED BY <3>3 DEF SameFailureCluster
    <2>2. CASE gate' = gate
      BY <2>2
    <2> QED BY <2>1, <2>2, GateMoves DEF RunSuite
  <1> QED BY <1>1, TestGateTypeCorrect, GateFitsRun, PTL DEF Spec, QuarantineStaysInClusters
=============================================================================
