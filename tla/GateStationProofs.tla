--------------------------- MODULE GateStationProofs ---------------------------
(***************************************************************************)
(* The gate station for any set of test files, Developers, breaks and      *)
(* faults: its types, and the one card for the owner of the gate.          *)
(***************************************************************************)
EXTENDS GateStation, CardsProofs, GateModeProofs

(* A slot is empty or holds a sound row.                                    *)
GoodRow(card) == card = None \/ SoundCard(card)

GoodBoard(board) ==
    /\ board \in [Slots -> Card \cup {None}]
    /\ \A s \in Slots : GoodRow(board[s])

IndInv == TypeOK /\ GoodBoard(cards)

(* A new card is sound and planned.                                         *)
LEMMA NewCardSound == SoundCard(NewCard) /\ NewCard.stage = "planned"
  <1>1. "Developer" \in Roles /\ "Developer" \in CodeRoles
    BY DEF Roles, CodeRoles
  <1> QED BY <1>1, QueueSound DEF NewCard, QueueWorklane

(* A sound row is kept, or forgotten when it is done.                       *)
LEMMA RowGood ==
    ASSUME NEW card, SoundCard(card)
    PROVE  Row(card) \in Card \cup {None} /\ GoodRow(Row(card))
  BY DEF Row, GoodRow, SoundCard

(* Writing one sound card keeps a board good.                               *)
LEMMA SetGood ==
    ASSUME GoodBoard(cards), NEW s \in Slots, NEW card, SoundCard(card), Set(s, card)
    PROVE  GoodBoard(cards')
  <1>1. Row(card) \in Card \cup {None} /\ GoodRow(Row(card))
    BY RowGood
  <1>2. cards' = [cards EXCEPT ![s] = Row(card)]
    BY DEF Set
  <1> QED BY <1>1, <1>2 DEF GoodBoard

(* The slots are kinds of cards.                                            *)
LEMMA SlotTypes ==
    /\ OwnerSlots \subseteq Slots /\ Files \subseteq Slots
    /\ "recovery" \in Slots /\ "product" \in Slots
  BY DEF Slots

(* A run with rows in the tests leaves a gate.                              *)
LEMMA RunTestsTyped ==
    ASSUME TypeOK, RunTests
    PROVE  run' \in Run /\ gate' \in Gate /\ ingested' \in BOOLEAN
  <1>1. run' \in Run
    BY DEF RunTests, TypeOK, Run, Files
  <1>2. gate' \in Gate
    BY <1>1, UpdateFits, StationConstants DEF RunTests, TypeOK
  <1> QED BY <1>1, <1>2 DEF RunTests

(* Reviewing a good row leaves a good row.                                  *)
LEMMA ReviewedGood ==
    ASSUME NEW card, GoodRow(card)
    PROVE  GoodRow(Reviewed(card)) /\ (Reviewed(card) = None \/ card # None)
  BY AcceptSound DEF Reviewed, GoodRow

(* The repairs leave every row but those that are retired, reviewed or new. *)
LEMMA RepairGood ==
    ASSUME NEW board, GoodBoard(board), RepairBoard(board)
    PROVE  GoodBoard(cards')
  <1>1. PICK dropped \in {Retired(board, idle) : idle \in SUBSET Developers} :
          cards' = [s \in Slots |->
                CASE s \in Ingested(board) -> NewCard
                  [] s \in dropped -> Row(RetireUnlogged(board[s]))
                  [] OTHER -> Reviewed(board[s])]
    BY DEF RepairBoard
  <1>2. \A s \in dropped : board[s] # None
    BY DEF Retired, OwnersOf
  <1>3. ASSUME NEW s \in Slots PROVE GoodRow(cards'[s])
    <2>1. GoodRow(NewCard)
      BY NewCardSound DEF GoodRow
    <2>2. s \in dropped => GoodRow(Row(RetireUnlogged(board[s])))
      BY <1>2, RetireUnloggedSound, RowGood DEF GoodBoard, GoodRow
    <2>3. GoodRow(Reviewed(board[s]))
      BY ReviewedGood DEF GoodBoard
    <2> QED BY <1>1, <2>1, <2>2, <2>3
  <1>4. cards' = [s \in Slots |-> cards'[s]]
    BY <1>1
  <1> QED BY <1>3, <1>4 DEF GoodBoard, GoodRow, SoundCard

(* An open slot holds a sound row.                                          *)
LEMMA OpenSound ==
    ASSUME GoodBoard(cards), NEW s \in Open
    PROVE  s \in Slots /\ SoundCard(cards[s])
  BY DEF Open, GoodBoard, GoodRow

(* The rest of the repairs.                                                 *)
LEMMA RepairTyped ==
    ASSUME IndInv, NEW board, GoodBoard(board), RepairBoard(board)
    PROVE  /\ GoodBoard(cards') /\ cards' \in [Slots -> Card \cup {None}]
           /\ ready' \in BOOLEAN /\ ingested' \in BOOLEAN /\ tick' \in {"claim", "owner"}
  <1>1. GoodBoard(cards')
    BY RepairGood
  <1>2. ready' \in BOOLEAN /\ ingested' \in BOOLEAN
    BY DEF RepairBoard, IndInv, TypeOK, InventoryEnded
  <1> QED BY <1>1, <1>2 DEF GoodBoard, RepairBoard

-----------------------------------------------------------------------------
(***************************************************************************)
(* One lemma per action: types and sound rows are kept.                    *)
(***************************************************************************)

LEMMA InitStep == Init => IndInv
  <1> SUFFICES ASSUME Init PROVE IndInv
    OBVIOUS
  <1>1. GoodBoard(cards)
    BY NewCardSound DEF Init, NewCard, GoodBoard, GoodRow, SoundCard
  <1>2. run \in Run /\ gate \in Gate
    BY DEF Init, Run, Gate, Modes
  <1>3. station \in BOOLEAN /\ stalled \in BOOLEAN
    BY StationConstants DEF Init
  <1>4. breaks \in 0..MaxBreaks /\ faults \in 0..MaxFaults
    BY StationConstants DEF Init
  <1>5. cards \in [Slots -> Card \cup {None}]
    BY <1>1 DEF GoodBoard
  <1>6. /\ newest \in OwnerSlots /\ broken \subseteq Files /\ gone \subseteq Developers
        /\ ready \in BOOLEAN /\ ingested \in BOOLEAN
        /\ tick \in {"claim", "owner"} /\ loop \in {"run", "fix"}
        /\ found \in OwnerSlots \cup {None}
    BY DEF Init, OwnerSlots
  <1> QED BY <1>1, <1>2, <1>3, <1>4, <1>5, <1>6 DEF IndInv, TypeOK

LEMMA RunSuiteStep == IndInv /\ RunSuite => IndInv'
  <1> SUFFICES ASSUME IndInv, RunSuite PROVE IndInv'
    OBVIOUS
  <1>1. run' \in Run /\ gate' \in Gate /\ ingested' \in BOOLEAN
    BY RunTestsTyped DEF IndInv, RunSuite
  <1>2. loop' \in {"run", "fix"} /\ found' \in OwnerSlots \cup {None}
    BY DEF RunSuite, IndInv, TypeOK
  <1>3. UNCHANGED <<cards, newest, broken, station, ready, stalled, gone, tick, bounds>>
    BY DEF RunSuite
  <1> QED BY <1>1, <1>2, <1>3 DEF IndInv, TypeOK, GoodBoard, bounds

LEMMA QueueFixStep == IndInv /\ QueueFix => IndInv'
  <1> SUFFICES ASSUME IndInv, QueueFix PROVE IndInv'
    OBVIOUS
  <1>1. GoodBoard(cards') /\ newest' \in OwnerSlots
    <2>1. CASE found = None
      <3>1. PICK s \in OwnerSlots : Set(s, NewCard) /\ newest' = s
        BY <2>1 DEF QueueFix
      <3> QED BY <3>1, SetGood, NewCardSound, SlotTypes DEF IndInv
    <2>2. CASE found # None
      <3>1. found \in Slots
        BY <2>2, SlotTypes DEF IndInv, TypeOK
      <3>2. SoundCard(IF found \in Open THEN cards[found] ELSE NewCard)
        BY OpenSound, NewCardSound DEF IndInv
      <3>3. SoundCard(RequeueCard(IF found \in Open THEN cards[found] ELSE NewCard))
        BY <3>2, RequeueSound
      <3>4. newest' = newest
        BY <2>2 DEF QueueFix
      <3>5. Set(found, RequeueCard(IF found \in Open THEN cards[found] ELSE NewCard))
        BY <2>2 DEF QueueFix
      <3> QED BY <3>1, <3>3, <3>4, <3>5, SetGood DEF IndInv, TypeOK
    <2> QED BY <2>1, <2>2
  <1>2. /\ loop' = "run" /\ found' = None
        /\ UNCHANGED <<suite, mode, gone, tick, bounds>>
    BY DEF QueueFix
  <1> QED BY <1>1, <1>2 DEF IndInv, TypeOK, GoodBoard, suite, mode, bounds

LEMMA TearDownStep == IndInv /\ TearDown => IndInv'
  <1> SUFFICES ASSUME IndInv, TearDown PROVE IndInv'
    OBVIOUS
  <1>1. PICK w \in gone, dirty \in BOOLEAN :
          /\ gone' = gone \ {w}
          /\ LET saved == IF dirty THEN HeldCards(w) \cap GateSlots ELSE {} IN
              cards' = [s \in Slots |->
                CASE s = "recovery" /\ saved # {} -> NewCard
                  [] s \in saved \ {"recovery"} -> Row(RetireCard(cards[s]))
                  [] s \in HeldCards(w) \ saved -> RequeueCard(cards[s])
                  [] OTHER -> cards[s]]
    BY DEF TearDown
  <1> DEFINE saved == IF dirty THEN HeldCards(w) \cap GateSlots ELSE {}
  <1>2. /\ cards' = [s \in Slots |->
                CASE s = "recovery" /\ saved # {} -> NewCard
                  [] s \in saved \ {"recovery"} -> Row(RetireCard(cards[s]))
                  [] s \in HeldCards(w) \ saved -> RequeueCard(cards[s])
                  [] OTHER -> cards[s]]
        /\ saved \subseteq HeldCards(w)
    BY <1>1
  <1> HIDE DEF saved
  <1>3. ASSUME NEW s \in Slots
        PROVE  cards'[s] \in Card \cup {None} /\ GoodRow(cards'[s])
    <2>1. GoodRow(NewCard)
      BY NewCardSound DEF GoodRow
    <2>2. s \in HeldCards(w) => SoundCard(cards[s])
      BY OpenSound DEF HeldCards, IndInv
    <2>3. s \in HeldCards(w) => GoodRow(Row(RetireCard(cards[s]))) /\ GoodRow(RequeueCard(cards[s]))
      BY <2>2, RetireSound, RequeueSound, RowGood DEF GoodRow
    <2>4. GoodRow(cards[s])
      BY DEF IndInv, GoodBoard
    <2>5. GoodRow(cards'[s])
      BY <1>2, <2>1, <2>3, <2>4
    <2> QED BY <2>5 DEF GoodRow, SoundCard
  <1>4. GoodBoard(cards')
    <2>1. cards' = [s \in Slots |-> cards'[s]]
      BY <1>2
    <2> QED BY <1>3, <2>1 DEF GoodBoard
  <1>5. UNCHANGED <<newest, suite, mode, tick, loop, found, bounds>>
    BY DEF TearDown
  <1> QED BY <1>1, <1>4, <1>5 DEF IndInv, TypeOK, GoodBoard, suite, mode, bounds

LEMMA ManageStep == IndInv /\ ManageStation => IndInv'
  <1> SUFFICES ASSUME IndInv, ManageStation PROVE IndInv'
    OBVIOUS
  <1>1. /\ GoodBoard(cards')
        /\ ready' \in BOOLEAN /\ ingested' \in BOOLEAN /\ tick' \in {"claim", "owner"}
    <2>1. CASE station' /\ OpenOwners = {}
      BY <2>1 DEF ManageStation, IndInv, TypeOK
    <2>2. CASE ~(station' /\ OpenOwners = {})
      BY <2>2, RepairTyped DEF ManageStation, IndInv
    <2> QED BY <2>1, <2>2
  <1>2. station' \in BOOLEAN
    BY DEF ManageStation, ShouldRun, IndInv, TypeOK
  <1>3. UNCHANGED <<newest, suite, stalled, gone, loop, found, bounds>>
    BY DEF ManageStation
  <1> QED BY <1>1, <1>2, <1>3 DEF IndInv, TypeOK, GoodBoard, suite, bounds

LEMMA EnsureStep == IndInv /\ EnsureOwner => IndInv'
  <1> SUFFICES ASSUME IndInv, EnsureOwner PROVE IndInv'
    OBVIOUS
  <1>1. PICK s \in OwnerSlots :
          newest' = s /\ RepairBoard([cards EXCEPT ![s] = NewCard])
    BY DEF EnsureOwner
  <1>2. GoodBoard([cards EXCEPT ![s] = NewCard])
    BY NewCardSound, SlotTypes DEF IndInv, GoodBoard, GoodRow, SoundCard
  <1>3. /\ GoodBoard(cards')
        /\ ready' \in BOOLEAN /\ ingested' \in BOOLEAN /\ tick' \in {"claim", "owner"}
    BY <1>1, <1>2, RepairTyped
  <1>4. UNCHANGED <<station, suite, stalled, gone, loop, found, bounds>>
    BY DEF EnsureOwner
  <1> QED BY <1>1, <1>3, <1>4 DEF IndInv, TypeOK, GoodBoard, suite, bounds

LEMMA ClaimStep == IndInv /\ Claim => IndInv'
  <1> SUFFICES ASSUME IndInv, Claim PROVE IndInv'
    OBVIOUS
  <1>1. PICK w \in Developers, s \in Candidates : Set(s, AssignCard(cards[s], w, w))
    BY DEF Claim
  <1>2. s \in Open
    BY DEF Candidates, InStage
  <1>3. w \in AgentIds /\ w \in Worktrees
    BY StationConstants DEF Developers
  <1>4. SoundCard(AssignCard(cards[s], w, w))
    BY <1>2, <1>3, OpenSound, AssignSound DEF IndInv
  <1>5. GoodBoard(cards')
    BY <1>1, <1>2, <1>4, OpenSound, SetGood DEF IndInv
  <1>6. UNCHANGED <<newest, suite, mode, gone, tick, loop, found, bounds>>
    BY DEF Claim
  <1> QED BY <1>5, <1>6 DEF IndInv, TypeOK, GoodBoard, suite, mode, bounds

(* Cards that land are done.                                                *)
LEMMA LandStep ==
    ASSUME IndInv, NEW S \in SUBSET Open, Land(S)
    PROVE  IndInv'
  <1>1. cards' = [s \in Slots |-> IF s \in S THEN Row(CompleteCard(cards[s])) ELSE cards[s]]
    BY DEF Land
  <1>2. ASSUME NEW s \in Slots
        PROVE  cards'[s] \in Card \cup {None} /\ GoodRow(cards'[s])
    <2>1. s \in S => GoodRow(Row(CompleteCard(cards[s])))
      BY OpenSound, CompleteSound, RowGood DEF IndInv
    <2>2. GoodRow(cards[s])
      BY DEF IndInv, GoodBoard
    <2>3. GoodRow(cards'[s])
      BY <1>1, <2>1, <2>2
    <2> QED BY <2>3 DEF GoodRow, SoundCard
  <1>3. GoodBoard(cards')
    <2>1. cards' = [s \in Slots |-> cards'[s]]
      BY <1>1
    <2> QED BY <1>2, <2>1 DEF GoodBoard
  <1>4. broken' \subseteq Files /\ stalled' \in BOOLEAN
    BY DEF Land, Mainlines, IndInv, TypeOK
  <1>5. UNCHANGED <<newest, run, gate, station, ready, ingested, gone, tick, loop, found, bounds>>
    BY DEF Land
  <1> QED BY <1>3, <1>4, <1>5 DEF IndInv, TypeOK, GoodBoard, bounds

LEMMA IntegrateStep == IndInv /\ (Integrate \/ SettleFailure) => IndInv'
  <1> SUFFICES ASSUME IndInv, Integrate \/ SettleFailure PROVE IndInv'
    OBVIOUS
  <1>1. PICK S \in SUBSET Open : Land(S)
    BY DEF Integrate, SettleFailure, TakenLanes, LaneTaken
  <1> QED BY <1>1, LandStep

LEMMA FailsStep == IndInv /\ IntegrationFails => IndInv'
  <1> SUFFICES ASSUME IndInv, IntegrationFails PROVE IndInv'
    OBVIOUS
  <1>1. PICK s \in Slots :
          LaneTaken(s) /\ Set(s, UpdateWorklaneStatus(cards[s], "integration_failed"))
    BY DEF IntegrationFails
  <1>2. GoodBoard(cards')
    BY <1>1, OpenSound, FailSound, SetGood DEF IndInv, LaneTaken
  <1>3. faults' \in 0..MaxFaults
    BY StationConstants DEF IntegrationFails, Fault, IndInv, TypeOK
  <1>4. UNCHANGED <<newest, suite, mode, gone, tick, loop, found, breaks>>
    BY DEF IntegrationFails
  <1> QED BY <1>2, <1>3, <1>4 DEF IndInv, TypeOK, GoodBoard, suite, mode

LEMMA ReportStep == IndInv /\ Report => IndInv'
  <1> SUFFICES ASSUME IndInv, Report PROVE IndInv'
    OBVIOUS
  <1>1. PICK w \in Developers \ gone, s \in Open : Set(s, ReportCard(cards[s], "completed"))
    BY DEF Report, HeldCards
  <1>2. "completed" \in ReportKinds
    BY DEF ReportKinds, ReadyKinds
  <1>3. SoundCard(ReportCard(cards[s], "completed"))
    BY <1>2, OpenSound, ReportSound DEF IndInv
  <1>4. GoodBoard(cards')
    BY <1>1, <1>3, OpenSound, SetGood DEF IndInv
  <1>5. UNCHANGED <<newest, suite, mode, gone, tick, loop, found, bounds>>
    BY DEF Report
  <1> QED BY <1>4, <1>5 DEF IndInv, TypeOK, GoodBoard, suite, mode, bounds

LEMMA WorldStep == IndInv /\ (ProcessDies \/ FileBreaks) => IndInv'
  <1> SUFFICES ASSUME IndInv, ProcessDies \/ FileBreaks PROVE IndInv'
    OBVIOUS
  <1>1. CASE ProcessDies
    <2>1. gone' \subseteq Developers /\ faults' \in 0..MaxFaults
      BY <1>1, StationConstants DEF ProcessDies, Fault, IndInv, TypeOK
    <2> QED BY <1>1, <2>1 DEF ProcessDies, IndInv, TypeOK, GoodBoard, suite, mode
  <1>2. CASE FileBreaks
    <2>1. broken' \subseteq Files /\ breaks' \in 0..MaxBreaks
      BY <1>2, StationConstants DEF FileBreaks, IndInv, TypeOK
    <2> QED BY <1>2, <2>1 DEF FileBreaks, IndInv, TypeOK, GoodBoard, mode
  <1> QED BY <1>1, <1>2

LEMMA StutterStep == IndInv /\ UNCHANGED vars => IndInv'
  BY DEF IndInv, TypeOK, GoodBoard, vars, suite, mode, bounds

LEMMA Inductive == IndInv /\ [Next]_vars => IndInv'
  BY RunSuiteStep, QueueFixStep, TearDownStep, ManageStep, EnsureStep, ClaimStep,
     IntegrateStep, FailsStep, ReportStep, WorldStep, StutterStep
  DEF Next, LoopStep, TickStep

LEMMA Invariance == Spec => []IndInv
  BY InitStep, Inductive, PTL DEF Spec

(* The board keeps its types, for every set of files and Developers.        *)
THEOREM GateStationTypeCorrect == Spec => []TypeOK
  <1>1. IndInv => TypeOK
    BY DEF IndInv
  <1> QED BY <1>1, Invariance, PTL

-----------------------------------------------------------------------------
(***************************************************************************)
(* One owner of the gate: what dedupe_global_test_failure_cards leaves.    *)
(***************************************************************************)

LEMMA RankType ==
    ASSUME NEW card
    PROVE  /\ Rank(card) \in 0..2
           /\ Rank(card) = 0 <=> card.stage = "development"
  BY DEF Rank

(* Of two owner cards one is retired, and a card in development is kept for *)
(* no card but another one in development.                                  *)
LEMMA RetiredLoses ==
    ASSUME NEW board, GoodBoard(board), newest' \in OwnerSlots,
           NEW idle \in SUBSET Developers,
           NEW s \in OwnersOf(board), NEW t \in OwnersOf(board), s # t
    PROVE  /\ s \in Retired(board, idle) \/ t \in Retired(board, idle)
           /\ board[t].stage = "development" /\ s \notin Retired(board, idle) =>
                    board[s].stage = "development"
  <1> DEFINE busy == {w \in Developers : HeldCards(w) # {}}
             active(u) == board[u].owner # None \/ board[u].worktree \in busy \cup idle
             outranks(u, v) ==
                 \/ active(u) /\ ~active(v)
                 \/ /\ active(u) = active(v)
                    /\ \/ Rank(board[u]) < Rank(board[v])
                       \/ Rank(board[u]) = Rank(board[v]) /\ u = newest'
  <1>1. Retired(board, idle) =
          {v \in OwnersOf(board) : \E u \in OwnersOf(board) \ {v} : outranks(u, v)}
    BY DEF Retired
  <1>2. /\ s \in Retired(board, idle) <=> outranks(t, s)
        /\ t \in Retired(board, idle) <=> outranks(s, t)
    <2>1. OwnersOf(board) \ {s} = {t} /\ OwnersOf(board) \ {t} = {s}
      BY DEF OwnersOf, OwnerSlots
    <2> HIDE DEF outranks
    <2>2. s \in Retired(board, idle) <=> \E u \in {t} : outranks(u, s)
      BY <1>1, <2>1
    <2>3. t \in Retired(board, idle) <=> \E u \in {s} : outranks(u, t)
      BY <1>1, <2>1
    <2> QED BY <2>2, <2>3
  <1>3. newest' = s \/ newest' = t
    BY DEF OwnersOf, OwnerSlots
  <1>4. SoundCard(board[t])
    BY SlotTypes DEF GoodBoard, GoodRow, OwnersOf
  <1>5. board[t].stage = "development" => active(t)
    BY <1>4 DEF SoundCard, OwnedInDevelopment
  <1> HIDE DEF active
  <1>6. /\ Rank(board[s]) \in 0..2 /\ Rank(board[t]) \in 0..2
        /\ Rank(board[s]) = 0 <=> board[s].stage = "development"
        /\ Rank(board[t]) = 0 <=> board[t].stage = "development"
    BY RankType
  <1>7. active(s) \in BOOLEAN /\ active(t) \in BOOLEAN
    BY DEF active
  <1>8. outranks(s, t) \/ outranks(t, s)
    BY <1>3, <1>6, <1>7
  <1>9. board[t].stage = "development" /\ ~outranks(t, s) => board[s].stage = "development"
    <2>1. SUFFICES ASSUME board[t].stage = "development", ~outranks(t, s)
                   PROVE  Rank(board[s]) = 0
      BY <1>6
    <2>2. active(t) /\ Rank(board[t]) = 0
      BY <1>5, <1>6, <2>1
    <2>3. active(s)
      BY <2>1, <2>2
    <2>4. ~(Rank(board[t]) < Rank(board[s]))
      BY <2>1, <2>2, <2>3
    <2> QED BY <1>6, <2>2, <2>4
  <1> QED BY <1>2, <1>8, <1>9

(* The repairs create no owner card and clear those they retire.            *)
LEMMA RepairOwners ==
    ASSUME TypeOK, NEW board, GoodBoard(board), RepairBoard(board)
    PROVE  \E idle \in SUBSET Developers :
              OwnersOf(cards') \subseteq OwnersOf(board) \ Retired(board, idle)
  <1>1. PICK dropped \in {Retired(board, idle) : idle \in SUBSET Developers} :
          cards' = [s \in Slots |->
                CASE s \in Ingested(board) -> NewCard
                  [] s \in dropped -> Row(RetireUnlogged(board[s]))
                  [] OTHER -> Reviewed(board[s])]
    BY DEF RepairBoard
  <1>2. PICK idle \in SUBSET Developers : dropped = Retired(board, idle)
    BY <1>1
  <1>3. \A s \in OwnerSlots : s \notin Ingested(board)
    BY StationConstants DEF Ingested, TypeOK, Run, Files
  <1>4. ASSUME NEW s \in OwnerSlots, cards'[s] # None
        PROVE  s \in OwnersOf(board) \ dropped
    <2>1. s \in Slots
      BY SlotTypes
    <2>2. CASE s \in dropped
      <3>1. SoundCard(board[s])
        BY <1>2, <2>1, <2>2 DEF Retired, OwnersOf, GoodBoard, GoodRow
      <3>2. Row(RetireUnlogged(board[s])) = None
        BY <3>1, RetireUnloggedSound DEF Row
      <3> QED BY <1>1, <1>3, <1>4, <2>1, <2>2, <3>2
    <2>3. CASE s \notin dropped
      <3>1. cards'[s] = Reviewed(board[s])
        BY <1>1, <1>3, <2>1, <2>3
      <3>2. board[s] # None
        BY <1>4, <2>1, <3>1, ReviewedGood DEF GoodBoard
      <3> QED BY <2>3, <3>2 DEF OwnersOf
    <2> QED BY <2>2, <2>3
  <1> QED BY <1>2, <1>4 DEF OwnersOf

(* After the repair of a good board one owner card is left, and beside a    *)
(* card in development no other.                                            *)
LEMMA RepairKeepsOne ==
    ASSUME TypeOK, NEW board, GoodBoard(board), RepairBoard(board), newest' \in OwnerSlots
    PROVE  /\ Cardinality(OwnersOf(cards')) <= 1
           /\ OwnersOf(cards') \subseteq OwnersOf(board)
           /\ \A s \in OwnersOf(cards'), t \in OwnersOf(board) :
                  board[t].stage = "development" => board[s].stage = "development"
  <1>1. PICK idle \in SUBSET Developers :
          OwnersOf(cards') \subseteq OwnersOf(board) \ Retired(board, idle)
    BY RepairOwners
  <1>2. ASSUME NEW s \in OwnersOf(cards'), NEW t \in OwnersOf(cards'), s # t PROVE FALSE
    <2>1. /\ s \in OwnersOf(board) /\ s \notin Retired(board, idle)
          /\ t \in OwnersOf(board) /\ t \notin Retired(board, idle)
      BY <1>1
    <2>2. s \in Retired(board, idle) \/ t \in Retired(board, idle)
      BY <1>2, <2>1, RetiredLoses
    <2> QED BY <2>1, <2>2
  <1>3. OwnersOf(cards') = {} \/ \E s : OwnersOf(cards') = {s}
    <2> DEFINE left == OwnersOf(cards')
    <2>1. \A s \in left, t \in left : s = t
      BY <1>2
    <2> HIDE DEF left
    <2>2. left = {} \/ \E s : left = {s}
      BY <2>1
    <2> QED BY <2>2 DEF left
  <1>4. Cardinality(OwnersOf(cards')) <= 1
    <2> DEFINE left == OwnersOf(cards')
    <2>1. left = {} \/ \E s : left = {s}
      BY <1>3
    <2> HIDE DEF left
    <2>2. CASE left = {}
      <3>1. Cardinality(left) = 0
        BY <2>2, FS_EmptySet
      <3> QED BY <3>1 DEF left
    <2>3. CASE \E s : left = {s}
      <3>1. Cardinality(left) = 1
        BY <2>3, FS_Singleton
      <3> QED BY <3>1 DEF left
    <2> QED BY <2>1, <2>2, <2>3
  <1>5. ASSUME NEW s \in OwnersOf(cards'), NEW t \in OwnersOf(board),
               board[t].stage = "development"
        PROVE  board[s].stage = "development"
    <2>1. CASE s = t
      BY <1>5, <2>1
    <2>2. CASE s # t
      BY <1>1, <1>5, <2>2, RetiredLoses
    <2> QED BY <2>1, <2>2
  <1> QED BY <1>1, <1>4, <1>5

(* A tick that repairs the board leaves at most one card for the owner of   *)
(* the gate, and beside one that a Developer works on no other.             *)
LEMMA OneOwnerStep ==
    ASSUME IndInv, ManageStation \/ EnsureOwner, tick' = "claim"
    PROVE  /\ Cardinality(OwnersOf(cards')) <= 1
           /\ OwnerSlots \cap InStage("development") # {} =>
                    OwnersOf(cards') \subseteq InStage("development")
  <1>1. PICK board :
          /\ GoodBoard(board) /\ RepairBoard(board)
          /\ newest' \in OwnerSlots
          /\ \A s \in Slots : cards[s] # None => board[s] = cards[s]
          /\ \A s \in Slots : board[s] # cards[s] => board[s].stage = "planned"
    <2>1. CASE ManageStation
      <3>1. RepairBoard(cards)
        BY <2>1 DEF ManageStation
      <3>2. newest' \in OwnerSlots
        BY <2>1 DEF ManageStation, IndInv, TypeOK
      <3> QED BY <3>1, <3>2 DEF IndInv
    <2>2. CASE EnsureOwner
      <3>1. PICK s \in OwnerSlots :
              FreeRow(s) /\ newest' = s /\ RepairBoard([cards EXCEPT ![s] = NewCard])
        BY <2>2 DEF EnsureOwner
      <3>2. GoodBoard([cards EXCEPT ![s] = NewCard])
        BY NewCardSound, SlotTypes DEF IndInv, GoodBoard, GoodRow, SoundCard
      <3>3. cards[s] = None
        BY <3>1, SlotTypes DEF FreeRow, Open
      <3>4. \A r \in Slots : cards[r] # None => [cards EXCEPT ![s] = NewCard][r] = cards[r]
        BY <3>3
      <3>5. \A r \in Slots : [cards EXCEPT ![s] = NewCard][r] # cards[r] =>
                [cards EXCEPT ![s] = NewCard][r].stage = "planned"
        BY NewCardSound DEF IndInv, TypeOK
      <3> QED BY <3>1, <3>2, <3>4, <3>5
    <2> QED BY <2>1, <2>2
  <1>2. /\ Cardinality(OwnersOf(cards')) <= 1
        /\ OwnersOf(cards') \subseteq OwnersOf(board)
        /\ \A s \in OwnersOf(cards'), t \in OwnersOf(board) :
              board[t].stage = "development" => board[s].stage = "development"
    BY <1>1, RepairKeepsOne DEF IndInv
  <1>3. ASSUME NEW t \in OwnerSlots, t \in InStage("development"), NEW s \in OwnersOf(cards')
        PROVE  s \in InStage("development")
    <2>1. t \in OwnersOf(board) /\ board[t].stage = "development"
      BY <1>1, <1>3 DEF InStage, Open, OwnersOf
    <2>2. board[s].stage = "development" /\ s \in Slots
      BY <1>2, <2>1, SlotTypes DEF OwnersOf
    <2>3. board[s] = cards[s]
      BY <1>1, <2>2
    <2>4. cards[s] # None
      BY <1>1, <1>2, <2>1, <2>2, <2>3 DEF OwnersOf
    <2> QED BY <2>2, <2>3, <2>4 DEF InStage, Open
  <1> QED BY <1>2, <1>3

(* "Maintain one exact owner": for every set of files and Developers.       *)
THEOREM OneOwnerOfTheGate == Spec => OneOwnerIsKept
  <1>1. IndInv /\ [Next]_vars =>
          [(ManageStation \/ EnsureOwner) /\ tick' = "claim" =>
              /\ Cardinality(OwnersOf(cards')) <= 1
              /\ OwnerSlots \cap InStage("development") # {} =>
                    OwnersOf(cards') \subseteq InStage("development")]_vars
    BY OneOwnerStep
  <1> QED BY <1>1, Invariance, PTL DEF Spec, OneOwnerIsKept
=============================================================================
