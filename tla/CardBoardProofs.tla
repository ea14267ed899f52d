--------------------------- MODULE CardBoardProofs ---------------------------
(***************************************************************************)
(* The card board for any number of cards, workers and faults: types, the  *)
(* backfill and reports, counters reset or not; ownership for a harness    *)
(* whose counters nobody resets; one card per Developer, the trail of the  *)
(* stages and the abstract lifecycle on top of that.                       *)
(***************************************************************************)
EXTENDS CardBoard, CardsProofs, FiniteSetTheorems

-----------------------------------------------------------------------------
(***************************************************************************)
(* Any board, the operator resetting the counters or not (ResetSpec).      *)
(* Rows of agents may vanish under loops that still hold them, and a claim *)
(* may find no owner.  What holds is what a card says by itself and what   *)
(* is on file about it.                                                    *)
(***************************************************************************)

ResetNext == Next \/ ResetCounters

(* What the loops remember without looking at agents rows.                  *)
PlainLoopsInv ==
    /\ fresh # None => spawns > 0
    /\ victim # None => pc \in {"missing", "carded", "team", "liveness"}
    /\ pc = "settle" => \A row \in rows : filed[row[1]] # None
    /\ ipc = "lanes" => \A c \in irows : filed[c] # None

PlainInv == TypeOK /\ BackfillMovesNothing /\ AcceptedOnReport /\ PlainLoopsInv

(* The Developers the scheduler may be about to claim a card for.           *)
Claimers == {n \in Names : fresh = n \/ \E visit \in todo : visit[1] = n}

ClaimedBy(card, n) == AssignCard(card, IF HasRow(n) THEN agents[n].id ELSE None, agents[n].worktree)

(* The ways in which any step of the board rewrites one card.               *)
Rewrite(c, new) ==
    \/ new = cards[c]
    \/ \E n \in Claimers : new = ClaimedBy(cards[c], n)
    \/ new \in {RequeueCard(cards[c]), RetireCard(cards[c]), RetireUnlogged(cards[c])}
    \/ /\ filed[c] # None
       /\ new \in {AcceptReview(cards[c]), CompleteCard(cards[c]),
                   UpdateWorklaneStatus(cards[c], "integration_failed")}
    \/ \E kind \in Kinds : filed'[c] = kind /\ new = ReportCard(cards[c], kind)
    \/ /\ cards[c].status = "integration_failed"
       /\ new = [cards[c] EXCEPT !.status = "ready_for_integration", !.stage = "integration"]

Rewritten(c) == Rewrite(c, cards'[c])

(* ensure_team never asks for more Developers than min_count.               *)
LEMMA MissingBound ==
    ASSUME NEW pressured \in BOOLEAN, TypeOK
    PROVE  Missing(pressured) \in 0..MinCount
  <1> DEFINE active == Cardinality({n \in Names : Active(n)})
             queued == Cardinality(Candidates)
             target == IF pressured THEN Smaller(MinCount, IF active = 0 THEN 1 ELSE active)
                       ELSE MinCount
             wanted == IF queued > 0 THEN Smaller(target, active + queued) ELSE active
  <1>1. IsFiniteSet({n \in Names : Active(n)}) /\ IsFiniteSet(Candidates)
    BY BoardConstants, FS_Subset DEF Candidates
  <1>2. active \in Nat /\ queued \in Nat /\ MinCount \in Nat
    BY <1>1, FS_CardinalityType, BoardConstants
  <1>3. target \in 0..MinCount
    BY <1>2 DEF Smaller
  <1>4. wanted \in Nat /\ (wanted > active => wanted <= MinCount)
    BY <1>2, <1>3 DEF Smaller
  <1>5. Missing(pressured) = IF wanted > active THEN wanted - active ELSE 0
    BY DEF Missing
  <1> HIDE DEF active, queued, target, wanted
  <1> QED BY <1>2, <1>4, <1>5

(* A fresh board is a plain one.                                            *)
LEMMA InitPlain == Init => PlainInv
  <1> SUFFICES ASSUME Init PROVE PlainInv
    OBVIOUS
  <1> DEFINE new(c) == QueueWorklane("Developer", c \in IntegrationCards)
  <1>1. cards = [c \in CardIds |-> new(c)]
    BY DEF Init
  <1>2. \A c \in CardIds : SoundCard(new(c))
    <2> SUFFICES ASSUME NEW c \in CardIds PROVE SoundCard(new(c))
      OBVIOUS
    <2>1. "Developer" \in Roles /\ "Developer" \in CodeRoles /\ (c \in IntegrationCards) \in BOOLEAN
      BY DEF Roles, CodeRoles
    <2> QED BY <2>1, QueueSound
  <1>3. \A c \in CardIds : new(c).stage = "planned" /\ new(c).status = "queued" /\ new(c).owner = None
    BY DEF QueueWorklane
  <1> HIDE DEF new
  <1>4. cards \in [CardIds -> Card]
    BY <1>1, <1>2 DEF SoundCard
  <1>5. agents \in [Names -> AgentRow]
    BY DEF Init, NoRow, AgentRow, Names
  <1>6. TypeOK
    <2>1. filed \in [CardIds -> Kinds \cup {None}] /\ proc \in [Names -> ProcStates]
      BY DEF Init, ProcStates
    <2>2. todo \subseteq Names \X RowClasses /\ rows \subseteq CardIds \X (Names \cup {None}) /\ irows \subseteq CardIds
      BY DEF Init
    <2>3. pc \in TickPcs /\ ipc \in {"idle", "review", "lanes"} /\ stopped \in BOOLEAN
      BY DEF Init, TickPcs
    <2>4. spawns \in 0..MinCount /\ faults \in 0..MaxFaults
      BY BoardConstants DEF Init
    <2>5. victim \in Names \cup {None} /\ fresh \in Names \cup {None}
      BY DEF Init
    <2> QED BY <1>4, <1>5, <2>1, <2>2, <2>3, <2>4, <2>5 DEF TypeOK
  <1>7. BackfillMovesNothing /\ AcceptedOnReport
    BY <1>1, <1>2, <1>3 DEF SoundCard, BackfillMovesNothing, AcceptedOnReport
  <1>8. PlainLoopsInv
    BY DEF Init, PlainLoopsInv
  <1> QED BY <1>6, <1>7, <1>8 DEF PlainInv

(* Ending and reviving an agent keep the row and its id.                    *)
LEMMA RowUpdates ==
    ASSUME TypeOK, NEW n \in Names, NEW to \in {EndAgent(n), Revive(n)}
    PROVE  /\ to \in [Names -> AgentRow]
           /\ \A m \in Names : to[m].exists = agents[m].exists /\ to[m].id = agents[m].id
  <1> DEFINE over == [agents[n] EXCEPT !.over = TRUE, !.ended = TRUE]
             live == [agents[n] EXCEPT !.over = FALSE, !.ended = FALSE]
  <1>1. agents \in [Names -> AgentRow]
    BY DEF TypeOK
  <1>2. \A row \in {over, live} : row \in AgentRow /\ row.exists = agents[n].exists /\ row.id = agents[n].id
    BY <1>1 DEF AgentRow
  <1>3. to \in {agents, [agents EXCEPT ![n] = over], [agents EXCEPT ![n] = live]}
    BY DEF EndAgent, Revive
  <1> QED BY <1>1, <1>2, <1>3

(* kill_agent_window leaves a process as it was or dead.                    *)
LEMMA WindowTyped ==
    ASSUME TypeOK, NEW n \in Names, KillWindow(n)
    PROVE  proc' \in [Names -> ProcStates]
  BY DEF TypeOK, KillWindow, ProcStates

(* A fault stays within its bound.                                          *)
LEMMA FaultTyped ==
    ASSUME TypeOK, Fault \/ UNCHANGED faults
    PROVE  faults' \in 0..MaxFaults
  BY BoardConstants DEF TypeOK, Fault

(* Reports are never taken off file.                                        *)
KeepsReports == \A c \in CardIds : filed[c] # None => filed'[c] # None

Accepted(card) == card.stage \in {"review", "integration"} \/ card.status \in {"integrated", "done"}

EntersReview(c) == cards'[c].stage = "review" /\ cards[c].stage # "review"

(* A rewritten card agrees with its status, is accepted only on report, and *)
(* enters review only out of development by a ready report.                 *)
LEMMA RewrittenCard ==
    ASSUME PlainInv, KeepsReports, NEW c \in CardIds, Rewritten(c)
    PROVE  /\ PlainCard(cards'[c])
           /\ Accepted(cards'[c]) => filed'[c] # None
           /\ EntersReview(c) => cards[c].stage = "development" /\ filed'[c] \in ReadyKinds
  <1> DEFINE old == cards[c]
             new == cards'[c]
  <1>1. PlainCard(old) /\ (Accepted(old) => filed[c] # None) /\ (filed[c] # None => filed'[c] # None)
    BY DEF PlainInv, TypeOK, BackfillMovesNothing, PlainCard, AcceptedOnReport, Accepted, KeepsReports
  <1>2. old \in Card /\ (old.ireq => old.role \in CodeRoles)
    BY <1>1, BackfillFixpoint DEF PlainCard
  <1> HIDE DEF old, new
  <1>3. CASE new = old
    BY <1>1, <1>3 DEF EntersReview, old, new
  <1>4. CASE \E n \in Claimers : new = ClaimedBy(old, n)
    <2> PICK n \in Claimers : new = ClaimedBy(old, n)
      BY <1>4
    <2>0. agents[n].id \in AgentIds \cup {None} /\ agents[n].worktree \in Worktrees \cup {Root, None}
      BY DEF Claimers, PlainInv, TypeOK, AgentRow, Names
    <2>1. /\ new \in Card /\ new.stage = "development" /\ new.status = "assigned"
          /\ new.ireq = old.ireq /\ new.role = old.role
      BY <1>2, <2>0 DEF ClaimedBy, AssignCard, RecordTransition, Card, Stages, Statuses, MappedStatuses
    <2>2. PlainCard(new)
      BY <1>2, <2>1, BackfillFixpoint DEF PlainCard, StageForStatus
    <2> QED BY <2>1, <2>2 DEF Accepted, EntersReview, new
  <1>5. CASE new \in {RequeueCard(old), RetireCard(old), RetireUnlogged(old)}
    <2>1. CASE new = RequeueCard(old)
      <3>1. "planned" \in Stages \ {"development"} /\ "queued" \in Statuses /\ StageForStatus("queued") = "planned"
        BY DEF Stages, Statuses, MappedStatuses, StageForStatus
      <3>2. SoundCard(new) /\ new.stage = "planned" /\ new.status = "queued"
        BY <1>1, <2>1, <3>1, MoveSound DEF RequeueCard
      <3> QED BY <3>2, SoundIsPlain DEF Accepted, EntersReview, new
    <2>2. CASE new \in {RetireCard(old), RetireUnlogged(old)}
      <3>1. /\ new \in Card /\ new.stage = "done" /\ new.status = "stale"
            /\ new.ireq = old.ireq /\ new.role = old.role
        BY <1>2, <2>2 DEF RetireCard, RetireUnlogged, MoveCardStage, RecordTransition, Card, Stages,
                          Statuses, UnmappedStatuses
      <3>2. PlainCard(new)
        BY <1>2, <3>1, BackfillFixpoint DEF PlainCard, MappedStatuses
      <3> QED BY <3>1, <3>2 DEF Accepted, EntersReview, new
    <2> QED BY <1>5, <2>1, <2>2
  <1>6. CASE filed[c] # None /\ new \in {AcceptReview(old), CompleteCard(old), UpdateWorklaneStatus(old, "integration_failed")}
    <2> PICK stage \in {"integration", "done"}, status \in {"ready_for_integration", "integration_failed", "integrated", "done"} :
          new = MoveCardStage(old, stage, status) /\ stage = StageForStatus(status)
      BY <1>6 DEF AcceptReview, CompleteCard, UpdateWorklaneStatus, StageForStatus
    <2>1. stage \in Stages \ {"development"} /\ status \in Statuses
      BY DEF Stages, Statuses, MappedStatuses
    <2>2. SoundCard(new) /\ new.stage = stage
      BY <1>1, <2>1, MoveSound
    <2> QED BY <1>1, <1>6, <2>2, SoundIsPlain DEF EntersReview, new
  <1>7. CASE \E kind \in Kinds : filed'[c] = kind /\ new = ReportCard(old, kind)
    <2> PICK kind \in Kinds : filed'[c] = kind /\ new = ReportCard(old, kind)
      BY <1>7
    <2>1. kind \in ReportKinds /\ filed'[c] # None
      BY BoardConstants
    <2>2. /\ PlainCard(new)
          /\ new.stage = "review" /\ old.stage # "review" => old.stage = "development" /\ kind \in ReadyKinds
      BY <1>1, <2>1, ReportPlain
    <2> QED BY <2>1, <2>2 DEF EntersReview, old, new
  <1>8. CASE /\ old.status = "integration_failed"
             /\ new = [old EXCEPT !.status = "ready_for_integration", !.stage = "integration"]
    <2>1. /\ new \in Card /\ new.stage = "integration" /\ new.status = "ready_for_integration"
          /\ new.ireq = old.ireq /\ new.role = old.role
      BY <1>2, <1>8 DEF Card, Stages, Statuses, MappedStatuses
    <2>2. PlainCard(new)
      BY <1>2, <2>1, BackfillFixpoint DEF PlainCard, StageForStatus
    <2>3. old.stage = "integration"
      BY <1>1, <1>2, <1>8, BackfillFixpoint DEF PlainCard, MappedStatuses, StageForStatus
    <2>4. filed'[c] # None
      BY <1>1, <2>3 DEF Accepted
    <2> QED BY <2>1, <2>2, <2>4 DEF EntersReview, new
  <1> QED BY <1>3, <1>4, <1>5, <1>6, <1>7, <1>8 DEF Rewritten, Rewrite, old, new

(* The cards are rewritten each by itself, and none is added or dropped.    *)
AllRewritten ==
    /\ cards' = [c \in CardIds |-> cards'[c]]
    /\ \A c \in CardIds : Rewritten(c)

(* A step that writes one card leaves the others alone.                     *)
LEMMA OneRewritten ==
    ASSUME PlainInv, NEW c \in CardIds, NEW new, cards' = [cards EXCEPT ![c] = new],
           Rewrite(c, new)
    PROVE  AllRewritten
  <1>1. \A d \in CardIds : cards'[d] = cards[d] \/ (d = c /\ cards'[d] = new)
    BY DEF PlainInv, TypeOK
  <1>2. cards' = [d \in CardIds |-> cards'[d]]
    BY DEF PlainInv, TypeOK
  <1> QED BY <1>1, <1>2 DEF AllRewritten, Rewritten, Rewrite

(* No step deletes a report.                                                *)
LEMMA ReportsStay ==
    ASSUME PlainInv, [ResetNext]_vars
    PROVE  KeepsReports /\ filed' \in [CardIds -> Kinds \cup {None}]
  <1> USE DEF PlainInv
  <1>1. CASE UNCHANGED filed
    BY <1>1 DEF KeepsReports, TypeOK
  <1>2. CASE AgentReport
    <2> PICK c \in CardIds, kind \in Kinds : filed' = [filed EXCEPT ![c] = kind]
      BY <1>2 DEF AgentReport
    <2> QED BY BoardConstants DEF KeepsReports, TypeOK
  <1>3. CASE SchedulerStep \/ TickAbort
    BY <1>1, <1>3 DEF SchedulerStep, TickAbort, Advance, VisitAgent, TeardownCard, TeardownEnd,
       ReviewCard, RetireSuperseded, RequeueTerminal, RetireDuplicates, SettleFailure,
       KeepCarded, ReassignIdle, StopUncarded, SpawnRefused, SpawnInsert, SpawnClaim
  <1>4. CASE PassStep \/ PassAbort \/ UpdateAgent \/ ProcessDies \/ Stop \/ Run \/ ResetCounters \/ UNCHANGED vars
    BY <1>1, <1>4 DEF PassStep, PassAdvance, PassReview, PassLane, PassAbort, UpdateAgent,
       ProcessDies, Stop, Run, ResetCounters, vars
  <1> QED BY <1>2, <1>3, <1>4 DEF ResetNext, Next, ServiceStep, WorkerStep

(* assign_card writes an owner or, when the row is gone, none.              *)
LEMMA ClaimRewrites ==
    ASSUME PlainInv, NEW n \in Claimers, NEW c \in CardIds, cards' = Claim(n, c)
    PROVE  AllRewritten
  <1>1. cards' = [cards EXCEPT ![c] = ClaimedBy(cards[c], n)]
    BY DEF Claim, ClaimedBy
  <1>2. Rewrite(c, ClaimedBy(cards[c], n))
    BY DEF Rewrite
  <1> QED BY <1>1, <1>2, OneRewritten

(* The loops of the tick rewrite one selected card each, or the duplicates. *)
LEMMA SchedulerRewrites ==
    ASSUME PlainInv, SchedulerStep
    PROVE  AllRewritten
  <1> USE DEF PlainInv
  <1>1. CASE UNCHANGED cards
    BY <1>1 DEF AllRewritten, Rewritten, Rewrite, TypeOK
  <1>2. CASE ReviewCard
    <2> PICK row \in rows :
          cards' = IF filed[row[1]] = None THEN cards ELSE [cards EXCEPT ![row[1]] = AcceptReview(@)]
      BY <1>2 DEF ReviewCard
    <2> PICK c \in CardIds : c = row[1]
      BY DEF TypeOK
    <2>1. CASE filed[c] # None
      <3>1. Rewrite(c, AcceptReview(cards[c])) /\ cards' = [cards EXCEPT ![c] = AcceptReview(cards[c])]
        BY <2>1 DEF Rewrite
      <3> QED BY <2>1, <3>1, OneRewritten
    <2> QED BY <1>1, <2>1
  <1>3. CASE SettleFailure
    <2> PICK row \in rows :
          cards' \in {cards, [cards EXCEPT ![row[1]] = CompleteCard(@)], [cards EXCEPT ![row[1]] = RetireCard(@)]}
      BY <1>3 DEF SettleFailure
    <2> PICK c \in CardIds : c = row[1] /\ filed[c] # None
      BY <1>3 DEF TypeOK, PlainLoopsInv, SettleFailure
    <2>1. Rewrite(c, CompleteCard(cards[c])) /\ Rewrite(c, RetireCard(cards[c]))
      BY DEF Rewrite
    <2> QED BY <1>1, <2>1, OneRewritten
  <1>4. CASE TeardownCard \/ RequeueTerminal
    <2> PICK row \in rows : cards' = [cards EXCEPT ![row[1]] = RequeueCard(@)]
      BY <1>4 DEF TeardownCard, RequeueTerminal
    <2> PICK c \in CardIds : c = row[1]
      BY DEF TypeOK
    <2>1. Rewrite(c, RequeueCard(cards[c])) /\ cards' = [cards EXCEPT ![c] = RequeueCard(cards[c])]
      BY DEF Rewrite
    <2> QED BY <2>1, OneRewritten
  <1>5. CASE RetireSuperseded
    <2> PICK row \in rows : cards' = [cards EXCEPT ![row[1]] = RetireCard(@)]
      BY <1>5 DEF RetireSuperseded
    <2> PICK c \in CardIds : c = row[1]
      BY DEF TypeOK
    <2>1. Rewrite(c, RetireCard(cards[c])) /\ cards' = [cards EXCEPT ![c] = RetireCard(cards[c])]
      BY DEF Rewrite
    <2> QED BY <2>1, OneRewritten
  <1>6. CASE RetireDuplicates
    BY <1>6 DEF RetireDuplicates, AllRewritten, Rewritten, Rewrite
  <1>7. CASE ReassignIdle
    <2> PICK visit \in todo, c \in CardIds : cards' = Claim(visit[1], c)
      BY <1>7 DEF ReassignIdle
    <2>1. visit[1] \in Claimers
      BY DEF TypeOK, Claimers
    <2> QED BY <2>1, ClaimRewrites
  <1>8. CASE SpawnClaim
    <2>1. fresh \in Claimers
      BY <1>8 DEF SpawnClaim, TypeOK, Claimers
    <2> QED BY <1>1, <1>8, <2>1, ClaimRewrites DEF SpawnClaim
  <1>9. CASE Advance \/ VisitAgent \/ TeardownEnd \/ KeepCarded \/ StopUncarded \/ SpawnRefused \/ SpawnInsert
    BY <1>1, <1>9 DEF Advance, VisitAgent, TeardownEnd, KeepCarded, StopUncarded, SpawnRefused, SpawnInsert
  <1> QED BY <1>2, <1>3, <1>4, <1>5, <1>6, <1>7, <1>8, <1>9 DEF SchedulerStep

(* The other actors, reset-counters among them.                             *)
LEMMA ResetRewrites ==
    ASSUME PlainInv, [ResetNext]_vars
    PROVE  AllRewritten
  <1> USE DEF PlainInv
  <1>1. CASE UNCHANGED cards
    BY <1>1 DEF AllRewritten, Rewritten, Rewrite, TypeOK
  <1>2. CASE PassReview
    <2> PICK c \in irows : cards' = IF filed[c] = None THEN cards ELSE [cards EXCEPT ![c] = AcceptReview(@)]
      BY <1>2 DEF PassReview
    <2>1. c \in CardIds
      BY DEF TypeOK
    <2>2. CASE filed[c] # None
      <3>1. Rewrite(c, AcceptReview(cards[c])) /\ cards' = [cards EXCEPT ![c] = AcceptReview(cards[c])]
        BY <2>2 DEF Rewrite
      <3> QED BY <2>1, <2>2, <3>1, OneRewritten
    <2> QED BY <1>1, <2>2
  <1>3. CASE PassLane
    <2> PICK c \in irows :
          \/ cards' = [cards EXCEPT ![c] = CompleteCard(@)]
          \/ cards' = [cards EXCEPT ![c] = UpdateWorklaneStatus(@, "integration_failed")]
          \/ cards' = [cards EXCEPT ![c] = RetireCard(@)]
      BY <1>3 DEF PassLane
    <2>1. c \in CardIds /\ filed[c] # None
      BY <1>3 DEF PassLane, TypeOK, PlainLoopsInv
    <2>2. /\ Rewrite(c, CompleteCard(cards[c])) /\ Rewrite(c, RetireCard(cards[c]))
          /\ Rewrite(c, UpdateWorklaneStatus(cards[c], "integration_failed"))
      BY <2>1 DEF Rewrite
    <2> QED BY <2>1, <2>2, OneRewritten
  <1>4. CASE AgentReport
    <2> PICK n \in Names, kind \in Kinds :
          /\ proc[n] \in CardIds
          /\ filed' = [filed EXCEPT ![proc[n]] = kind]
          /\ cards' \in {cards, [cards EXCEPT ![proc[n]] = ReportCard(@, kind)]}
      BY <1>4 DEF AgentReport
    <2> PICK c \in CardIds : c = proc[n]
      OBVIOUS
    <2>1. filed'[c] = kind
      BY DEF TypeOK
    <2>2. Rewrite(c, ReportCard(cards[c], kind))
      BY <2>1 DEF Rewrite
    <2> QED BY <1>1, <2>2, OneRewritten
  <1>5. CASE ResetCounters
    BY <1>5 DEF ResetCounters, AllRewritten, Rewritten, Rewrite
  <1>6. CASE PassAdvance \/ TickAbort \/ PassAbort \/ UpdateAgent \/ ProcessDies \/ Stop \/ Run \/ UNCHANGED vars
    BY <1>1, <1>6 DEF PassAdvance, TickAbort, PassAbort, UpdateAgent, ProcessDies, Stop, Run, vars
  <1> QED BY <1>2, <1>3, <1>4, <1>5, <1>6, SchedulerRewrites DEF ResetNext, Next, ServiceStep, PassStep, WorkerStep

(* Rows of agents stay and keep their ids; a new one gets an id.            *)
RowsKept ==
    /\ agents' \in [Names -> AgentRow]
    /\ \A n \in Names : HasRow(n) => HasRow(n)' /\ agents'[n].id = agents[n].id
    /\ \A n \in Names : HasRow(n)' => HasRow(n) \/ agents'[n].id \in AgentIds

(* Every step but reset-counters keeps the rows of agents.                  *)
LEMMA AgentsStep ==
    ASSUME PlainInv, [Next]_vars
    PROVE  RowsKept
  <1> USE DEF PlainInv
  <1>0. agents \in [Names -> AgentRow]
    BY DEF TypeOK
  <1>1. CASE UNCHANGED agents
    BY <1>0, <1>1 DEF RowsKept, HasRow
  <1>2. CASE \E n \in Names : agents' \in {agents, EndAgent(n), Revive(n)}
    BY <1>1, <1>2, RowUpdates DEF RowsKept, HasRow
  <1>3. CASE TeardownEnd \/ SpawnClaim
    BY <1>2, <1>3 DEF TeardownEnd, SpawnClaim, TypeOK
  <1>4. CASE RetireSuperseded
    <2> PICK row \in rows : agents' = IF row[2] = None THEN agents ELSE Revive(row[2])
      BY <1>4 DEF RetireSuperseded
    <2>1. row[2] \in Names \cup {None}
      BY DEF TypeOK
    <2> QED BY <1>1, <1>2, <2>1
  <1>5. CASE StopUncarded
    <2> PICK visit \in todo : agents' = EndAgent(visit[1])
      BY <1>5 DEF StopUncarded
    <2>1. visit[1] \in Names
      BY DEF TypeOK
    <2> QED BY <1>2, <2>1
  <1>6. CASE SpawnInsert
    <2> PICK id \in AgentIds, cwd \in AgentCwd(NextName) :
          /\ HasRow(NextName) => id = agents[NextName].id
          /\ agents' = [agents EXCEPT ![NextName] = [exists |-> TRUE, id |-> id, over |-> FALSE,
                                                     ended |-> FALSE, worktree |-> cwd]]
      BY <1>6 DEF SpawnInsert
    <2>1. NextName \in Names /\ cwd \in Names \cup {Root, None}
      BY <1>6 DEF SpawnInsert, AgentCwd
    <2> HIDE DEF NextName
    <2>2. [exists |-> TRUE, id |-> id, over |-> FALSE, ended |-> FALSE, worktree |-> cwd] \in AgentRow
      BY <2>1 DEF AgentRow
    <2> QED BY <1>0, <2>1, <2>2 DEF RowsKept, HasRow
  <1>7. CASE AgentReport
    BY <1>2, <1>7 DEF AgentReport
  <1>8. CASE UpdateAgent
    <2> PICK n \in Names, update \in Updates : agents' = [agents EXCEPT ![n] = SelfUpdate(@, update)]
      BY <1>8 DEF UpdateAgent
    <2>1. update[1] \in BOOLEAN /\ update[2] \in BOOLEAN
      BY BoardConstants
    <2> DEFINE new == SelfUpdate(agents[n], update)
    <2>2. new \in AgentRow /\ new.exists = agents[n].exists /\ new.id = agents[n].id
      BY <1>0, <2>1 DEF AgentRow, SelfUpdate
    <2>3. agents' = [agents EXCEPT ![n] = new]
      OBVIOUS
    <2> HIDE DEF new
    <2>4. \A m \in Names : agents'[m].exists = agents[m].exists /\ agents'[m].id = agents[m].id
      BY <1>0, <2>2, <2>3
    <2> QED BY <1>0, <2>2, <2>3, <2>4 DEF RowsKept, HasRow
  <1>9. CASE Stop
    <2>1. \A n \in Names : /\ agents'[n] \in AgentRow
                           /\ agents'[n].exists = agents[n].exists /\ agents'[n].id = agents[n].id
      BY <1>0, <1>9 DEF Stop, AgentRow
    <2> QED BY <1>9, <2>1 DEF Stop, RowsKept, HasRow
  <1>10. CASE \/ Advance \/ VisitAgent \/ TeardownCard \/ ReviewCard \/ RequeueTerminal \/ RetireDuplicates
              \/ SettleFailure \/ KeepCarded \/ ReassignIdle \/ SpawnRefused
    BY <1>1, <1>10 DEF Advance, VisitAgent, TeardownCard, ReviewCard, RequeueTerminal, RetireDuplicates,
       SettleFailure, KeepCarded, ReassignIdle, SpawnRefused
  <1>11. CASE PassStep \/ TickAbort \/ PassAbort \/ ProcessDies \/ Run \/ UNCHANGED vars
    BY <1>1, <1>11 DEF PassStep, PassAdvance, PassReview, PassLane, TickAbort, PassAbort, ProcessDies, Run, vars
  <1> QED BY <1>3, <1>4, <1>5, <1>6, <1>7, <1>8, <1>9, <1>10, <1>11
          DEF Next, ServiceStep, SchedulerStep, WorkerStep

(* Agents rows keep their types; reset-counters drops some.                 *)
LEMMA AgentsTyped ==
    ASSUME PlainInv, [ResetNext]_vars
    PROVE  agents' \in [Names -> AgentRow]
  <1>1. CASE ResetCounters
    <2>1. \A n \in Names : [agents[n] EXCEPT !.exists = Active(n)] \in AgentRow
      BY DEF PlainInv, TypeOK, AgentRow, Active, HasRow
    <2> QED BY <1>1, <2>1 DEF ResetCounters
  <1>2. CASE [Next]_vars
    BY <1>2, AgentsStep DEF RowsKept
  <1> QED BY <1>1, <1>2 DEF ResetNext

(* Processes keep their types: windows are opened, prompted or killed.      *)
LEMMA ProcTyped ==
    ASSUME PlainInv, [ResetNext]_vars
    PROVE  proc' \in [Names -> ProcStates]
  <1> USE DEF PlainInv
  <1>1. CASE UNCHANGED proc
    BY <1>1 DEF TypeOK
  <1>2. CASE \E n \in Names : KillWindow(n)
    BY <1>2, WindowTyped
  <1>3. CASE \E n \in Names, state \in ProcStates : proc' = [proc EXCEPT ![n] = state]
    BY <1>3 DEF TypeOK
  <1>4. CASE VisitAgent
    <2> PICK visit \in todo : UNCHANGED proc \/ KillWindow(visit[1])
      BY <1>4 DEF VisitAgent
    <2>1. visit[1] \in Names
      BY DEF TypeOK
    <2> QED BY <1>1, <1>2, <2>1
  <1>5. CASE TeardownEnd
    BY <1>1, <1>2, <1>5 DEF TeardownEnd, TypeOK
  <1>6. CASE ReassignIdle
    <2> PICK visit \in todo, c \in CardIds : UNCHANGED proc \/ proc' = [proc EXCEPT ![visit[1]] = c]
      BY <1>6 DEF ReassignIdle
    <2>1. visit[1] \in Names /\ c \in ProcStates
      BY DEF TypeOK, ProcStates
    <2> QED BY <1>1, <1>3, <2>1
  <1>7. CASE StopUncarded
    <2> PICK visit \in todo : KillWindow(visit[1])
      BY <1>7 DEF StopUncarded
    <2>1. visit[1] \in Names
      BY DEF TypeOK
    <2> QED BY <1>2, <2>1
  <1>8. CASE SpawnInsert
    <2>1. NextName \in Names /\ proc' = [proc EXCEPT ![NextName] = IF Alive(NextName) THEN @ ELSE Waiting]
      BY <1>8 DEF SpawnInsert
    <2> HIDE DEF NextName
    <2>2. (IF Alive(NextName) THEN proc[NextName] ELSE Waiting) \in ProcStates
      BY <2>1 DEF TypeOK, ProcStates
    <2> QED BY <2>1, <2>2 DEF TypeOK
  <1>9. CASE SpawnClaim
    <2>1. fresh \in Names /\ \A c \in CardIds : c \in ProcStates
      BY <1>9 DEF SpawnClaim, TypeOK, ProcStates
    <2> QED BY <1>1, <1>3, <1>9, <2>1 DEF SpawnClaim
  <1>10. CASE ProcessDies
    BY <1>3, <1>10 DEF ProcessDies, ProcStates
  <1>11. CASE Stop
    BY <1>11 DEF Stop, TypeOK, ProcStates
  <1>12. CASE \/ Advance \/ TeardownCard \/ ReviewCard \/ RetireSuperseded \/ RequeueTerminal \/ RetireDuplicates
              \/ SettleFailure \/ KeepCarded \/ SpawnRefused
    BY <1>1, <1>12 DEF Advance, TeardownCard, ReviewCard, RetireSuperseded, RequeueTerminal, RetireDuplicates,
       SettleFailure, KeepCarded, SpawnRefused
  <1>13. CASE PassStep \/ TickAbort \/ PassAbort \/ AgentReport \/ UpdateAgent \/ Run \/ ResetCounters \/ UNCHANGED vars
    BY <1>1, <1>13 DEF PassStep, PassAdvance, PassReview, PassLane, TickAbort, PassAbort, AgentReport,
       UpdateAgent, Run, ResetCounters, vars
  <1> QED BY <1>4, <1>5, <1>6, <1>7, <1>8, <1>9, <1>10, <1>11, <1>12, <1>13
          DEF ResetNext, Next, ServiceStep, SchedulerStep, WorkerStep

(* A fault is spent within the bound.                                       *)
LEMMA FaultsTyped ==
    ASSUME PlainInv, [ResetNext]_vars
    PROVE  faults' \in 0..MaxFaults /\ stopped' \in BOOLEAN
  <1> USE DEF PlainInv
  <1>1. CASE (Fault \/ UNCHANGED faults) /\ stopped' \in {stopped, TRUE, FALSE}
    BY <1>1, FaultTyped DEF TypeOK
  <1>2. CASE SchedulerStep \/ TickAbort
    BY <1>1, <1>2 DEF SchedulerStep, TickAbort, Advance, VisitAgent, TeardownCard, TeardownEnd,
       ReviewCard, RetireSuperseded, RequeueTerminal, RetireDuplicates, SettleFailure, KeepCarded,
       ReassignIdle, StopUncarded, SpawnRefused, SpawnInsert, SpawnClaim, Reachable, Unreachable
  <1>3. CASE PassStep \/ PassAbort \/ WorkerStep \/ Stop \/ Run \/ ResetCounters \/ UNCHANGED vars
    BY <1>1, <1>3 DEF PassStep, PassAdvance, PassReview, PassLane, PassAbort, WorkerStep, AgentReport,
       UpdateAgent, ProcessDies, Stop, Run, ResetCounters, vars
  <1> QED BY <1>2, <1>3 DEF ResetNext, Next, ServiceStep

TickTypes ==
    /\ pc \in TickPcs
    /\ todo \subseteq Names \X RowClasses
    /\ rows \subseteq CardIds \X (Names \cup {None})
    /\ victim \in Names \cup {None}
    /\ spawns \in 0..MinCount
    /\ fresh \in Names \cup {None}
    /\ fresh # None => spawns > 0
    /\ victim # None => pc \in {"missing", "carded", "team", "liveness"}
    /\ pc = "settle" => \A row \in rows : filed[row[1]] # None

PassTypes ==
    /\ ipc \in {"idle", "review", "lanes"}
    /\ irows \subseteq CardIds
    /\ ipc = "lanes" => \A c \in irows : filed[c] # None

(* The SELECTs between the loops of the tick: a failed lane was accepted.   *)
LEMMA AdvanceTick ==
    ASSUME PlainInv, Advance
    PROVE  TickTypes'
  <1> USE DEF PlainInv
  <1>1. NextStep \in TickPcs
    BY DEF Advance, TypeOK, NextStep, TickPcs
  <1>2. todo' \subseteq Names \X RowClasses
    BY DEF Advance, SelectAgents, Rows, RowClass, RowClasses, Active
  <1>3. rows' \subseteq CardIds \X (Names \cup {None})
    <2>1. InReview \X {None} \subseteq CardIds \X (Names \cup {None})
      BY DEF InReview
    <2>2. {c \in InDevelopment : \E n \in Owners(c) : Terminal(n)} \X {None}
            \subseteq CardIds \X (Names \cup {None})
      BY DEF InDevelopment
    <2>3. {c \in Unfinished : \E d \in Unfinished : Outranks(d, c)} \X {None}
            \subseteq CardIds \X (Names \cup {None})
      BY BoardConstants DEF Unfinished
    <2>4. {c \in CardIds : FailedLane(cards[c])} \X {None} \subseteq CardIds \X (Names \cup {None})
      OBVIOUS
    <2>5. \A P : {row \in InDevelopment \X (Names \cup {None}) : row \in P}
                   \subseteq CardIds \X (Names \cup {None})
      BY DEF InDevelopment
    <2> QED BY <2>1, <2>2, <2>3, <2>4, <2>5 DEF Advance, SelectCards, InDevelopment
  <1>4. spawns' \in 0..MinCount
    BY MissingBound, BoardConstants DEF Advance
  <1>5. pc' = "settle" => \A row \in rows' : filed'[row[1]] # None
    <2>1. \A c \in CardIds : FailedLane(cards[c]) => filed[c] # None
      BY DEF FailedLane, AcceptedOnReport
    <2> QED BY <2>1 DEF Advance, SelectCards
  <1> QED BY <1>1, <1>2, <1>3, <1>4, <1>5 DEF Advance, TickTypes, TypeOK

(* The local variables of the tick.                                         *)
LEMMA TickTyped ==
    ASSUME PlainInv, [ResetNext]_vars
    PROVE  TickTypes'
  <1> USE DEF PlainInv
  <1>0. TickTypes /\ MinCount \in Nat
    BY BoardConstants DEF TickTypes, TypeOK, PlainLoopsInv
  <1>1. \A c \in CardIds : filed[c] # None => filed'[c] # None
    BY ReportsStay DEF KeepsReports
  <1>2. CASE UNCHANGED tick
    BY <1>0, <1>1, <1>2 DEF TickTypes, tick
  <1>3. CASE pc' = "idle" /\ todo' = {} /\ rows' = {} /\ victim' = None /\ spawns' = 0 /\ fresh' = None
    BY <1>0, <1>3 DEF TickTypes, TickPcs
  <1>4. CASE rows' \subseteq rows /\ UNCHANGED <<pc, todo, victim, spawns, fresh>>
    BY <1>0, <1>1, <1>4 DEF TickTypes
  <1>5. CASE VisitAgent
    <2> PICK visit \in todo :
          /\ todo' = todo \ {visit}
          /\ StartTeardown(visit[1]) \/ UNCHANGED <<victim, rows>>
      BY <1>5 DEF VisitAgent
    <2>1. visit[1] \in Names
      BY DEF TypeOK
    <2>2. \A n : {<<c, None>> : c \in Held(n)} \subseteq CardIds \X (Names \cup {None})
      BY DEF Held
    <2> QED BY <1>0, <1>5, <2>1, <2>2 DEF VisitAgent, StartTeardown, TickTypes
  <1>6. CASE TeardownEnd
    BY <1>0, <1>1, <1>6 DEF TeardownEnd, TickTypes
  <1>7. CASE ReassignIdle
    <2> PICK visit \in todo, c \in CardIds :
          /\ todo' = todo \ {visit}
          /\ \/ UNCHANGED <<victim, rows>>
             \/ victim' = visit[1] /\ rows' = {<<c, None>>}
      BY <1>7 DEF ReassignIdle
    <2>1. visit[1] \in Names
      BY DEF TypeOK
    <2> QED BY <1>0, <1>7, <2>1 DEF ReassignIdle, TickTypes
  <1>8. CASE KeepCarded \/ StopUncarded
    BY <1>0, <1>1, <1>8 DEF KeepCarded, StopUncarded, TickTypes
  <1>9. CASE SpawnRefused \/ SpawnInsert \/ SpawnClaim
    <2>1. NextName \in Names => NextName \in Names \cup {None}
      OBVIOUS
    <2> HIDE DEF NextName
    <2> QED BY <1>0, <1>1, <1>9, <2>1 DEF SpawnRefused, SpawnInsert, SpawnClaim, TickTypes
  <1>10. CASE TeardownCard \/ ReviewCard \/ RetireSuperseded \/ RequeueTerminal \/ RetireDuplicates \/ SettleFailure
    BY <1>4, <1>10 DEF TeardownCard, ReviewCard, RetireSuperseded, RequeueTerminal, RetireDuplicates, SettleFailure
  <1>11. CASE TickAbort \/ Stop
    BY <1>3, <1>11 DEF TickAbort, Stop
  <1>12. CASE PassStep \/ PassAbort \/ WorkerStep \/ Run \/ ResetCounters \/ UNCHANGED vars
    BY <1>2, <1>12 DEF PassStep, PassAdvance, PassReview, PassLane, PassAbort, WorkerStep, AgentReport,
       UpdateAgent, ProcessDies, Run, ResetCounters, vars
  <1> QED BY <1>5, <1>6, <1>7, <1>8, <1>9, <1>10, <1>11, <1>12, AdvanceTick DEF ResetNext, Next, ServiceStep, SchedulerStep

(* The local variables of the integration pass: a ready lane was accepted.  *)
LEMMA PassTyped ==
    ASSUME PlainInv, [ResetNext]_vars
    PROVE  PassTypes'
  <1> USE DEF PlainInv
  <1>0. PassTypes
    BY DEF PassTypes, TypeOK, PlainLoopsInv
  <1>1. \A c \in CardIds : filed[c] # None => filed'[c] # None
    BY ReportsStay DEF KeepsReports
  <1>2. CASE UNCHANGED pass
    BY <1>0, <1>1, <1>2 DEF PassTypes, pass
  <1>3. CASE ipc' = "idle" /\ irows' = {}
    BY <1>3 DEF PassTypes
  <1>4. CASE PassAdvance
    <2>1. \A c \in CardIds : ReadyLane(cards[c]) => filed[c] # None
      <3> SUFFICES ASSUME NEW c \in CardIds, ReadyLane(cards[c]) PROVE filed[c] # None
        OBVIOUS
      <3>1. cards[c] \in Card
        BY DEF TypeOK
      <3>2. cards[c].status \in {"needs_verification", "ready_for_integration"}
              => cards[c].stage \in {"review", "integration"}
        BY <3>1, BackfillFixpoint DEF BackfillMovesNothing, MappedStatuses, StageForStatus
      <3> QED BY <3>2 DEF ReadyLane, AcceptedOnReport
    <2> QED BY <1>4, <2>1 DEF PassAdvance, PassTypes, InReview
  <1>5. CASE PassReview \/ PassLane
    <2>1. irows' \subseteq irows /\ UNCHANGED ipc
      BY <1>5 DEF PassReview, PassLane
    <2> QED BY <1>0, <1>1, <2>1 DEF PassTypes
  <1>6. CASE PassAbort \/ Stop
    BY <1>3, <1>6 DEF PassAbort, Stop
  <1>7. CASE SchedulerStep \/ TickAbort
    BY <1>2, <1>7 DEF SchedulerStep, TickAbort, Advance, VisitAgent, TeardownCard, TeardownEnd,
       ReviewCard, RetireSuperseded, RequeueTerminal, RetireDuplicates, SettleFailure, KeepCarded,
       ReassignIdle, StopUncarded, SpawnRefused, SpawnInsert, SpawnClaim
  <1>8. CASE WorkerStep \/ Run \/ ResetCounters \/ UNCHANGED vars
    BY <1>2, <1>8 DEF WorkerStep, AgentReport, UpdateAgent, ProcessDies, Run, ResetCounters, vars
  <1> QED BY <1>4, <1>5, <1>6, <1>7, <1>8 DEF ResetNext, Next, ServiceStep, PassStep

(* Every step, reset-counters among them, keeps what is left.               *)
LEMMA PlainStep == PlainInv /\ [ResetNext]_vars => PlainInv'
  <1> SUFFICES ASSUME PlainInv, [ResetNext]_vars PROVE PlainInv'
    OBVIOUS
  <1>1. KeepsReports /\ filed' \in [CardIds -> Kinds \cup {None}]
    BY ReportsStay
  <1>2. \A c \in CardIds : PlainCard(cards'[c]) /\ (Accepted(cards'[c]) => filed'[c] # None)
    BY <1>1, ResetRewrites, RewrittenCard DEF AllRewritten
  <1>3. BackfillMovesNothing' /\ AcceptedOnReport'
    BY <1>2 DEF BackfillMovesNothing, AcceptedOnReport, PlainCard, Accepted
  <1>4. cards' \in [CardIds -> Card]
    <2>1. cards' = [c \in CardIds |-> cards'[c]]
      BY ResetRewrites DEF AllRewritten
    <2> QED BY <1>2, <2>1 DEF PlainCard
  <1>5. TypeOK'
    BY <1>1, <1>4, AgentsTyped, ProcTyped, FaultsTyped, TickTyped, PassTyped DEF TypeOK, TickTypes, PassTypes
  <1>6. PlainLoopsInv'
    BY TickTyped, PassTyped DEF PlainLoopsInv, TickTypes, PassTypes
  <1> QED BY <1>3, <1>5, <1>6 DEF PlainInv

(* What is left holds of every board, counters reset or not.                *)
LEMMA PlainInvariant == ResetSpec => []PlainInv
  BY InitPlain, PlainStep, PTL DEF ResetSpec, ResetNext

(* The variables hold values of their types, counters reset or not.         *)
THEOREM TypesHold == ResetSpec => []TypeOK
  BY PlainInvariant, PTL DEF PlainInv

(* The next connection's backfill moves nothing, counters reset or not: the *)
(* bulk UPDATE of reset-counters writes stage and status together.          *)
THEOREM BackfillIsHarmless == ResetSpec => []BackfillMovesNothing
  BY PlainInvariant, PTL DEF PlainInv

(* No card waits for review or integration, or is integrated, without a     *)
(* report, counters reset or not: only accepted lanes fail.                 *)
THEOREM WorkIsReported == ResetSpec => []AcceptedOnReport
  BY PlainInvariant, PTL DEF PlainInv

(* A card enters review out of development, by a ready report, and in no    *)
(* other way, counters reset or not.                                        *)
THEOREM ReviewIsReported == ResetSpec => ReviewFollowsReport
  <1>1. PlainInv /\ [ResetNext]_vars =>
          [\A c \in CardIds : cards'[c].stage = "review" /\ cards[c].stage # "review"
              => cards[c].stage = "development" /\ filed'[c] \in ReadyKinds]_vars
    <2> SUFFICES ASSUME PlainInv, [ResetNext]_vars, NEW c \in CardIds, EntersReview(c)
                 PROVE  cards[c].stage = "development" /\ filed'[c] \in ReadyKinds
      BY DEF EntersReview
    <2> QED BY ReportsStay, ResetRewrites, RewrittenCard DEF AllRewritten
  <1> QED BY <1>1, PlainInvariant, PTL DEF ResetSpec, ResetNext, ReviewFollowsReport

(* A harness whose counters nobody resets is one of these.                  *)
LEMMA SpecIsReset == Spec => ResetSpec
  <1>1. [Next]_vars => [ResetNext]_vars
    BY DEF ResetNext
  <1> QED BY <1>1, PTL DEF Spec, ResetSpec, ResetNext

-----------------------------------------------------------------------------
(***************************************************************************)
(* The board of a harness whose counters nobody resets (Spec): rows of     *)
(* agents stay, so the loops find the rows they selected, and a card in    *)
(* development has an owner that exists.                                   *)
(***************************************************************************)

(* What the cards keep among themselves and with the agents rows.           *)
CardsInv ==
    /\ \A c \in CardIds : SoundCard(cards[c])
    /\ AcceptedOnReport
    /\ OwnerRowExists

(* What the local variables of the two loops remember.                      *)
LoopsInv ==
    /\ PlainLoopsInv
    /\ \A n \in Names : HasRow(n) => agents[n].id \in AgentIds
    /\ \A visit \in todo : HasRow(visit[1])
    /\ fresh # None => HasRow(fresh)

IndInv == TypeOK /\ CardsInv /\ LoopsInv

(* It adds ownership to what holds of every board.                          *)
LEMMA IndIsPlain == IndInv => PlainInv
  BY DEF IndInv, CardsInv, LoopsInv, SoundCard, PlainInv, BackfillMovesNothing

(* The inductive invariant holds of a fresh board.                          *)
LEMMA InitIndInv == Init => IndInv
  <1> SUFFICES ASSUME Init PROVE IndInv
    OBVIOUS
  <1>1. PlainInv /\ \A c \in CardIds : cards[c].stage = "planned" /\ cards[c].owner = None
    BY InitPlain DEF Init, QueueWorklane
  <1>2. CardsInv
    BY <1>1 DEF CardsInv, SoundCard, PlainInv, TypeOK, BackfillMovesNothing, OwnedInDevelopment, OwnerRowExists
  <1>3. LoopsInv
    BY <1>1 DEF Init, LoopsInv, PlainInv, HasRow, NoRow
  <1> QED BY <1>1, <1>2, <1>3 DEF IndInv, PlainInv

(* A card stays sound, and its owner is the one it had, none, or the agent  *)
(* the scheduler claims it for.                                             *)
LEMMA RewrittenSound ==
    ASSUME IndInv, NEW c \in CardIds, Rewritten(c)
    PROVE  /\ SoundCard(cards'[c])
           /\ cards'[c].owner \in {None, cards[c].owner} \cup {agents[n].id : n \in {m \in Names : HasRow(m)}}
  <1> DEFINE old == cards[c]
             new == cards'[c]
  <1>1. SoundCard(old)
    BY DEF IndInv, CardsInv
  <1>2. \A n \in Claimers : n \in Names /\ HasRow(n)
    BY CardConstants DEF Claimers, Names, IndInv, LoopsInv, TypeOK
  <1> HIDE DEF old, new
  <1>3. CASE new = old
    BY <1>1, <1>3 DEF old, new
  <1>4. CASE \E n \in Claimers : new = ClaimedBy(old, n)
    <2> PICK n \in Claimers : new = ClaimedBy(old, n)
      BY <1>4
    <2>1. n \in Names /\ agents[n].id \in AgentIds /\ agents[n].worktree \in Worktrees \cup {Root, None}
      BY <1>2 DEF IndInv, LoopsInv, TypeOK, AgentRow, Names
    <2>2. SoundCard(new) /\ new.owner = agents[n].id
      BY <1>1, <1>2, <2>1, AssignSound DEF ClaimedBy
    <2> QED BY <1>2, <2>1, <2>2 DEF new
  <1>5. CASE new \in {RequeueCard(old), RetireCard(old), RetireUnlogged(old)}
    BY <1>1, <1>5, RequeueSound, RetireSound, RetireUnloggedSound DEF new
  <1>6. CASE new \in {AcceptReview(old), CompleteCard(old), UpdateWorklaneStatus(old, "integration_failed")}
    BY <1>1, <1>6, AcceptSound, CompleteSound, FailSound DEF new
  <1>7. CASE \E kind \in Kinds : new = ReportCard(old, kind)
    <2> PICK kind \in Kinds : new = ReportCard(old, kind)
      BY <1>7
    <2>1. kind \in ReportKinds
      BY BoardConstants
    <2> QED BY <1>1, <2>1, ReportSound DEF old, new
  <1>8. CASE /\ old.status = "integration_failed"
             /\ new = [old EXCEPT !.status = "ready_for_integration", !.stage = "integration"]
    <2>1. SoundCard(new)
      BY <1>1, <1>8, ResetSound
    <2>2. new.owner = old.owner
      BY <1>1, <1>8 DEF SoundCard, Card
    <2> QED BY <2>1, <2>2 DEF old, new
  <1> QED BY <1>3, <1>4, <1>5, <1>6, <1>7, <1>8 DEF Rewritten, Rewrite, old, new

(* The rows a loop has selected, and the row of a new Developer, are there. *)
LEMMA LoopRowsStay ==
    ASSUME IndInv, [Next]_vars
    PROVE  /\ \A visit \in todo' : HasRow(visit[1])'
           /\ fresh' # None => HasRow(fresh)'
  <1> USE DEF IndInv
  <1>1. \A n \in Names : HasRow(n) => HasRow(n)'
    BY AgentsStep, IndIsPlain DEF RowsKept
  <1>2. /\ \A visit \in todo : visit[1] \in Names /\ HasRow(visit[1])
        /\ fresh # None => fresh \in Names /\ HasRow(fresh)
    BY DEF LoopsInv, TypeOK
  <1>3. CASE todo' \subseteq todo /\ fresh' \in {None, fresh}
    BY <1>1, <1>2, <1>3
  <1>4. CASE Advance
    <2>1. \A visit \in todo' : visit[1] \in Names /\ HasRow(visit[1])
      BY <1>4 DEF Advance, SelectAgents, Rows, Active
    <2> QED BY <1>1, <1>4, <2>1 DEF Advance
  <1>5. CASE SpawnInsert
    <2>1. NextName \in Names /\ fresh' = NextName /\ agents'[NextName].exists
      BY <1>5 DEF SpawnInsert, TypeOK
    <2>2. todo' = todo
      BY <1>5 DEF SpawnInsert
    <2> HIDE DEF NextName
    <2> QED BY <1>1, <1>2, <2>1, <2>2 DEF HasRow
  <1>6. CASE SchedulerStep /\ ~Advance /\ ~SpawnInsert
    BY <1>3, <1>6 DEF SchedulerStep, VisitAgent, TeardownCard, TeardownEnd, ReviewCard, RetireSuperseded,
       RequeueTerminal, RetireDuplicates, SettleFailure, KeepCarded, ReassignIdle, StopUncarded,
       SpawnRefused, SpawnClaim
  <1>7. CASE TickAbort \/ PassStep \/ PassAbort \/ WorkerStep \/ Stop \/ Run \/ UNCHANGED vars
    BY <1>3, <1>7 DEF TickAbort, PassStep, PassAdvance, PassReview, PassLane, PassAbort, WorkerStep,
       AgentReport, UpdateAgent, ProcessDies, Stop, Run, vars, tick
  <1> QED BY <1>4, <1>5, <1>6, <1>7 DEF Next, ServiceStep

(* Every step of the specification keeps the inductive invariant.           *)
LEMMA IndInvStep == IndInv /\ [Next]_vars => IndInv'
  <1> SUFFICES ASSUME IndInv, [Next]_vars PROVE IndInv'
    OBVIOUS
  <1>1. PlainInv'
    BY IndIsPlain, PlainStep DEF ResetNext
  <1>2. \A c \in CardIds :
          /\ SoundCard(cards'[c])
          /\ cards'[c].owner \in {None, cards[c].owner} \cup {agents[n].id : n \in {m \in Names : HasRow(m)}}
    BY IndIsPlain, ResetRewrites, RewrittenSound DEF AllRewritten, ResetNext
  <1>3. RowsKept
    BY IndIsPlain, AgentsStep
  <1>4. OwnerRowExists'
    <2> SUFFICES ASSUME NEW c \in CardIds, cards'[c].owner # None
                 PROVE  \E n \in Names : HasRow(n)' /\ agents'[n].id = cards'[c].owner
      BY DEF OwnerRowExists, Owners
    <2>1. cards[c].owner # None => \E n \in Names : HasRow(n) /\ agents[n].id = cards[c].owner
      BY DEF IndInv, CardsInv, OwnerRowExists, Owners
    <2>2. \E n \in Names : HasRow(n) /\ agents[n].id = cards'[c].owner
      BY <1>2, <2>1
    <2> QED BY <1>3, <2>2 DEF RowsKept
  <1>5. CardsInv'
    BY <1>1, <1>2, <1>4 DEF CardsInv, PlainInv
  <1>6. \A n \in Names : HasRow(n)' => agents'[n].id \in AgentIds
    BY <1>3 DEF RowsKept, IndInv, LoopsInv
  <1>7. LoopsInv'
    BY <1>1, <1>6, LoopRowsStay DEF LoopsInv, PlainInv
  <1> QED BY <1>1, <1>5, <1>7 DEF IndInv, PlainInv

(* The inductive invariant holds in every reachable state.                  *)
LEMMA BoardInvariant == Spec => []IndInv
  BY InitIndInv, IndInvStep, PTL DEF Spec

(* Development cards, and only they, have an owner.                         *)
THEOREM OwnershipHolds == Spec => []DevelopmentIsOwned
  <1>1. IndInv => DevelopmentIsOwned
    BY DEF IndInv, CardsInv, SoundCard, DevelopmentIsOwned
  <1> QED BY <1>1, BoardInvariant, PTL

(* As long as nobody resets the counters, that owner has a row.             *)
THEOREM OwnersExist == Spec => []OwnerRowExists
  BY BoardInvariant, PTL DEF IndInv, CardsInv

-----------------------------------------------------------------------------
(***************************************************************************)
(* One card per Developer, and the trail of the stages.                    *)
(***************************************************************************)

(* The names that were given out.                                           *)
Taken == {n \in Names : HasRow(n)}

(* How the rows and the cards in development go together when every        *)
(* Developer has a worktree of its own: names are given out in order, and   *)
(* so are ids, a card's owner and its worktree name one row, and that row   *)
(* has no other card.                                                       *)
SeparateInv ==
    /\ Taken = 1..Cardinality(Taken)
    /\ \A m, n \in Taken : agents[m].id = agents[n].id => m = n
    /\ \A n \in Taken : agents[n].worktree = n
    /\ \A c \in InDevelopment, n \in Taken : cards[c].owner = agents[n].id => cards[c].worktree = n
    /\ \A c, d \in InDevelopment : cards[c].owner = cards[d].owner => c = d
    /\ fresh # None => \A c \in InDevelopment : cards[c].owner # agents[fresh].id

(* Only the bulk UPDATE of the dedupe loop writes no transition row, and it *)
(* is given cards of the test loop only; no claim falls into that loop.     *)
TrailInv ==
    /\ \A c \in CardIds \ TestCards : TrailAgrees(cards[c])
    /\ pc = "dedupe" => \A row \in rows : row[1] \in TestCards
    /\ fresh # None => pc = "spawn"

(* What a step other than a claim may do to a card.                         *)
IsMove(card, new) == \E stage, status : stage # "development" /\ new = MoveCardStage(card, stage, status)
Moved(c) == IsMove(cards[c], cards'[c])
Marked(c) == \E status : cards'[c] = [cards[c] EXCEPT !.status = status]
Dropped(c) == c \in TestCards /\ cards'[c] = RetireUnlogged(cards[c])
Touched(c) == cards'[c] = cards[c] \/ Moved(c) \/ Marked(c) \/ Dropped(c)

(* A step that neither claims a card nor inserts a row.                     *)
NoClaim ==
    /\ \A c \in CardIds : Touched(c)
    /\ \A n \in Names : /\ agents'[n].exists = agents[n].exists
                        /\ agents'[n].id = agents[n].id
                        /\ agents'[n].worktree = agents[n].worktree
    /\ fresh' = None \/ (fresh' = fresh /\ pc' = pc)
    /\ \/ pc' = "idle"
       \/ rows' \subseteq rows /\ pc' = pc
       \/ pc' # "dedupe"
       \/ \A row \in rows' : row[1] \in TestCards

(* A card that leaves development, or is marked in it, takes no name away.  *)
LEMMA TouchedCard ==
    ASSUME TypeOK, NEW c \in CardIds, Touched(c)
    PROVE  /\ cards'[c].stage = "development" =>
                /\ cards[c].stage = "development"
                /\ cards'[c].owner = cards[c].owner
                /\ cards'[c].worktree = cards[c].worktree
           /\ c \notin TestCards /\ TrailAgrees(cards[c]) => TrailAgrees(cards'[c])
  <1>1. cards[c] \in Card
    BY DEF TypeOK
  <1>2. CASE Moved(c)
    BY <1>1, <1>2 DEF Moved, IsMove, MoveCardStage, RecordTransition, TrailAgrees, Card
  <1>3. CASE Marked(c)
    BY <1>1, <1>3 DEF Marked, TrailAgrees, Card
  <1>4. CASE Dropped(c)
    BY <1>1, <1>4 DEF Dropped, RetireUnlogged, Card
  <1> QED BY <1>2, <1>3, <1>4 DEF Touched

(* Such a step keeps rows and cards apart.                                  *)
LEMMA NoClaimSeparate ==
    ASSUME TypeOK, NoClaim, SeparateInv
    PROVE  SeparateInv'
  <1>1. Taken' = Taken
    BY DEF Taken, NoClaim, HasRow
  <1>2. \A n \in Taken : agents'[n].id = agents[n].id /\ agents'[n].worktree = agents[n].worktree
    BY DEF Taken, NoClaim
  <1>3. \A c \in InDevelopment' : /\ c \in InDevelopment
                                  /\ cards'[c].owner = cards[c].owner
                                  /\ cards'[c].worktree = cards[c].worktree
    BY TouchedCard DEF NoClaim, InDevelopment
  <1>4. fresh' # None => \A c \in InDevelopment' : cards'[c].owner # agents'[fresh'].id
    <2>1. fresh' # None => fresh' = fresh /\ agents'[fresh].id = agents[fresh].id
      BY DEF NoClaim, TypeOK
    <2> QED BY <2>1, <1>3 DEF SeparateInv
  <1>5. /\ \A m, n \in Taken' : agents'[m].id = agents'[n].id => m = n
        /\ \A n \in Taken' : agents'[n].worktree = n
    BY <1>1, <1>2 DEF SeparateInv
  <1>6. /\ \A c \in InDevelopment', n \in Taken' : cards'[c].owner = agents'[n].id => cards'[c].worktree = n
        /\ \A c, d \in InDevelopment' : cards'[c].owner = cards'[d].owner => c = d
    BY <1>1, <1>2, <1>3 DEF SeparateInv
  <1> QED BY <1>1, <1>4, <1>5, <1>6 DEF SeparateInv

(* Neither does such a step leave a stage without its transition row.       *)
LEMMA NoClaimTrail ==
    ASSUME TypeOK, NoClaim, TrailInv
    PROVE  TrailInv'
  BY TouchedCard DEF NoClaim, TrailInv

(* The writers of scheduler.py and integration.py move a card.              *)
LEMMA WritersMove ==
    ASSUME NEW card
    PROVE  /\ IsMove(card, RequeueCard(card))
           /\ IsMove(card, CompleteCard(card))
           /\ IsMove(card, RetireCard(card))
           /\ IsMove(card, AcceptReview(card))
           /\ IsMove(card, UpdateWorklaneStatus(card, "integration_failed"))
  <1>1. IsMove(card, RequeueCard(card))
    BY DEF IsMove, RequeueCard
  <1>2. IsMove(card, CompleteCard(card))
    BY DEF IsMove, CompleteCard
  <1>3. IsMove(card, RetireCard(card))
    BY DEF IsMove, RetireCard
  <1>4. IsMove(card, AcceptReview(card))
    BY <1>2 DEF IsMove, AcceptReview
  <1>5. StageForStatus("integration_failed") # "development"
    BY DEF StageForStatus
  <1>6. IsMove(card, UpdateWorklaneStatus(card, "integration_failed"))
    BY <1>5 DEF IsMove, UpdateWorklaneStatus
  <1> QED BY <1>1, <1>2, <1>3, <1>4, <1>6

(* One card moved, and the others left alone.                               *)
LEMMA OneTouched ==
    ASSUME TypeOK, NEW c \in CardIds, NEW new, IsMove(cards[c], new),
           cards' \in {cards, [cards EXCEPT ![c] = new]}
    PROVE  \A d \in CardIds : Touched(d)
  BY DEF TypeOK, Touched, Moved

(* agent_report moves the card or marks it.                                 *)
LEMMA ReportTouches ==
    ASSUME NEW card, NEW kind
    PROVE  \/ ReportCard(card, kind) = card
           \/ IsMove(card, ReportCard(card, kind))
           \/ \E status : ReportCard(card, kind) = [card EXCEPT !.status = status]
  <1>1. IsMove(card, MoveCardStage(card, "review", "needs_verification"))
    BY DEF IsMove
  <1>2. \E status : [card EXCEPT !.status = BlockerStatus(kind)] = [card EXCEPT !.status = status]
    OBVIOUS
  <1>3. ReportCard(card, kind) \in {card, MoveCardStage(card, "review", "needs_verification"), RetireCard(card),
                                   AcceptReview(card), [card EXCEPT !.status = BlockerStatus(kind)]}
    BY DEF ReportCard
  <1>4. CASE ReportCard(card, kind) = [card EXCEPT !.status = BlockerStatus(kind)]
    BY <1>2, <1>4
  <1> QED BY <1>1, <1>3, <1>4, WritersMove

(* Ending and reviving an agent keep its worktree.                          *)
LEMMA ColumnsKept ==
    ASSUME TypeOK, NEW n \in Names, NEW to \in {agents, EndAgent(n), Revive(n)}
    PROVE  \A m \in Names : /\ to[m].exists = agents[m].exists
                            /\ to[m].id = agents[m].id
                            /\ to[m].worktree = agents[m].worktree
  <1> DEFINE over == [agents[n] EXCEPT !.over = TRUE, !.ended = TRUE]
             live == [agents[n] EXCEPT !.over = FALSE, !.ended = FALSE]
  <1>1. agents \in [Names -> AgentRow]
    BY DEF TypeOK
  <1>2. \A row \in {over, live} : row.exists = agents[n].exists /\ row.id = agents[n].id
                                    /\ row.worktree = agents[n].worktree
    BY <1>1 DEF AgentRow
  <1>3. to \in {agents, [agents EXCEPT ![n] = over], [agents EXCEPT ![n] = live]}
    BY DEF EndAgent, Revive
  <1> QED BY <1>1, <1>2, <1>3

(* The steps of the tick that claim nothing.                                *)
LEMMA TickNoClaim ==
    ASSUME IndInv, TrailInv, SchedulerStep, ~ReassignIdle, ~SpawnInsert, ~SpawnClaim
    PROVE  NoClaim
  <1> USE DEF IndInv
  <1>1. CASE Advance
    <2>1. pc' = "dedupe" => \A row \in rows' : row[1] \in TestCards
      BY <1>1 DEF Advance, SelectCards, Unfinished
    <2> QED BY <1>1, <2>1 DEF Advance, NoClaim, Touched
  <1>2. CASE VisitAgent
    BY <1>2 DEF VisitAgent, NoClaim, Touched
  <1>3. CASE TeardownCard
    <2> PICK row \in rows : rows' = rows \ {row} /\ cards' = [cards EXCEPT ![row[1]] = RequeueCard(cards[row[1]])]
      BY <1>3 DEF TeardownCard
    <2>1. \A d \in CardIds : Touched(d)
      BY WritersMove, OneTouched DEF TypeOK
    <2> QED BY <1>3, <2>1 DEF TeardownCard, NoClaim
  <1>4. CASE TeardownEnd
    <2>1. victim \in Names /\ agents' = EndAgent(victim)
      BY <1>4 DEF TeardownEnd, TypeOK
    <2> QED BY <1>4, <2>1, ColumnsKept DEF TeardownEnd, NoClaim, Touched
  <1>5. CASE ReviewCard
    <2> PICK row \in rows :
          /\ rows' = rows \ {row}
          /\ cards' \in {cards, [cards EXCEPT ![row[1]] = AcceptReview(cards[row[1]])]}
      BY <1>5 DEF ReviewCard
    <2>1. \A d \in CardIds : Touched(d)
      BY WritersMove, OneTouched DEF TypeOK
    <2> QED BY <1>5, <2>1 DEF ReviewCard, NoClaim
  <1>6. CASE RetireSuperseded
    <2> PICK row \in rows :
          /\ rows' = rows \ {row}
          /\ cards' = [cards EXCEPT ![row[1]] = RetireCard(cards[row[1]])]
          /\ agents' = IF row[2] = None THEN agents ELSE Revive(row[2])
      BY <1>6 DEF RetireSuperseded
    <2>1. \A d \in CardIds : Touched(d)
      BY WritersMove, OneTouched DEF TypeOK
    <2>2. row[2] # None => row[2] \in Names
      BY DEF TypeOK
    <2> QED BY <1>6, <2>1, <2>2, ColumnsKept DEF RetireSuperseded, NoClaim
  <1>7. CASE RequeueTerminal
    <2> PICK row \in rows : rows' = rows \ {row} /\ cards' = [cards EXCEPT ![row[1]] = RequeueCard(cards[row[1]])]
      BY <1>7 DEF RequeueTerminal
    <2>1. \A d \in CardIds : Touched(d)
      BY WritersMove, OneTouched DEF TypeOK
    <2> QED BY <1>7, <2>1 DEF RequeueTerminal, NoClaim
  <1>8. CASE RetireDuplicates
    <2>1. \A d \in CardIds : Touched(d)
      BY <1>8 DEF RetireDuplicates, TrailInv, Touched, Dropped
    <2> QED BY <1>8, <2>1 DEF RetireDuplicates, NoClaim
  <1>9. CASE SettleFailure
    <2> PICK row \in rows :
          /\ rows' = rows \ {row}
          /\ \/ cards' = cards
             \/ cards' = [cards EXCEPT ![row[1]] = CompleteCard(cards[row[1]])]
             \/ cards' = [cards EXCEPT ![row[1]] = RetireCard(cards[row[1]])]
      BY <1>9 DEF SettleFailure
    <2>1. \A d \in CardIds : Touched(d)
      BY WritersMove, OneTouched DEF TypeOK
    <2> QED BY <1>9, <2>1 DEF SettleFailure, NoClaim
  <1>10. CASE KeepCarded
    BY <1>10 DEF KeepCarded, NoClaim, Touched
  <1>11. CASE StopUncarded
    <2> PICK visit \in todo : agents' = EndAgent(visit[1])
      BY <1>11 DEF StopUncarded
    <2>1. visit[1] \in Names
      BY DEF TypeOK
    <2> QED BY <1>11, <2>1, ColumnsKept DEF StopUncarded, NoClaim, Touched
  <1>12. CASE SpawnRefused
    BY <1>12 DEF SpawnRefused, NoClaim, Touched
  <1> QED BY <1>1, <1>2, <1>3, <1>4, <1>5, <1>6, <1>7, <1>8, <1>9, <1>10, <1>11, <1>12 DEF SchedulerStep

(* The integration pass, the workers and the operator claim nothing.        *)
LEMMA OthersNoClaim ==
    ASSUME IndInv, TickAbort \/ PassStep \/ PassAbort \/ WorkerStep \/ Stop \/ Run \/ UNCHANGED vars
    PROVE  NoClaim
  <1> USE DEF IndInv
  <1>1. CASE TickAbort \/ PassAbort \/ PassAdvance \/ ProcessDies \/ Run \/ UNCHANGED vars
    BY <1>1 DEF TickAbort, PassAbort, PassAdvance, ProcessDies, Run, vars, tick, pass, NoClaim, Touched
  <1>2. CASE PassReview
    <2> PICK c \in irows : cards' \in {cards, [cards EXCEPT ![c] = AcceptReview(cards[c])]}
      BY <1>2 DEF PassReview
    <2>1. \A d \in CardIds : Touched(d)
      BY WritersMove, OneTouched DEF TypeOK
    <2> QED BY <1>2, <2>1 DEF PassReview, NoClaim, tick
  <1>3. CASE PassLane
    <2> PICK c \in irows :
          \/ cards' = [cards EXCEPT ![c] = CompleteCard(cards[c])]
          \/ cards' = [cards EXCEPT ![c] = UpdateWorklaneStatus(cards[c], "integration_failed")]
          \/ cards' = [cards EXCEPT ![c] = RetireCard(cards[c])]
      BY <1>3 DEF PassLane
    <2>1. \A d \in CardIds : Touched(d)
      BY WritersMove, OneTouched DEF TypeOK
    <2> QED BY <1>3, <2>1 DEF PassLane, NoClaim, tick
  <1>4. CASE AgentReport
    <2> PICK n \in Names, kind \in Kinds :
          /\ proc[n] \in CardIds
          /\ cards' \in {cards, [cards EXCEPT ![proc[n]] = ReportCard(cards[proc[n]], kind)]}
          /\ agents' \in {agents, Revive(n)}
          /\ UNCHANGED <<proc, tick>>
      BY <1>4 DEF AgentReport
    <2> DEFINE c == proc[n]
               new == ReportCard(cards[c], kind)
    <2>1. \A d \in CardIds : cards'[d] = cards[d] \/ (d = c /\ cards'[d] = new)
      BY DEF TypeOK
    <2>2. new = cards[c] \/ IsMove(cards[c], new) \/ \E status : new = [cards[c] EXCEPT !.status = status]
      BY ReportTouches
    <2> HIDE DEF c, new
    <2>3. cards'[c] = new => Touched(c)
      BY <2>2 DEF Touched, Moved, Marked
    <2>4. \A d \in CardIds : Touched(d)
      BY <2>1, <2>3 DEF Touched
    <2> QED BY <2>4, ColumnsKept DEF NoClaim, tick
  <1>5. CASE UpdateAgent
    <2> PICK n \in Names, update \in Updates : agents' = [agents EXCEPT ![n] = SelfUpdate(agents[n], update)]
      BY <1>5 DEF UpdateAgent
    <2>1. agents \in [Names -> AgentRow]
      BY DEF TypeOK
    <2>2. \A m \in Names : /\ agents'[m].exists = agents[m].exists
                           /\ agents'[m].id = agents[m].id
                           /\ agents'[m].worktree = agents[m].worktree
      BY <2>1 DEF SelfUpdate, AgentRow
    <2> QED BY <1>5, <2>2 DEF UpdateAgent, NoClaim, Touched, tick
  <1>6. CASE Stop
    <2>1. \A m \in Names : /\ agents'[m].exists = agents[m].exists
                           /\ agents'[m].id = agents[m].id
                           /\ agents'[m].worktree = agents[m].worktree
      BY <1>6 DEF Stop, TypeOK, AgentRow
    <2> QED BY <1>6, <2>1 DEF Stop, NoClaim, Touched
  <1> QED BY <1>1, <1>2, <1>3, <1>4, <1>5, <1>6 DEF PassStep, WorkerStep

(* A claim for a row without a card keeps the rows and their cards apart.   *)
LEMMA ClaimSeparate ==
    ASSUME IndInv, SeparateInv, NEW n \in Taken, NEW c \in CardIds,
           \A d \in InDevelopment : cards[d].owner # agents[n].id,
           cards' = Claim(n, c), UNCHANGED agents, fresh' = None
    PROVE  SeparateInv'
  <1> USE DEF IndInv
  <1>1. Taken' = Taken
    BY DEF Taken, HasRow
  <1>2. n \in Names /\ HasRow(n) /\ cards[c] \in Card /\ agents[n].worktree = n
    BY DEF Taken, TypeOK, SeparateInv
  <1>3. \A d \in CardIds : cards'[d] = IF d = c THEN AssignCard(cards[c], agents[n].id, n) ELSE cards[d]
    BY <1>2 DEF Claim, TypeOK
  <1>4. AssignCard(cards[c], agents[n].id, n).owner = agents[n].id /\ AssignCard(cards[c], agents[n].id, n).worktree = n
    BY <1>2 DEF AssignCard, Card
  <1>5. \A d \in InDevelopment' :
          IF d = c THEN cards'[d].owner = agents[n].id /\ cards'[d].worktree = n
          ELSE d \in InDevelopment /\ cards'[d] = cards[d]
    BY <1>3, <1>4 DEF InDevelopment
  <1>6. \A m \in Taken : agents[m].id = agents[n].id => m = n
    BY DEF SeparateInv
  <1>7. \A d \in InDevelopment', m \in Taken' : cards'[d].owner = agents'[m].id => cards'[d].worktree = m
    BY <1>1, <1>5, <1>6 DEF SeparateInv
  <1>8. \A d, e \in InDevelopment' : cards'[d].owner = cards'[e].owner => d = e
    BY <1>5 DEF SeparateInv
  <1> QED BY <1>1, <1>7, <1>8 DEF SeparateInv

(* An idle Developer holds no card, neither by owner nor by worktree.       *)
LEMMA ReassignSeparate ==
    ASSUME IndInv, SeparateInv, TrailInv, ReassignIdle
    PROVE  SeparateInv'
  <1> USE DEF IndInv
  <1> PICK visit \in todo, c \in CardIds : Held(visit[1]) = {} /\ cards' = Claim(visit[1], c)
    BY DEF ReassignIdle
  <1>1. visit[1] \in Taken
    BY DEF Taken, TypeOK, LoopsInv
  <1>2. \A d \in InDevelopment : cards[d].owner # agents[visit[1]].id
    BY DEF Held, HeldBy, InDevelopment
  <1>3. fresh' = None /\ UNCHANGED agents
    BY DEF ReassignIdle, TrailInv
  <1> QED BY <1>1, <1>2, <1>3, ClaimSeparate

(* A new Developer that finds no card to claim changes no card.             *)
LEMMA SpawnWithoutCard ==
    ASSUME IndInv, SpawnClaim, agents' = EndAgent(fresh), UNCHANGED cards
    PROVE  NoClaim
  <1>1. fresh \in Names /\ fresh' = None /\ pc' = pc /\ UNCHANGED rows
    BY DEF SpawnClaim, IndInv, TypeOK
  <1> QED BY <1>1, ColumnsKept DEF NoClaim, Touched, IndInv

(* Nobody gives the new Developer a card before it claims its first.        *)
LEMMA SpawnClaimSeparate ==
    ASSUME IndInv, SeparateInv, SpawnClaim
    PROVE  SeparateInv'
  <1> USE DEF IndInv
  <1>1. fresh \in Taken /\ fresh' = None
    BY DEF SpawnClaim, Taken, TypeOK, LoopsInv
  <1>2. CASE agents' = EndAgent(fresh) /\ UNCHANGED cards
    BY <1>2, SpawnWithoutCard, NoClaimSeparate
  <1>3. CASE UNCHANGED agents /\ \E c \in CardIds : cards' = Claim(fresh, c)
    <2>1. \A d \in InDevelopment : cards[d].owner # agents[fresh].id
      BY <1>1 DEF SeparateInv, Taken, SpawnClaim
    <2> QED BY <1>1, <1>3, <2>1, ClaimSeparate
  <1> QED BY <1>2, <1>3 DEF SpawnClaim

(* The next name has no row yet, and the next id no card.                   *)
LEMMA SpawnInsertSeparate ==
    ASSUME ~RootWorktree, IndInv, SeparateInv, SpawnInsert
    PROVE  SeparateInv'
  <1> USE DEF IndInv
  <1> DEFINE k == Cardinality(Taken)
             n == k + 1
             new(id) == [exists |-> TRUE, id |-> id, over |-> FALSE, ended |-> FALSE, worktree |-> n]
  <1>1. IsFiniteSet(Taken) /\ k \in Nat
    BY BoardConstants, FS_Subset, FS_CardinalityType DEF Taken
  <1>2. NextName = n /\ AgentCwd(n) = {n}
    BY DEF NextName, Taken, AgentCwd
  <1>3. Taken = 1..k
    BY DEF SeparateInv
  <1>4. n \notin Taken
    BY <1>1, <1>3
  <1>5. n \in Names /\ ~HasRow(n)
    BY <1>2, <1>4 DEF SpawnInsert, Taken
  <1>6. \E id \in AgentIds : NextId(id) /\ agents' = [agents EXCEPT ![n] = new(id)] /\ fresh' = n
    BY <1>2, <1>5 DEF SpawnInsert
  <1> PICK id \in AgentIds : NextId(id) /\ agents' = [agents EXCEPT ![n] = new(id)] /\ fresh' = n
    BY <1>6
  <1>7. \A m \in Names : IF m = n THEN agents'[m].exists /\ agents'[m].id = id /\ agents'[m].worktree = n
                         ELSE agents'[m] = agents[m]
    BY <1>5 DEF TypeOK
  <1>8. \A m \in Taken : m \in Names /\ agents[m].id \in Nat /\ agents[m].id < id
    BY BoardConstants DEF Taken, NextId, LoopsInv
  <1>9. id \in Nat
    BY BoardConstants
  <1> HIDE DEF n
  <1>10. Taken' = Taken \cup {n}
    BY <1>5, <1>7 DEF Taken, HasRow
  <1>11. Taken' = 1..Cardinality(Taken')
    <2>1. Cardinality(Taken') = k + 1
      BY <1>1, <1>4, <1>10, FS_AddElement
    <2>2. 1..(k + 1) = (1..k) \cup {k + 1}
      BY <1>1
    <2> QED BY <1>3, <1>10, <2>1, <2>2 DEF n
  <1>12. \A m \in Taken : m # n /\ agents'[m] = agents[m] /\ agents'[m].id # id
    BY <1>4, <1>7, <1>8, <1>9
  <1>13. agents'[n].id = id /\ agents'[n].worktree = n
    BY <1>5, <1>7
  <1>14. \A m, o \in Taken' : agents'[m].id = agents'[o].id => m = o
    BY <1>10, <1>12, <1>13 DEF SeparateInv
  <1>15. \A m \in Taken' : agents'[m].worktree = m
    BY <1>10, <1>12, <1>13 DEF SeparateInv
  <1>16. UNCHANGED cards /\ InDevelopment' = InDevelopment
    BY DEF SpawnInsert, InDevelopment
  <1>17. \A c \in InDevelopment : cards[c].owner # id
    <2> SUFFICES ASSUME NEW c \in InDevelopment PROVE cards[c].owner # id
      OBVIOUS
    <2>1. c \in CardIds /\ cards[c].owner # None
      BY DEF InDevelopment, CardsInv, SoundCard, OwnedInDevelopment
    <2>2. PICK m \in Taken : agents[m].id = cards[c].owner
      BY <2>1 DEF CardsInv, OwnerRowExists, Owners, Taken
    <2> QED BY <2>2, <1>12
  <1>18. \A c \in InDevelopment', m \in Taken' : cards'[c].owner = agents'[m].id => cards'[c].worktree = m
    BY <1>10, <1>12, <1>13, <1>16, <1>17 DEF SeparateInv
  <1>19. \A c, d \in InDevelopment' : cards'[c].owner = cards'[d].owner => c = d
    BY <1>16 DEF SeparateInv
  <1>20. fresh' = n /\ \A c \in InDevelopment' : cards'[c].owner # agents'[fresh'].id
    BY <1>13, <1>16, <1>17
  <1> QED BY <1>11, <1>14, <1>15, <1>18, <1>19, <1>20 DEF SeparateInv

(* A claim writes the transition row of the stage it moves the card to.     *)
LEMMA ClaimTrail ==
    ASSUME TypeOK, TrailInv, NEW n \in Names, NEW c \in CardIds, cards' = Claim(n, c),
           pc' = pc, pc # "dedupe", fresh' \in {fresh, None}
    PROVE  TrailInv'
  <1>1. \A d \in CardIds : cards'[d] = cards[d]
            \/ \E agent, worktree : cards'[d] = AssignCard(cards[d], agent, worktree)
    BY DEF Claim, TypeOK
  <1>2. ASSUME NEW d \in CardIds, NEW agent, NEW worktree, TrailAgrees(cards[d])
        PROVE  TrailAgrees(AssignCard(cards[d], agent, worktree))
    <2>1. cards[d] \in Card
      BY DEF TypeOK
    <2> QED BY <1>2, <2>1 DEF AssignCard, RecordTransition, TrailAgrees, Card
  <1> QED BY <1>1, <1>2 DEF TrailInv

(* Every step keeps the trail.                                              *)
LEMMA TrailStep == IndInv /\ TrailInv /\ [Next]_vars => TrailInv'
  <1> SUFFICES ASSUME IndInv, TrailInv, [Next]_vars PROVE TrailInv'
    OBVIOUS
  <1> USE DEF IndInv
  <1>1. CASE ReassignIdle
    <2>1. \E n \in Names, c \in CardIds : cards' = Claim(n, c)
      BY <1>1 DEF ReassignIdle, TypeOK
    <2>2. pc = "carded" /\ pc' = pc /\ fresh' = fresh
      BY <1>1 DEF ReassignIdle
    <2> QED BY <2>1, <2>2, ClaimTrail
  <1>2. CASE SpawnInsert
    BY <1>2 DEF SpawnInsert, TrailInv
  <1>3. CASE SpawnClaim /\ agents' = EndAgent(fresh) /\ UNCHANGED cards
    BY <1>3, SpawnWithoutCard, NoClaimTrail
  <1>4. CASE SpawnClaim /\ \E c \in CardIds : cards' = Claim(fresh, c)
    <2>1. fresh \in Names /\ pc = "spawn" /\ pc' = pc /\ fresh' = None
      BY <1>4 DEF SpawnClaim, TypeOK, TrailInv
    <2> QED BY <1>4, <2>1, ClaimTrail
  <1>5. CASE ~(ReassignIdle \/ SpawnInsert \/ SpawnClaim)
    BY <1>5, TickNoClaim, OthersNoClaim, NoClaimTrail DEF Next, ServiceStep
  <1> QED BY <1>1, <1>2, <1>3, <1>4, <1>5 DEF SpawnClaim

(* Every step keeps rows and cards apart, when each Developer gets a        *)
(* worktree of its own.                                                     *)
LEMMA SeparateStep ==
    ASSUME ~RootWorktree
    PROVE  IndInv /\ TrailInv /\ SeparateInv /\ [Next]_vars => SeparateInv'
  <1> SUFFICES ASSUME IndInv, TrailInv, SeparateInv, [Next]_vars PROVE SeparateInv'
    OBVIOUS
  <1>1. CASE ReassignIdle \/ SpawnInsert \/ SpawnClaim
    BY <1>1, ReassignSeparate, SpawnInsertSeparate, SpawnClaimSeparate
  <1>2. CASE ~(ReassignIdle \/ SpawnInsert \/ SpawnClaim)
    BY <1>2, TickNoClaim, OthersNoClaim, NoClaimSeparate DEF Next, ServiceStep, IndInv
  <1> QED BY <1>1, <1>2

(* A fresh board has no rows and nothing in development.                    *)
LEMMA InitSeparate == Init => SeparateInv /\ TrailInv
  <1> SUFFICES ASSUME Init PROVE SeparateInv /\ TrailInv
    OBVIOUS
  <1>1. Taken = {} /\ InDevelopment = {} /\ fresh = None
    BY DEF Init, Taken, HasRow, NoRow, InDevelopment, QueueWorklane
  <1>2. Taken = 1..Cardinality(Taken)
    BY <1>1, FS_EmptySet
  <1>3. SeparateInv
    BY <1>1, <1>2 DEF SeparateInv
  <1>4. TrailInv
    BY DEF Init, TrailInv, TrailAgrees, QueueWorklane
  <1> QED BY <1>3, <1>4

(* The trail invariant holds in every reachable state.                      *)
LEMMA TrailInvariant == Spec => []TrailInv
  BY BoardInvariant, InitSeparate, TrailStep, PTL DEF Spec

(* So does the other one, when each Developer gets a worktree of its own.   *)
LEMMA SeparateInvariant ==
    ASSUME ~RootWorktree
    PROVE  Spec => []SeparateInv
  BY BoardInvariant, TrailInvariant, InitSeparate, SeparateStep, PTL DEF Spec

(* No live Developer is matched by two development cards, by owner or by    *)
(* worktree, as long as git gives each Developer a worktree of its own.     *)
THEOREM DeveloperHasOneCard ==
    ASSUME ~RootWorktree
    PROVE  Spec => []OneCardPerDeveloper
  <1>1. IndInv /\ SeparateInv => OneCardPerDeveloper
    <2> SUFFICES ASSUME IndInv, SeparateInv, NEW n \in Names, Active(n), NEW c \in Held(n)
                 PROVE  cards[c].owner = agents[n].id /\ c \in InDevelopment
      BY DEF OneCardPerDeveloper, SeparateInv
    <2>1. n \in Taken /\ c \in InDevelopment /\ cards[c].owner # None
      BY DEF Active, Taken, Held, HeldBy, InDevelopment, IndInv, CardsInv, SoundCard, OwnedInDevelopment
    <2>2. PICK m \in Taken : agents[m].id = cards[c].owner
      BY <2>1 DEF IndInv, CardsInv, OwnerRowExists, Owners, Taken, InDevelopment
    <2>3. cards[c].worktree = m /\ agents[n].worktree = n
      BY <2>1, <2>2 DEF SeparateInv
    <2>4. cards[c].owner = agents[n].id \/ m = n
      BY <2>3 DEF Held, HeldBy
    <2> QED BY <2>1, <2>2, <2>4
  <1> QED BY <1>1, BoardInvariant, SeparateInvariant, PTL

(* A Developer that owns a development card is not stopped for want of one. *)
THEOREM CardedDevelopersStay ==
    ASSUME ~RootWorktree
    PROVE  Spec => CardedAreKept
  <1>1. IndInv /\ OneCardPerDeveloper => [StopUncarded => \A n \in Names, c \in InDevelopment :
            Active(n) /\ cards[c].owner = agents[n].id => ~agents'[n].over]_vars
    <2> SUFFICES ASSUME IndInv, OneCardPerDeveloper, StopUncarded,
                        NEW n \in Names, NEW c \in InDevelopment, Active(n), cards[c].owner = agents[n].id
                 PROVE  ~agents'[n].over
      OBVIOUS
    <2>1. PICK visit \in todo :
            /\ \/ \E d, e \in Held(visit[1]) : d # e
               \/ Held(visit[1]) = {}
            /\ agents' = EndAgent(visit[1])
      BY DEF StopUncarded
    <2>2. c \in Held(n)
      BY DEF Held, HeldBy, InDevelopment
    <2>3. visit[1] # n
      BY <2>1, <2>2 DEF OneCardPerDeveloper
    <2>4. agents'[n] = agents[n]
      BY <2>1, <2>3 DEF EndAgent, IndInv, TypeOK
    <2> QED BY <2>4 DEF Active
  <1> QED BY <1>1, BoardInvariant, DeveloperHasOneCard, PTL DEF CardedAreKept

(* Without cards of the test loop the trail of a card ends with its stage.  *)
THEOREM TrailsAreComplete ==
    ASSUME TestCards = {}
    PROVE  Spec => []TrailIsComplete
  <1>1. TrailInv => TrailIsComplete
    BY DEF TrailInv, TrailIsComplete
  <1> QED BY <1>1, TrailInvariant, PTL

-----------------------------------------------------------------------------
(***************************************************************************)
(* The card board implements CardLifecycle: each step is a move of the     *)
(* abstract board or leaves it alone.                                      *)
(***************************************************************************)

(* The moves of the abstract board that are not reports.                    *)
Moves ==
    \/ UNCHANGED Lifecycle!vars
    \/ \E c \in CardIds : Lifecycle!Route(c) \/ Lifecycle!Return(c)
                            \/ \E a \in AgentIds : Lifecycle!Assign(c, a)
    \/ \E C \in SUBSET CardIds : Lifecycle!Retire(C)

(* A step that leaves the board and the reports alone is a stutter.         *)
LEMMA Stutters ==
    ASSUME UNCHANGED <<cards, filed>>
    PROVE  UNCHANGED Lifecycle!vars
  BY DEF Lifecycle!vars

(* The images of the board when one card of it is rewritten.                *)
LEMMA StageOfCard ==
    ASSUME NEW c \in CardIds, NEW new, \A d \in CardIds : cards'[d] = IF d = c THEN new ELSE cards[d]
    PROVE  /\ [d \in CardIds |-> cards'[d].stage] = [[d \in CardIds |-> cards[d].stage] EXCEPT ![c] = new.stage]
           /\ [d \in CardIds |-> cards'[d].owner] = [[d \in CardIds |-> cards[d].owner] EXCEPT ![c] = new.owner]
  OBVIOUS

(* A card without an owner is where Move leaves it.                         *)
LEMMA MoveOfCard ==
    ASSUME NEW c \in CardIds, NEW new, new.owner = None,
           \A d \in CardIds : cards'[d] = IF d = c THEN new ELSE cards[d]
    PROVE  Lifecycle!Move(c, new.stage)
  BY StageOfCard DEF Lifecycle!Move

(* One card loses its owner and goes where the abstract board allows.       *)
LEMMA OneCardMoves ==
    ASSUME IndInv, NEW c \in CardIds, NEW new, cards' = [cards EXCEPT ![c] = new],
           UNCHANGED filed, new.owner = None,
           \/ new.stage \in {"planned", "done"}
           \/ new.stage = "integration" /\ filed[c] # None
    PROVE  Moves
  <1>1. cards \in [CardIds -> Card]
    BY DEF IndInv, TypeOK
  <1>2. \A d \in CardIds : cards'[d] = IF d = c THEN new ELSE cards[d]
    BY <1>1
  <1>m. Lifecycle!Move(c, new.stage)
    BY <1>2, MoveOfCard
  <1>3. CASE new.stage = "planned"
    <2>1. Lifecycle!Return(c)
      BY <1>m, <1>3 DEF Lifecycle!Return
    <2> QED BY <2>1 DEF Moves
  <1>4. CASE new.stage = "done"
    <2>1. Lifecycle!Retire({c})
      BY <1>2, <1>4 DEF Lifecycle!Retire
    <2> QED BY <2>1 DEF Moves
  <1>5. CASE new.stage = "integration" /\ filed[c] # None
    <2>1. Lifecycle!Route(c)
      BY <1>m, <1>5 DEF Lifecycle!Route
    <2> QED BY <2>1 DEF Moves
  <1> QED BY <1>3, <1>4, <1>5

(* A claim takes a planned card.                                            *)
LEMMA ClaimMoves ==
    ASSUME IndInv, NEW n \in Names, HasRow(n), NEW c \in Candidates,
           cards' = Claim(n, c), UNCHANGED filed
    PROVE  Moves
  <1>1. c \in CardIds /\ cards[c].stage = "planned"
    BY DEF Candidates
  <1>2. agents[n].id \in AgentIds /\ agents[n].worktree \in Worktrees \cup {Root, None}
    BY DEF IndInv, LoopsInv, TypeOK, AgentRow, Names
  <1>3. SoundCard(cards[c]) /\ cards \in [CardIds -> Card]
    BY <1>1 DEF IndInv, CardsInv, TypeOK
  <1> DEFINE new == AssignCard(cards[c], agents[n].id, agents[n].worktree)
  <1>4. new.stage = "development" /\ new.owner = agents[n].id
    BY <1>2, <1>3, AssignSound
  <1>5. cards' = [cards EXCEPT ![c] = new]
    BY DEF Claim
  <1> HIDE DEF new
  <1>6. \A d \in CardIds : cards'[d] = IF d = c THEN new ELSE cards[d]
    BY <1>3, <1>5
  <1>7. /\ [d \in CardIds |-> cards'[d].stage] = [[d \in CardIds |-> cards[d].stage] EXCEPT ![c] = new.stage]
        /\ [d \in CardIds |-> cards'[d].owner] = [[d \in CardIds |-> cards[d].owner] EXCEPT ![c] = new.owner]
    BY <1>1, <1>6, StageOfCard
  <1> PICK a \in AgentIds : a = agents[n].id
    BY <1>2
  <1>8. Lifecycle!Assign(c, a)
    BY <1>1, <1>4, <1>7 DEF Lifecycle!Assign
  <1> QED BY <1>1, <1>8 DEF Moves

(* The steps of the scheduler tick.                                         *)
LEMMA SchedulerMoves ==
    ASSUME IndInv, SchedulerStep
    PROVE  Moves
  <1> USE DEF IndInv
  <1>1. CASE UNCHANGED <<cards, filed>>
    BY <1>1, Stutters DEF Moves
  <1>2. CASE \E row \in rows : cards' = [cards EXCEPT ![row[1]] = RequeueCard(cards[row[1]])] /\ UNCHANGED filed
    <2> PICK row \in rows : cards' = [cards EXCEPT ![row[1]] = RequeueCard(cards[row[1]])] /\ UNCHANGED filed
      BY <1>2
    <2>1. row[1] \in CardIds /\ SoundCard(cards[row[1]])
      BY DEF TypeOK, CardsInv
    <2> QED BY <2>1, OneCardMoves, RequeueSound
  <1>3. CASE \E row \in rows : cards' = [cards EXCEPT ![row[1]] = RetireCard(cards[row[1]])] /\ UNCHANGED filed
    <2> PICK row \in rows : cards' = [cards EXCEPT ![row[1]] = RetireCard(cards[row[1]])] /\ UNCHANGED filed
      BY <1>3
    <2>1. row[1] \in CardIds /\ SoundCard(cards[row[1]])
      BY DEF TypeOK, CardsInv
    <2> QED BY <2>1, OneCardMoves, RetireSound
  <1>4. CASE \E row \in rows : cards' = [cards EXCEPT ![row[1]] = AcceptReview(cards[row[1]])] /\ filed[row[1]] # None /\ UNCHANGED filed
    <2> PICK row \in rows : cards' = [cards EXCEPT ![row[1]] = AcceptReview(cards[row[1]])] /\ filed[row[1]] # None /\ UNCHANGED filed
      BY <1>4
    <2>1. row[1] \in CardIds /\ SoundCard(cards[row[1]])
      BY DEF TypeOK, CardsInv
    <2> QED BY <2>1, OneCardMoves, AcceptSound
  <1>5. CASE \E row \in rows : cards' = [cards EXCEPT ![row[1]] = CompleteCard(cards[row[1]])] /\ UNCHANGED filed
    <2> PICK row \in rows : cards' = [cards EXCEPT ![row[1]] = CompleteCard(cards[row[1]])] /\ UNCHANGED filed
      BY <1>5
    <2>1. row[1] \in CardIds /\ SoundCard(cards[row[1]])
      BY DEF TypeOK, CardsInv
    <2> QED BY <2>1, OneCardMoves, CompleteSound
  <1>6. CASE RetireDuplicates
    <2> PICK C \in SUBSET CardIds : C = {c \in CardIds : <<c, None>> \in rows}
      OBVIOUS
    <2>1. \A c \in CardIds :
            /\ cards'[c].stage = IF c \in C THEN "done" ELSE cards[c].stage
            /\ cards'[c].owner = IF c \in C THEN None ELSE cards[c].owner
      BY <1>6, RetireUnloggedSound DEF RetireDuplicates, CardsInv
    <2>2. UNCHANGED filed
      BY <1>6 DEF RetireDuplicates
    <2>3. Lifecycle!Retire(C)
      BY <2>1, <2>2 DEF Lifecycle!Retire
    <2> QED BY <2>3 DEF Moves
  <1>7. CASE ReassignIdle
    <2> PICK visit \in todo, c \in Candidates : cards' = Claim(visit[1], c)
      BY <1>7 DEF ReassignIdle, FirstCandidate
    <2>1. visit[1] \in Names /\ HasRow(visit[1])
      BY DEF TypeOK, LoopsInv
    <2> QED BY <1>7, <2>1, ClaimMoves DEF ReassignIdle
  <1>8. CASE SpawnClaim
    <2>1. CASE UNCHANGED cards
      BY <1>8, <2>1, Stutters DEF Moves, SpawnClaim
    <2>2. CASE \E c \in Candidates : cards' = Claim(fresh, c)
      <3>1. fresh \in Names /\ HasRow(fresh) /\ UNCHANGED filed
        BY <1>8 DEF SpawnClaim, TypeOK, LoopsInv
      <3> QED BY <2>2, <3>1, ClaimMoves
    <2> QED BY <1>8, <2>1, <2>2 DEF SpawnClaim, FirstCandidate
  <1>9. CASE ReviewCard \/ SettleFailure
    BY <1>1, <1>3, <1>4, <1>5, <1>9 DEF ReviewCard, SettleFailure
  <1>10. CASE TeardownCard \/ RequeueTerminal \/ RetireSuperseded
    BY <1>2, <1>3, <1>10 DEF TeardownCard, RequeueTerminal, RetireSuperseded
  <1>11. CASE Advance \/ VisitAgent \/ TeardownEnd \/ KeepCarded \/ StopUncarded \/ SpawnRefused \/ SpawnInsert
    BY <1>1, <1>11 DEF Advance, VisitAgent, TeardownEnd, KeepCarded, StopUncarded, SpawnRefused, SpawnInsert
  <1> QED BY <1>6, <1>7, <1>8, <1>9, <1>10, <1>11 DEF SchedulerStep

(* The steps of the integration pass.                                       *)
LEMMA PassMoves ==
    ASSUME IndInv, PassStep
    PROVE  Moves
  <1> USE DEF IndInv
  <1>1. CASE PassAdvance
    BY <1>1, Stutters DEF Moves, PassAdvance
  <1>2. CASE PassReview
    <2> PICK c \in irows :
          cards' = IF filed[c] = None THEN cards ELSE [cards EXCEPT ![c] = AcceptReview(@)]
      BY <1>2 DEF PassReview
    <2>1. c \in CardIds /\ UNCHANGED filed /\ SoundCard(cards[c])
      BY <1>2 DEF PassReview, TypeOK, CardsInv
    <2>2. CASE filed[c] = None
      BY <2>1, <2>2, Stutters DEF Moves
    <2>3. CASE filed[c] # None
      BY <2>1, <2>3, OneCardMoves, AcceptSound
    <2> QED BY <2>2, <2>3
  <1>3. CASE PassLane
    <2> PICK c \in irows :
          \/ cards' = [cards EXCEPT ![c] = CompleteCard(@)]
          \/ cards' = [cards EXCEPT ![c] = UpdateWorklaneStatus(@, "integration_failed")]
          \/ cards' = [cards EXCEPT ![c] = RetireCard(@)]
      BY <1>3 DEF PassLane
    <2>1. c \in CardIds /\ UNCHANGED filed /\ SoundCard(cards[c]) /\ filed[c] # None
      BY <1>3 DEF PassLane, TypeOK, CardsInv, LoopsInv, PlainLoopsInv
    <2> QED BY <2>1, OneCardMoves, CompleteSound, FailSound, RetireSound
  <1> QED BY <1>1, <1>2, <1>3 DEF PassStep

(* Every step other than a report is a move of the abstract board.          *)
LEMMA OthersMove ==
    ASSUME IndInv, [Next]_vars, ~AgentReport
    PROVE  Moves
  <1>1. CASE SchedulerStep
    BY <1>1, SchedulerMoves
  <1>2. CASE PassStep
    BY <1>2, PassMoves
  <1>3. CASE TickAbort \/ PassAbort \/ UpdateAgent \/ ProcessDies \/ Stop \/ Run \/ UNCHANGED vars
    <2>1. UNCHANGED <<cards, filed>>
      BY <1>3 DEF TickAbort, PassAbort, UpdateAgent, ProcessDies, Stop, Run, vars
    <2> QED BY <2>1, Stutters DEF Moves
  <1> QED BY <1>1, <1>2, <1>3 DEF Next, ServiceStep, WorkerStep

(* A report is a report of the abstract board.                              *)
LEMMA ReportRefines ==
    ASSUME IndInv, AgentReport
    PROVE  \E c \in CardIds : Lifecycle!Report(c)
  <1> USE DEF IndInv
  <1> PICK n \in Names, kind \in Kinds, withStage \in BOOLEAN :
        /\ proc[n] \in CardIds
        /\ filed' = [filed EXCEPT ![proc[n]] = kind]
        /\ cards' = IF withStage THEN [cards EXCEPT ![proc[n]] = ReportCard(@, kind)] ELSE cards
    BY DEF AgentReport
  <1> PICK c \in CardIds : c = proc[n]
    OBVIOUS
  <1> PICK new : new = ReportCard(cards[c], kind)
    OBVIOUS
  <1>1. kind \in ReportKinds /\ kind # None /\ SoundCard(cards[c])
    BY BoardConstants DEF CardsInv
  <1>2. /\ cards \in [CardIds -> Card] /\ filed \in [CardIds -> Kinds \cup {None}]
        /\ \A d \in CardIds : filed'[d] = IF d = c THEN kind ELSE filed[d]
    BY <1>1 DEF TypeOK
  <1>3. \A d \in CardIds : cards'[d] = IF withStage /\ d = c THEN new ELSE cards[d]
    BY <1>1, <1>2
  <1>4. \/ cards[c].stage = "development" /\ new.owner = None
             /\ (new.stage = "done" \/ (new.stage = "review" /\ kind \in ReadyKinds))
        \/ cards[c].stage = "review" /\ new.owner = None /\ new.stage \in {"integration", "done"}
        \/ new.stage = cards[c].stage /\ new.owner = cards[c].owner
    BY <1>1, ReportSound
  <1>5. Lifecycle!Report(c)
    <2>1. [d \in CardIds |-> filed'[d] # None] = [[d \in CardIds |-> filed[d] # None] EXCEPT ![c] = TRUE]
      BY <1>1, <1>2
    <2>2. CASE cards'[c].stage = cards[c].stage /\ cards'[c].owner = cards[c].owner
      <3>1. \A d \in CardIds : cards'[d].stage = cards[d].stage /\ cards'[d].owner = cards[d].owner
        BY <1>3, <2>2
      <3> QED BY <1>1, <2>1, <3>1 DEF Lifecycle!Report
    <2>3. CASE withStage /\ new.owner = None
      <3>0. \A d \in CardIds : cards'[d] = IF d = c THEN new ELSE cards[d]
        BY <1>3, <2>3
      <3>1. Lifecycle!Move(c, new.stage)
        BY <1>1, <2>3, <3>0, MoveOfCard
      <3>2. \/ new.stage = cards[c].stage /\ new.owner = cards[c].owner
            \/ cards[c].stage = "development" /\ new.stage \in {"review", "done"}
            \/ cards[c].stage = "review" /\ new.stage \in {"integration", "done"}
        BY <1>4
      <3>3. CASE new.stage = cards[c].stage /\ new.owner = cards[c].owner
        <4>1. cards'[c].stage = cards[c].stage /\ cards'[c].owner = cards[c].owner
          BY <1>1, <1>3, <2>3, <3>3
        <4> QED BY <2>2, <4>1
      <3> QED BY <1>1, <2>1, <3>1, <3>2, <3>3 DEF Lifecycle!Report
    <2> QED BY <1>1, <1>3, <1>4, <2>2, <2>3
  <1> QED BY <1>5

-----------------------------------------------------------------------------

(* The board implements the abstract lifecycle of its cards: assigned only  *)
(* while planned, reviewed only out of development, routed only on report.  *)
THEOREM LifecycleHolds == Spec => KeepsLifecycle
  <1>1. Init => Lifecycle!Init
    <2> SUFFICES ASSUME Init PROVE Lifecycle!Init
      OBVIOUS
    <2>1. \A c \in CardIds : /\ cards[c].stage = "planned" /\ cards[c].owner = None
                             /\ (filed[c] # None) = FALSE
      BY DEF Init, QueueWorklane
    <2> QED BY <2>1 DEF Lifecycle!Init
  <1>2. IndInv /\ [Next]_vars => [Lifecycle!Next]_(Lifecycle!vars)
    <2> SUFFICES ASSUME IndInv, [Next]_vars PROVE [Lifecycle!Next]_(Lifecycle!vars)
      OBVIOUS
    <2>1. CASE AgentReport
      BY <2>1, ReportRefines DEF Lifecycle!Next
    <2>2. CASE ~AgentReport
      BY <2>2, OthersMove DEF Moves, Lifecycle!Next
    <2> QED BY <2>1, <2>2
  <1> QED BY <1>1, <1>2, BoardInvariant, PTL DEF Spec, KeepsLifecycle, Lifecycle!Spec
=============================================================================
