----------------------------- MODULE CardsProofs -----------------------------
(***************************************************************************)
(* What the row operators of module Cards return and preserve.             *)
(***************************************************************************)
EXTENDS Cards, TLAPS

(* The parts every statement of db.py keeps.                                *)
SoundCard(card) ==
    /\ card \in Card
    /\ BackfillIsIdentity(card)
    /\ OwnedInDevelopment(card)

(* What is left of that when an owner is looked up whose row is gone.       *)
PlainCard(card) == card \in Card /\ BackfillIsIdentity(card)

(* A sound row is a plain one.                                              *)
LEMMA SoundIsPlain == \A card : SoundCard(card) => PlainCard(card)
  BY DEF SoundCard, PlainCard

(* init_db changes nothing in a row exactly when the stage is the one of a  *)
(* mapped status and only a code role asks for integration.                 *)
LEMMA BackfillFixpoint ==
    ASSUME NEW card \in Card
    PROVE  BackfillIsIdentity(card) <=>
             /\ card.status \in MappedStatuses => card.stage = StageForStatus(card.status)
             /\ card.ireq => card.role \in CodeRoles
  BY DEF BackfillIsIdentity, Backfill, Card

(* move_card_stage makes a row sound, owner or not, when it is given a      *)
(* stage other than development and a status of that stage.                 *)
LEMMA MoveSound ==
    ASSUME NEW card, PlainCard(card),
           NEW stage \in Stages \ {"development"}, NEW status \in Statuses,
           status \in MappedStatuses => stage = StageForStatus(status)
    PROVE  /\ SoundCard(MoveCardStage(card, stage, status))
           /\ MoveCardStage(card, stage, status).stage = stage
           /\ MoveCardStage(card, stage, status).status = status
           /\ MoveCardStage(card, stage, status).owner = None
  <1> DEFINE moved == MoveCardStage(card, stage, status)
  <1>1. moved \in Card /\ moved.stage = stage /\ moved.status = status
          /\ moved.owner = None /\ moved.ireq = card.ireq /\ moved.role = card.role
    BY DEF MoveCardStage, RecordTransition, Card, PlainCard
  <1>2. card.ireq => card.role \in CodeRoles
    BY BackfillFixpoint DEF PlainCard
  <1>3. BackfillIsIdentity(moved)
    BY <1>1, <1>2, BackfillFixpoint
  <1>4. OwnedInDevelopment(moved)
    BY <1>1 DEF OwnedInDevelopment
  <1> QED BY <1>1, <1>3, <1>4 DEF SoundCard

(* queue_worklane creates a sound row: stage, status and flag agree.        *)
LEMMA QueueSound ==
    ASSUME NEW role \in Roles, NEW ireq \in BOOLEAN, ireq => role \in CodeRoles
    PROVE  SoundCard(QueueWorklane(role, ireq))
  <1> DEFINE card == QueueWorklane(role, ireq)
  <1>1. card \in Card /\ card.stage = "planned" /\ card.status = "queued"
          /\ card.owner = None /\ card.ireq = ireq /\ card.role = role
    BY DEF QueueWorklane, Card, Stages, Statuses, MappedStatuses
  <1>2. BackfillIsIdentity(card)
    BY <1>1, BackfillFixpoint DEF StageForStatus
  <1> QED BY <1>1, <1>2 DEF SoundCard, OwnedInDevelopment

(* assign_card keeps a row sound and gives it the owner it names.           *)
LEMMA AssignSound ==
    ASSUME NEW card, SoundCard(card),
           NEW agent \in AgentIds, NEW worktree \in Worktrees \cup {Root, None}
    PROVE  /\ SoundCard(AssignCard(card, agent, worktree))
           /\ AssignCard(card, agent, worktree).stage = "development"
           /\ AssignCard(card, agent, worktree).status = "assigned"
           /\ AssignCard(card, agent, worktree).owner = agent
           /\ AssignCard(card, agent, worktree).worktree = worktree
  <1> DEFINE taken == AssignCard(card, agent, worktree)
  <1>1. taken \in Card /\ taken.stage = "development" /\ taken.status = "assigned"
          /\ taken.owner = agent /\ taken.ireq = card.ireq /\ taken.role = card.role
          /\ taken.worktree = worktree
    BY DEF AssignCard, RecordTransition, Card, SoundCard, Stages, Statuses, MappedStatuses
  <1>2. card.ireq => card.role \in CodeRoles
    BY BackfillFixpoint DEF SoundCard
  <1>3. BackfillIsIdentity(taken)
    BY <1>1, <1>2, BackfillFixpoint DEF StageForStatus
  <1>4. OwnedInDevelopment(taken)
    BY <1>1, CardConstants DEF OwnedInDevelopment
  <1> QED BY <1>1, <1>3, <1>4 DEF SoundCard

(* requeue_card keeps a row sound and takes its owner away.                 *)
LEMMA RequeueSound ==
    ASSUME NEW card, SoundCard(card)
    PROVE  /\ SoundCard(RequeueCard(card))
           /\ RequeueCard(card).stage = "planned"
           /\ RequeueCard(card).status = "queued"
           /\ RequeueCard(card).owner = None
  <1>1. "planned" \in Stages \ {"development"} /\ "queued" \in Statuses /\ StageForStatus("queued") = "planned"
    BY DEF Stages, Statuses, MappedStatuses, StageForStatus
  <1> QED BY <1>1, MoveSound, SoundIsPlain DEF RequeueCard

(* complete_card keeps a row sound, whatever stage the card was in.         *)
LEMMA CompleteSound ==
    ASSUME NEW card, SoundCard(card)
    PROVE  /\ SoundCard(CompleteCard(card))
           /\ CompleteCard(card).stage = "done"
           /\ CompleteCard(card).status \in {"integrated", "done"}
           /\ CompleteCard(card).owner = None
  <1>1. "done" \in Stages \ {"development"}
    BY DEF Stages
  <1>2. \A s \in {"integrated", "done"} : s \in Statuses /\ StageForStatus(s) = "done"
    BY DEF Statuses, MappedStatuses, StageForStatus
  <1> QED BY <1>1, <1>2, MoveSound, SoundIsPlain DEF CompleteCard

(* retire_card keeps a row sound: 'stale' is no status a stage is derived   *)
(* from.                                                                    *)
LEMMA RetireSound ==
    ASSUME NEW card, SoundCard(card)
    PROVE  /\ SoundCard(RetireCard(card))
           /\ RetireCard(card).stage = "done"
           /\ RetireCard(card).status = "stale"
           /\ RetireCard(card).owner = None
  <1>1. "done" \in Stages \ {"development"} /\ "stale" \in Statuses /\ "stale" \notin MappedStatuses
    BY DEF Stages, Statuses, MappedStatuses, UnmappedStatuses
  <1> QED BY <1>1, MoveSound, SoundIsPlain DEF RetireCard

(* The bulk UPDATE of the dedupe loops keeps a row sound, too.              *)
LEMMA RetireUnloggedSound ==
    ASSUME NEW card, SoundCard(card)
    PROVE  /\ SoundCard(RetireUnlogged(card))
           /\ RetireUnlogged(card).stage = "done"
           /\ RetireUnlogged(card).status = "stale"
           /\ RetireUnlogged(card).owner = None
  <1> DEFINE moved == RetireUnlogged(card)
  <1>1. moved \in Card /\ moved.stage = "done" /\ moved.status = "stale"
          /\ moved.owner = None /\ moved.ireq = card.ireq /\ moved.role = card.role
    BY DEF RetireUnlogged, Card, SoundCard, Stages, Statuses, UnmappedStatuses
  <1>2. card.ireq => card.role \in CodeRoles
    BY BackfillFixpoint DEF SoundCard
  <1>3. BackfillIsIdentity(moved)
    BY <1>1, <1>2, BackfillFixpoint DEF MappedStatuses
  <1> QED BY <1>1, <1>3 DEF SoundCard, OwnedInDevelopment

(* An accepted review routes a sound row to integration or to done.         *)
LEMMA AcceptSound ==
    ASSUME NEW card, SoundCard(card)
    PROVE  /\ SoundCard(AcceptReview(card))
           /\ AcceptReview(card).stage \in {"integration", "done"}
           /\ AcceptReview(card).owner = None
  <1>1. "integration" \in Stages \ {"development"} /\ "ready_for_integration" \in Statuses
          /\ StageForStatus("ready_for_integration") = "integration"
    BY DEF Stages, Statuses, MappedStatuses, StageForStatus
  <1> QED BY <1>1, MoveSound, SoundIsPlain, CompleteSound DEF AcceptReview

(* The one status the integration loop writes through                       *)
(* update_worklane_status.                                                  *)
LEMMA FailSound ==
    ASSUME NEW card, SoundCard(card)
    PROVE  /\ SoundCard(UpdateWorklaneStatus(card, "integration_failed"))
           /\ UpdateWorklaneStatus(card, "integration_failed").stage = "integration"
           /\ UpdateWorklaneStatus(card, "integration_failed").owner = None
  <1>1. "integration" \in Stages \ {"development"} /\ "integration_failed" \in Statuses
          /\ StageForStatus("integration_failed") = "integration"
    BY DEF Stages, Statuses, MappedStatuses, StageForStatus
  <1> QED BY <1>1, MoveSound, SoundIsPlain DEF UpdateWorklaneStatus

(* reset-counters on one failed lane.                                       *)
LEMMA ResetSound ==
    ASSUME NEW card, SoundCard(card), card.status = "integration_failed"
    PROVE  SoundCard([card EXCEPT !.status = "ready_for_integration", !.stage = "integration"])
  <1> DEFINE ready == [card EXCEPT !.status = "ready_for_integration", !.stage = "integration"]
  <1>1. ready \in Card /\ ready.stage = "integration" /\ ready.status = "ready_for_integration"
          /\ ready.owner = card.owner /\ ready.ireq = card.ireq /\ ready.role = card.role
    BY DEF Card, SoundCard, Stages, Statuses, MappedStatuses
  <1>2. card.stage = "integration" /\ (card.ireq => card.role \in CodeRoles)
    BY BackfillFixpoint DEF SoundCard, MappedStatuses, StageForStatus
  <1>3. BackfillIsIdentity(ready)
    BY <1>1, <1>2, BackfillFixpoint DEF StageForStatus
  <1> QED BY <1>1, <1>2, <1>3 DEF SoundCard, OwnedInDevelopment

(* A report moves a card out of development or review, or overwrites its    *)
(* status with one that no stage is derived from.                           *)
LEMMA ReportSound ==
    ASSUME NEW card, SoundCard(card), NEW kind \in ReportKinds
    PROVE  LET to == ReportCard(card, kind)
           IN  /\ SoundCard(to)
               /\ \/ /\ card.stage = "development" /\ to.owner = None
                     /\ to.stage = "done" \/ (to.stage = "review" /\ kind \in ReadyKinds)
                  \/ card.stage = "review" /\ to.stage \in {"integration", "done"} /\ to.owner = None
                  \/ to.stage = card.stage /\ to.owner = card.owner
  <1> DEFINE marked == [card EXCEPT !.status = BlockerStatus(kind)]
  <1>1. /\ "review" \in Stages \ {"development"} /\ "needs_verification" \in Statuses
        /\ StageForStatus("needs_verification") = "review"
    BY DEF Stages, Statuses, MappedStatuses, StageForStatus
  <1>2. /\ SoundCard(MoveCardStage(card, "review", "needs_verification"))
        /\ MoveCardStage(card, "review", "needs_verification").stage = "review"
        /\ MoveCardStage(card, "review", "needs_verification").owner = None
    BY <1>1, MoveSound, SoundIsPlain
  <1>3. marked \in Card /\ marked.status \in UnmappedStatuses /\ marked.stage = card.stage
          /\ marked.owner = card.owner /\ marked.ireq = card.ireq /\ marked.role = card.role
    BY DEF BlockerStatus, Card, SoundCard, Statuses, UnmappedStatuses
  <1>4. card.ireq => card.role \in CodeRoles
    BY BackfillFixpoint DEF SoundCard
  <1>5. BackfillIsIdentity(marked)
    BY <1>3, <1>4, BackfillFixpoint DEF MappedStatuses, UnmappedStatuses
  <1>6. SoundCard(marked)
    BY <1>3, <1>5 DEF SoundCard, OwnedInDevelopment
  <1> QED BY <1>2, <1>3, <1>6, RetireSound, AcceptSound DEF ReportCard, IsNonActionable

(* A report on a card whose owner may be gone: the status overwritten is    *)
(* one no stage is derived from, and review is entered out of development.  *)
LEMMA ReportPlain ==
    ASSUME NEW card, PlainCard(card), NEW kind \in ReportKinds
    PROVE  LET to == ReportCard(card, kind)
           IN  /\ PlainCard(to)
               /\ to.stage = "review" /\ card.stage # "review"
                     => card.stage = "development" /\ kind \in ReadyKinds
  <1> DEFINE marked == [card EXCEPT !.status = BlockerStatus(kind)]
             moved(stage, status) == MoveCardStage(card, stage, status)
  <1>1. \A stage \in Stages \ {"development"}, status \in Statuses :
            (status \in MappedStatuses => stage = StageForStatus(status))
               => PlainCard(moved(stage, status)) /\ moved(stage, status).stage = stage
    BY MoveSound, SoundIsPlain
  <1>2. /\ {"review", "integration", "done"} \subseteq Stages \ {"development"}
        /\ {"needs_verification", "ready_for_integration", "integrated", "done", "stale"} \subseteq Statuses
        /\ "stale" \notin MappedStatuses /\ StageForStatus("needs_verification") = "review"
        /\ StageForStatus("ready_for_integration") = "integration"
        /\ StageForStatus("integrated") = "done" /\ StageForStatus("done") = "done"
    BY DEF Stages, Statuses, MappedStatuses, UnmappedStatuses, StageForStatus
  <1>3. PlainCard(moved("review", "needs_verification"))
    BY <1>1, <1>2
  <1>4. PlainCard(moved("done", "stale")) /\ moved("done", "stale").stage = "done"
    BY <1>1, <1>2
  <1>5. PlainCard(AcceptReview(card)) /\ AcceptReview(card).stage # "review"
    BY <1>1, <1>2 DEF AcceptReview, CompleteCard
  <1>6. PlainCard(marked) /\ marked.stage = card.stage
    <2>1. /\ marked \in Card /\ marked.status \in UnmappedStatuses /\ marked.stage = card.stage
          /\ marked.ireq = card.ireq /\ marked.role = card.role
      BY DEF BlockerStatus, Card, PlainCard, Statuses, UnmappedStatuses
    <2>2. card.ireq => card.role \in CodeRoles
      BY BackfillFixpoint DEF PlainCard
    <2>3. BackfillIsIdentity(marked)
      BY <2>1, <2>2, BackfillFixpoint DEF MappedStatuses, UnmappedStatuses
    <2> QED BY <2>1, <2>3 DEF PlainCard
  <1> HIDE DEF marked
  <1> QED BY <1>3, <1>4, <1>5, <1>6 DEF ReportCard, IsNonActionable, RetireCard, marked
=============================================================================
