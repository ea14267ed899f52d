--------------------------- MODULE IntegrationProofs ---------------------------
(***************************************************************************)
(* The integration loop for any number of lanes, resolvers and workers and *)
(* for every setting: what counts as integrated is on the mainline,        *)
(* accepted work stays reachable, a failed lane is left alone by the pass, *)
(* and the loop with its repairs keeps the promise of Landing.             *)
(*                                                                         *)
(* All loops work on rows they selected before.  The invariant says what   *)
(* such a row still is when it is written: its card was handed in and its  *)
(* commit is where the row says (Handed), whoever moved the card           *)
(* meanwhile.  Every step writes at most one card, in one of six ways      *)
(* (Change), and none of them takes that from another card.                *)
(***************************************************************************)
EXTENDS Integration, CardsProofs

(* The pass has a lane in hand; in the first of these phases it has not     *)
(* decided it yet.                                                          *)
Deciding == phase \in {"begin", "merge", "push", "record"}
InHand == Deciding \/ phase \in {"delete", "resolver"}
Selected == queue \cup (IF InHand THEN {lane} ELSE {})

(* The commit of card c is where the pass looks for the work of branch n,   *)
(* if workers leave no older copy of their branch at origin.                *)
Landed(c) == StaleCopies \/ c \in mainline
Found(c, n) == Landed(c) \/ c \in Candidate(n)

BranchesInv == \A n \in Worktrees : remote[n] # None => remote[n] \subseteq local[n]

CardInv(c) ==
    /\ SoundCard(cards[c]) /\ cards[c].ireq
    /\ cards[c].stage = "development" => cards[c].owner = cards[c].worktree
    /\ cards[c].stage \in {"review", "integration"} =>
            cards[c].worktree \in Worktrees /\ Found(c, cards[c].worktree)
    /\ cards[c].status = "integrated" => Landed(c)
    /\ c \in Resolvers => about[c] \in Failure

CardsInv == Lanes \subseteq Born /\ \A c \in Born : CardInv(c)

(* The work of card c was handed in and is found on its branch.             *)
Handed(c) ==
    /\ c \in Born /\ cards[c].stage \in {"review", "integration", "done"}
    /\ cards[c].worktree \in Worktrees /\ Found(c, cards[c].worktree)

(* A selected row still names the branch of its card.                       *)
RowInv(row) ==
    row \in Rows /\ Handed(row[1]) /\ cards[row[1]].worktree = row[2]

PassInv ==
    /\ \A row \in Selected : RowInv(row)
    /\ InHand => lane \notin queue
    /\ \A row \in queue : cards[row[1]].status # "integration_failed"
    /\ Deciding => cards[lane[1]].status # "integration_failed"
    /\ phase = "push" => mainline \subseteq staged /\ (StaleCopies \/ lane[1] \in staged)
    /\ phase = "record" => Landed(lane[1])
    /\ phase = "resolver" => failure \in Types

(* What the tick and the other reviewer hold; a resolver may be retired in  *)
(* any stage, so nothing else is claimed of those.                          *)
TickInv ==
    /\ \A row \in failed : RowInv(row)
    /\ repair = "complete" => Handed(target) /\ Landed(target)
    /\ \A row \in reviews : Handed(row[1])
    /\ open \cup doomed \subseteq Born

IndInv == TypeOK /\ BranchesInv /\ CardsInv /\ PassInv /\ TickInv

-----------------------------------------------------------------------------
(***************************************************************************)
(* Steps of git.                                                           *)
(***************************************************************************)

(* A branch loses no commit and the mainline grows: what was found is found *)
(* again.                                                                   *)
GitGrows ==
    /\ mainline \subseteq mainline'
    /\ \A n \in Worktrees : Candidate(n) \subseteq Candidate(n)'

LEMMA FoundAgain ==
    ASSUME GitGrows, NEW c, NEW n \in Worktrees
    PROVE  /\ Landed(c) => Landed(c)'
           /\ Found(c, n) => Found(c, n)'
  BY DEF GitGrows, Landed, Found

(* A lane in hand whose branch is merged has landed.                        *)
LEMMA MergedLanded ==
    ASSUME NEW c, NEW n, Found(c, n), Merged(n)
    PROVE  Landed(c)
  BY DEF Found, Merged, Landed

(* The lane in hand is a sound row.                                         *)
LEMMA LaneInHand ==
    ASSUME IndInv, InHand
    PROVE  /\ lane \in Rows /\ lane[1] \in CardIds /\ lane[2] \in Worktrees /\ RowInv(lane)
           /\ Handed(lane[1]) /\ Found(lane[1], lane[2])
  BY DEF IndInv, PassInv, Selected, RowInv, Rows, Handed

(* The push puts the staged commits on the mainline.                        *)
LEMMA PushGrows ==
    ASSUME IndInv, Push
    PROVE  GitGrows /\ BranchesInv'
  <1>1. mainline \subseteq mainline' /\ UNCHANGED <<local, remote>>
    BY DEF Push, IndInv, PassInv
  <1> QED BY <1>1 DEF GitGrows, Candidate, IndInv, BranchesInv

(* Deleting the copy on origin leaves the local branch, which has at least  *)
(* its commits.                                                             *)
LEMMA DeleteGrows ==
    ASSUME IndInv, DeleteBranch
    PROVE  GitGrows /\ BranchesInv' /\ remote' \in [Worktrees -> (SUBSET CardIds) \cup {None}]
  <1>1. /\ remote' \in {remote, [remote EXCEPT ![lane[2]] = None]}
        /\ remote \in [Worktrees -> (SUBSET CardIds) \cup {None}]
        /\ \A n \in Worktrees : remote'[n] \in {remote[n], None}
    BY DEF DeleteBranch, IndInv, TypeOK
  <1>2. GitGrows /\ BranchesInv'
    BY <1>1 DEF DeleteBranch, GitGrows, Candidate, IndInv, BranchesInv
  <1>3. remote' \in [Worktrees -> (SUBSET CardIds) \cup {None}]
    BY <1>1
  <1> QED BY <1>2, <1>3

(* Commits are added to a branch.                                           *)
LEMMA CommitGrows ==
    ASSUME IndInv, Commit
    PROVE  GitGrows /\ BranchesInv' /\ local' \in [Worktrees -> SUBSET CardIds]
  <1>1. PICK n \in Worktrees, c \in CardIds, way \in Repairs :
          /\ Works(n, c)
          /\ local' = [local EXCEPT ![n] = @ \cup {c} \cup
                        IF c \in Resolvers /\ way = "merge" THEN Candidate(about[c].branch) ELSE {}]
    BY DEF Commit
  <1> DEFINE merged == IF c \in Resolvers /\ way = "merge" THEN Candidate(about[c].branch) ELSE {}
  <1>2. /\ local \in [Worktrees -> SUBSET CardIds]
        /\ remote \in [Worktrees -> (SUBSET CardIds) \cup {None}] /\ BranchesInv
    BY DEF IndInv, TypeOK
  <1>3. merged \subseteq CardIds
    <2>1. c \in Resolvers => about[c] \in Failure
      BY <1>1 DEF Works, InStage, IndInv, CardsInv, CardInv
    <2>2. c \in Resolvers => about[c].branch \in Worktrees
      BY <2>1 DEF Failure
    <2> QED BY <1>2, <2>2 DEF Candidate
  <1>4. local' = [local EXCEPT ![n] = local[n] \cup {c} \cup merged]
    BY <1>1
  <1> HIDE DEF merged
  <1>5. local' \in [Worktrees -> SUBSET CardIds] /\ \A m \in Worktrees : local[m] \subseteq local'[m]
    BY <1>2, <1>3, <1>4
  <1>6. GitGrows /\ BranchesInv'
    BY <1>2, <1>5 DEF Commit, GitGrows, Candidate, BranchesInv
  <1> QED BY <1>5, <1>6

(* A push updates the copy at origin to the local branch.                   *)
LEMMA PushBranchGrows ==
    ASSUME IndInv, PushBranch
    PROVE  GitGrows /\ BranchesInv' /\ remote' \in [Worktrees -> (SUBSET CardIds) \cup {None}]
  <1>1. PICK n \in Worktrees : remote' = [remote EXCEPT ![n] = local[n]]
    BY DEF PushBranch
  <1>2. /\ local \in [Worktrees -> SUBSET CardIds]
        /\ remote \in [Worktrees -> (SUBSET CardIds) \cup {None}] /\ BranchesInv
    BY DEF IndInv, TypeOK
  <1>3. /\ remote' \in [Worktrees -> (SUBSET CardIds) \cup {None}]
        /\ \A m \in Worktrees : remote'[m] = remote[m] \/ remote'[m] = local[m]
    BY <1>1, <1>2
  <1>4. GitGrows /\ BranchesInv'
    BY <1>2, <1>3 DEF PushBranch, GitGrows, Candidate, BranchesInv
  <1> QED BY <1>3, <1>4

(* The steps of the tick that write no card.                                *)
TickQuiet ==
    SelectFailures \/ LookAtBranch \/ ReleaseResolvers \/ SelectResolvers \/ DedupeBranch

(* The steps that write a card.                                             *)
Writing ==
    \/ FailLane \/ AlreadyMerged \/ SkipReportOnly \/ Record \/ QueueResolver
    \/ CompleteFailure \/ RetireResolver \/ Review \/ ReviewAgain
    \/ Claim \/ Report \/ Requeue \/ LateBlocker

(* Every step writes a card and leaves git alone, or writes none; few steps *)
(* write git.                                                               *)
LEMMA WritesOrNot ==
    ASSUME [Next]_vars
    PROVE  \/ Writing /\ UNCHANGED git
           \/ UNCHANGED <<cards, about>> /\ (Push \/ DeleteBranch \/ Commit \/ PushBranch)
           \/ UNCHANGED <<cards, about>> /\ UNCHANGED git
  <1>1. CASE Writing
    BY <1>1 DEF Writing, FailLane, AlreadyMerged, SkipReportOnly, Record, QueueResolver,
         CompleteFailure, RetireResolver, Review, ReviewAgain, Claim, Report, Requeue, LateBlocker
  <1>2. CASE Push \/ DeleteBranch \/ Commit \/ PushBranch
    BY <1>2 DEF Push, DeleteBranch, Commit, PushBranch
  <1>3. CASE SelectLanes \/ NextLane \/ Preflight \/ Merge \/ TickQuiet \/ Crash \/ UNCHANGED vars
    BY <1>3 DEF vars, SelectLanes, NextLane, Preflight, Merge, TickQuiet, SelectFailures,
         LookAtBranch, ReleaseResolvers, SelectResolvers, DedupeBranch, Crash
  <1> QED
    BY <1>1, <1>2, <1>3 DEF Next, PassStep, RepairStep, ReviewStep, DeveloperStep, Writing, TickQuiet

(* No step takes a commit from where it is found.                           *)
LEMMA GitOnlyGrows ==
    ASSUME IndInv, [Next]_vars
    PROVE  GitGrows /\ BranchesInv'
  <1>1. CASE UNCHANGED git
    BY <1>1 DEF git, GitGrows, Candidate, IndInv, BranchesInv
  <1> QED BY <1>1, WritesOrNot, PushGrows, DeleteGrows, CommitGrows, PushBranchGrows

(***************************************************************************)
(* Steps of cards.                                                         *)
(***************************************************************************)

(* The six ways a step writes the row of a card.                            *)
Created(c, new) ==
    /\ c \in Unused /\ about'[c] \in Failure /\ \E d \in CardIds : Handed(d)
    /\ new.stage = "planned" /\ new.status = "queued"

Opened(c, new) ==
    /\ c \in Born /\ cards[c].stage \in {"planned", "development"}
    /\ new.stage = "planned" \/ (new.stage = "development" /\ new.owner = new.worktree)
    /\ new.status \in {"queued", "assigned"}

Routed(c, new) ==
    /\ c \in Born
    /\ cards[c].worktree \in Worktrees /\ Found(c, cards[c].worktree)
    /\ new.stage \in {"review", "integration"} /\ new.worktree = cards[c].worktree
    /\ new.status \notin {"integration_failed", "integrated"}

Failing(c, new) ==
    /\ FailLane /\ c = lane[1] /\ Handed(c)
    /\ new.stage = "integration" /\ new.worktree = cards[c].worktree
    /\ new.status = "integration_failed"

Completed(c, new) ==
    /\ Handed(c) /\ Landed(c)
    /\ new.stage = "done" /\ new.worktree = cards[c].worktree
    /\ new.status = "integrated"

Retired(c, new) ==
    /\ c \in Born
    /\ c \in Resolvers \/ (Handed(c) /\ (Landed(c) \/ c \in StatusOnly))
    /\ new.stage = "done" /\ new.worktree = cards[c].worktree
    /\ new.status = "stale"

Change(c, new) ==
    /\ SoundCard(new) /\ new.ireq
    /\ \/ Created(c, new) \/ Opened(c, new) \/ Routed(c, new)
       \/ Failing(c, new) \/ Completed(c, new) \/ Retired(c, new)

(* A step that writes one card.                                             *)
Written == \E c \in CardIds : \E new : Set(c, new) /\ Change(c, new)

(* move_card_stage keeps the branch and the kind of a card.                 *)
LEMMA Moved ==
    ASSUME NEW card \in Card, NEW stage, NEW status
    PROVE  LET to == MoveCardStage(card, stage, status)
           IN  /\ to.worktree = card.worktree /\ to.ireq = card.ireq
               /\ to.stage = stage /\ to.status = status
  BY DEF MoveCardStage, Card

(* What the functions of db.py make of a card that asks for integration.    *)
LEMMA Outcomes ==
    ASSUME NEW card, SoundCard(card), card.ireq
    PROVE  /\ LET to == AcceptReview(card)
              IN  /\ SoundCard(to) /\ to.ireq /\ to.worktree = card.worktree
                  /\ to.stage = "integration" /\ to.status = "ready_for_integration"
           /\ LET to == UpdateWorklaneStatus(card, "integration_failed")
              IN  /\ SoundCard(to) /\ to.ireq /\ to.worktree = card.worktree
                  /\ to.stage = "integration" /\ to.status = "integration_failed"
           /\ LET to == CompleteCard(card)
              IN  /\ SoundCard(to) /\ to.ireq /\ to.worktree = card.worktree
                  /\ to.stage = "done" /\ to.status = "integrated"
           /\ LET to == RetireCard(card)
              IN  /\ SoundCard(to) /\ to.ireq /\ to.worktree = card.worktree
                  /\ to.stage = "done" /\ to.status = "stale"
           /\ LET to == RequeueCard(card)
              IN  /\ SoundCard(to) /\ to.ireq /\ to.stage = "planned" /\ to.status = "queued"
  <1>1. card \in Card
    BY DEF SoundCard
  <1>2. /\ SoundCard(AcceptReview(card)) /\ SoundCard(CompleteCard(card)) /\ SoundCard(RetireCard(card))
        /\ SoundCard(RequeueCard(card)) /\ SoundCard(UpdateWorklaneStatus(card, "integration_failed"))
    BY AcceptSound, CompleteSound, RetireSound, RequeueSound, FailSound
  <1>3. StageForStatus("integration_failed") = "integration"
    BY DEF StageForStatus
  <1> QED
    BY <1>1, <1>2, <1>3, Moved
       DEF AcceptReview, CompleteCard, RetireCard, RequeueCard, UpdateWorklaneStatus

(* A card that is handed in, or given to a Developer, is written as Change  *)
(* says.                                                                    *)
LEMMA AcceptWrites ==
    ASSUME IndInv, Review \/ ReviewAgain
    PROVE  Written
  <1>1. PICK c \in CardIds : Handed(c) /\ Set(c, AcceptReview(cards[c]))
    <2>1. CASE Review
      <3>1. PICK c \in InStage("review") : Set(c, AcceptReview(cards[c]))
        BY <2>1 DEF Review
      <3>2. c \in CardIds /\ Handed(c)
        BY DEF InStage, Born, IndInv, CardsInv, CardInv, Handed
      <3> QED BY <3>1, <3>2
    <2>2. CASE ReviewAgain
      <3>1. PICK row \in reviews : Set(row[1], AcceptReview(cards[row[1]]))
        BY <2>2 DEF ReviewAgain
      <3>2. row[1] \in CardIds /\ Handed(row[1])
        BY DEF IndInv, TypeOK, TickInv
      <3> QED BY <3>1, <3>2
    <2> QED BY <2>1, <2>2
  <1>2. SoundCard(cards[c]) /\ cards[c].ireq
    BY <1>1 DEF Handed, IndInv, CardsInv, CardInv
  <1>3. PICK new : new = AcceptReview(cards[c])
    OBVIOUS
  <1>4. Change(c, new)
    BY <1>1, <1>2, <1>3, Outcomes DEF Change, Routed, Handed
  <1> QED BY <1>1, <1>3, <1>4 DEF Written

LEMMA FailWrites ==
    ASSUME IndInv, FailLane
    PROVE  Written /\ Deciding /\ phase \in Types
  <1>1. phase \in Types /\ Deciding /\ InHand
    <2>1. setting.failing \subseteq Types
      BY IntegrationConstants DEF IndInv, TypeOK, Setting
    <2> QED BY <2>1 DEF FailLane, Types, Deciding, InHand
  <1>2. PICK c \in CardIds : c = lane[1] /\ Handed(c)
    BY <1>1, LaneInHand
  <1>3. SoundCard(cards[c]) /\ cards[c].ireq
    BY <1>2 DEF Handed, IndInv, CardsInv, CardInv
  <1>4. PICK new : new = UpdateWorklaneStatus(cards[c], "integration_failed")
    OBVIOUS
  <1>5. Change(c, new)
    BY <1>2, <1>3, <1>4, Outcomes DEF Change, Failing
  <1> QED BY <1>1, <1>2, <1>4, <1>5 DEF Written, FailLane

LEMMA CompleteWrites ==
    ASSUME IndInv, AlreadyMerged \/ Record \/ CompleteFailure
    PROVE  Written
  <1>1. PICK c \in CardIds : Handed(c) /\ Landed(c) /\ Set(c, CompleteCard(cards[c]))
    <2>1. CASE AlreadyMerged
      <3>1. InHand
        BY <2>1 DEF AlreadyMerged, InHand, Deciding
      <3> QED BY <2>1, <3>1, LaneInHand, MergedLanded DEF AlreadyMerged
    <2>2. CASE Record
      <3>1. InHand /\ Landed(lane[1])
        BY <2>2 DEF Record, InHand, Deciding, IndInv, PassInv
      <3> QED BY <2>2, <3>1, LaneInHand DEF Record
    <2>3. CASE CompleteFailure
      BY <2>3 DEF CompleteFailure, IndInv, TickInv, Handed, Born
    <2> QED BY <2>1, <2>2, <2>3
  <1>2. SoundCard(cards[c]) /\ cards[c].ireq
    BY <1>1 DEF Handed, IndInv, CardsInv, CardInv
  <1>3. PICK new : new = CompleteCard(cards[c])
    OBVIOUS
  <1>4. Change(c, new)
    BY <1>1, <1>2, <1>3, Outcomes DEF Change, Completed
  <1> QED BY <1>1, <1>3, <1>4 DEF Written

LEMMA RetireWrites ==
    ASSUME IndInv, SkipReportOnly \/ RetireResolver
    PROVE  Written
  <1>1. PICK c \in CardIds :
          /\ c \in Born /\ Set(c, RetireCard(cards[c]))
          /\ c \in Resolvers \/ (Handed(c) /\ (Landed(c) \/ c \in StatusOnly))
    <2>1. CASE SkipReportOnly
      <3>1. InHand
        BY <2>1 DEF SkipReportOnly, InHand, Deciding
      <3>2. Landed(lane[1]) \/ lane[1] \in StatusOnly
        BY <2>1, <3>1, LaneInHand DEF SkipReportOnly, ReportOnly, Found, Landed
      <3> QED BY <2>1, <3>1, <3>2, LaneInHand DEF SkipReportOnly, Handed
    <2>2. CASE RetireResolver
      <3>1. PICK r \in doomed : Set(r, RetireCard(cards[r]))
        BY <2>2 DEF RetireResolver
      <3>2. r \in CardIds /\ r \in Resolvers /\ r \in Born
        BY DEF IndInv, TypeOK, TickInv, CardIds
      <3> QED BY <3>1, <3>2
    <2> QED BY <2>1, <2>2
  <1>2. SoundCard(cards[c]) /\ cards[c].ireq
    BY <1>1 DEF IndInv, CardsInv, CardInv
  <1>3. PICK new : new = RetireCard(cards[c])
    OBVIOUS
  <1>4. Change(c, new)
    BY <1>1, <1>2, <1>3, Outcomes DEF Change, Retired
  <1> QED BY <1>1, <1>3, <1>4 DEF Written

LEMMA ClaimWrites ==
    ASSUME IndInv, Claim
    PROVE  Written
  <1>1. PICK n \in Worktrees, c \in InStage("planned") : Set(c, AssignCard(cards[c], n, n))
    <2>1. setting.team \subseteq Worktrees
      BY IntegrationConstants DEF IndInv, TypeOK, Setting
    <2> QED BY <2>1 DEF Claim
  <1>2. /\ c \in Born /\ c \in CardIds /\ cards[c].stage = "planned" /\ n \in AgentIds
        /\ SoundCard(cards[c]) /\ cards[c] \in Card /\ cards[c].ireq
    BY IntegrationConstants DEF InStage, Born, IndInv, CardsInv, CardInv, SoundCard
  <1>3. PICK new : new = AssignCard(cards[c], n, n)
    OBVIOUS
  <1>4. /\ SoundCard(new) /\ new.stage = "development" /\ new.status = "assigned"
        /\ new.owner = n /\ new.worktree = n
    BY <1>2, <1>3, AssignSound
  <1>5. new.ireq
    BY <1>2, <1>3 DEF AssignCard, Card
  <1>6. Change(c, new)
    BY <1>2, <1>4, <1>5 DEF Change, Opened
  <1> QED BY <1>1, <1>2, <1>3, <1>6 DEF Written

LEMMA RequeueWrites ==
    ASSUME IndInv, Requeue
    PROVE  Written
  <1>1. PICK c \in InStage("development") : Set(c, RequeueCard(cards[c]))
    BY DEF Requeue
  <1>2. /\ c \in Born /\ c \in CardIds /\ cards[c].stage = "development"
        /\ SoundCard(cards[c]) /\ cards[c].ireq
    BY DEF InStage, Born, IndInv, CardsInv, CardInv
  <1>3. PICK new : new = RequeueCard(cards[c])
    OBVIOUS
  <1>4. Change(c, new)
    BY <1>2, <1>3, Outcomes DEF Change, Opened
  <1> QED BY <1>1, <1>2, <1>3, <1>4 DEF Written

(* A report hands in a commit that is on the branch.                        *)
LEMMA ReportWrites ==
    ASSUME IndInv, Report
    PROVE  Written
  <1>1. PICK n \in Worktrees, c \in CardIds :
          /\ Works(n, c) /\ c \in local[n]
          /\ StaleCopies \/ remote[n] \in {None, local[n]}
          /\ Set(c, ReportCard(cards[c], "completed"))
    BY DEF Report
  <1>2. /\ c \in Born /\ cards[c].stage = "development" /\ cards[c].worktree = n
        /\ SoundCard(cards[c]) /\ cards[c] \in Card /\ cards[c].ireq
    BY <1>1 DEF Works, InStage, IndInv, CardsInv, CardInv, SoundCard
  <1>3. PICK new : new = ReportCard(cards[c], "completed")
    OBVIOUS
  <1>4. new = MoveCardStage(cards[c], "review", "needs_verification")
    BY <1>2, <1>3 DEF ReportCard, ReadyKinds, IsNonActionable, NonActionableKinds, BlockerKinds
  <1>5. /\ "review" \in Stages \ {"development"} /\ "needs_verification" \in Statuses
        /\ StageForStatus("needs_verification") = "review"
    BY DEF Stages, Statuses, MappedStatuses, StageForStatus
  <1>6. /\ SoundCard(new) /\ new.stage = "review" /\ new.status = "needs_verification"
        /\ new.worktree = n /\ new.ireq
    BY <1>2, <1>4, <1>5, MoveSound, SoundIsPlain, Moved
  <1>7. Found(c, n)
    BY <1>1 DEF Found, Landed, Candidate
  <1>8. Change(c, new)
    BY <1>2, <1>6, <1>7 DEF Change, Routed
  <1> QED BY <1>1, <1>3, <1>8 DEF Written

(* A late blocker changes the status of work that waits for integration.    *)
LEMMA LateBlockerWrites ==
    ASSUME IndInv, LateBlocker
    PROVE  Written
  <1>1. PICK c \in InStage("integration") : Set(c, ReportCard(cards[c], "blocked"))
    BY DEF LateBlocker
  <1>2. /\ c \in CardIds /\ cards[c].stage = "integration" /\ Handed(c)
        /\ SoundCard(cards[c]) /\ cards[c] \in Card /\ cards[c].ireq
    BY DEF InStage, Born, IndInv, CardsInv, CardInv, SoundCard, Handed
  <1>3. PICK new : new = ReportCard(cards[c], "blocked")
    OBVIOUS
  <1>4. new = [cards[c] EXCEPT !.status = "blocked"]
    BY <1>2, <1>3 DEF ReportCard, IsNonActionable, ReadyKinds, PassedKinds, BlockerKinds, BlockerStatus
  <1>5. /\ new.stage = "integration" /\ new.status = "blocked"
        /\ new.worktree = cards[c].worktree /\ new.ireq
    BY <1>2, <1>4 DEF Card
  <1>6. SoundCard(new)
    BY <1>2, <1>3, ReportSound DEF ReportKinds, BlockerKinds
  <1>7. Change(c, new)
    BY <1>2, <1>5, <1>6 DEF Change, Routed, Handed
  <1> QED BY <1>1, <1>2, <1>3, <1>7 DEF Written

(* A resolver is a new row.                                                 *)
LEMMA ResolverWrites ==
    ASSUME IndInv, QueueResolver, ~UNCHANGED <<cards, about>>
    PROVE  /\ Written
           /\ \E r \in Unused, this \in Failure : about' = [about EXCEPT ![r] = this]
  <1>1. InHand /\ failure \in Types
    BY DEF QueueResolver, InHand, IndInv, PassInv
  <1>2. PICK this : this = [card |-> lane[1], branch |-> lane[2], type |-> failure]
    OBVIOUS
  <1>3. this \in Failure
    BY <1>1, <1>2, LaneInHand DEF Failure
  <1>4. PICK r \in Unused : /\ Set(r, QueueWorklane("Conflict Resolver", TRUE))
                            /\ about' = [about EXCEPT ![r] = this]
    BY <1>2 DEF QueueResolver
  <1>5. PICK new : new = QueueWorklane("Conflict Resolver", TRUE)
    OBVIOUS
  <1>6. SoundCard(new)
    BY <1>5, QueueSound DEF Roles, CodeRoles
  <1>7. new.ireq /\ new.stage = "planned" /\ new.status = "queued"
    BY <1>5 DEF QueueWorklane
  <1>8. r \in CardIds /\ about'[r] \in Failure
    BY <1>3, <1>4 DEF Unused, CardIds, IndInv, TypeOK
  <1>9. Change(r, new)
    BY <1>1, <1>6, <1>7, <1>8, LaneInHand DEF Change, Created
  <1> QED BY <1>3, <1>4, <1>5, <1>8, <1>9 DEF Written

(* Every step writes one card as Change says, or none.                      *)
LEMMA Changes ==
    ASSUME IndInv, [Next]_vars
    PROVE  /\ UNCHANGED cards \/ (Written /\ UNCHANGED git)
           /\ \/ UNCHANGED about
              \/ \E r \in Unused, this \in Failure : about' = [about EXCEPT ![r] = this]
  <1>1. CASE UNCHANGED <<cards, about>>
    BY <1>1
  <1>2. CASE Writing /\ UNCHANGED git /\ ~QueueResolver
    <2>1. Written
      BY <1>2, FailWrites, CompleteWrites, RetireWrites, AcceptWrites, ClaimWrites, ReportWrites,
         RequeueWrites, LateBlockerWrites DEF Writing
    <2>2. UNCHANGED about
      BY <1>2 DEF Writing, FailLane, AlreadyMerged, SkipReportOnly, Record, CompleteFailure,
           RetireResolver, Review, ReviewAgain, Claim, Report, Requeue, LateBlocker
    <2> QED BY <1>2, <2>1, <2>2
  <1>3. CASE QueueResolver /\ UNCHANGED git
    BY <1>1, <1>3, ResolverWrites
  <1> QED BY <1>1, <1>2, <1>3, WritesOrNot

(* What was handed in stays handed in, on its branch; only FailLane makes a *)
(* card integration_failed, and only the one in hand.                       *)
LEMMA HandedStays ==
    ASSUME IndInv, [Next]_vars, NEW c \in CardIds, Handed(c)
    PROVE  /\ Handed(c)' /\ cards'[c].worktree = cards[c].worktree
           /\ \/ cards'[c].status # "integration_failed"
              \/ cards'[c] = cards[c]
              \/ FailLane /\ c = lane[1]
  <1>1. PICK n \in Worktrees : n = cards[c].worktree /\ Found(c, n)
    BY DEF Handed
  <1>2. Found(c, n)'
    BY <1>1, GitOnlyGrows, FoundAgain
  <1>3. CASE cards'[c] = cards[c]
    BY <1>1, <1>2, <1>3 DEF Handed, Born, Found, Landed, Candidate
  <1>4. CASE cards'[c] # cards[c]
    <2>0. PICK d \in CardIds : \E new : Set(d, new) /\ Change(d, new)
      BY <1>4, Changes DEF Written
    <2>1. PICK new : Set(d, new) /\ Change(d, new)
      BY <2>0
    <2>2. d = c /\ cards'[c] = new
      BY <1>4, <2>1 DEF Set, IndInv, TypeOK
    <2>3. Change(c, new) /\ ~Opened(c, new) /\ ~Created(c, new)
      BY <2>1, <2>2 DEF Opened, Created, Unused, Handed
    <2>4. /\ new.stage \in {"review", "integration", "done"} /\ new.worktree = n /\ new # None
          /\ new.status # "integration_failed" \/ (FailLane /\ c = lane[1])
      BY <1>1, <2>3, IntegrationConstants
         DEF Change, SoundCard, Routed, Failing, Completed, Retired
    <2> QED BY <1>1, <1>2, <2>2, <2>4 DEF Handed, Born, Found, Landed, Candidate
  <1> QED BY <1>3, <1>4

(* Every selected row stays sound.                                          *)
LEMMA RowStays ==
    ASSUME IndInv, [Next]_vars, NEW row, RowInv(row)
    PROVE  RowInv(row)'
  <1>1. row[1] \in CardIds /\ Handed(row[1])
    BY DEF RowInv, Rows
  <1> QED BY <1>1, HandedStays DEF RowInv

(* Cards that exist stay.                                                   *)
LEMMA BornStays ==
    ASSUME IndInv, [Next]_vars
    PROVE  Born \subseteq Born'
  <1> SUFFICES ASSUME NEW c \in Born PROVE c \in Born'
    OBVIOUS
  <1>1. CASE cards'[c] = cards[c]
    BY <1>1 DEF Born
  <1>2. CASE cards'[c] # cards[c]
    <2>0. PICK d \in CardIds : \E new : Set(d, new) /\ Change(d, new)
      BY <1>2, Changes DEF Written
    <2>1. PICK new : Set(d, new) /\ Change(d, new)
      BY <2>0
    <2>2. cards'[c] = new
      BY <1>2, <2>1 DEF Set, IndInv, TypeOK, Born
    <2> QED BY <2>1, <2>2, IntegrationConstants DEF Born, Change, SoundCard
  <1> QED BY <1>1, <1>2

(* What a step writes is what is claimed of every card.                     *)
LEMMA ChangeInv ==
    ASSUME GitGrows, NEW c \in CardIds, NEW new, Change(c, new), cards'[c] = new,
           c \in Resolvers => about'[c] \in Failure
    PROVE  CardInv(c)'
  <1>1. ASSUME new.stage \in {"review", "integration"}
        PROVE  new.worktree \in Worktrees /\ Found(c, new.worktree)'
    <2>1. /\ new.worktree = cards[c].worktree /\ cards[c].worktree \in Worktrees
          /\ Found(c, cards[c].worktree)
      BY <1>1 DEF Change, Created, Opened, Routed, Failing, Completed, Retired, Handed
    <2>2. PICK n \in Worktrees : n = new.worktree /\ Found(c, n)
      BY <2>1
    <2>3. Found(c, n)'
      BY <2>2, FoundAgain
    <2> QED BY <2>2, <2>3 DEF Found, Landed, Candidate
  <1>2. ASSUME new.status = "integrated"
        PROVE  Landed(c)'
    <2>1. Landed(c)
      BY <1>2 DEF Change, Created, Opened, Routed, Failing, Completed, Retired
    <2> QED BY <2>1 DEF GitGrows, Landed
  <1>3. new.stage = "development" => new.owner = new.worktree
    BY DEF Change, Created, Opened, Routed, Failing, Completed, Retired
  <1>4. SoundCard(new) /\ new.ireq
    BY DEF Change
  <1>5. new.stage \in {"review", "integration"} => Found(c, cards[c].worktree)'
    BY <1>1 DEF Found, Landed, Candidate
  <1> QED BY <1>1, <1>2, <1>3, <1>4 DEF CardInv, Found, Landed, Candidate

LEMMA CardsStand ==
    ASSUME IndInv, [Next]_vars
    PROVE  /\ CardsInv'
           /\ cards' \in [CardIds -> Card \cup {None}]
           /\ about' \in [Resolvers -> Failure \cup {None}]
  <1>1. about \in [Resolvers -> Failure \cup {None}] /\ cards \in [CardIds -> Card \cup {None}]
    BY DEF IndInv, TypeOK
  <1>2. about' \in [Resolvers -> Failure \cup {None}]
    BY <1>1, Changes DEF Unused
  <1>3. cards' \in [CardIds -> Card \cup {None}]
    BY <1>1, Changes DEF Written, Set, Change, SoundCard
  <1>4. GitGrows
    BY GitOnlyGrows
  <1>5. ASSUME NEW c \in CardIds, cards'[c] # None, cards'[c] = cards[c]
        PROVE  CardInv(c)'
    <2>1. c \in Born /\ CardInv(c)
      BY <1>5 DEF Born, IndInv, CardsInv
    <2>2. c \in Resolvers => about'[c] = about[c]
      BY <1>1, <2>1, Changes DEF Unused
    <2>3. cards[c].stage \in {"review", "integration"} => Found(c, cards[c].worktree)'
      <3> SUFFICES ASSUME cards[c].stage \in {"review", "integration"}
                   PROVE  Found(c, cards[c].worktree)'
        OBVIOUS
      <3>1. PICK n \in Worktrees : n = cards[c].worktree /\ Found(c, n)
        BY <2>1 DEF CardInv
      <3>2. Found(c, n)'
        BY <1>4, <3>1, FoundAgain
      <3> QED BY <1>5, <3>1, <3>2 DEF Found, Landed, Candidate
    <2>4. Landed(c) => Landed(c)'
      BY <1>4 DEF GitGrows, Landed
    <2> QED BY <1>5, <2>1, <2>2, <2>3, <2>4 DEF CardInv, Found, Landed, Candidate
  <1>6. ASSUME NEW c \in CardIds, cards'[c] # cards[c]
        PROVE  CardInv(c)'
    <2>0. PICK d \in CardIds : \E new : Set(d, new) /\ Change(d, new)
      BY <1>6, Changes DEF Written
    <2>1. PICK new : Set(d, new) /\ Change(d, new)
      BY <2>0
    <2>2. d = c /\ cards'[c] = new
      BY <1>1, <1>6, <2>1 DEF Set
    <2>3. c \in Resolvers => about'[c] \in Failure
      <3>1. CASE c \in Born
        BY <1>1, <3>1, Changes DEF IndInv, CardsInv, CardInv, Unused
      <3>2. CASE c \notin Born
        BY <2>1, <2>2, <3>2 DEF Change, Created, Opened, Routed, Failing, Completed, Retired, Handed
      <3> QED BY <3>1, <3>2
    <2> QED BY <1>4, <2>1, <2>2, <2>3, ChangeInv
  <1>7. Lanes \subseteq Born'
    BY BornStays DEF IndInv, CardsInv
  <1> QED BY <1>2, <1>3, <1>5, <1>6, <1>7 DEF CardsInv, Born

(***************************************************************************)
(* The parts of the invariant.                                             *)
(***************************************************************************)

(* A setting is chosen once, and mishaps stay within its bound.             *)
LEMMA BoundsTyped ==
    ASSUME TypeOK, [Next]_vars
    PROVE  /\ setting' \in Settings /\ faults' \in Nat /\ crashes' \in Nat
           /\ faults' + crashes' <= setting'.max
  <1>1. setting \in Settings /\ faults \in Nat /\ crashes \in Nat /\ faults + crashes <= setting.max
        /\ setting.max \in Nat
    BY IntegrationConstants DEF TypeOK, Setting
  <1>2. CASE UNCHANGED bounds
    BY <1>1, <1>2 DEF bounds
  <1>3. CASE \E kind : Fault(kind)
    BY <1>1, <1>3 DEF Fault, Mishap
  <1>4. CASE Crash
    BY <1>1, <1>4 DEF Crash, Mishap
  <1>5. CASE DeleteBranch \/ Review \/ Requeue \/ LateBlocker
    BY <1>2, <1>3, <1>5 DEF DeleteBranch, Review, Requeue, LateBlocker
  <1>6. CASE PassStep /\ ~DeleteBranch
    BY <1>2, <1>6 DEF PassStep, SelectLanes, NextLane, FailLane, AlreadyMerged, SkipReportOnly,
         Preflight, Merge, Push, Record, QueueResolver
  <1>7. CASE RepairStep \/ ReviewAgain \/ DeveloperStep \/ UNCHANGED vars
    BY <1>2, <1>7 DEF vars, RepairStep, SelectFailures, LookAtBranch, CompleteFailure,
         ReleaseResolvers, SelectResolvers, DedupeBranch, RetireResolver, ReviewAgain,
         DeveloperStep, Claim, Commit, PushBranch, Report
  <1> QED BY <1>4, <1>5, <1>6, <1>7 DEF Next, ReviewStep

(* The variables of git.                                                    *)
LEMMA GitTyped ==
    ASSUME IndInv, [Next]_vars
    PROVE  /\ mainline' \subseteq CardIds
           /\ local' \in [Worktrees -> SUBSET CardIds]
           /\ remote' \in [Worktrees -> (SUBSET CardIds) \cup {None}]
  <1>1. CASE UNCHANGED git
    BY <1>1 DEF git, IndInv, TypeOK
  <1>2. CASE Push
    BY <1>2 DEF Push, IndInv, TypeOK
  <1>3. CASE DeleteBranch
    BY <1>3, DeleteGrows DEF DeleteBranch, IndInv, TypeOK
  <1>4. CASE Commit
    BY <1>4, CommitGrows DEF Commit, IndInv, TypeOK
  <1>5. CASE PushBranch
    BY <1>5, PushBranchGrows DEF PushBranch, IndInv, TypeOK
  <1> QED BY <1>1, <1>2, <1>3, <1>4, <1>5, WritesOrNot

(* A ready or a failed lane was handed in.                                  *)
LEMMA LaneWasHandedIn ==
    ASSUME IndInv, NEW c \in Born, ReadyLane(cards[c]) \/ FailedLane(cards[c])
    PROVE  /\ <<c, cards[c].worktree>> \in Rows /\ RowInv(<<c, cards[c].worktree>>)
           /\ ReadyLane(cards[c]) => cards[c].status # "integration_failed"
  <1>1. CardInv(c) /\ c \in CardIds /\ cards[c] \in Card
    BY DEF IndInv, CardsInv, Born, CardInv, SoundCard
  <1>2. cards[c].worktree \in Worktrees
    BY DEF ReadyLane, FailedLane
  <1>3. cards[c].stage \in {"review", "integration"}
    BY <1>1, BackfillFixpoint
       DEF ReadyLane, FailedLane, CardInv, SoundCard, MappedStatuses, StageForStatus
  <1>4. Handed(c)
    BY <1>1, <1>2, <1>3 DEF CardInv, Handed
  <1> QED BY <1>1, <1>2, <1>4 DEF RowInv, Rows, ReadyLane

(* The variables of the pass.                                               *)
LEMMA PassTyped ==
    ASSUME IndInv, [Next]_vars
    PROVE  /\ phase' \in Phases /\ lane' \in Rows \cup {None} /\ queue' \subseteq Rows
           /\ staged' \subseteq CardIds /\ failure' \in Types \cup {None}
  <1>1. /\ phase \in Phases /\ lane \in Rows \cup {None} /\ queue \subseteq Rows
        /\ staged \subseteq CardIds /\ failure \in Types \cup {None}
    BY DEF IndInv, TypeOK
  <1>2. CASE UNCHANGED pass
    BY <1>1, <1>2 DEF pass
  <1>3. CASE SelectLanes
    <2>1. queue' \subseteq Rows
      BY <1>3, LaneWasHandedIn DEF SelectLanes
    <2> QED BY <1>1, <1>3, <2>1 DEF SelectLanes, Phases
  <1>4. CASE NextLane
    BY <1>1, <1>4 DEF NextLane, Phases
  <1>5. CASE FailLane
    BY <1>1, <1>5, FailWrites DEF FailLane, Phases
  <1>6. CASE AlreadyMerged \/ SkipReportOnly \/ Preflight \/ Record
    BY <1>1, <1>6 DEF AlreadyMerged, SkipReportOnly, Preflight, Record, Phases
  <1>7. CASE Merge
    <2>1. lane[2] \in Worktrees
      BY <1>7, LaneInHand DEF Merge, InHand, Deciding
    <2>2. mainline \cup Candidate(lane[2]) \subseteq CardIds
      BY <2>1 DEF Candidate, IndInv, TypeOK
    <2> QED BY <1>1, <1>7, <2>2 DEF Merge, Phases
  <1>8. CASE Push
    BY <1>1, <1>8 DEF Push, Phases
  <1>9. CASE DeleteBranch \/ QueueResolver
    BY <1>1, <1>9 DEF DeleteBranch, QueueResolver, LeaveLane, Phases
  <1>10. CASE Crash
    BY <1>10 DEF Crash, Phases
  <1>11. CASE ~PassStep /\ ~Crash
    BY <1>2, <1>11 DEF Next, vars, RepairStep, SelectFailures, LookAtBranch, CompleteFailure,
         ReleaseResolvers, SelectResolvers, DedupeBranch, RetireResolver, ReviewStep, Review,
         ReviewAgain, DeveloperStep, Claim, Commit, PushBranch, Report, Requeue, LateBlocker
  <1> QED BY <1>3, <1>4, <1>5, <1>6, <1>7, <1>8, <1>9, <1>10, <1>11 DEF PassStep

(* The variables of the tick.                                               *)
LEMMA TickTyped ==
    ASSUME IndInv, [Next]_vars
    PROVE  /\ repair' \in {"idle", "settle", "complete", "release", "dedupe"}
           /\ failed' \subseteq Lanes \X Worktrees /\ target' \in Lanes \cup {None}
           /\ open' \subseteq Resolvers /\ developing' \subseteq Resolvers /\ doomed' \subseteq Resolvers
           /\ reviews' \subseteq CardIds \X {"pass", "tick"}
  <1>1. /\ repair \in {"idle", "settle", "complete", "release", "dedupe"}
        /\ failed \subseteq Lanes \X Worktrees /\ target \in Lanes \cup {None}
        /\ open \subseteq Resolvers /\ developing \subseteq Resolvers /\ doomed \subseteq Resolvers
        /\ reviews \subseteq CardIds \X {"pass", "tick"}
    BY DEF IndInv, TypeOK
  <1>2. CASE UNCHANGED <<tick, reviews>>
    BY <1>1, <1>2 DEF tick
  <1>3. CASE SelectFailures
    <2>1. failed' \subseteq Lanes \X Worktrees
      BY <1>3 DEF SelectFailures, FailedLanes, FailedLane
    <2> QED BY <1>1, <1>3, <2>1 DEF SelectFailures
  <1>4. CASE LookAtBranch
    BY <1>1, <1>4 DEF LookAtBranch
  <1>5. CASE CompleteFailure
    BY <1>1, <1>5 DEF CompleteFailure
  <1>6. CASE ReleaseResolvers
    BY <1>1, <1>6 DEF ReleaseResolvers, ResolversFor
  <1>7. CASE SelectResolvers
    BY <1>1, <1>7 DEF SelectResolvers, OpenResolvers
  <1>8. CASE DedupeBranch
    BY <1>1, <1>8 DEF DedupeBranch
  <1>9. CASE RetireResolver
    BY <1>1, <1>9 DEF RetireResolver
  <1>10. CASE Review
    <2>1. \E c \in CardIds : reviews' \subseteq reviews \cup {<<c, "pass">>, <<c, "tick">>}
      BY <1>10 DEF Review, InStage, Born
    <2>2. reviews' \subseteq CardIds \X {"pass", "tick"}
      BY <1>1, <2>1
    <2> QED BY <1>1, <1>10, <2>2 DEF Review, tick
  <1>11. CASE ReviewAgain
    BY <1>1, <1>11 DEF ReviewAgain, tick
  <1>12. CASE Crash
    BY <1>12 DEF Crash
  <1>13. CASE PassStep \/ DeveloperStep \/ Requeue \/ LateBlocker \/ UNCHANGED vars
    BY <1>2, <1>13 DEF vars, PassStep, SelectLanes, NextLane, FailLane, AlreadyMerged, SkipReportOnly,
         Preflight, Merge, Push, Record, DeleteBranch, QueueResolver, DeveloperStep, Claim, Commit,
         PushBranch, Report, Requeue, LateBlocker
  <1> QED
    BY <1>3, <1>4, <1>5, <1>6, <1>7, <1>8, <1>9, <1>10, <1>11, <1>12, <1>13
       DEF Next, RepairStep, ReviewStep

LEMMA TypeStands == IndInv /\ [Next]_vars => TypeOK'
  BY CardsStand, BoundsTyped, GitTyped, PassTyped, TickTyped DEF IndInv, TypeOK

(* What the pass holds stays sound.                                         *)
LEMMA PassStands ==
    ASSUME IndInv, [Next]_vars
    PROVE  PassInv'
  <1>1. ASSUME NEW row \in Selected PROVE RowInv(row)'
    BY <1>1, RowStays DEF IndInv, PassInv
  <1>2. ASSUME NEW row \in Selected, ~FailLane,
               cards[row[1]].status # "integration_failed"
        PROVE  cards'[row[1]].status # "integration_failed"
    <2>1. row[1] \in CardIds /\ Handed(row[1])
      BY <1>2 DEF IndInv, PassInv, RowInv, Rows
    <2> QED BY <1>2, <2>1, HandedStays
  <1>3. PassInv
    BY DEF IndInv
  <1>4. \A c : Landed(c) => Landed(c)'
    BY GitOnlyGrows DEF GitGrows, Landed
  <1>5. CASE UNCHANGED pass /\ UNCHANGED mainline
    <2>1. /\ Selected' = Selected /\ InHand' = InHand /\ Deciding' = Deciding
          /\ phase' = phase /\ lane' = lane /\ queue' = queue /\ staged' = staged /\ failure' = failure
      BY <1>5 DEF pass, Selected, InHand, Deciding
    <2>2. ~FailLane
      BY <1>5, FailWrites DEF FailLane, pass, Types
    <2> QED BY <1>1, <1>2, <1>3, <1>4, <1>5, <2>1, <2>2 DEF PassInv, Selected, InHand, Deciding
  <1>6. CASE SelectLanes
    <2>1. \A row \in queue' : RowInv(row) /\ cards[row[1]].status # "integration_failed"
      BY <1>6, LaneWasHandedIn DEF SelectLanes
    <2>2. \A row \in queue' : RowInv(row)' /\ cards'[row[1]].status # "integration_failed"
      BY <1>6, <2>1, RowStays DEF SelectLanes
    <2> QED BY <1>6, <2>2 DEF SelectLanes, PassInv, Selected, InHand, Deciding
  <1>7. CASE NextLane
    BY <1>1, <1>3, <1>7 DEF NextLane, PassInv, Selected, InHand, Deciding
  <1>8. CASE FailLane
    <2>1. InHand /\ lane \notin queue /\ phase \in Types
      BY <1>3, <1>8, FailWrites DEF PassInv, InHand
    <2>2. \A row \in queue : cards'[row[1]].status # "integration_failed"
      <3> SUFFICES ASSUME NEW row \in queue PROVE cards'[row[1]].status # "integration_failed"
        OBVIOUS
      <3>1. RowInv(row) /\ row \in Rows /\ RowInv(lane) /\ lane \in Rows
        BY <1>3, <2>1 DEF PassInv, Selected, RowInv
      <3>2. row[1] # lane[1]
        <4>1. row[1] = lane[1] => row[2] = lane[2]
          BY <3>1 DEF RowInv
        <4> QED BY <2>1, <3>1, <4>1 DEF Rows
      <3>3. row[1] \in CardIds /\ Handed(row[1]) /\ cards[row[1]].status # "integration_failed"
        BY <1>3, <3>1 DEF PassInv, RowInv, Rows
      <3> QED BY <3>2, <3>3, HandedStays
    <2> QED BY <1>1, <1>8, <2>1, <2>2 DEF FailLane, PassInv, Selected, InHand, Deciding
  <1>9. CASE AlreadyMerged \/ SkipReportOnly \/ Record \/ Preflight
    <2>1. ~FailLane
      BY <1>9, FailWrites DEF AlreadyMerged, SkipReportOnly, Record, Preflight, FailLane
    <2>2. InHand /\ lane' = lane /\ queue' = queue /\ phase' \in {"delete", "merge"}
          /\ (phase' = "merge" => Deciding)
      BY <1>9 DEF AlreadyMerged, SkipReportOnly, Record, Preflight, InHand, Deciding
    <2> QED BY <1>1, <1>2, <1>3, <2>1, <2>2 DEF PassInv, Selected, InHand, Deciding
  <1>10. CASE Merge
    <2>1. ~FailLane
      BY <1>10 DEF FailLane, Merge
    <2>2. Deciding /\ InHand /\ lane' = lane /\ queue' = queue /\ phase' = "push"
      BY <1>10 DEF Merge, InHand, Deciding
    <2>3. mainline' \subseteq staged' /\ (StaleCopies \/ lane'[1] \in staged')
      BY <1>10, <2>2, LaneInHand DEF Merge, git, Found, Landed
    <2> QED BY <1>1, <1>2, <1>3, <2>1, <2>2, <2>3 DEF PassInv, Selected, InHand, Deciding
  <1>11. CASE Push
    <2>1. ~FailLane
      BY <1>11 DEF FailLane, Push
    <2>2. Deciding /\ InHand /\ lane' = lane /\ queue' = queue /\ phase' = "record"
      BY <1>11 DEF Push, InHand, Deciding
    <2>3. Landed(lane[1])'
      BY <1>3, <1>11 DEF Push, PassInv, Landed
    <2> QED BY <1>1, <1>2, <1>3, <2>1, <2>2, <2>3 DEF PassInv, Selected, InHand, Deciding
  <1>12. CASE DeleteBranch \/ QueueResolver
    <2>1. ~FailLane
      BY <1>12, FailWrites DEF FailLane, DeleteBranch, QueueResolver, Types
    <2>2. queue' = queue /\ phase' \in {"idle", "next"}
      BY <1>12 DEF DeleteBranch, QueueResolver, LeaveLane
    <2> QED BY <1>1, <1>2, <1>3, <2>1, <2>2 DEF PassInv, Selected, InHand, Deciding
  <1>13. CASE Crash
    BY <1>13 DEF Crash, PassInv, Selected, InHand, Deciding
  <1>14. CASE ~PassStep /\ ~Crash
    <2>1. UNCHANGED pass /\ UNCHANGED mainline
      BY <1>14 DEF Next, vars, git, RepairStep, SelectFailures, LookAtBranch, CompleteFailure,
           ReleaseResolvers, SelectResolvers, DedupeBranch, RetireResolver, ReviewStep, Review,
           ReviewAgain, DeveloperStep, Claim, Commit, PushBranch, Report, Requeue, LateBlocker
    <2> QED BY <1>5, <2>1
  <1> QED
    BY <1>6, <1>7, <1>8, <1>9, <1>10, <1>11, <1>12, <1>13, <1>14 DEF PassStep

(* What the tick and the reviewers hold stays sound.                        *)
LEMMA TickStands ==
    ASSUME IndInv, [Next]_vars
    PROVE  TickInv'
  <1>1. TickInv
    BY DEF IndInv
  <1>2. /\ \A row \in failed : RowInv(row)'
        /\ \A row \in reviews : Handed(row[1])'
        /\ open \cup doomed \subseteq Born'
    <2>1. \A row \in reviews : row[1] \in CardIds
      BY DEF IndInv, TypeOK
    <2> QED BY <1>1, <2>1, RowStays, HandedStays, BornStays DEF TickInv
  <1>3. ASSUME NEW c, c = target, repair = "complete"
        PROVE  Handed(c)' /\ Landed(c)'
    <2>1. c \in CardIds /\ Handed(c) /\ Landed(c)
      BY <1>1, <1>3 DEF TickInv, Handed, Born
    <2> QED BY <2>1, HandedStays, GitOnlyGrows DEF GitGrows, Landed
  <1>4. CASE UNCHANGED <<tick, reviews>>
    <2>1. reviews' = reviews /\ UNCHANGED tick
      BY <1>4
    <2> QED BY <1>2, <1>3, <2>1 DEF tick, TickInv
  <1>5. CASE SelectFailures
    <2>1. \A row \in failed' : RowInv(row)
      BY <1>5, LaneWasHandedIn DEF SelectFailures, FailedLanes, IndInv, CardsInv
    <2>2. \A row \in failed' : RowInv(row)'
      BY <2>1, RowStays
    <2> QED BY <1>2, <1>5, <2>2 DEF SelectFailures, TickInv
  <1>6. CASE LookAtBranch
    <2>1. PICK row \in failed :
            /\ failed' = failed \ {row}
            /\ (Merged(row[2]) /\ target' = row[1] /\ repair' = "complete") \/ UNCHANGED <<target, repair>>
      BY <1>6 DEF LookAtBranch
    <2>2. repair' = "complete" => Merged(row[2]) /\ target' = row[1]
      BY <1>6, <2>1 DEF LookAtBranch
    <2>3. RowInv(row) /\ row[1] \in CardIds /\ Handed(row[1]) /\ Found(row[1], row[2])
      BY <1>1 DEF TickInv, RowInv, Rows, Handed
    <2>4. Handed(row[1])' /\ (Merged(row[2]) => Landed(row[1])')
      BY <2>3, HandedStays, MergedLanded, GitOnlyGrows DEF GitGrows, Landed
    <2> QED BY <1>2, <1>6, <2>1, <2>2, <2>4 DEF LookAtBranch, TickInv
  <1>7. CASE CompleteFailure \/ ReleaseResolvers
    <2>1. repair' # "complete" /\ failed' = failed /\ reviews' = reviews /\ open' = open
          /\ doomed' \subseteq doomed \cup Born
      BY <1>7 DEF CompleteFailure, ReleaseResolvers, OpenResolvers
    <2> QED BY <1>2, <2>1, BornStays DEF TickInv
  <1>8. CASE SelectResolvers \/ DedupeBranch \/ RetireResolver
    <2>1. /\ failed' = failed /\ reviews' = reviews /\ open' \cup doomed' \subseteq open \cup doomed \cup Born
          /\ target' = target /\ (repair' = "complete" => repair = "complete")
      BY <1>8 DEF SelectResolvers, DedupeBranch, RetireResolver, OpenResolvers
    <2> QED BY <1>2, <1>3, <2>1, BornStays DEF TickInv
  <1>9. CASE Review
    <2>1. PICK c \in CardIds :
            /\ Handed(c) /\ reviews' \subseteq reviews \cup {<<c, "pass">>, <<c, "tick">>}
      BY <1>9 DEF Review, InStage, Born, IndInv, CardsInv, CardInv, Handed
    <2>2. \A row \in reviews' : Handed(row[1])'
      BY <1>2, <2>1, HandedStays
    <2> QED BY <1>2, <1>3, <1>9, <2>2 DEF Review, tick, TickInv
  <1>10. CASE ReviewAgain
    <2>1. reviews' \subseteq reviews /\ UNCHANGED tick
      BY <1>10 DEF ReviewAgain
    <2> QED BY <1>2, <1>3, <2>1 DEF tick, TickInv
  <1>11. CASE Crash
    BY <1>11 DEF Crash, TickInv
  <1>12. CASE PassStep \/ DeveloperStep \/ Requeue \/ LateBlocker \/ UNCHANGED vars
    <2>1. UNCHANGED <<tick, reviews>>
      BY <1>12 DEF vars, PassStep, SelectLanes, NextLane, FailLane, AlreadyMerged, SkipReportOnly,
           Preflight, Merge, Push, Record, DeleteBranch, QueueResolver, DeveloperStep, Claim, Commit,
           PushBranch, Report, Requeue, LateBlocker
    <2> QED BY <1>4, <2>1
  <1> QED
    BY <1>5, <1>6, <1>7, <1>8, <1>9, <1>10, <1>11, <1>12 DEF Next, RepairStep, ReviewStep

(* The invariant holds of a plan that nobody works on yet.                  *)
LEMMA InitIndInv == Init => IndInv
  <1> SUFFICES ASSUME Init PROVE IndInv
    OBVIOUS
  <1>1. PICK new : new = QueueWorklane("Developer", TRUE)
    OBVIOUS
  <1>2. SoundCard(new) /\ new.ireq /\ new.stage = "planned" /\ new.status = "queued"
    <2>1. SoundCard(new)
      BY <1>1, QueueSound DEF Roles, CodeRoles
    <2> QED BY <1>1, <2>1 DEF QueueWorklane
  <1>3. cards = [c \in CardIds |-> IF c \in Lanes THEN new ELSE None]
    BY <1>1 DEF Init
  <1>4. TypeOK
    <2>1. cards \in [CardIds -> Card \cup {None}]
      BY <1>2, <1>3 DEF SoundCard
    <2>2. /\ about \in [Resolvers -> Failure \cup {None}]
          /\ local \in [Worktrees -> SUBSET CardIds]
          /\ remote \in [Worktrees -> (SUBSET CardIds) \cup {None}]
      <3>1. /\ about = [r \in Resolvers |-> None] /\ local = [n \in Worktrees |-> {}]
            /\ remote = [n \in Worktrees |-> None]
        BY DEF Init
      <3> QED BY <3>1
    <2>3. setting \in Settings /\ faults \in Nat /\ crashes \in Nat /\ faults + crashes <= setting.max
      BY IntegrationConstants DEF Init, Setting
    <2> QED BY <2>1, <2>2, <2>3 DEF Init, TypeOK, Phases
  <1>5. CardsInv
    <2>1. ASSUME NEW c \in CardIds, cards[c] # None PROVE CardInv(c)
      <3>1. cards[c] = new /\ c \in Lanes
        BY <1>3, <2>1
      <3> QED BY <1>2, <3>1, IntegrationConstants DEF CardInv
    <2>2. Lanes \subseteq Born
      BY <1>2, <1>3, IntegrationConstants DEF Born, CardIds, SoundCard
    <2> QED BY <2>1, <2>2 DEF CardsInv, Born
  <1>6. BranchesInv /\ PassInv /\ TickInv
    BY DEF Init, BranchesInv, PassInv, TickInv, Selected, InHand, Deciding
  <1> QED BY <1>4, <1>5, <1>6 DEF IndInv

(***************************************************************************)
(* The theorems.                                                           *)
(***************************************************************************)

(* The invariant holds in every reachable state.                            *)
LEMMA Invariance == Spec => []IndInv
  <1>1. IndInv /\ [Next]_vars => IndInv'
    BY TypeStands, GitOnlyGrows, CardsStand, PassStands, TickStands DEF IndInv
  <1> QED BY <1>1, InitIndInv, PTL DEF Spec

(* Every reachable state of the integration loop is well typed.             *)
THEOREM IntegrationTypeCorrect == Spec => []TypeOK
  <1>1. IndInv => TypeOK
    BY DEF IndInv
  <1> QED BY <1>1, Invariance, PTL

(* "integrated" means on the mainline, as long as workers leave no older    *)
(* copy of their branch at origin.                                          *)
THEOREM IntegratedLands ==
    ASSUME ~StaleCopies
    PROVE  Spec => []IntegratedIsOnMainline
  <1>1. IndInv => IntegratedIsOnMainline
    BY DEF IndInv, CardsInv, CardInv, Landed, IntegratedIsOnMainline
  <1> QED BY <1>1, Invariance, PTL

(* Work that was handed in stays where the pass looks for it, under the     *)
(* same condition.                                                          *)
THEOREM HandedInWorkStays ==
    ASSUME ~StaleCopies
    PROVE  Spec => []WorkIsReachable
  <1>1. IndInv => WorkIsReachable
    BY DEF IndInv, CardsInv, CardInv, Landed, Found, WorkIsReachable, InStage
  <1> QED BY <1>1, Invariance, PTL

(* The pass never touches a card in state integration_failed.               *)
LEMMA PassLeavesFailures ==
    ASSUME IndInv, PassStep, NEW c \in Born, cards[c].status = "integration_failed"
    PROVE  cards'[c] = cards[c]
  <1>1. cards \in [CardIds -> Card \cup {None}] /\ c \in CardIds
    BY DEF IndInv, TypeOK, Born
  <1>2. CASE UNCHANGED cards
    BY <1>2
  <1>3. CASE Deciding /\ \E new : Set(lane[1], new)
    <2>1. lane[1] # c
      BY <1>3 DEF IndInv, PassInv
    <2> QED BY <1>1, <1>3, <2>1 DEF Set
  <1>4. CASE QueueResolver
    BY <1>1, <1>4 DEF QueueResolver, Unused, Set
  <1>5. CASE FailLane
    BY <1>3, <1>5, FailWrites DEF FailLane
  <1> QED
    BY <1>2, <1>3, <1>4, <1>5 DEF PassStep, SelectLanes, NextLane, AlreadyMerged, SkipReportOnly,
         Preflight, Merge, Push, Record, DeleteBranch, Deciding

(* The pass leaves failed lanes to their resolvers.                         *)
THEOREM FailuresAreLeft == Spec => FailedLaneIsLeft
  <1>1. IndInv /\ [Next]_vars =>
          [\A c \in Born : cards[c].status = "integration_failed" /\ cards'[c] # cards[c] => ~PassStep]_vars
    BY PassLeavesFailures
  <1> QED BY <1>1, Invariance, PTL DEF Spec, FailedLaneIsLeft

-----------------------------------------------------------------------------
(***************************************************************************)
(* The loop implements Landing.                                            *)
(***************************************************************************)

(* A stage and a status say what has become of a card.                      *)
LEMMA OutcomeIs ==
    ASSUME NEW card, SoundCard(card)
    PROVE  /\ card.stage \in {"planned", "development"} => Outcome(card) = "open"
           /\ card.stage \in {"review", "integration"} /\ card.status # "integration_failed"
                => Outcome(card) = "handed"
           /\ card.stage = "integration" /\ card.status = "integration_failed"
                => Outcome(card) = "failed"
           /\ card.stage = "done" /\ card.status = "integrated" => Outcome(card) = "integrated"
           /\ card.stage = "done" /\ card.status # "integrated" => Outcome(card) = "closed"
           /\ card.stage \in {"review", "integration", "done"}
                => Outcome(card) \in {"handed", "failed", "closed", "integrated"}
           /\ Outcome(card) # "absent"
  BY DEF Outcome

(* The board of Landing when one card is written.                           *)
LEMMA ProgressPut ==
    ASSUME IndInv, NEW c \in CardIds, NEW new \in Card, Set(c, new)
    PROVE  [d \in CardIds |-> Progress(d)]' = [[d \in CardIds |-> Progress(d)] EXCEPT ![c] = Outcome(new)]
  <1>1. cards \in [CardIds -> Card \cup {None}] /\ new # None
    BY IntegrationConstants DEF IndInv, TypeOK
  <1>2. cards' = [cards EXCEPT ![c] = new]
    BY DEF Set
  <1>3. ASSUME NEW d \in CardIds PROVE Progress(d)' = IF d = c THEN Outcome(new) ELSE Progress(d)
    BY <1>1, <1>2 DEF Progress, Born
  <1> QED BY <1>3

(* Each step moves the board of Landing or leaves it alone.                 *)
Moves == Promise!Next \/ UNCHANGED Promise!vars

(* A card that is written moves as Landing allows: a resolver is made for a *)
(* card that was handed in, and each other change is an action of Landing.  *)
LEMMA ChangeMoves ==
    ASSUME ~StaleCopies, IndInv, NEW c \in CardIds, NEW new, Set(c, new), Change(c, new), UNCHANGED mainline
    PROVE  Moves
  <1> DEFINE prog == [d \in CardIds |-> Progress(d)]
  <1>1. SoundCard(new) /\ new \in Card
    BY DEF Change, SoundCard
  <1>2. prog' = [prog EXCEPT ![c] = Outcome(new)]
    BY <1>1, ProgressPut
  <1>3. \A d \in Born : d \in CardIds /\ prog[d] = Outcome(cards[d]) /\ SoundCard(cards[d]) /\ prog[d] # "absent"
    BY OutcomeIs DEF Born, Progress, IndInv, CardsInv, CardInv
  <1>4. \A d : Handed(d) => d \in CardIds /\ Promise!WasHandedIn(d) /\ prog[d] # "absent"
    BY <1>3, OutcomeIs DEF Handed, Promise!WasHandedIn, Promise!Is
  <1>5. CASE Created(c, new)
    <2>1. PICK d \in CardIds : Handed(d)
      BY <1>5 DEF Created
    <2>2. prog[c] = "absent" /\ Outcome(new) = "open"
      BY <1>1, <1>5, OutcomeIs DEF Created, Unused, Progress
    <2>3. Promise!Resolve(d, c)
      BY <1>2, <1>4, <2>1, <2>2 DEF Promise!Resolve, Promise!Is, Promise!Put
    <2> QED BY <2>1, <2>3 DEF Moves, Promise!Next
  <1>6. CASE Opened(c, new)
    <2>1. Outcome(new) = "open" /\ prog[c] = "open"
      BY <1>1, <1>3, <1>6, OutcomeIs DEF Opened
    <2>2. prog' = prog
      BY <1>2, <2>1
    <2> QED BY <2>2 DEF Moves, Promise!vars
  <1>7. CASE Routed(c, new)
    <2>1. Outcome(new) = "handed" /\ prog[c] # "absent"
      BY <1>1, <1>3, <1>7, OutcomeIs DEF Routed
    <2>2. Promise!HandIn(c)
      BY <1>2, <2>1 DEF Promise!HandIn, Promise!Is, Promise!Put
    <2> QED BY <2>2 DEF Moves, Promise!Next
  <1>8. CASE Failing(c, new)
    <2>1. Outcome(new) = "failed"
      BY <1>1, <1>8, OutcomeIs DEF Failing
    <2>2. Promise!Fail(c)
      BY <1>2, <1>4, <1>8, <2>1 DEF Failing, Promise!Fail, Promise!Put
    <2> QED BY <2>2 DEF Moves, Promise!Next
  <1>9. CASE Completed(c, new)
    <2>1. Outcome(new) = "integrated" /\ c \in mainline
      BY <1>1, <1>9, OutcomeIs DEF Completed, Landed
    <2>2. Promise!Integrate(c)
      BY <1>2, <1>4, <1>9, <2>1 DEF Completed, Promise!Integrate, Promise!Put
    <2> QED BY <2>2 DEF Moves, Promise!Next
  <1>10. CASE Retired(c, new)
    <2>1. Outcome(new) = "closed" /\ prog[c] # "absent"
      BY <1>1, <1>3, <1>10, OutcomeIs DEF Retired
    <2>2. c \in Lanes => Promise!WasHandedIn(c) /\ c \in mainline \cup StatusOnly
      BY <1>4, <1>10, IntegrationConstants DEF Retired, Landed
    <2>3. Promise!Close(c)
      BY <1>2, <2>1, <2>2 DEF Promise!Close, Promise!Is, Promise!Put
    <2> QED BY <2>3 DEF Moves, Promise!Next
  <1> QED BY <1>5, <1>6, <1>7, <1>8, <1>9, <1>10 DEF Change

(* A step that writes no card and leaves the mainline alone is a stutter.   *)
LEMMA Stutters ==
    ASSUME UNCHANGED <<cards, mainline>>
    PROVE  Moves
  BY DEF Moves, Promise!vars, Progress, Born

(* A push lands the card in hand, with what else is in its branch.          *)
LEMMA PushMoves ==
    ASSUME ~StaleCopies, IndInv, Push
    PROVE  Moves
  <1>1. /\ lane[1] \in CardIds /\ Handed(lane[1])
    BY LaneInHand DEF Push, InHand, Deciding
  <1>2. mainline \subseteq staged /\ lane[1] \in staged /\ staged \in SUBSET CardIds
    BY DEF Push, IndInv, PassInv, TypeOK
  <1>3. Progress(lane[1]) \notin {"absent", "open"}
    <2>1. SoundCard(cards[lane[1]])
      BY <1>1 DEF Handed, IndInv, CardsInv, CardInv
    <2> QED BY <1>1, <2>1, OutcomeIs DEF Handed, Progress
  <1>4. [d \in CardIds |-> Progress(d)]' = [d \in CardIds |-> Progress(d)]
    BY DEF Push, Progress, Born
  <1>5. Promise!Land(lane[1], staged)
    BY <1>1, <1>2, <1>3, <1>4 DEF Push, Promise!Land, Promise!WasHandedIn, Promise!Is
  <1> QED BY <1>1, <1>2, <1>5 DEF Moves, Promise!Next

LEMMA StepMoves ==
    ASSUME ~StaleCopies, IndInv, [Next]_vars
    PROVE  Moves
  <1>1. CASE UNCHANGED cards /\ UNCHANGED mainline
    BY <1>1, Stutters
  <1>2. CASE Push
    BY <1>2, PushMoves
  <1>3. CASE Written /\ UNCHANGED git
    BY <1>3, ChangeMoves DEF Written, git
  <1>4. UNCHANGED mainline \/ Push
    BY WritesOrNot DEF git, DeleteBranch, Commit, PushBranch
  <1> QED BY <1>1, <1>2, <1>3, <1>4, Changes

LEMMA InitMoves == Init => Promise!Init
  <1> SUFFICES ASSUME Init PROVE Promise!Init
    OBVIOUS
  <1>1. QueueWorklane("Developer", TRUE) \in Card /\ QueueWorklane("Developer", TRUE).stage = "planned"
    BY DEF QueueWorklane, Card, Roles, CodeRoles, Stages, Statuses, MappedStatuses
  <1>2. ASSUME NEW c \in CardIds
        PROVE  Progress(c) = IF c \in Lanes THEN "open" ELSE "absent"
    <2>1. cards[c] = IF c \in Lanes THEN QueueWorklane("Developer", TRUE) ELSE None
      BY DEF Init
    <2> QED BY <1>1, <2>1, IntegrationConstants DEF Progress, Born, Outcome
  <1> QED BY <1>2 DEF Init, Promise!Init

(* The integration loop and the repairs implement Landing, as long as       *)
(* workers leave no older copy of their branch at origin.                   *)
THEOREM PromiseIsKept ==
    ASSUME ~StaleCopies
    PROVE  Spec => KeepsPromise
  <1>1. IndInv /\ [Next]_vars => [Promise!Next]_(Promise!vars)
    BY StepMoves DEF Moves
  <1> QED BY <1>1, InitMoves, Invariance, PTL DEF Spec, KeepsPromise, Promise!Spec
=============================================================================
