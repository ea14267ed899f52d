----------------------------- MODULE Integration -----------------------------
(***************************************************************************)
(* The integration loop (integration.py) between the cards and git: it     *)
(* merges the branch of a reviewed card into the mainline of origin and    *)
(* turns failures into cards for a Conflict Resolver.                      *)
(*                                                                         *)
(* Git is reduced to sets of commits, one commit per card: the mainline of *)
(* origin, the local branch work/<n> of every worktree n and its copy on   *)
(* origin.  A branch belongs to the Developer, not to the card, and keeps  *)
(* the commits of all its cards.                                           *)
(*                                                                         *)
(* Cards are numbered in the order of their rows.  A failure makes a new   *)
(* card, "Resolve integration failure for card #c", unless one is open for *)
(* the same card, branch and kind of failure.  The scheduler tick repairs  *)
(* failures in steps: it selects rows, looks at git or at another card,    *)
(* and writes one row per commit, while the pass and the Developers go on. *)
(* Assignment, reports and reviews (module CardBoard) appear as single     *)
(* steps; a review may be taken again from rows that were selected before. *)
(***************************************************************************)
EXTENDS Cards, Naturals

CONSTANTS
    Lanes,          \* the cards of the plan
    Resolvers,      \* bound: rows for resolvers; git fails in a way that calls
                    \* for a resolver only while one is left
    StatusOnly,     \* cards whose commit touches only generated status files
    Repairs,        \* how resolvers repair a branch: "merge", "rewrite"
    StaleCopies,    \* whether a worker may report while an older copy of its
                    \* branch is at origin
    Settings        \* bounds: what the behaviours meet (see Setting)

CardIds == Lanes \cup Resolvers
Rows == CardIds \X Worktrees

Types == {"begin", "merge", "push"}

(* Lost workers, late reports, overlapping reviews, branches that are not   *)
(* deleted, supervisors killed in the middle of a pass or a tick.           *)
Mishaps == {"requeue", "late blocker", "second review", "kept branch", "crash"}

(* The bounds of one behaviour: the cards of the plan that are taken up, the*)
(* Developers at work, the parts of the pass in which git fails, and which  *)
(* and how many mishaps there are.                                          *)
Setting == [plan : SUBSET Lanes, team : SUBSET Worktrees, failing : SUBSET Types,
            mishaps : SUBSET Mishaps, max : Nat]

ASSUME IntegrationConstants ==
    /\ Lanes \subseteq Nat /\ Resolvers \subseteq Nat /\ Lanes \cap Resolvers = {}
    /\ Settings \subseteq Setting
    /\ Worktrees = AgentIds
    /\ StatusOnly \subseteq CardIds /\ StaleCopies \in BOOLEAN
    /\ None \notin Card /\ None \notin Nat
    /\ Repairs \subseteq {"merge", "rewrite"}

(* The type of a failure is the part of the pass it happens in.             *)
Failure == [card : CardIds, branch : Worktrees, type : Types]

VARIABLES
    cards,      \* worklanes; None before a resolver is created
    about,      \* source_key of a resolver: the failure it is for
    reviews,    \* cards that were reviewed and that another loop has selected for
                \* its review: the pass or the scheduler tick
    mainline,   \* commits on the mainline of origin
    local,      \* commits on the local branch of a worktree
    remote,     \* commits on the branch of a worktree at origin, or None
    phase,      \* where the pass is in the current lane
    lane,       \* that lane: a card and its branch as selected
    queue,      \* lanes the pass selected and has still to visit
    staged,     \* what the integration worktree is about to push
    failure,    \* the kind of failure of the current lane
    repair,     \* which repair of failures the scheduler tick is in
    failed,     \* failed lanes it selected and has still to look at
    target,     \* the one of them it found to be merged
    open,       \* resolvers it selected and has still to compare
    developing, \* those of them that were in development
    doomed,     \* resolvers it is about to retire
    setting, faults, crashes

pass == <<phase, lane, queue, staged, failure>>
tick == <<repair, failed, target, open, developing, doomed>>
git == <<mainline, local, remote>>
bounds == <<setting, faults, crashes>>
vars == <<cards, about, reviews, git, pass, tick, bounds>>

Phases == {"idle", "next", "begin", "merge", "push", "record", "delete", "resolver"}

TypeOK ==
    /\ cards \in [CardIds -> Card \cup {None}]
    /\ about \in [Resolvers -> Failure \cup {None}]
    /\ reviews \subseteq CardIds \X {"pass", "tick"}
    /\ mainline \subseteq CardIds
    /\ local \in [Worktrees -> SUBSET CardIds]
    /\ remote \in [Worktrees -> (SUBSET CardIds) \cup {None}]
    /\ phase \in Phases
    /\ lane \in Rows \cup {None}
    /\ queue \subseteq Rows
    /\ staged \subseteq CardIds
    /\ failure \in Types \cup {None}
    /\ repair \in {"idle", "settle", "complete", "release", "dedupe"}
    /\ failed \subseteq Lanes \X Worktrees
    /\ target \in Lanes \cup {None}
    /\ open \subseteq Resolvers /\ developing \subseteq Resolvers /\ doomed \subseteq Resolvers
    /\ setting \in Settings /\ faults \in Nat /\ crashes \in Nat
    /\ faults + crashes <= setting.max

Init ==
    /\ cards = [c \in CardIds |-> IF c \in Lanes THEN QueueWorklane("Developer", TRUE) ELSE None]
    /\ about = [r \in Resolvers |-> None] /\ reviews = {}
    /\ mainline = {}
    /\ local = [n \in Worktrees |-> {}]
    /\ remote = [n \in Worktrees |-> None]
    /\ phase = "idle" /\ lane = None /\ queue = {} /\ staged = {} /\ failure = None
    /\ repair = "idle" /\ failed = {} /\ target = None
    /\ open = {} /\ developing = {} /\ doomed = {}
    /\ setting \in Settings /\ faults = 0 /\ crashes = 0

(***************************************************************************)
(* Reads.                                                                  *)
(***************************************************************************)

Born == {c \in CardIds : cards[c] # None}
InStage(stage) == {c \in Born : cards[c].stage = stage}

(* _candidate_ref prefers the copy on origin, however old.                  *)
Candidate(n) == IF remote[n] # None THEN remote[n] ELSE local[n]

(* branch_integration_state, for a branch that exists.                      *)
Merged(n) == Candidate(n) \subseteq mainline

(* _is_report_only_change.                                                  *)
ReportOnly(n) == Candidate(n) \ mainline \subseteq StatusOnly

OpenResolvers == (Resolvers \cap Born) \ InStage("done")

(* The resolvers that are made for card c, whatever the kind of failure.    *)
ResolversFor(c) == {r \in Resolvers \cap Born : about[r].card = c}

Unused == Resolvers \ Born

(* The pass and the tick first review; rows they selected for it come first.*)
Reviewing(loop) == \E c \in CardIds : <<c, loop>> \in reviews
Oldest(r, R) == r \in R /\ \A q \in R : r <= q
Newest(R) == CHOOSE r \in R : \A q \in R : q <= r

(***************************************************************************)
(* Writes.                                                                 *)
(***************************************************************************)

Mishap(kind) == kind \in setting.mishaps /\ faults + crashes < setting.max

Fault(kind) == Mishap(kind) /\ faults' = faults + 1 /\ UNCHANGED <<setting, crashes>>

Set(c, card) == cards' = [cards EXCEPT ![c] = card]

(***************************************************************************)
(* The integration pass.                                                   *)
(***************************************************************************)

SelectLanes ==
    /\ phase = "idle" /\ ~Reviewing("pass")
    /\ queue' = {<<c, cards[c].worktree>> : c \in {d \in Born : ReadyLane(cards[d])}}
    /\ phase' = IF queue' = {} THEN "idle" ELSE "next"
    /\ UNCHANGED <<cards, about, reviews, git, lane, staged, failure, tick, bounds>>

NextLane ==
    /\ phase = "next"
    /\ \E row \in queue : lane' = row /\ queue' = queue \ {row}
    /\ phase' = "begin"
    /\ UNCHANGED <<cards, about, reviews, git, staged, failure, tick, bounds>>

(* The pass is through with the lane in hand.                               *)
LeaveLane ==
    /\ lane' = None
    /\ phase' = IF queue = {} THEN "idle" ELSE "next"


(* No worktree, no origin, no mainline, a fetch that fails, a conflict in   *)
(* merge-tree, diff --check; a merge, a check or a commit that fails; a     *)
(* push that is rejected.  The status is committed here, the resolver is    *)
(* created after that commit.                                               *)
FailLane ==
    /\ phase \in setting.failing /\ Unused # {}
    /\ Set(lane[1], UpdateWorklaneStatus(cards[lane[1]], "integration_failed"))
    /\ failure' = phase /\ phase' = "resolver" /\ staged' = {}
    /\ UNCHANGED <<about, reviews, git, lane, queue, tick, bounds>>

(* Mutant: a lane that is merged already is left as it is.                  *)
AlreadyMergedSkips ==
    /\ phase = "begin" /\ Merged(lane[2])
    /\ phase' = "delete"
    /\ UNCHANGED <<cards, about, reviews, git, lane, queue, staged, failure, tick, bounds>>

AlreadyMerged ==
    /\ phase = "begin" /\ Merged(lane[2])
    /\ Set(lane[1], CompleteCard(cards[lane[1]]))
    /\ phase' = "delete"
    /\ UNCHANGED <<about, reviews, git, lane, queue, staged, failure, tick, bounds>>

SkipReportOnly ==
    /\ phase = "begin" /\ ~Merged(lane[2]) /\ ReportOnly(lane[2])
    /\ Set(lane[1], RetireCard(cards[lane[1]]))
    /\ phase' = "delete"
    /\ UNCHANGED <<about, reviews, git, lane, queue, staged, failure, tick, bounds>>

Preflight ==
    /\ phase = "begin" /\ ~Merged(lane[2]) /\ ~ReportOnly(lane[2])
    /\ phase' = "merge"
    /\ UNCHANGED <<cards, about, reviews, git, lane, queue, staged, failure, tick, bounds>>

(* git merge reads the branch again.                                        *)
Merge ==
    /\ phase = "merge"
    /\ staged' = mainline \cup Candidate(lane[2])
    /\ phase' = "push"
    /\ UNCHANGED <<cards, about, reviews, git, lane, queue, failure, tick, bounds>>

(* Mutant: the outcome of git push is not looked at.                        *)
PushUnchecked ==
    /\ phase = "push"
    /\ mainline' \in {staged, mainline}
    /\ phase' = "record" /\ staged' = {}
    /\ UNCHANGED <<cards, about, reviews, local, remote, lane, queue, failure, tick, bounds>>

Push ==
    /\ phase = "push"
    /\ mainline' = staged
    /\ phase' = "record" /\ staged' = {}
    /\ UNCHANGED <<cards, about, reviews, local, remote, lane, queue, failure, tick, bounds>>

Record ==
    /\ phase = "record"
    /\ Set(lane[1], CompleteCard(cards[lane[1]]))
    /\ phase' = "delete"
    /\ UNCHANGED <<about, reviews, git, lane, queue, staged, failure, tick, bounds>>

(* Mutant: the local branch goes with the copy on origin.                   *)
DeleteBranchEverywhere ==
    /\ phase = "delete"
    /\ \/ remote' = [remote EXCEPT ![lane[2]] = None] /\ UNCHANGED bounds
       \/ Fault("kept branch") /\ UNCHANGED remote
    /\ local' = [local EXCEPT ![lane[2]] = {}]
    /\ LeaveLane
    /\ UNCHANGED <<cards, about, reviews, mainline, queue, staged, failure, tick>>

(* _delete_integrated_branch ignores the outcome of push --delete.          *)
DeleteBranch ==
    /\ phase = "delete"
    /\ \/ remote' = [remote EXCEPT ![lane[2]] = None] /\ UNCHANGED bounds
       \/ Fault("kept branch") /\ UNCHANGED remote
    /\ LeaveLane
    /\ UNCHANGED <<cards, about, reviews, mainline, local, queue, staged, failure, tick>>

(* _queue_conflict_card: find_or_create_card on the key of this failure.    *)
QueueResolver ==
    /\ phase = "resolver"
    /\ LET this == [card |-> lane[1], branch |-> lane[2], type |-> failure]
           known == \E r \in Resolvers \cap Born : about[r] = this /\ Unresolved(cards[r])
       IN \/ known /\ UNCHANGED <<cards, about>>
          \/ /\ ~known
             /\ \E r \in Unused :
                  /\ Oldest(r, Unused)
                  /\ Set(r, QueueWorklane("Conflict Resolver", TRUE))
                  /\ about' = [about EXCEPT ![r] = this]
    /\ failure' = None /\ LeaveLane
    /\ UNCHANGED <<reviews, git, queue, staged, tick, bounds>>

PassStep ==
    \/ SelectLanes \/ NextLane \/ FailLane \/ AlreadyMerged \/ SkipReportOnly \/ Preflight
    \/ Merge \/ Push \/ Record \/ DeleteBranch \/ QueueResolver

(* The supervisor is killed with its loops; what they had not committed is  *)
(* rolled back.                                                             *)
Crash ==
    /\ phase # "idle" \/ repair # "idle" \/ reviews # {}
    /\ Mishap("crash") /\ crashes' = crashes + 1
    /\ phase' = "idle" /\ lane' = None /\ queue' = {} /\ staged' = {} /\ failure' = None
    /\ repair' = "idle" /\ failed' = {} /\ target' = None
    /\ open' = {} /\ developing' = {} /\ doomed' = {} /\ reviews' = {}
    /\ UNCHANGED <<cards, about, git, setting, faults>>

(***************************************************************************)
(* The repairs of the scheduler tick: first the failed lanes, then the     *)
(* resolvers, over and over.                                               *)
(***************************************************************************)

(* retire_unrecoverable_integration_failures selects original lanes only.   *)
FailedLanes == {l \in Lanes : FailedLane(cards[l])}

SelectFailures ==
    /\ repair = "idle" /\ ~Reviewing("tick") /\ FailedLanes # {}
    /\ failed' = {<<l, cards[l].worktree>> : l \in FailedLanes}
    /\ repair' = "settle"
    /\ UNCHANGED <<cards, about, reviews, git, pass, target, open, developing, doomed, bounds>>

(* Mutant: a failure counts as settled as soon as a resolver of it is done. *)
SettleByResolver ==
    /\ repair = "settle" /\ doomed = {}
    /\ \E row \in failed :
        /\ failed' = failed \ {row}
        /\ \/ /\ ResolversFor(row[1]) \cap InStage("done") # {}
              /\ target' = row[1] /\ repair' = "complete"
           \/ /\ ResolversFor(row[1]) \cap InStage("done") = {}
              /\ UNCHANGED <<target, repair>>
    /\ UNCHANGED <<cards, about, reviews, git, pass, open, developing, doomed, bounds>>

(* A selected lane is settled once its branch holds nothing new.            *)
LookAtBranch ==
    /\ repair = "settle" /\ doomed = {}
    /\ \E row \in failed :
        /\ failed' = failed \ {row}
        /\ \/ Merged(row[2]) /\ target' = row[1] /\ repair' = "complete"
           \/ ~Merged(row[2]) /\ UNCHANGED <<target, repair>>
    /\ UNCHANGED <<cards, about, reviews, git, pass, open, developing, doomed, bounds>>

(* complete_card, whatever has become of the row since it was selected.     *)
CompleteFailure ==
    /\ repair = "complete"
    /\ Set(target, CompleteCard(cards[target]))
    /\ repair' = "release"
    /\ UNCHANGED <<about, reviews, git, pass, failed, target, open, developing, doomed, bounds>>

(* retire_resolution_cards_for_target selects the resolvers.                *)
ReleaseResolvers ==
    /\ repair = "release"
    /\ doomed' = ResolversFor(target) \cap OpenResolvers
    /\ repair' = "settle" /\ target' = None
    /\ UNCHANGED <<cards, about, reviews, git, pass, failed, open, developing, bounds>>

(* dedupe_integration_resolution_cards selects the resolvers, after the     *)
(* failures or when there are none.                                         *)
SelectResolvers ==
    /\ \/ repair = "settle" /\ failed = {} /\ doomed = {}
       \/ repair = "idle" /\ ~Reviewing("tick") /\ FailedLanes = {} /\ OpenResolvers # {}
    /\ open' = OpenResolvers
    /\ developing' = OpenResolvers \cap InStage("development")
    /\ repair' = IF OpenResolvers = {} THEN "idle" ELSE "dedupe"
    /\ UNCHANGED <<cards, about, reviews, git, pass, failed, target, doomed, bounds>>

(* Mutant: one resolver stays, whatever has become of the card it is for.   *)
KeepableAlways(group) ==
    IF group \cap developing # {} THEN group \cap developing ELSE {Newest(group)}

(* integration_resolution_card_to_keep, on the rows as selected: a card in  *)
(* development, else the newest.  (Of two in development the code prefers   *)
(* the one whose agent is not over; agents are not modelled, so either may  *)
(* stay.)  None stays when all are about one card and that card is done.    *)
Keepable(group) ==
    CASE \E c \in InStage("done") : \A r \in group : about[r].card = c -> {}
      [] group \cap developing # {} -> group \cap developing
      [] OTHER -> {Newest(group)}

(* The selected resolvers of one branch are compared, in order of rows.     *)
DedupeBranch ==
    /\ repair = "dedupe" /\ doomed = {}
    /\ \E first \in open :
        LET group == {r \in open : about[r].branch = about[first].branch}
        IN /\ Oldest(first, open)
           /\ \/ Keepable(group) = {} /\ doomed' = group
              \/ \E keep \in Keepable(group) : doomed' = group \ {keep}
           /\ open' = open \ group /\ developing' = developing \ group
    /\ repair' = IF open' = {} /\ doomed' = {} THEN "idle" ELSE "dedupe"
    /\ UNCHANGED <<cards, about, reviews, git, pass, failed, target, bounds>>

(* retire_card_and_release_agent: one row, one commit, no second look.      *)
RetireResolver ==
    /\ \E r \in doomed :
        /\ Oldest(r, doomed)
        /\ Set(r, RetireCard(cards[r]))
        /\ doomed' = doomed \ {r}
    /\ repair' = IF repair = "dedupe" /\ open = {} /\ doomed' = {} THEN "idle" ELSE repair
    /\ UNCHANGED <<about, reviews, git, pass, failed, target, open, developing, bounds>>

RepairStep ==
    \/ SelectFailures \/ LookAtBranch \/ CompleteFailure \/ ReleaseResolvers
    \/ SelectResolvers \/ DedupeBranch \/ RetireResolver

(* review_ready_cards on one card; its report is on file.  The tick and the *)
(* integration loop both call it: the other may have selected the card too. *)
Review ==
    /\ \E c \in InStage("review") :
        /\ Set(c, AcceptReview(cards[c]))
        /\ \/ UNCHANGED <<reviews, bounds>>
           \/ /\ Fault("second review")
              /\ \/ phase = "idle" /\ reviews' = reviews \cup {<<c, "pass">>}
                 \/ repair = "idle" /\ reviews' = reviews \cup {<<c, "tick">>}
    /\ UNCHANGED <<about, git, pass, tick>>

(* The other one routes it again, wherever the card is by now.              *)
ReviewAgain ==
    /\ \E row \in reviews :
        /\ Set(row[1], AcceptReview(cards[row[1]]))
        /\ reviews' = reviews \ {row}
    /\ UNCHANGED <<about, git, pass, tick, bounds>>

ReviewStep == Review \/ ReviewAgain

(***************************************************************************)
(* The Developers.                                                         *)
(***************************************************************************)

Works(n, c) == c \in InStage("development") /\ cards[c].owner = n

Claim ==
    /\ \E n \in setting.team, c \in InStage("planned") \cap (setting.plan \cup Resolvers) :
        /\ \A d \in CardIds : ~Works(n, d)
        /\ Set(c, AssignCard(cards[c], n, n))
    /\ UNCHANGED <<about, reviews, git, pass, tick, bounds>>

(* A resolver merges the failed branch into its own, or writes the change   *)
(* anew.                                                                    *)
Commit ==
    /\ \E n \in Worktrees, c \in CardIds, way \in Repairs :
        /\ Works(n, c) /\ c \notin local[n]
        /\ local' = [local EXCEPT ![n] = @ \cup {c} \cup
                        IF c \in Resolvers /\ way = "merge" THEN Candidate(about[c].branch) ELSE {}]
    /\ UNCHANGED <<cards, about, reviews, mainline, remote, pass, tick, bounds>>

PushBranch ==
    /\ \E n \in Worktrees :
        /\ remote[n] # local[n] /\ local[n] # {}
        /\ \E c \in CardIds : Works(n, c)
        /\ remote' = [remote EXCEPT ![n] = local[n]]
    /\ UNCHANGED <<cards, about, reviews, mainline, local, pass, tick, bounds>>

(* An accepted report of a worker that has committed its work.              *)
Report ==
    /\ \E n \in Worktrees, c \in CardIds :
        /\ Works(n, c) /\ c \in local[n]
        /\ StaleCopies \/ remote[n] \in {None, local[n]}
        /\ Set(c, ReportCard(cards[c], "completed"))
    /\ UNCHANGED <<about, reviews, git, pass, tick, bounds>>

(* Lost workers: requeue_agent_cards, on a card that is still in            *)
(* development (CardBoard has the row that is not).                         *)
Requeue ==
    /\ Fault("requeue")
    /\ \E c \in InStage("development") : Set(c, RequeueCard(cards[c]))
    /\ UNCHANGED <<about, reviews, git, pass, tick>>

(* A report that arrives late: record_agent_report changes the status of a  *)
(* card in any stage.                                                       *)
LateBlocker ==
    /\ Fault("late blocker")
    /\ \E c \in InStage("integration") : Set(c, ReportCard(cards[c], "blocked"))
    /\ UNCHANGED <<about, reviews, git, pass, tick>>

DeveloperStep == Claim \/ Commit \/ PushBranch \/ Report

-----------------------------------------------------------------------------
Next ==
    \/ PassStep \/ RepairStep \/ Crash
    \/ ReviewStep \/ DeveloperStep \/ Requeue \/ LateBlocker

Spec == Init /\ [][Next]_vars

(* The loops run for ever and Developers finish what they take.             *)
FairSpec ==
    /\ Spec
    /\ WF_vars(PassStep) /\ WF_vars(RepairStep) /\ WF_vars(ReviewStep)
    /\ WF_vars(DeveloperStep)

(***************************************************************************)
(* Properties.                                                             *)
(***************************************************************************)

(* A card counts as integrated only when its commit is on the mainline of   *)
(* origin, through crashes between push and record, failed branch deletions *)
(* and "already merged" shortcuts.                                          *)
IntegratedIsOnMainline ==
    \A c \in Born : cards[c].status = "integrated" => c \in mainline

(* The commit of a card that was handed in stays where the pass looks for   *)
(* it, although other cards of the same branch are merged and deleted.      *)
WorkIsReachable ==
    \A c \in InStage("review") \cup InStage("integration") :
        c \in mainline \cup Candidate(cards[c].worktree)

(* Only commits of cards that were handed in reach the mainline.            *)
MainlineIsReviewed ==
    \A c \in mainline \cap Born : cards[c].stage \notin {"planned", "development"}

(* The pass leaves an integration_failed lane to its resolver: it is never  *)
(* integrated again without a scheduler repair or a report in between.      *)
FailedLaneIsLeft ==
    [][\A c \in Born : cards[c].status = "integration_failed" /\ cards'[c] # cards[c] => ~PassStep]_vars

(* The plan is finite, so the board comes to rest; the next three say how.  *)

(* Every lane the pass may take is decided: none stays ready for ever.      *)
ReadyLaneIsDecided == <>[](\A c \in Born : ~ReadyLane(cards[c]))


(* Nobody works for ever on the failure of a card that is done.             *)
ResolverIsReleased ==
    <>[](\A r \in Resolvers \cap Born :
            about[r].card \in InStage("done") => r \in InStage("done"))

(* What has become of the work of a card.                                   *)
Outcome(card) ==
    CASE card.stage \in {"planned", "development"} -> "open"
      [] card.stage = "done" -> IF card.status = "integrated" THEN "integrated" ELSE "closed"
      [] OTHER -> IF card.status = "integration_failed" THEN "failed" ELSE "handed"

Progress(c) == IF c \in Born THEN Outcome(cards[c]) ELSE "absent"

Promise == INSTANCE Landing WITH
    Plan <- Lanes,
    Droppable <- StatusOnly,
    progress <- [c \in CardIds |-> Progress(c)]

(* The loop keeps the promise of Landing: nothing counts as integrated      *)
(* before it is on the mainline, no work of the plan that was handed in is  *)
(* dropped or worked on anew, and no resolver takes the place of another,   *)
(* through failures of git, crashes between git and the database, and       *)
(* repairs and reviews of rows that others have moved.                      *)
KeepsPromise == Promise!Spec
=============================================================================
