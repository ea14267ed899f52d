----------------------------- MODULE SpawnRequests -----------------------------
(***************************************************************************)
(* Requests for specialists: an agent calls the MCP tool spawn_agent,      *)
(* which stores a row of spawn_requests and a planned card; the scheduler  *)
(* tick (handle_spawn_requests) later gives the card to the one running    *)
(* worker of that role, puts the request off while that worker is busy, or *)
(* starts a worker.  Workers report, end and die in between.               *)
(*                                                                         *)
(* One singleton role that writes no code is modelled, the Architect.      *)
(* Nobody resets the counters here, so number n is both agents.id and the  *)
(* name architect-n.  Requests and cards are numbered by their ids.        *)
(***************************************************************************)
EXTENDS Cards, Naturals, Sequences, FiniteSets

CONSTANTS
    Requesters,     \* agents that call spawn_agent
    Titles,         \* what they ask for
    Dead,           \* a process that is gone
    Kinds,          \* bound: the report kinds the workers use
    Updates,        \* bound: the <<over, ended>> pairs they set themselves
    PassLimit,      \* rows one call of next_spawn_requests returns
    MaxRequests,    \* bound: rows of spawn_requests
    MaxFaults,      \* bound: tmux errors
    MaxCrashes      \* bound: ticks that are cut short

Names == AgentIds

ASSUME SpawnConstants ==
    /\ AgentIds \subseteq Nat \ {0}
    /\ Kinds \subseteq ReportKinds /\ Updates \subseteq BOOLEAN \X BOOLEAN
    /\ PassLimit \in Nat /\ MaxRequests \in Nat /\ MaxFaults \in Nat /\ MaxCrashes \in Nat
    /\ Dead \notin Nat

VARIABLES
    cards,      \* worklanes: a title (source_key) and the row
    requests,   \* spawn_requests
    asking,     \* the call a requester is in: title and card it has found
    agents,     \* agents rows of the role
    proc,       \* the process of a name: Dead or the card it was last told of
    phase,      \* where handle_spawn_requests is
    picked,     \* requests it selected and has still to handle
    chosen,     \* the worker of the request at hand
    faults, crashes

handler == <<phase, picked, chosen>>
vars == <<cards, requests, asking, agents, proc, handler, faults, crashes>>

RequestStatuses == {"queued", "deferred", "started", "failed", "cancelled"}

AgentRow == [exists : BOOLEAN, over : BOOLEAN, ended : BOOLEAN]

Numbers == 0..MaxRequests

CardRow == [title : Titles, row : Card]

RequestRow == [from : Requesters, title : Titles, status : RequestStatuses,
               agent : Names \cup {None}, card : Numbers]

TypeOK ==
    /\ cards \in Seq(CardRow) /\ requests \in Seq(RequestRow)
    /\ asking \in [Requesters -> [title : Titles, card : Numbers] \cup {None}]
    /\ agents \in [Names -> AgentRow]
    /\ proc \in [Names -> Numbers \cup {Dead}]
    /\ phase \in {"idle", "select", "next", "prompt", "assign", "mark"}
    /\ picked \subseteq DOMAIN requests
    /\ chosen \in Names \cup {None}
    /\ faults \in 0..MaxFaults /\ crashes \in 0..MaxCrashes
    /\ \A r \in DOMAIN requests : requests[r].card \in DOMAIN cards

Init ==
    /\ cards = <<>> /\ requests = <<>>
    /\ asking = [q \in Requesters |-> None]
    /\ agents = [n \in Names |-> [exists |-> FALSE, over |-> TRUE, ended |-> TRUE]]
    /\ proc = [n \in Names |-> Dead]
    /\ phase = "idle" /\ picked = {} /\ chosen = None
    /\ faults = 0 /\ crashes = 0

(***************************************************************************)
(* Reads.                                                                  *)
(***************************************************************************)

Fault == faults < MaxFaults /\ faults' = faults + 1

Row(c) == cards[c].row

HeldCards(n) == {c \in DOMAIN cards : HeldBy(Row(c), n, None)}

(* running_role_agent looks at these rows in the order of their ids.        *)
Running(n) == agents[n].exists /\ ~agents[n].over /\ ~agents[n].ended

FirstRunning(n) == Running(n) /\ \A m \in Names : Running(m) => n <= m

Alive(n) == proc[n] # Dead

Unreachable(n) == \/ ~Alive(n) /\ UNCHANGED faults
                  \/ Alive(n) /\ Fault
Reachable(n) == Alive(n) /\ UNCHANGED faults

(* What queue_spawn_request answers with instead of a new row.              *)
CoalescedStatuses == {"queued", "deferred", "started"}

OpenRequest(q, t) ==
    \E r \in DOMAIN requests :
        /\ requests[r].from = q /\ requests[r].title = t
        /\ requests[r].status \in CoalescedStatuses

(* find_or_create_card: c is the oldest unresolved card of the title, or 0. *)
Found(t, c) ==
    LET open == {d \in DOMAIN cards : cards[d].title = t /\ Unresolved(Row(d))}
    IN IF open = {} THEN c = 0 ELSE c \in open /\ \A d \in open : c <= d

(***************************************************************************)
(* Writes.                                                                 *)
(***************************************************************************)

(* requeue_agent_cards.  (Dirty worktrees of gate cards are not at issue:   *)
(* a specialist works in the repository root.)                              *)
ReturnCards(n) ==
    cards' = [c \in DOMAIN cards |->
                IF c \in HeldCards(n) THEN [cards[c] EXCEPT !.row = RequeueCard(@)] ELSE cards[c]]

EndAgent(n) == agents' = [agents EXCEPT ![n].over = TRUE, ![n].ended = TRUE]

(* mark_agent_missing; the window is closed as far as tmux allows.          *)
TearDown(n) ==
    /\ ReturnCards(n)
    /\ EndAgent(n)
    /\ \E state \in {Dead, proc[n]} : proc' = [proc EXCEPT ![n] = state]

(* The loop takes what it selected in the order of the ids.                 *)
First(r) == r \in picked /\ \A s \in picked : r <= s

(* Mutant: every request for the card is cancelled.                         *)
AssignCancelsAll(c, n) ==
    /\ cards' = [cards EXCEPT ![c].row = AssignCard(@, n, None)]
    /\ requests' = [r \in DOMAIN requests |->
                        IF requests[r].card = c THEN [requests[r] EXCEPT !.status = "cancelled"]
                        ELSE requests[r]]

(* assign_card, which also cancels the requests that still wait for the     *)
(* card; no condition on the stage the card is in.                          *)
Assign(c, n) ==
    /\ cards' = [cards EXCEPT ![c].row = AssignCard(@, n, None)]
    /\ requests' = [r \in DOMAIN requests |->
                        IF requests[r].card = c /\ requests[r].status \in {"queued", "deferred"}
                        THEN [requests[r] EXCEPT !.status = "cancelled"] ELSE requests[r]]

(* mark_spawn_request overwrites whatever status the row has by now.        *)
MarkRequest(r, status, agent) ==
    /\ requests' = [requests EXCEPT ![r].status = status, ![r].agent = agent]
    /\ picked' = picked \ {r}
    /\ phase' = "next" /\ chosen' = None

(***************************************************************************)
(* The MCP tool spawn_agent: what it has read may be old when it writes.   *)
(***************************************************************************)

InCall == {q \in Requesters : asking[q] # None}

Ask(q, t) ==
    /\ asking[q] = None
    /\ Len(requests) + Cardinality(InCall) < MaxRequests
    /\ ~OpenRequest(q, t)
    /\ \E c \in Numbers :
          Found(t, c) /\ asking' = [asking EXCEPT ![q] = [title |-> t, card |-> c]]
    /\ UNCHANGED <<cards, requests, agents, proc, handler, faults, crashes>>

Store(q) ==
    /\ asking[q] # None
    /\ LET call == asking[q]
           new == call.card = 0
       IN /\ cards' = IF new THEN Append(cards, [title |-> call.title, row |-> QueueWorklane("Architect", FALSE)])
                      ELSE cards
          /\ requests' = Append(requests,
                [from |-> q, title |-> call.title, status |-> "queued", agent |-> None,
                 card |-> IF new THEN Len(cards) + 1 ELSE call.card])
    /\ asking' = [asking EXCEPT ![q] = None]
    /\ UNCHANGED <<agents, proc, handler, faults, crashes>>

(***************************************************************************)
(* handle_spawn_requests.                                                  *)
(***************************************************************************)

(* reconcile_spawn_requests.                                                *)
Waiting(c) == Row(c).stage = "planned" /\ Row(c).status = "queued"

ReconcileRequests ==
    /\ phase = "idle"
    /\ requests' = [r \in DOMAIN requests |->
                        IF requests[r].status \in {"queued", "deferred"} /\ ~Waiting(requests[r].card)
                        THEN [requests[r] EXCEPT !.status = "cancelled"] ELSE requests[r]]
    /\ phase' = "select"
    /\ UNCHANGED <<cards, asking, agents, proc, picked, chosen, faults, crashes>>

(* next_spawn_requests: the oldest queued rows.                             *)
SelectedStatuses == {"queued"}

Selectable == {r \in DOMAIN requests : requests[r].status \in SelectedStatuses}

SelectRequests ==
    /\ phase = "select"
    /\ picked' = {r \in Selectable : Cardinality({s \in Selectable : s < r}) < PassLimit}
    /\ phase' = "next"
    /\ UNCHANGED <<cards, requests, asking, agents, proc, chosen, faults, crashes>>

EndHandling ==
    /\ phase = "next" /\ picked = {}
    /\ phase' = "idle"
    /\ UNCHANGED <<cards, requests, asking, agents, proc, picked, chosen, faults, crashes>>

(* running_role_agent gives up the rows it cannot reach.                    *)
DropMissing(n) ==
    /\ phase = "next" /\ picked # {}
    /\ FirstRunning(n) /\ Unreachable(n)
    /\ TearDown(n)
    /\ UNCHANGED <<requests, asking, handler, crashes>>

Defer(n, r) ==
    /\ phase = "next" /\ First(r)
    /\ FirstRunning(n) /\ Reachable(n)
    /\ HeldCards(n) # {}
    /\ MarkRequest(r, "deferred", n)
    /\ UNCHANGED <<cards, asking, agents, proc, crashes>>

(* Mutant: the cards the worker holds are not counted.                      *)
HandOverBusy(n, r) ==
    /\ phase = "next" /\ First(r)
    /\ FirstRunning(n) /\ Reachable(n)
    /\ Assign(requests[r].card, n)
    /\ chosen' = n /\ phase' = "prompt"
    /\ UNCHANGED <<asking, agents, proc, picked, crashes>>

HandOver(n, r) ==
    /\ phase = "next" /\ First(r)
    /\ FirstRunning(n) /\ Reachable(n)
    /\ HeldCards(n) = {}
    /\ Assign(requests[r].card, n)
    /\ chosen' = n /\ phase' = "prompt"
    /\ UNCHANGED <<asking, agents, proc, picked, crashes>>

(* Mutant: a prompt that fails leaves the card where it is.                 *)
PromptKeepsCard(r) ==
    /\ phase = "prompt" /\ First(r)
    /\ \/ /\ Reachable(chosen)
          /\ proc' = [proc EXCEPT ![chosen] = requests[r].card]
          /\ MarkRequest(r, "started", chosen)
       \/ /\ Unreachable(chosen)
          /\ MarkRequest(r, "failed", chosen)
          /\ UNCHANGED proc
    /\ UNCHANGED <<cards, agents, asking, crashes>>

Prompt(r) ==
    /\ phase = "prompt" /\ First(r)
    /\ \/ /\ Reachable(chosen)
          /\ proc' = [proc EXCEPT ![chosen] = requests[r].card]
          /\ MarkRequest(r, "started", chosen)
          /\ UNCHANGED <<cards, agents>>
       \/ /\ Unreachable(chosen)
          /\ ReturnCards(chosen) /\ EndAgent(chosen)
          /\ MarkRequest(r, "failed", chosen)
          /\ UNCHANGED proc
    /\ UNCHANGED <<asking, crashes>>

NextName == Cardinality({n \in Names : agents[n].exists}) + 1

NobodyRuns == \A n \in Names : ~Running(n)

(* Mutant: a request whose worker cannot be started stays queued.           *)
SpawnFailsUnmarked(r) ==
    /\ phase = "next" /\ First(r) /\ NobodyRuns
    /\ IF NextName \in Names THEN Fault ELSE UNCHANGED faults
    /\ picked' = picked \ {r}
    /\ UNCHANGED <<phase, chosen, requests, cards, asking, agents, proc, crashes>>

SpawnFails(r) ==
    /\ phase = "next" /\ First(r) /\ NobodyRuns
    /\ IF NextName \in Names THEN Fault ELSE UNCHANGED faults
    /\ MarkRequest(r, "failed", None)
    /\ UNCHANGED <<cards, asking, agents, proc, crashes>>

(* The new worker reads its card in its prompt file.                        *)
SpawnWorker(r) ==
    /\ phase = "next" /\ First(r) /\ NobodyRuns
    /\ NextName \in Names
    /\ agents' = [agents EXCEPT ![NextName] = [exists |-> TRUE, over |-> FALSE, ended |-> FALSE]]
    /\ proc' = [proc EXCEPT ![NextName] = requests[r].card]
    /\ chosen' = NextName /\ phase' = "assign"
    /\ UNCHANGED <<cards, requests, asking, picked, faults, crashes>>

AssignSpawned(r) ==
    /\ phase = "assign" /\ First(r)
    /\ Assign(requests[r].card, chosen)
    /\ phase' = "mark"
    /\ UNCHANGED <<asking, agents, proc, picked, chosen, faults, crashes>>

MarkSpawned(r) ==
    /\ phase = "mark" /\ First(r)
    /\ MarkRequest(r, "started", chosen)
    /\ UNCHANGED <<cards, asking, agents, proc, faults, crashes>>

(* The tick ends early; what was committed stays.                           *)
Crash ==
    /\ phase # "idle" /\ crashes < MaxCrashes
    /\ crashes' = crashes + 1
    /\ phase' = "idle" /\ picked' = {} /\ chosen' = None
    /\ UNCHANGED <<cards, requests, asking, agents, proc, faults>>

HandlerStep ==
    \/ ReconcileRequests \/ SelectRequests \/ EndHandling
    \/ \E n \in Names : DropMissing(n)
    \/ \E r \in picked :
          \/ \E n \in Names : Defer(n, r) \/ HandOver(n, r)
          \/ Prompt(r) \/ SpawnFails(r) \/ SpawnWorker(r) \/ AssignSpawned(r) \/ MarkSpawned(r)

(***************************************************************************)
(* The rest of the tick, between two calls of handle_spawn_requests.  A    *)
(* row these loops have passed may change right after, so a step that is   *)
(* not taken is a step taken too early.                                    *)
(***************************************************************************)

(* reconcile_missing_tmux_agents and check_agent_liveness on one row.       *)
Sweep(n) ==
    /\ phase = "idle" /\ agents[n].exists
    /\ \/ ~agents[n].over /\ agents[n].ended /\ TearDown(n) /\ UNCHANGED faults
       \/ ~agents[n].over /\ Unreachable(n) /\ TearDown(n)
       \/ /\ agents[n].over /\ Alive(n)
          /\ proc' = [proc EXCEPT ![n] = Dead]
          /\ UNCHANGED <<cards, agents, faults>>
    /\ UNCHANGED <<requests, asking, handler, crashes>>

(* requeue_cards_from_terminal_agents.                                      *)
RequeueTerminal(c) ==
    /\ phase = "idle"
    /\ Row(c).stage = "development"
    /\ \E n \in Names : Row(c).owner = n /\ (agents[n].over \/ agents[n].ended)
    /\ cards' = [cards EXCEPT ![c].row = RequeueCard(@)]
    /\ UNCHANGED <<requests, asking, agents, proc, handler, faults, crashes>>

(* review_ready_cards.                                                      *)
Review(c) ==
    /\ phase = "idle"
    /\ Row(c).stage = "review"
    /\ cards' = [cards EXCEPT ![c].row = AcceptReview(@)]
    /\ UNCHANGED <<requests, asking, agents, proc, handler, faults, crashes>>

RepairStep ==
    \/ \E n \in Names : Sweep(n)
    \/ \E c \in DOMAIN cards : RequeueTerminal(c) \/ Review(c)

(***************************************************************************)
(* The workers.                                                            *)
(***************************************************************************)

(* record_agent_report on the card the worker was last told of.             *)
Report(n, kind) ==
    /\ Alive(n)
    /\ LET c == proc[n] IN
        /\ cards' = [cards EXCEPT ![c].row = ReportCard(@, kind)]
        /\ agents' = IF IsNonActionable(Row(c), kind)
                     THEN [agents EXCEPT ![n].over = FALSE, ![n].ended = FALSE] ELSE agents
    /\ UNCHANGED <<requests, asking, proc, handler, faults, crashes>>

(* memory_update_agent.                                                     *)
UpdateAgent(n, update) ==
    /\ Alive(n)
    /\ agents[n].ended => update[2]
    /\ agents' = [agents EXCEPT ![n].over = update[1], ![n].ended = update[2] \/ @]
    /\ UNCHANGED <<cards, requests, asking, proc, handler, faults, crashes>>

ProcessDies(n) ==
    /\ Alive(n)
    /\ proc' = [proc EXCEPT ![n] = Dead]
    /\ UNCHANGED <<cards, requests, asking, agents, handler, faults, crashes>>

WorkerStep ==
    \E n \in Names :
        \/ \E kind \in Kinds : Report(n, kind)
        \/ \E update \in Updates : UpdateAgent(n, update)
        \/ ProcessDies(n)

-----------------------------------------------------------------------------
AskStep == \E q \in Requesters : Store(q) \/ \E t \in Titles : Ask(q, t)

Next == AskStep \/ HandlerStep \/ Crash \/ RepairStep \/ WorkerStep

Spec == Init /\ [][Next]_vars

(* The tick comes round for ever; no worker has to report or to live.       *)
FairSpec == Spec /\ WF_vars(HandlerStep) /\ WF_vars(RepairStep)

(***************************************************************************)
(* Properties.                                                             *)
(***************************************************************************)

(* A specialist never has two cards, whatever requests were selected before *)
(* it got the first.                                                        *)
OneCardPerSpecialist ==
    \A n \in Names : Running(n) => \A c, d \in HeldCards(n) : c = d

(* A specialist that owns a card and still lives was told of that card, as  *)
(* long as no tick was cut short between the assignment and the prompt.     *)
OwnerIsTold ==
    phase = "idle" /\ crashes = 0 =>
        \A n \in Names : Running(n) /\ Alive(n) => HeldCards(n) \subseteq {proc[n]}

(* The singleton role does not multiply.  It does: a report that arrives    *)
(* late brings a worker back that the scheduler has given up; see the       *)
(* README.                                                                  *)
SingletonRole == \A m, n \in Names : Running(m) /\ Running(n) => m = n

(* A request that was answered with a worker, or with the failure to start  *)
(* one, keeps that answer: mark_spawn_request overwrites any status, and    *)
(* the rows a pass has selected may have been cancelled, but never answered. *)
AnswerIsFinal ==
    [][\A r \in DOMAIN requests :
          requests[r].status \in {"started", "failed"} => requests'[r] = requests[r]]_vars

(* A queued request is answered: handed over, put off, failed or cancelled. *)
QueuedIsAnswered ==
    \A r \in 1..MaxRequests :
        LET queued == r \in DOMAIN requests /\ requests[r].status = "queued"
        IN queued ~> ~queued

(* assign_card takes planned cards.  Requests selected together break it;   *)
(* see the README, "Known disagreements".                                   *)
AssignsPlannedCards ==
    [][\A c \in DOMAIN cards :
          cards'[c].row.stage = "development" => Row(c).stage \in {"planned", "development"}]_vars

(* A request that was put off is looked at again.  It is not; see the       *)
(* README.                                                                  *)
DeferredIsServed ==
    \A r \in 1..MaxRequests :
        LET deferred == r \in DOMAIN requests /\ requests[r].status = "deferred"
        IN deferred ~> ~deferred
=============================================================================
