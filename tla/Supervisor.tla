------------------------------ MODULE Supervisor ------------------------------
(***************************************************************************)
(* The processes around the loops (scheduler.py): ./harness run, which     *)
(* clears the stopped flag and then supervises the deterministic loops;    *)
(* ./harness stop, which sets the flag, signals the processes it found and *)
(* takes the agent windows down; and ./harness watchdog, which a service   *)
(* manager restarts and which runs one pass at a time unless it reads the  *)
(* flag.                                                                   *)
(*                                                                         *)
(* SIGTERM only leaves a mark in a supervisor; whether it ends the process *)
(* is decided from the flag when the next pass of a loop begins.  A        *)
(* process that has not installed the handler, like the watchdog, dies.    *)
(* Of what a pass does only the start of an agent window matters here: the *)
(* window first, its agents row later.                                     *)
(***************************************************************************)
EXTENDS Naturals

CONSTANTS
    Runs,           \* processes of ./harness run, numbered as they start
    Watchdogs,      \* watchdog services: one or none
    Loops,          \* the loops of a supervisor, "scheduler" among them
    Agents,         \* bound: the agent names there ever are
    None,
    MaxNoise,       \* bound: SIGTERMs that do not come from ./harness stop
    MaxFaults       \* bound: reads of the flag that raise

Procs == Runs \cup Watchdogs

ASSUME SupervisorConstants ==
    /\ Runs \subseteq Nat /\ Runs \cap Watchdogs = {}
    /\ "scheduler" \in Loops /\ None \notin Agents
    /\ MaxNoise \in Nat /\ MaxFaults \in Nat

VARIABLES
    flag,       \* metadata harness_stopped = "1"
    phase,      \* where a process is
    pending,    \* supervisors with _pending_sigterms > 0
    busy,       \* passes of a process running in worker threads
    opening,    \* the agent whose window a process has opened, without a row
    panes,      \* agent windows that exist
    rows,       \* agents rows: "none", "active", "over"
    stopper,    \* where the stop command is
    targets,    \* processes it found and has not signalled yet
    windows,    \* agent windows it found
    resumed,    \* history: ./harness run came after the last stop
    halted,     \* history: supervisors a stop was recorded for since they began
    signalled,  \* history: supervisors ./harness stop has signalled
    noise, faults

procVars == <<phase, pending, busy, opening>>
agentVars == <<panes, rows>>
stopVars == <<stopper, targets, windows>>
history == <<resumed, halted, signalled>>
vars == <<flag, procVars, agentVars, stopVars, history, noise, faults>>

(* "off" and "ended": no process.  "startup" is run() before its first      *)
(* commit, "unguarded" after it and before signal.signal.  A watchdog is    *)
(* "down", at its "check", in "startup" or in its "passes".                 *)
Phases == {"off", "startup", "unguarded", "loops", "exiting", "ended", "down", "check", "passes"}
NoProcess == {"off", "ended", "down"}

TypeOK ==
    /\ flag \in BOOLEAN
    /\ phase \in [Procs -> Phases]
    /\ pending \subseteq Runs
    /\ busy \in [Procs -> SUBSET Loops]
    /\ opening \in [Procs -> Agents \cup {None}]
    /\ panes \subseteq Agents
    /\ rows \in [Agents -> {"none", "active", "over"}]
    /\ stopper \in {"idle", "scanned", "marked", "killing"}
    /\ targets \subseteq Procs /\ windows \subseteq Agents
    /\ resumed \in BOOLEAN /\ halted \subseteq Runs /\ signalled \subseteq Runs
    /\ noise \in 0..MaxNoise /\ faults \in 0..MaxFaults
    /\ \A p \in Procs : busy[p] # {} => phase[p] \in {"loops", "exiting", "passes"}

Init ==
    /\ flag = FALSE
    /\ phase = [p \in Procs |-> IF p \in Watchdogs THEN "down" ELSE "off"]
    /\ pending = {}
    /\ busy = [p \in Procs |-> {}]
    /\ opening = [p \in Procs |-> None]
    /\ panes = {} /\ rows = [n \in Agents |-> "none"]
    /\ stopper = "idle" /\ targets = {} /\ windows = {}
    /\ resumed = TRUE /\ halted = {} /\ signalled = {}
    /\ noise = 0 /\ faults = 0

Fault == faults < MaxFaults /\ faults' = faults + 1

Enter(p, where) == phase' = [phase EXCEPT ![p] = where]

(***************************************************************************)
(* ./harness run                                                           *)
(***************************************************************************)

(* One operator: no command is given while stop is still at work.           *)
Launch(p) ==
    /\ p \in Runs /\ phase[p] = "off" /\ stopper = "idle"
    /\ \A q \in Runs : q < p => phase[q] # "off"
    /\ Enter(p, "startup")
    /\ resumed' = TRUE
    /\ UNCHANGED <<flag, pending, busy, opening, agentVars, stopVars, halted, signalled, noise, faults>>

(* check_codex_mcp and the other checks of start() may refuse.              *)
StartRefused(p) ==
    /\ p \in Runs /\ phase[p] = "startup"
    /\ Enter(p, "ended")
    /\ UNCHANGED <<flag, pending, busy, opening, agentVars, stopVars, history, noise, faults>>

(* The commit of start(), of a supervisor and of the watchdog's run(once).  *)
Start(p) ==
    /\ phase[p] = "startup"
    /\ flag' = FALSE
    /\ IF p \in Runs THEN Enter(p, "unguarded") /\ UNCHANGED busy
       ELSE Enter(p, "passes") /\ busy' = [busy EXCEPT ![p] = {"scheduler"}]
    /\ halted' = halted \ {p}
    /\ UNCHANGED <<pending, opening, agentVars, stopVars, resumed, signalled, noise, faults>>

InstallHandler(p) ==
    /\ phase[p] = "unguarded"
    /\ Enter(p, "loops")
    /\ UNCHANGED <<flag, pending, busy, opening, agentVars, stopVars, history, noise, faults>>

(* handle_pending_supervisor_sigterms and harness_stop_requested.           *)
(* Mutants: the flag is not read; a stop is put off while a pass runs.      *)
StopUnconditional(p) == p \in pending

StopWhenIdle(p) == p \in pending /\ flag /\ busy[p] = {}

StopRequested(p) == p \in pending /\ flag

(* supervised_once: handle_pending_supervisor_sigterms, then the pass.  An  *)
(* exception in harness_stop_requested counts as "not stopped".             *)
BeginPass(p, l) ==
    /\ phase[p] = "loops" /\ l \notin busy[p]
    /\ pending' = pending \ {p}
    /\ \/ /\ StopRequested(p)
          /\ Enter(p, "exiting")
          /\ UNCHANGED <<busy, faults>>
       \/ /\ IF StopRequested(p) THEN Fault ELSE UNCHANGED faults
          /\ busy' = [busy EXCEPT ![p] = @ \cup {l}]
          /\ UNCHANGED phase
    /\ UNCHANGED <<flag, opening, agentVars, stopVars, history, noise>>

EndPass(p, l) ==
    /\ l \in busy[p]
    /\ l = "scheduler" => opening[p] = None
    /\ busy' = [busy EXCEPT ![p] = @ \ {l}]
    /\ IF p \in Watchdogs THEN Enter(p, "check") ELSE UNCHANGED phase
    /\ UNCHANGED <<flag, pending, opening, agentVars, stopVars, history, noise, faults>>

(* Mutant: the process ends at once, with passes still running.             *)
ExitAtOnce(p) ==
    /\ phase[p] = "exiting"
    /\ Enter(p, "ended")
    /\ UNCHANGED <<flag, pending, busy, opening, agentVars, stopVars, history, noise, faults>>

(* asyncio.run waits for the worker threads before run() returns.           *)
Exit(p) ==
    /\ phase[p] = "exiting" /\ busy[p] = {}
    /\ Enter(p, "ended")
    /\ UNCHANGED <<flag, pending, busy, opening, agentVars, stopVars, history, noise, faults>>

(***************************************************************************)
(* The agent windows in a scheduler pass.                                  *)
(***************************************************************************)

(* spawn_agent: ensure_window, later upsert_agent.                          *)
OpenWindow(p, n) ==
    /\ "scheduler" \in busy[p] /\ opening[p] = None /\ rows[n] = "none"
    /\ \A q \in Procs : opening[q] # n
    /\ opening' = [opening EXCEPT ![p] = n]
    /\ panes' = panes \cup {n}
    /\ UNCHANGED <<flag, phase, pending, busy, rows, stopVars, history, noise, faults>>

RegisterAgent(p) ==
    /\ opening[p] # None
    /\ rows' = [rows EXCEPT ![opening[p]] = "active"]
    /\ opening' = [opening EXCEPT ![p] = None]
    /\ UNCHANGED <<flag, phase, pending, busy, panes, stopVars, history, noise, faults>>

(* reconcile_missing_tmux_agents on one row.                                *)
Reconcile(p, n) ==
    /\ "scheduler" \in busy[p] /\ opening[p] = None
    /\ \/ rows[n] = "over" /\ n \in panes /\ panes' = panes \ {n} /\ UNCHANGED rows
       \/ rows[n] = "active" /\ n \notin panes
          /\ rows' = [rows EXCEPT ![n] = "over"] /\ UNCHANGED panes
    /\ UNCHANGED <<flag, procVars, stopVars, history, noise, faults>>

(***************************************************************************)
(* Signals.                                                                *)
(***************************************************************************)

Guarded(p) == phase[p] \in {"loops", "exiting"}

Dies(p) ==
    /\ Enter(p, IF p \in Watchdogs THEN "down" ELSE "ended")
    /\ busy' = [busy EXCEPT ![p] = {}]
    /\ opening' = [opening EXCEPT ![p] = None]

Sigterm(p) ==
    \/ Guarded(p) /\ pending' = pending \cup {p} /\ UNCHANGED <<phase, busy, opening>>
    \/ ~Guarded(p) /\ phase[p] \notin NoProcess /\ Dies(p) /\ UNCHANGED pending
    \/ phase[p] \in NoProcess /\ UNCHANGED procVars

Noise(p) ==
    /\ noise < MaxNoise /\ noise' = noise + 1
    /\ phase[p] \notin NoProcess
    /\ Sigterm(p)
    /\ UNCHANGED <<flag, agentVars, stopVars, history, faults>>

(***************************************************************************)
(* ./harness watchdog and its service manager                              *)
(***************************************************************************)

Restart(p) ==
    /\ phase[p] = "down"
    /\ Enter(p, "check")
    /\ UNCHANGED <<flag, pending, busy, opening, agentVars, stopVars, history, noise, faults>>

(* _harness_is_stopped answers FALSE when the database cannot be read.      *)
Check(p) ==
    /\ phase[p] = "check"
    /\ IF flag THEN Fault ELSE UNCHANGED faults
    /\ Enter(p, "startup")
    /\ UNCHANGED <<flag, pending, busy, opening, agentVars, stopVars, history, noise>>

(***************************************************************************)
(* ./harness stop                                                          *)
(***************************************************************************)

(* scheduler_pids: what ps shows.                                           *)
(* Mutant: only the processes whose loops run.                              *)
FoundLooping == {p \in Procs : phase[p] = "loops"}

Found == {p \in Procs : phase[p] \notin NoProcess}

Scan ==
    /\ stopper = "idle" /\ ~flag
    /\ stopper' = "scanned"
    /\ targets' = Found
    /\ windows' = {n \in Agents : rows[n] # "none"}
    /\ UNCHANGED <<flag, procVars, agentVars, history, noise, faults>>

Mark ==
    /\ stopper = "scanned"
    /\ flag' = TRUE
    /\ resumed' = FALSE
    /\ halted' = Runs
    /\ stopper' = "marked"
    /\ UNCHANGED <<procVars, agentVars, targets, windows, signalled, noise, faults>>

(* signal_processes.                                                        *)
Signal(p) ==
    /\ stopper = "marked" /\ p \in targets
    /\ targets' = targets \ {p}
    /\ Sigterm(p)
    /\ signalled' = IF phase[p] = "loops" THEN signalled \cup {p} ELSE signalled
    /\ UNCHANGED <<flag, agentVars, stopper, windows, resumed, halted, noise, faults>>

(* A session of its own is killed with all that is in it by then, of        *)
(* another session only the windows stop has found.                         *)
KillWindows ==
    /\ stopper = "marked" /\ targets = {}
    /\ \E killed \in {windows, Agents} : panes' = panes \ killed
    /\ stopper' = "killing" /\ windows' = {}
    /\ UNCHANGED <<flag, procVars, rows, targets, history, noise, faults>>

EndRows ==
    /\ stopper = "killing"
    /\ rows' = [n \in Agents |-> IF rows[n] = "active" THEN "over" ELSE rows[n]]
    /\ stopper' = "idle"
    /\ UNCHANGED <<flag, procVars, panes, targets, windows, history, noise, faults>>

StopStep == Mark \/ (\E p \in Procs : Signal(p)) \/ KillWindows \/ EndRows

-----------------------------------------------------------------------------
ProcStep(p) ==
    \/ Start(p) \/ InstallHandler(p) \/ Exit(p) \/ RegisterAgent(p)
    \/ \E l \in Loops : EndPass(p, l)

Next ==
    \/ Scan \/ StopStep
    \/ \E p \in Procs :
        \/ Launch(p) \/ StartRefused(p) \/ ProcStep(p) \/ Noise(p)
        \/ Restart(p) \/ Check(p)
        \/ \E l \in Loops : BeginPass(p, l)
        \/ \E n \in Agents : OpenWindow(p, n) \/ Reconcile(p, n)

Spec == Init /\ [][Next]_vars

(* A stop that has begun goes on; a supervisor starts and ends, each of its *)
(* loops comes round and its passes end.  Watchdogs need not be restarted.  *)
FairSpec ==
    /\ Spec
    /\ WF_vars(StopStep)
    /\ \A p \in Runs :
        /\ WF_vars(Start(p) \/ InstallHandler(p) \/ Exit(p))
        /\ WF_vars(RegisterAgent(p))
        /\ \A l \in Loops : WF_vars(BeginPass(p, l) \/ EndPass(p, l))

(***************************************************************************)
(* Properties.                                                             *)
(***************************************************************************)

(* handle_pending_supervisor_sigterms: a supervisor leaves its loops only   *)
(* for a ./harness stop recorded since it started, whatever signals reach   *)
(* it and whatever other processes do to the flag.                          *)
EndsOnlyOnStop == \A p \in Runs : phase[p] = "exiting" => p \in halted

(* Once the harness stays stopped no supervisor goes on: each of them finds *)
(* its signal and the flag at a later pass, if every read of the flag has   *)
(* been answered (a read that raises loses the signal).                     *)
StopEndsSupervisors ==
    <>[]flag => <>[](faults > 0 \/ \A p \in Runs : phase[p] \in NoProcess)

(* When a stop has come to its end and the flag still stands, every         *)
(* supervisor it found holds a signal, so the pass it is in is its last;    *)
(* reads of the flag that raise apart.                                      *)
StoppedRunsAreTold ==
    flag /\ stopper = "idle" /\ faults = 0
        => \A p \in Runs : phase[p] \in {"unguarded", "loops"} => p \in pending

(* Only ./harness run clears the stopped flag.  The watchdog breaks it; see *)
(* the README, "Known disagreements".                                       *)
StoppedUntilRun == stopper = "idle" /\ ~resumed => flag

(* Once ./harness stop is through, the SIGTERM it sent to a supervisor that *)
(* was running when the stop was recorded is not taken for noise: no pass   *)
(* of that supervisor begins.                                               *)
StopSignalIsObeyed ==
    [][stopper = "idle" =>
        \A p \in signalled \cap halted : busy'[p] \subseteq busy[p]]_vars

(* When the harness is stopped and its processes are gone, so are the       *)
(* windows of its agents.  A tick in flight breaks it; see the README.      *)
StoppedHarnessIsQuiet ==
    flag /\ stopper = "idle" /\ (\A p \in Procs : phase[p] \in NoProcess) => panes = {}
=============================================================================
