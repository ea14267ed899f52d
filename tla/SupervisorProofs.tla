--------------------------- MODULE SupervisorProofs ---------------------------
(***************************************************************************)
(* run, stop and watchdog for any number of supervisors, watchdogs, loops, *)
(* agents, stray signals and faults: a supervisor ends only on a recorded  *)
(* stop, and every supervisor of a stopped harness holds a signal.         *)
(***************************************************************************)
EXTENDS Supervisor, TLAPS

(* The flag is set by a stop only, which is recorded for every supervisor,  *)
(* and cleared by each one that begins.                                     *)
FlagIsStop == flag => halted = Runs

(* A stop begins with the flag clear, and its list of processes is complete *)
(* until it sets the flag: nobody gives a command meanwhile.                *)
ScanIsComplete ==
    stopper = "scanned" =>
        /\ ~flag
        /\ \A p \in Runs : phase[p] \notin NoProcess => p \in targets

(* Until the last process is signalled a supervisor is on the list or holds *)
(* its signal.                                                              *)
ListedOrTold ==
    flag /\ faults = 0 /\ stopper # "idle" =>
        \A p \in Runs :
            phase[p] \in {"startup", "unguarded", "loops"} => p \in pending \cup targets

(* Signals are sent between the record of the stop and the windows.         *)
ListIsUsed == stopper \in {"idle", "killing"} => targets = {}

(* A watchdog has no loops and runs one pass at a time; a supervisor is     *)
(* never at the check of a watchdog.                                        *)
OwnPlaces ==
    /\ \A p \in Watchdogs :
          phase[p] \notin {"unguarded", "loops", "exiting"} /\ busy[p] \subseteq {"scheduler"}
    /\ \A p \in Runs : phase[p] \notin {"down", "check", "passes"}

IndInv ==
    /\ TypeOK /\ OwnPlaces /\ EndsOnlyOnStop /\ StoppedRunsAreTold
    /\ FlagIsStop /\ ScanIsComplete /\ ListedOrTold /\ ListIsUsed

USE DEF NoProcess

(* The names of processes, and where they can be.                           *)
LEMMA Places ==
    /\ Runs \subseteq Procs /\ Watchdogs \subseteq Procs
    /\ \A p \in Runs : p \notin Watchdogs
  BY SupervisorConstants DEF Procs

(* A process that goes from one place to another.                           *)
LEMMA EnterSound ==
    ASSUME TypeOK, NEW p \in Procs, NEW where \in Phases, Enter(p, where)
    PROVE  /\ phase' \in [Procs -> Phases]
           /\ phase'[p] = where
           /\ \A q \in Procs \ {p} : phase'[q] = phase[q]
  BY DEF TypeOK, Enter

-----------------------------------------------------------------------------
LEMMA InitStep == Init => IndInv
  <1> SUFFICES ASSUME Init PROVE IndInv
    OBVIOUS
  <1>1. TypeOK
    <2>1. phase \in [Procs -> Phases]
      BY DEF Init, Phases
    <2>2. noise \in 0..MaxNoise /\ faults \in 0..MaxFaults
      BY SupervisorConstants DEF Init
    <2> QED BY <2>1, <2>2 DEF Init, TypeOK
  <1>2. \A p \in Runs : phase[p] = "off"
    BY Places DEF Init
  <1>3. OwnPlaces
    BY Places DEF Init, OwnPlaces
  <1> QED BY <1>1, <1>2, <1>3 DEF Init, IndInv, EndsOnlyOnStop, StoppedRunsAreTold,
      FlagIsStop, ScanIsComplete, ListedOrTold, ListIsUsed

LEMMA LaunchStep ==
    ASSUME IndInv, NEW p \in Procs, Launch(p)
    PROVE  IndInv'
  <1>1. /\ phase' \in [Procs -> Phases] /\ phase'[p] = "startup"
        /\ \A q \in Procs \ {p} : phase'[q] = phase[q]
    BY EnterSound DEF Launch, Phases, IndInv
  <1>2. TypeOK'
    BY <1>1, SupervisorConstants DEF Launch, IndInv, TypeOK, agentVars, stopVars
  <1> QED BY <1>1, <1>2, Places DEF Launch, IndInv, EndsOnlyOnStop,
      StoppedRunsAreTold, OwnPlaces, FlagIsStop, ScanIsComplete, ListedOrTold,
      ListIsUsed, agentVars, stopVars

LEMMA RefusedStep ==
    ASSUME IndInv, NEW p \in Procs, StartRefused(p)
    PROVE  IndInv'
  <1>1. /\ phase' \in [Procs -> Phases] /\ phase'[p] = "ended"
        /\ \A q \in Procs \ {p} : phase'[q] = phase[q]
    BY EnterSound DEF StartRefused, Phases, IndInv
  <1>2. TypeOK'
    BY <1>1 DEF StartRefused, IndInv, TypeOK, agentVars, stopVars, history
  <1> QED BY <1>1, <1>2, Places DEF StartRefused, IndInv, EndsOnlyOnStop,
      StoppedRunsAreTold, OwnPlaces, FlagIsStop, ScanIsComplete, ListedOrTold,
      ListIsUsed, agentVars, stopVars, history

LEMMA StartStep ==
    ASSUME IndInv, NEW p \in Procs, Start(p)
    PROVE  IndInv'
  <1>1. phase[p] = "startup" /\ flag' = FALSE /\ halted' = halted \ {p}
    BY DEF Start
  <1>2. /\ phase' \in [Procs -> Phases] /\ phase'[p] \in {"unguarded", "passes"}
        /\ \A q \in Procs \ {p} : phase'[q] = phase[q]
    BY EnterSound DEF Start, Phases, IndInv
  <1>3. /\ busy' \in [Procs -> SUBSET Loops]
        /\ \A q \in Procs : busy'[q] # {} => phase'[q] \in {"loops", "exiting", "passes"}
    <2>1. CASE p \in Runs
      <3>1. busy' = busy
        BY <2>1 DEF Start
      <3> QED BY <1>1, <1>2, <3>1 DEF IndInv, TypeOK
    <2>2. CASE p \notin Runs
      <3>1. busy' = [busy EXCEPT ![p] = {"scheduler"}] /\ phase'[p] = "passes"
        BY <2>2, EnterSound DEF Start, Phases, IndInv
      <3> QED BY <1>2, <3>1, SupervisorConstants DEF IndInv, TypeOK
    <2> QED BY <2>1, <2>2
  <1>4. UNCHANGED <<pending, opening, agentVars, stopVars, resumed, signalled, noise, faults>>
    BY DEF Start
  <1>5. TypeOK'
    BY <1>1, <1>2, <1>3, <1>4 DEF IndInv, TypeOK, agentVars, stopVars
  <1>6. EndsOnlyOnStop'
    BY <1>1, <1>2, Places DEF IndInv, EndsOnlyOnStop
  <1>7. ScanIsComplete'
    BY <1>1, <1>2, <1>4, Places DEF IndInv, ScanIsComplete, stopVars
  <1>8. OwnPlaces'
    <2>1. p \in Watchdogs => phase'[p] = "passes" /\ busy'[p] = {"scheduler"}
      BY <1>1, Places, EnterSound DEF Start, Phases, IndInv, TypeOK
    <2>2. \A q \in Procs \ {p} : busy'[q] = busy[q]
      BY DEF Start, IndInv, TypeOK
    <2>3. p \in Runs => phase'[p] = "unguarded"
      BY EnterSound DEF Start, Phases, IndInv
    <2> QED BY <1>2, <2>1, <2>2, <2>3, Places DEF IndInv, OwnPlaces
  <1> QED BY <1>1, <1>4, <1>5, <1>6, <1>7, <1>8 DEF IndInv, StoppedRunsAreTold,
      FlagIsStop, ListedOrTold, ListIsUsed, stopVars

LEMMA InstallStep ==
    ASSUME IndInv, NEW p \in Procs, InstallHandler(p)
    PROVE  IndInv'
  <1>1. /\ phase' \in [Procs -> Phases] /\ phase'[p] = "loops" /\ phase[p] = "unguarded"
        /\ \A q \in Procs \ {p} : phase'[q] = phase[q]
    BY EnterSound DEF InstallHandler, Phases, IndInv
  <1>2. TypeOK'
    BY <1>1 DEF InstallHandler, IndInv, TypeOK, agentVars, stopVars, history
  <1> QED BY <1>1, <1>2, Places DEF InstallHandler, IndInv, EndsOnlyOnStop,
      StoppedRunsAreTold, OwnPlaces, FlagIsStop, ScanIsComplete, ListedOrTold,
      ListIsUsed, agentVars, stopVars, history

(* A pass begins, or the supervisor ends because a stop is recorded.        *)
LEMMA BeginStep ==
    ASSUME IndInv, NEW p \in Procs, NEW l \in Loops, BeginPass(p, l)
    PROVE  IndInv'
  <1>1. /\ phase[p] = "loops" /\ pending' = pending \ {p}
        /\ UNCHANGED <<flag, opening, agentVars, stopVars, history, noise>>
        /\ p \notin Watchdogs
    BY DEF BeginPass, IndInv, OwnPlaces
  <1>2. CASE StopRequested(p) /\ Enter(p, "exiting") /\ UNCHANGED <<busy, faults>>
    <2>1. /\ phase' \in [Procs -> Phases] /\ phase'[p] = "exiting"
          /\ \A q \in Procs \ {p} : phase'[q] = phase[q]
      BY <1>2, EnterSound DEF Phases, IndInv
    <2>2. TypeOK'
      BY <1>1, <1>2, <2>1 DEF IndInv, TypeOK, agentVars, stopVars, history
    <2>3. flag /\ halted = Runs
      BY <1>2 DEF StopRequested, IndInv, FlagIsStop
    <2>4. EndsOnlyOnStop'
      BY <1>1, <2>3 DEF EndsOnlyOnStop, history
    <2>5. ScanIsComplete'
      BY <1>1, <2>3 DEF IndInv, ScanIsComplete, stopVars
    <2>6. \A q \in Runs : phase'[q] \in {"startup", "unguarded", "loops"} =>
              phase'[q] = phase[q] /\ (q \in pending' <=> q \in pending)
      BY <1>1, <2>1, Places
    <2>7. StoppedRunsAreTold' /\ ListedOrTold'
      BY <1>1, <1>2, <2>6 DEF IndInv, StoppedRunsAreTold, ListedOrTold, stopVars
    <2>8. OwnPlaces'
      BY <1>1, <1>2, <2>1, Places DEF IndInv, OwnPlaces
    <2> QED BY <1>1, <2>2, <2>4, <2>5, <2>7, <2>8 DEF IndInv, FlagIsStop, ListIsUsed,
        stopVars, history
  <1>3. CASE /\ IF StopRequested(p) THEN Fault ELSE UNCHANGED faults
             /\ busy' = [busy EXCEPT ![p] = @ \cup {l}]
             /\ UNCHANGED phase
    <2>1. faults' \in 0..MaxFaults /\ (StopRequested(p) => faults' # 0) /\ (faults' = 0 => faults = 0)
      <3>1. faults \in 0..MaxFaults
        BY DEF IndInv, TypeOK
      <3> QED BY <1>3, <3>1, SupervisorConstants DEF Fault
    <2>2. TypeOK'
      <3>1. /\ busy' \in [Procs -> SUBSET Loops]
            /\ \A q \in Procs : busy'[q] # {} => phase'[q] \in {"loops", "exiting", "passes"}
        BY <1>1, <1>3 DEF IndInv, TypeOK
      <3> QED BY <1>1, <1>3, <2>1, <3>1 DEF IndInv, TypeOK, agentVars, stopVars,
          history
    <2>3. flag /\ faults' = 0 => pending' = pending
      BY <1>1, <2>1 DEF StopRequested
    <2>4. StoppedRunsAreTold' /\ ListedOrTold'
      BY <1>1, <1>3, <2>1, <2>3 DEF IndInv, StoppedRunsAreTold, ListedOrTold, stopVars
    <2>5. OwnPlaces'
      BY <1>1, <1>3, Places DEF IndInv, OwnPlaces, TypeOK
    <2> QED BY <1>1, <1>3, <2>2, <2>4, <2>5 DEF IndInv, EndsOnlyOnStop, FlagIsStop,
        ScanIsComplete, ListIsUsed, stopVars, history
  <1> QED BY <1>2, <1>3 DEF BeginPass

LEMMA EndPassStep ==
    ASSUME IndInv, NEW p \in Procs, NEW l \in Loops, EndPass(p, l)
    PROVE  IndInv'
  <1>1. /\ busy' = [busy EXCEPT ![p] = @ \ {l}] /\ l \in busy[p]
        /\ UNCHANGED <<flag, pending, opening, agentVars, stopVars, history, noise, faults>>
    BY DEF EndPass
  <1>2. /\ phase' \in [Procs -> Phases]
        /\ \A q \in Procs : phase'[q] = phase[q] \/ (q = p /\ p \in Watchdogs /\ phase'[q] = "check")
    BY EnterSound DEF EndPass, IndInv, TypeOK, Phases
  <1>3. \A q \in Runs : phase'[q] = phase[q]
    BY <1>2, Places
  <1>4. TypeOK'
    <2>1. p \in Watchdogs => busy'[p] = {}
      BY <1>1 DEF IndInv, OwnPlaces, TypeOK
    <2>2. /\ busy' \in [Procs -> SUBSET Loops]
          /\ \A q \in Procs : busy'[q] # {} => phase'[q] \in {"loops", "exiting", "passes"}
      BY <1>1, <1>2, <2>1 DEF IndInv, TypeOK
    <2> QED BY <1>1, <1>2, <2>2 DEF IndInv, TypeOK, agentVars, stopVars, history
  <1>5. OwnPlaces'
    <2>1. \A q \in Procs : busy'[q] \subseteq busy[q]
      BY <1>1 DEF IndInv, TypeOK
    <2>2. \A q \in Watchdogs : phase'[q] \notin {"unguarded", "loops", "exiting"}
      BY <1>2, Places DEF IndInv, OwnPlaces
    <2> QED BY <1>3, <2>1, <2>2, Places DEF IndInv, OwnPlaces
  <1> QED BY <1>1, <1>3, <1>4, <1>5 DEF IndInv, EndsOnlyOnStop, StoppedRunsAreTold,
      OwnPlaces, FlagIsStop, ScanIsComplete, ListedOrTold, ListIsUsed, stopVars,
      history

LEMMA ExitStep ==
    ASSUME IndInv, NEW p \in Procs, Exit(p)
    PROVE  IndInv'
  <1>1. /\ phase' \in [Procs -> Phases] /\ phase'[p] = "ended"
        /\ \A q \in Procs \ {p} : phase'[q] = phase[q]
    BY EnterSound DEF Exit, Phases, IndInv
  <1>2. TypeOK'
    BY <1>1 DEF Exit, IndInv, TypeOK, agentVars, stopVars, history
  <1> QED BY <1>1, <1>2, Places DEF Exit, IndInv, EndsOnlyOnStop, StoppedRunsAreTold,
      OwnPlaces, FlagIsStop, ScanIsComplete, ListedOrTold, ListIsUsed, agentVars,
      stopVars, history

(* Windows and agent rows are of no account here.                           *)
LEMMA WindowStep ==
    ASSUME IndInv, NEW p \in Procs, NEW n \in Agents,
           OpenWindow(p, n) \/ RegisterAgent(p) \/ Reconcile(p, n)
    PROVE  IndInv'
  <1>1. UNCHANGED <<flag, phase, pending, busy, stopVars, history, noise, faults>>
    BY DEF OpenWindow, RegisterAgent, Reconcile, procVars
  <1>2. TypeOK'
    <2>1. opening' \in [Procs -> Agents \cup {None}] /\ panes' \subseteq Agents
      BY DEF OpenWindow, RegisterAgent, Reconcile, procVars, IndInv, TypeOK
    <2>2. rows' \in [Agents -> {"none", "active", "over"}]
      BY DEF OpenWindow, RegisterAgent, Reconcile, IndInv, TypeOK
    <2> QED BY <1>1, <2>1, <2>2 DEF IndInv, TypeOK, stopVars, history
  <1> QED BY <1>1, <1>2 DEF IndInv, EndsOnlyOnStop, StoppedRunsAreTold, OwnPlaces,
      FlagIsStop, ScanIsComplete, ListedOrTold, ListIsUsed, stopVars, history

(* A signal ends a process without a handler and marks one that has it.     *)
LEMMA SigtermTells ==
    ASSUME IndInv, NEW p \in Procs, Sigterm(p)
    PROVE  /\ phase' \in [Procs -> Phases]
           /\ \A q \in Procs \ {p} : phase'[q] = phase[q]
           /\ phase'[p] \in {phase[p], IF p \in Watchdogs THEN "down" ELSE "ended"}
           /\ pending' \subseteq Runs /\ pending \subseteq pending'
           /\ p \in Runs /\ phase'[p] \in {"startup", "unguarded", "loops"} => p \in pending'
           /\ busy' \in [Procs -> SUBSET Loops] /\ \A q \in Procs : busy'[q] \subseteq busy[q]
           /\ \A q \in Procs : busy'[q] # {} => phase'[q] \in {"loops", "exiting", "passes"}
           /\ opening' \in [Procs -> Agents \cup {None}]
  <1>1. CASE Guarded(p) /\ pending' = pending \cup {p} /\ UNCHANGED <<phase, busy, opening>>
    <2>1. p \in Runs
      <3>1. p \in Watchdogs => phase[p] # "exiting"
        BY DEF IndInv, OwnPlaces
      <3> QED BY <1>1, <3>1, Places DEF Guarded, IndInv, OwnPlaces, Procs
    <2> QED BY <1>1, <2>1 DEF Guarded, IndInv, TypeOK
  <1>2. CASE ~Guarded(p) /\ phase[p] \notin NoProcess /\ Dies(p) /\ UNCHANGED pending
    <2>1. /\ phase' \in [Procs -> Phases]
          /\ phase'[p] = IF p \in Watchdogs THEN "down" ELSE "ended"
          /\ \A q \in Procs \ {p} : phase'[q] = phase[q]
      BY <1>2, EnterSound DEF Dies, Phases, IndInv
    <2>2. busy' = [busy EXCEPT ![p] = {}] /\ opening' = [opening EXCEPT ![p] = None]
      BY <1>2 DEF Dies
    <2>3. /\ busy' \in [Procs -> SUBSET Loops]
          /\ \A q \in Procs \ {p} : busy'[q] = busy[q]
          /\ busy'[p] = {}
      BY <2>2 DEF IndInv, TypeOK
    <2> QED BY <1>2, <2>1, <2>2, <2>3 DEF IndInv, TypeOK
  <1>3. CASE phase[p] \in NoProcess /\ UNCHANGED procVars
    BY <1>3 DEF procVars, IndInv, TypeOK
  <1> QED BY <1>1, <1>2, <1>3 DEF Sigterm

LEMMA NoiseStep ==
    ASSUME IndInv, NEW p \in Procs, Noise(p)
    PROVE  IndInv'
  <1>1. /\ Sigterm(p) /\ noise' = noise + 1 /\ noise < MaxNoise
        /\ UNCHANGED <<flag, agentVars, stopVars, history, faults>>
    BY DEF Noise
  <1>2. TypeOK'
    <2>1. noise' \in 0..MaxNoise
      BY <1>1, SupervisorConstants DEF IndInv, TypeOK
    <2> QED BY <1>1, <2>1, SigtermTells DEF IndInv, TypeOK, agentVars, stopVars,
        history
  <1>3. /\ \A q \in Procs : phase'[q] \in {phase[q], IF q \in Watchdogs THEN "down" ELSE "ended"}
        /\ pending \subseteq pending' /\ \A q \in Procs : busy'[q] \subseteq busy[q]
    BY <1>1, SigtermTells
  <1>4. EndsOnlyOnStop' /\ StoppedRunsAreTold' /\ OwnPlaces'
    BY <1>1, <1>3, Places DEF IndInv, EndsOnlyOnStop, StoppedRunsAreTold, OwnPlaces,
        stopVars, history
  <1>5. FlagIsStop' /\ ScanIsComplete' /\ ListedOrTold' /\ ListIsUsed'
    BY <1>1, <1>3, Places DEF IndInv, FlagIsStop, ScanIsComplete, ListedOrTold,
        ListIsUsed, stopVars, history
  <1> QED BY <1>2, <1>4, <1>5 DEF IndInv

LEMMA WatchdogStep ==
    ASSUME IndInv, NEW p \in Procs, Restart(p) \/ Check(p)
    PROVE  IndInv'
  <1>1. /\ phase[p] \in {"down", "check"}
        /\ UNCHANGED <<flag, pending, busy, opening, agentVars, stopVars, history, noise>>
    BY DEF Restart, Check
  <1>2. /\ phase' \in [Procs -> Phases] /\ phase'[p] \in {"check", "startup"}
        /\ \A q \in Procs \ {p} : phase'[q] = phase[q]
    BY EnterSound DEF Restart, Check, Phases, IndInv
  <1>3. faults' \in 0..MaxFaults /\ (faults' = 0 => faults = 0)
    BY SupervisorConstants DEF Restart, Check, Fault, IndInv, TypeOK
  <1>4. TypeOK'
    BY <1>1, <1>2, <1>3 DEF IndInv, TypeOK, agentVars, stopVars, history
  <1>5. p \notin Runs
    BY <1>1 DEF IndInv, OwnPlaces
  <1>6. OwnPlaces'
    BY <1>1, <1>2, <1>5, Places DEF IndInv, OwnPlaces
  <1>7. \A q \in Runs : phase'[q] = phase[q]
    BY <1>2, <1>5, Places
  <1> QED BY <1>1, <1>3, <1>4, <1>6, <1>7 DEF IndInv, EndsOnlyOnStop,
      StoppedRunsAreTold, FlagIsStop, ScanIsComplete, ListedOrTold, ListIsUsed,
      stopVars, history

LEMMA ScanStep ==
    ASSUME IndInv, Scan
    PROVE  IndInv'
  <1>1. TypeOK'
    BY DEF Scan, Found, IndInv, TypeOK, procVars, agentVars, history
  <1>2. \A p \in Runs : phase[p] \notin NoProcess => p \in Found
    BY Places DEF Found
  <1> QED BY <1>1, <1>2 DEF Scan, IndInv, EndsOnlyOnStop, StoppedRunsAreTold,
      OwnPlaces, FlagIsStop, ScanIsComplete, ListedOrTold, ListIsUsed, procVars,
      agentVars, history

LEMMA MarkStep ==
    ASSUME IndInv, Mark
    PROVE  IndInv'
  <1>1. TypeOK'
    BY DEF Mark, IndInv, TypeOK, procVars, agentVars
  <1>2. EndsOnlyOnStop' /\ FlagIsStop' /\ OwnPlaces'
    BY DEF Mark, IndInv, EndsOnlyOnStop, FlagIsStop, OwnPlaces, procVars
  <1> QED BY <1>1, <1>2 DEF Mark, IndInv, StoppedRunsAreTold, ScanIsComplete,
      ListedOrTold, ListIsUsed, procVars

LEMMA SignalStep ==
    ASSUME IndInv, NEW p \in Procs, Signal(p)
    PROVE  IndInv'
  <1>1. /\ stopper = "marked" /\ stopper' = stopper /\ targets' = targets \ {p} /\ Sigterm(p)
        /\ UNCHANGED <<flag, agentVars, windows, resumed, halted, noise, faults>>
    BY DEF Signal
  <1>2. TypeOK'
    <2>1. signalled' \subseteq Runs
      <3>1. phase[p] = "loops" => p \in Runs
        BY DEF IndInv, OwnPlaces, Procs
      <3> QED BY <3>1 DEF Signal, IndInv, TypeOK
    <2> QED BY <1>1, <2>1, SigtermTells DEF IndInv, TypeOK, agentVars
  <1>3. /\ \A q \in Procs : phase'[q] \in {phase[q], IF q \in Watchdogs THEN "down" ELSE "ended"}
        /\ pending \subseteq pending' /\ \A q \in Procs : busy'[q] \subseteq busy[q]
        /\ p \in Runs /\ phase'[p] \in {"startup", "unguarded", "loops"} => p \in pending'
    BY <1>1, SigtermTells
  <1>4. EndsOnlyOnStop' /\ OwnPlaces' /\ FlagIsStop'
    BY <1>1, <1>3, Places DEF IndInv, EndsOnlyOnStop, OwnPlaces, FlagIsStop
  <1>5. ListedOrTold'
    BY <1>1, <1>3, Places DEF IndInv, ListedOrTold
  <1> QED BY <1>1, <1>2, <1>4, <1>5 DEF IndInv, StoppedRunsAreTold, ScanIsComplete,
      ListIsUsed

LEMMA CleanUpStep ==
    ASSUME IndInv, KillWindows \/ EndRows
    PROVE  IndInv'
  <1>1. UNCHANGED <<flag, procVars, targets, history, noise, faults>>
    BY DEF KillWindows, EndRows
  <1>2. TypeOK'
    <2>1. stopper' \in {"killing", "idle"} /\ windows' \subseteq Agents /\ panes' \subseteq Agents
      BY DEF KillWindows, EndRows, IndInv, TypeOK
    <2>2. rows' \in [Agents -> {"none", "active", "over"}]
      BY DEF KillWindows, EndRows, IndInv, TypeOK
    <2> QED BY <1>1, <2>1, <2>2 DEF IndInv, TypeOK, procVars, history
  <1>3. targets = {} /\ stopper # "idle" /\ stopper' \in {"killing", "idle"}
    BY DEF KillWindows, EndRows, IndInv, ListIsUsed
  <1> QED BY <1>1, <1>2, <1>3 DEF IndInv, EndsOnlyOnStop, StoppedRunsAreTold,
      OwnPlaces, FlagIsStop, ScanIsComplete, ListedOrTold, ListIsUsed, procVars,
      history

LEMMA StutterStep ==
    ASSUME IndInv, UNCHANGED vars
    PROVE  IndInv'
  BY DEF IndInv, TypeOK, EndsOnlyOnStop, StoppedRunsAreTold, OwnPlaces, FlagIsStop,
      ScanIsComplete, ListedOrTold, ListIsUsed, vars, procVars, agentVars, stopVars,
      history

-----------------------------------------------------------------------------
LEMMA Inductive == IndInv /\ [Next]_vars => IndInv'
  <1> SUFFICES ASSUME IndInv, [Next]_vars PROVE IndInv'
    OBVIOUS
  <1>1. CASE Scan \/ StopStep
    BY <1>1, ScanStep, MarkStep, SignalStep, CleanUpStep DEF StopStep
  <1>2. ASSUME NEW p \in Procs,
               Launch(p) \/ StartRefused(p) \/ ProcStep(p) \/ Noise(p) \/ Restart(p) \/ Check(p)
        PROVE  IndInv'
    <2>1. CASE RegisterAgent(p)
      <3>1. opening[p] \in Agents
        BY <2>1 DEF RegisterAgent, IndInv, TypeOK
      <3> QED BY <2>1, <3>1, WindowStep
    <2>2. CASE \E l \in Loops : EndPass(p, l)
      BY <2>2, EndPassStep
    <2>3. CASE Start(p) \/ InstallHandler(p) \/ Exit(p)
      BY <2>3, StartStep, InstallStep, ExitStep
    <2>4. CASE Launch(p) \/ StartRefused(p) \/ Noise(p) \/ Restart(p) \/ Check(p)
      BY <2>4, LaunchStep, RefusedStep, NoiseStep, WatchdogStep
    <2> QED BY <1>2, <2>1, <2>2, <2>3, <2>4 DEF ProcStep
  <1>3. ASSUME NEW p \in Procs, NEW l \in Loops, BeginPass(p, l) PROVE IndInv'
    BY <1>3, BeginStep
  <1>4. ASSUME NEW p \in Procs, NEW n \in Agents, OpenWindow(p, n) \/ Reconcile(p, n) PROVE IndInv'
    BY <1>4, WindowStep
  <1>5. CASE UNCHANGED vars
    BY <1>5, StutterStep
  <1> QED BY <1>1, <1>2, <1>3, <1>4, <1>5 DEF Next

LEMMA Invariance == Spec => []IndInv
  BY InitStep, Inductive, PTL DEF Spec

(* Processes, signals and windows keep their types.                         *)
THEOREM SupervisorTypeCorrect == Spec => []TypeOK
  <1>1. IndInv => TypeOK
    BY DEF IndInv
  <1> QED BY <1>1, Invariance, PTL

(* A supervisor leaves its loops only for a stop recorded since it began.   *)
THEOREM SupervisorsEndOnStop == Spec => []EndsOnlyOnStop
  <1>1. IndInv => EndsOnlyOnStop
    BY DEF IndInv
  <1> QED BY <1>1, Invariance, PTL

(* Every supervisor of a harness that is stopped holds a signal.            *)
THEOREM StopTellsEveryRun == Spec => []StoppedRunsAreTold
  <1>1. IndInv => StoppedRunsAreTold
    BY DEF IndInv
  <1> QED BY <1>1, Invariance, PTL
=============================================================================
