\* The harness really may be at rest: stopped, with every run used up.
SPECIFICATION FairSpec
CONSTANTS
    Runs = {1, 2}
    Watchdogs = {watchdog}
    Loops = {"scheduler", "tests"}
    Agents = {a1}
    None = None
    MaxNoise = 1
    MaxFaults = 0
INVARIANTS TypeOK EndsOnlyOnStop StoppedRunsAreTold
PROPERTIES StopEndsSupervisors
CHECK_DEADLOCK FALSE
