\* The harness really may be at rest: stopped, with every run used up.
SPECIFICATION Spec
CONSTANTS
    Runs = {1, 2}
    Watchdogs = {}
    Loops = {"scheduler"}
    Agents = {a1}
    None = None
    MaxNoise = 0
    MaxFaults = 0
PROPERTIES StopSignalIsObeyed
CHECK_DEADLOCK FALSE
