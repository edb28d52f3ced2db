CONSTANTS
    Collector = {"c1", "c2"}
    Scheduler = "scheduler"
    Attempt = {"kept", "removed", "found"}
    Files <- Removal
    Broken = {2}
    Discovered = {"found"}
    MaxQueue = 4
    MaxReturns = 1
    MaxFaults = 2
    None = None
SPECIFICATION Spec
INVARIANTS TypeOK NeverOlder
PROPERTIES RolloutCompletes ExitsEnd OthersAreServed
