SPECIFICATION MCSpec
CONSTANTS
    Clis = {c1, c2}
    Pids = {p1, p2, p3}
    NoPid = NoPid
    NoCli = NoCli
    Absent = Absent
    Blank = Blank
    Commands = {"start", "stop", "reload", "status"}
    Scenarios = {"clean", "running", "legacy", "private", "rootDir"}
    Hazards = {"crash", "kill", "reboot", "reuse"}
    MaxFaults = 2
    PsMayFail = TRUE
    ZombieAnswers = {TRUE, FALSE}
CHECK_DEADLOCK FALSE
SYMMETRY FullSymmetry
CONSTRAINT Bounds
INVARIANTS TypeOK NoneSilentlyOrphaned PromisesKept
PROPERTIES TrackingKeptUnlessRaced ProxyOutlivesXray SpawnsUntrackedUnlessRaced RootXrayUntouched
