SPECIFICATION Spec
CONSTANTS
    Clis = {c1, c2}
    Pids = {p1, p2}
    NoPid = NoPid
    NoCli = NoCli
    Absent = Absent
    Blank = Blank
    Commands = {"start", "status"}
    Scenarios = {"clean"}
    Hazards = {}
    MaxFaults = 0
    PsMayFail = FALSE
    ZombieAnswers = {TRUE}
CHECK_DEADLOCK FALSE
PROPERTY TrackingKept
