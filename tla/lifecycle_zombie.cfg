SPECIFICATION Spec
CONSTANTS
    Clis = {c1}
    Pids = {p1, p2}
    NoPid = NoPid
    NoCli = NoCli
    Absent = Absent
    Blank = Blank
    Commands = {"start"}
    Scenarios = {"clean"}
    Hazards = {}
    MaxFaults = 0
    PsMayFail = FALSE
    ZombieAnswers = {TRUE}
CHECK_DEADLOCK FALSE
PROPERTY ReportedUpIsUp
