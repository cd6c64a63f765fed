CONSTANTS
    s1 = s1
    s2 = s2
    s3 = s3
    Students = {s1, s2}
    StudentLimit = 1
    Threads = {admin1, admin2}
    Scheduler = scheduler
SPECIFICATION Spec
INVARIANTS
    SeatsAreBought
PROPERTIES
    SweepSparesExams
SYMMETRY Symmetry
CHECK_DEADLOCK FALSE
