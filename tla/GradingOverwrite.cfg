CONSTANTS
    Parts = {w1, w2}
    AiParts = {w1, w2}
    DirectParts = {w1}
    Instructors = {ann, bob}
    Evaluators = {job, tab}
    Student = student
    NoOne = noOne
    MayCrash = FALSE
SPECIFICATION Spec
PROPERTY InstructorMarkStands
CHECK_DEADLOCK FALSE
