CONSTANTS
    Parts = {w1, w2}
    AiParts = {w1}
    DirectParts = {w1}
    Instructors = {ann, bob}
    Evaluators = {job, tab}
    Student = student
    NoOne = noOne
    MayCrash = TRUE
SPECIFICATION Spec
SYMMETRY Symmetry
INVARIANTS
    TypeOK
    
    CompletedMeansMarked
    QueueAgreesWithReview
PROPERTIES
    MarkedUnderOwnClaim
    
    
CHECK_DEADLOCK FALSE
