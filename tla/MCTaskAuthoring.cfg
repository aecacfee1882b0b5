SPECIFICATION Spec
CONSTANTS
    i1 = i1
    i2 = i2
    t1 = t1
    t2 = t2
    Instructors = {i1, i2}
    Learners = {l1}
    Texts = {t1, t2}
    Dues = {d0, d1}
    NoDue = d0
    MaxVersion = 3
    MaxRequests = 3
    None = None
INVARIANTS
    PinnedContent
PROPERTIES
    AnsweredIsPublished
    SettingsSurvive
SYMMETRY Alike
CHECK_DEADLOCK FALSE
