SPECIFICATION Spec
CONSTANTS
    Nonces = {n1, n2, n3}
    Texts = {t1, t2, t3}
    Chosen = Chosen
    Unset = Unset
    None = None
    MaxFaults = 1
SYMMETRY Symmetry
INVARIANTS TypeOK NoQuestionSkipped SavedWasPreviewed TextAnswersOnce
PROPERTIES AnswersStay ExpiredTakesNoAnswer
CHECK_DEADLOCK FALSE
