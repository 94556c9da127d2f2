SPECIFICATION FairSpec
CONSTANTS
    w1 = w1
    w2 = w2
    h1 = h1
    h2 = h2
    Webhook = {w1, w2}
    Zone = {1, 2, 3, 4}
    Bound <- TwoAndOne
    Run = {h1, h2}
    Full = 1
    MaxEdits = 1
    NoRun = NoRun
INVARIANTS TypeOK LastRequestWins RestoreIsComing
PROPERTIES AutoRestores FullDurationUnlessBusy
CHECK_DEADLOCK FALSE
