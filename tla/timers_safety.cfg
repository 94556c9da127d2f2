SPECIFICATION Spec
CONSTANTS
    l1 = l1
    l2 = l2
    g1 = g1
    g2 = g2
    r1 = r1
    r2 = r2
    r3 = r3
    r4 = r4
    a1 = a1
    a2 = a2
    p1 = p1
    p2 = p2
    Light = {l1}
    Group = {g1}
    RowId = {r1, r2, r3, r4}
    Act = {a1, a2}
    Poll = {p1, p2}
    Cmd = {c1}
    AutoOff <- MCAutoOff
    Routed = {g1}
    Mode = {"none", "force_on", "force_off"}
    MaxEdits = 1
    Nobody = Nobody
    NoRow = NoRow
SYMMETRY Symmetry
INVARIANTS TypeOK LitIsCovered KnownOutputAgrees
PROPERTY FullDurationUnlessRaced
CHECK_DEADLOCK FALSE
