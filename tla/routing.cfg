CONSTANTS
    NoSource = NoSource
    NoTarget = NoTarget
    NoDevice = NoDevice
    AnyObject = AnyObject
    l1 = l1
    c1 = c1
    c2 = c2
    cam = cam
    Lamp = {l1}
    Cond = {c1, c2}
    Run = {h1, h2}
    Payload <- MCPayload
    Cameras <- MCCameras
    Guarded = {l1}
    Plan <- MCPlan
    Settings <- MCSettings
    FirstRoutes <- MCRoutes
    FirstHooks = {c2}
    Body <- MCBodies
    Day = 3
    MaxRoutes = 4
    MaxEdits = 2
    Keep = 2
    MaxAge = 1
SPECIFICATION Spec
INVARIANTS
    TypeOK
    LastEventWins
    OneController
    EveryRouteCanFire
PROPERTIES
    CooldownHolds
    CooldownHasCause
    OnlyInWindow
SYMMETRY MCSymmetry
CHECK_DEADLOCK FALSE
