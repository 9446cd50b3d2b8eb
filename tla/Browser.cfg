SPECIFICATION FairBrowserSpec
CONSTANTS
    here = here
    other = other
    t1 = t1
    t2 = t2
    NoTarget = NoTarget
    NoState = NoState
    Tabs <- MCTabs
    Here <- here
    Places <- Guarded
    Targets <- MCTargets
    MaxClicks = 3
INVARIANTS
    BrowserTypeOK
    TurnedAwayAbroad
    Remembered
PROPERTIES
    NoReturn
    LandsWhereAsked
    BouncesEnd
CHECK_DEADLOCK FALSE
