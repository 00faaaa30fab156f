SPECIFICATION PortalSpec
CONSTANTS
    Home = Home
    Downloads = Downloads
    Unset = Unset
    Bad = Bad
    images = images
    texts = texts
    MaxTries = 2
    MaxFilters = 2
    MaxOptions = 2
    Handles = {h1, h2}
    Offers <- MCOffers
    Layouts <- MCLayouts
    Names <- MCNames
    Contested <- MCContested
    MaxCalls = 2
    MaxEvents = 2
    MaxLines = 3
    MaxEdits = 2
SYMMETRY MCSymmetry
INVARIANTS
    EveryCallIsAnsweredOnce
    NothingIsReplacedUnasked
    ManagedRouteCanBeRestored
    ReportIsTrue
PROPERTIES
    TheCallerGetsWhatWasChosen
    SavedNamesAreFree
    RestoreIsExact
CHECK_DEADLOCK FALSE
