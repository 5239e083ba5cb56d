CONSTANTS
    None = None
    Paths = {"p", "q"}
    Filters <- SomeFilters
    RegistrationIds = {"r"}
    Folders = {"a", "b"}
    Sections = {"a", "b"}
    Values = {0, 1}
    Registrations = {"r"}
    Percentages <- SomePercentages
    Documents = {"d", "e"}
    Annotations = {"x", "y"}
    Keys = {"a", "b", "c"}
    Limits <- SomeLimits
    MaxOperations = 2
    MaxDisturbances = 3
    MaxChanges = 2
    MaxSessions = 2
    MaxUnregistrations = 1
    MaxRegistrations = 1
    MaxCalls = 3
    MaxVersion = 2
    MaxEdits = 2
    MaxOpens = 1
    MaxLaunches = 2
SPECIFICATION MCSpec
CHECK_DEADLOCK FALSE
INVARIANTS FilesTold WorkspaceAgrees ProgressShown AppliedAsSent ProcessesEnd Recognised ItemsSurvive
    ChangeBuilds StructuresExact TokensFollow
