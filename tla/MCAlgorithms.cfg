CONSTANTS
    DefaultBindings <- MCDefaultBindings
    MaximumBindings = 3
    MaximumAlphabet = 4
    Fraction = 65536
    DisplayCapacity = 3
    MaximumTargets = 6
    MaximumTextBytes = 6
    IouTenths = 5
    ContainmentTenths = 9
    MaximumAreaRatio = 4
    PerQ3 = 2
    Limit = 40
    MaximumGlyphs = 2
    MaximumCommands = 4
    NavigationCapacity = 4
    MaximumEdits = 2
    MaximumPublications = 3
    Bindings <- MCBindings
    Alphabets <- MCAlphabets
    Translations <- MCTranslations
    Files <- MCFiles
    Evidence <- MCEvidence
    Filters <- MCFilters
    GridScopes <- MCGridScopes
    WindowLists <- MCWindowLists
    OverlayScenes <- MCOverlayScenes
    OverlayConfigs <- MCOverlayConfigs
    Labellings <- MCLabellings
    PlannedScenes <- MCPlannedScenes
    Requests <- MCRequests
    Contexts <- MCContexts
    MaximumAdjustments = 3
    AimCommands <- Adjustments
    AimedTargets <- MCAimedTargets
    Furthest = 40
    NudgeStep = 16
    EdgeInset = 3
    Transforms <- MCTransforms
    Rects <- MCRects
    Points <- MCPoints
    AtlasSizes <- MCAtlasSizes
    DisplayLists <- MCDisplayLists
    NavigatedLists <- MCNavigatedLists
    Excluded = {7, 8}
    Families = {"inference", "input"}
    ProviderCapacity = 2
    DeviceCapacity = 2
    MaximumRegistrations = 4
    Descriptors <- MCDescriptors
    DeviceInfos <- MCDeviceInfos
    Needs <- MCNeeds
    DeviceNeeds <- MCDeviceNeeds
    Ids = {0, 1, 2, 3}
    MaximumReturned = 3
    MaximumFilters = 2
    MaximumQueryText = 2
    Queries <- MCQueries
    Observations <- MCObservations
    MaximumComponents = 4
    MaximumDetected = 3
    Detections <- MCDetections
    Unit = 16
    Sightings <- MCSightings
SPECIFICATION Spec
INVARIANTS
    SettingsHold
    SceneHolds
    ActionsAreMeant
    RegistryHolds
    QueriesAnswer
    DetectionHolds
CHECK_DEADLOCK FALSE
