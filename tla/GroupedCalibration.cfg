SPECIFICATION DataSpec
CONSTANTS
    Field = {"tide", "truck", "price"}
    Required = {"tide", "truck"}
    PublicMonths = 377
    FullCoverage = 1000
    Loader = {l1}
    Manifests = {NoManifest}
    NoManifest = NoManifest
    Sources <- MCSources
    NoPort = "any"
    MonthCounts = {377}
    MaxRevisions = 1
INVARIANTS
    CalibratedOnTrain
CHECK_DEADLOCK FALSE
