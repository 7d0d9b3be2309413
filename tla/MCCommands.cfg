SPECIFICATION Spec
CONSTANTS
    Nil = Nil
    Broken = Broken
    p1 = p1
    p2 = p2
    RasterJobs <- TriedRasters
    DxfJobs <- TriedDrawings
    IfcJobs <- TriedBuildings
    ExchangeJobs <- TriedExchanges
    MeshJobs <- TriedMeshes
    SigningJobs <- TriedSignings
    ReadingJobs <- TriedReadings
    WorkerJobs <- TriedWorkers
    CallsFor <- TriedCalls
    MaxInsertDepth = 2
    MaxReferenceDepth = 2
    MaxMembers = 2
    MaxSignatures = 3
    MaxKeys = 3
    RecordPaths = {"sources", "entities", "diagnostics"}
    MaxLength = 3
    MaxOutput = 2
INVARIANTS
    PackagesAreClosed
    DerivedRestsOnEvidence
    NothingIsSilentlyOmitted
    SignaturesCount
    ProjectionsAreExact
    WorkersAreAccountedFor
    
PROPERTY CallsReturn
CHECK_DEADLOCK FALSE
