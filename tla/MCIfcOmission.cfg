SPECIFICATION Spec
CONSTANTS
    Nil = Nil
    Broken = Broken
    p1 = p1
    p2 = p2
    RasterJobs = {}
    DxfJobs = {}
    IfcJobs <- TriedBuildings
    ExchangeJobs = {}
    MeshJobs = {}
    SigningJobs = {}
    ReadingJobs = {}
    WorkerJobs = {}
    CallsFor <- TriedCalls
    MaxInsertDepth = 2
    MaxReferenceDepth = 2
    MaxMembers = 2
    MaxSignatures = 3
    MaxKeys = 3
    RecordPaths = {"sources", "entities", "diagnostics"}
    MaxLength = 3
    MaxOutput = 2
INVARIANT OmissionsAreReported
CHECK_DEADLOCK FALSE
