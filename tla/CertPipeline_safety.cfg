SPECIFICATION PipelineFairSpec
CONSTANTS
    Hosts = {h1, h2}
    MaxCalls = 4
INVARIANTS
    PipelineTypeOK
    FalseHasError
    CurrentUnlessReported
PROPERTIES
    TrueMeansWritten
    StaleErrorMeansUnwritten
    StrandedForGood
    
    ServedInTheEnd
CHECK_DEADLOCK FALSE
