SPECIFICATION Spec
CONSTANTS
    Pages = {p1}
    Uploads = {u1}
    Requests = {r1, r2}
    ChunkSize = 2
    FileSize = 3
    MAX_CHUNK_RETRIES = 1
    MaxRestarts = 1
    None = None
INVARIANTS DestinationIsWhole SuccessIsTrue PartsAreConsistent FailedIsUndone
PROPERTIES UploadsEnd PartsAreReclaimed
