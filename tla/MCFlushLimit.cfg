SPECIFICATION SubmitSpec
CONSTANTS
    MaxTrackedBytes = 4
    UploadArenaCount = 2
    MaxCommandSize = 2
    GpuLimits = {2, 3}
    GpuMaxCommand = 3
INVARIANTS
    LimitIsPositive
