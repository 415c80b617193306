CONSTANTS
    Callers <- Pair
    Endpoints <- Pair
    MaxRetries = 1
    Latencies = {1, 2}
    Batches <- BatchAndSingle
    Label <- SharedLabel
    FlushOn = FALSE
    MaxPosts = 1
SPECIFICATION DaemonSpec
INVARIANT NothingKeptWhenOff
