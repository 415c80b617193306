CONSTANTS
    Callers <- Pair
    Endpoints <- Pair
    MaxRetries = 1
    Latencies = {1, 2}
    Batches <- BatchAndSingle
    Label <- OwnLabels
    FlushOn = TRUE
    MaxPosts = 1
SPECIFICATION FairDaemonSpec
INVARIANTS DaemonTypeOK BatchInStep NoOutcomeLost SummariesSound
PROPERTIES RequestsAnswered OutcomesReported
