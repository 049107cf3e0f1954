CONSTANTS
    h1 = h1
    h2 = h2
    Hashes = {h1, h2}
    Write_Backends <- Dual
    Query_Backend = "openobserve"
    Unsupported = {h2}
    Idle = Idle
    MaxFaults = 1
    Voltages = {"voltage"}
    Buckets = {"s3", "s3copies"}
    Lambdas = {"lambda"}
    Sensors = {"suricata"}
    Items <- EachHas
    Hash <- HashOf
    OutOfScope <- Others
    NoItem = NoItem
    MaxExpiries = 1
    Deployments <- AloneAndTogether
SPECIFICATION FairSpec
INVARIANTS
    NothingLostWithoutFailure
    DoneMeansAnswered
    SubmittedOnce
    BackendsAgree
PROPERTIES
    EventuallySettled
CHECK_DEADLOCK FALSE
