CONSTANTS
    Clients = {c1, c2}
    Topics = {t1}
    None = None
    MaxConn = 2
    MaxTopicIds = 1
    MaxMsgs = 2
    MaxFailures = 0
    RecordNum = 5
    QoSLevels = {0}
    PacketIds = {1}
SYMMETRY ClientSymmetry
SPECIFICATION Spec
INVARIANT CommitAfterBatch
CHECK_DEADLOCK FALSE
