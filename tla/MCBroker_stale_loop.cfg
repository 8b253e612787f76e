CONSTANTS
    Clients = {c1, c2}
    Topics = {t1}
    None = None
    MaxConn = 1
    MaxTopicIds = 1
    MaxMsgs = 1
    MaxFailures = 0
    RecordNum = 5
    QoSLevels = {0}
    PacketIds = {1}
SYMMETRY ClientSymmetry
SPECIFICATION Spec
PROPERTY PushOnlyForLiveSubscription
CHECK_DEADLOCK FALSE
