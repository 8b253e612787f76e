\* Two QoS 1 pushes on one connection carry the same SUBSCRIBE packet id.
CONSTANTS
    Clients = {c1, c2}
    Topics = {t1}
    None = None
    MaxConn = 1
    MaxTopicIds = 1
    MaxMsgs = 2
    MaxFailures = 0
    RecordNum = 5
    QoSLevels = {0, 1}
    PacketIds = {1}
SYMMETRY ClientSymmetry
SPECIFICATION Spec
INVARIANT InFlightPacketIdsDistinct
CHECK_DEADLOCK FALSE
