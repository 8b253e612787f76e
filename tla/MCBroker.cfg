\* Safety of the broker core: two clients, one topic, two connections, two
\* records, and one storage call that fails.
CONSTANTS
    Clients = {c1, c2}
    Topics = {t1}
    None = None
    MaxConn = 2
    MaxTopicIds = 1
    MaxMsgs = 2
    MaxFailures = 1
    RecordNum = 5
    QoSLevels = {0}
    PacketIds = {1}
SYMMETRY ClientSymmetry
SPECIFICATION Spec
INVARIANT TypeOK
PROPERTY ImplementsCursor
CHECK_DEADLOCK FALSE
