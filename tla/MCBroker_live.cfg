\* Eventual delivery of the push loops under weak fairness of the supervisor
\* and the loops; two records, both inside one batch of record_num = 5.
CONSTANTS
    Clients = {c1, c2}
    Topics = {t1}
    None = None
    MaxConn = 2
    MaxTopicIds = 1
    MaxMsgs = 2
    MaxFailures = 0
    RecordNum = 5
    QoSLevels = {0}
    PacketIds = {1}
SPECIFICATION FairSpec
VIEW PublisherFreeView
PROPERTY EventualDelivery
CHECK_DEADLOCK FALSE
