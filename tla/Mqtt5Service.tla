---------------------------- MODULE Mqtt5Service ----------------------------
(***************************************************************************)
(* The MQTT v5 packet handlers (Mqtt5Service in                            *)
(* src/mqtt-broker/src/handler/mqtt5.rs) with the state they read and      *)
(* write: the metadata cache, the heartbeat table, the topic metadata and  *)
(* the message storage, and the exclusive subscription registry.           *)
(*                                                                         *)
(* Packets of one connection are handled one at a time (the wire layer     *)
(* serialises a socket); packets of different connections are handled by   *)
(* different tasks of a multi-threaded runtime and interleave.  CONNECT,   *)
(* SUBSCRIBE, UNSUBSCRIBE, PINGREQ and DISCONNECT are one step each: their *)
(* shared-state updates happen together after their awaits.  PUBLISH is    *)
(* split at every await and between the cache lookup and the cache update  *)
(* of a new topic, because other connections run in between.              *)
(*                                                                         *)
(* A handler that returns a DISCONNECT packet ends the network connection  *)
(* (MQTT v5 4.13: the server closes it after sending DISCONNECT); it does  *)
(* not touch the caches, exactly as the handler code does not.             *)
(***************************************************************************)
EXTENDS Naturals, Sequences, FiniteSets, MessageStorage

CONSTANTS
    Clients,      \* client ids
    Topics,       \* topic names
    MaxConn,      \* connections the wire layer accepts in a behaviour
    MaxTopicIds,  \* topic ids Topic::new hands out in a behaviour
    MaxMsgs,      \* records published in a behaviour
    MaxFailures,  \* storage calls that fail in a behaviour
    QoSLevels,    \* QoS levels of PUBLISH and SUBSCRIBE packets (0, 1, 2)
    PacketIds,    \* packet identifiers of SUBSCRIBE packets
    None          \* absent value of an optional slot

ASSUME MaxConn \in Nat \ {0} /\ MaxTopicIds \in Nat \ {0}
ASSUME MaxMsgs \in Nat /\ MaxFailures \in Nat

ConnIds  == 1..MaxConn
TopicIds == 1..MaxTopicIds

VARIABLES
    sockets,             \* connections accepted by the wire layer and still open
    next_conn,           \* the id the wire layer gives the next connection
    connect_id_info,     \* metadata cache: connection id -> client id
    client_connect,      \* metadata cache: client id -> connection id (get_connect_id)
    session_info,        \* metadata cache: clients with a cached session
    heartbeat,           \* heartbeat manager: connections with a live-time entry
    topic_info,          \* metadata cache: topic name -> topic id
    next_topic_id,       \* the id Topic::new gives to the next topic
    shards,              \* message storage: topic ids whose shard exists
    shard_log,           \* message storage: topic id -> records of its shard
    exclusive_subscribe, \* subscription registry: client id -> descriptor | None
    handler,             \* connection id -> the PUBLISH it is in the middle of
    failures             \* storage calls that have failed so far

wire_vars    == <<sockets, next_conn>>
conn_vars    == <<connect_id_info, client_connect, session_info, heartbeat>>
topic_vars   == <<topic_info, next_topic_id, shards>>
mqtt5_vars   == <<wire_vars, conn_vars, topic_vars, shard_log, exclusive_subscribe,
                  handler, failures>>

(***************************************************************************)
(* A subscription descriptor of the registry (metadata::subscriber::       *)
(* Subscriber): the filter's topic and topic id, the nolocal option, the   *)
(* maximum QoS and the packet identifier of the SUBSCRIBE that made it.    *)
(***************************************************************************)
Descriptor == [topic: Topics, tid: TopicIds, nolocal: BOOLEAN, qos: QoSLevels, pkid: PacketIds]

(***************************************************************************)
(* A stored record: its QoS (Message), and the client that published it.  *)
(* The publisher is history: build_record (mqtt5.rs 254) is given only the *)
(* PUBLISH packet and its properties, so the stored record does not carry  *)
(* it and no code reads it; only the properties do.                        *)
(***************************************************************************)
Record == [publisher: Clients, qos: QoSLevels]

(* The steps of a PUBLISH handler between its awaits. *)
PublishSteps == {"idle", "set_topic", "save_topic", "create_shard", "save_retain", "append"}
Idle == [pc |-> "idle", client |-> None, topic |-> None, tid |-> 0, retain |-> FALSE, qos |-> 0]

Mqtt5TypeOK ==
    /\ sockets \subseteq ConnIds
    /\ next_conn \in 1..(MaxConn + 1)
    /\ connect_id_info \in [ConnIds -> Clients \cup {None}]
    /\ client_connect \in [Clients -> ConnIds \cup {None}]
    /\ session_info \subseteq Clients
    /\ heartbeat \subseteq ConnIds
    /\ topic_info \in [Topics -> TopicIds \cup {None}]
    /\ next_topic_id \in 1..(MaxTopicIds + 1)
    /\ shards \subseteq TopicIds
    /\ shard_log \in [TopicIds -> Seq(Record)]
    /\ exclusive_subscribe \in [Clients -> Descriptor \cup {None}]
    /\ \A conn \in ConnIds : handler[conn].pc \in PublishSteps
    /\ failures \in 0..MaxFailures

Mqtt5Init ==
    /\ sockets = {}
    /\ next_conn = 1
    /\ connect_id_info = [conn \in ConnIds |-> None]
    /\ client_connect = [c \in Clients |-> None]
    /\ session_info = {}
    /\ heartbeat = {}
    /\ topic_info = [t \in Topics |-> None]
    /\ next_topic_id = 1
    /\ shards = {}
    /\ shard_log = [tid \in TopicIds |-> <<>>]
    /\ exclusive_subscribe = [c \in Clients |-> None]
    /\ handler = [conn \in ConnIds |-> Idle]
    /\ failures = 0

-----------------------------------------------------------------------------
(* A storage call returns Err: the budget of failures shrinks by one. *)
StorageFails == failures < MaxFailures /\ failures' = failures + 1

(* The handler returns a DISCONNECT packet; the connection is closed. *)
Distinct(conn) == sockets' = sockets \ {conn}

(* Connection conn may deliver its next packet to a handler. *)
Ready(conn) == conn \in sockets /\ handler[conn].pc = "idle"

(* The wire layer accepts a socket and gives it the next connection id. *)
accept ==
    /\ next_conn <= MaxConn
    /\ sockets' = sockets \cup {next_conn}
    /\ next_conn' = next_conn + 1
    /\ UNCHANGED <<conn_vars, topic_vars, shard_log,
                   exclusive_subscribe, handler, failures>>

(***************************************************************************)
(* connect (mqtt5.rs 58-167).  authentication_login answers Ok(false) or   *)
(* Err for bad credentials: DISCONNECT(NotAuthorized).  save_connect_session*)
(* and, for a CONNECT with a will, save_lastwill persist the session and   *)
(* the will; a failure of either returns a DISCONNECT before the cache is  *)
(* touched (the persisted session and will are read by nothing modelled,   *)
(* so both failures are one disjunct).  Then set_session,                  *)
(* set_client_id(conn, client) and report_hearbeat.  Nothing here looks at *)
(* a connection the client may already have: there is no take-over.       *)
(***************************************************************************)
connect(conn, c, login_ok) ==
    /\ Ready(conn)
    /\ connect_id_info[conn] = None
    /\ \/ /\ ~login_ok
          /\ Distinct(conn)
          /\ UNCHANGED <<conn_vars, failures>>
       \/ /\ login_ok
          /\ StorageFails
          /\ Distinct(conn)
          /\ UNCHANGED conn_vars
       \/ /\ login_ok
          /\ session_info' = session_info \cup {c}
          /\ connect_id_info' = [connect_id_info EXCEPT ![conn] = c]
          /\ client_connect' = [client_connect EXCEPT ![c] = conn]
          /\ heartbeat' = heartbeat \cup {conn}
          /\ UNCHANGED <<sockets, failures>>
    /\ UNCHANGED <<next_conn, topic_vars, shard_log, exclusive_subscribe, handler>>

(***************************************************************************)
(* publish (mqtt5.rs 169-294), first step: the cache lookups.  No client   *)
(* for the connection, or no session for the client: DISCONNECT.  A topic  *)
(* in the cache is used as it is; a topic missing from the cache is        *)
(* created next (Topic::new, set_topic) by a step of its own, since the    *)
(* lookup and the update are separate cache operations and another         *)
(* connection's handler runs on another thread in between.                 *)
(***************************************************************************)
AfterTopic(retain) == IF retain THEN "save_retain" ELSE "append"

publish(conn, t, retain, qos) ==
    /\ Ready(conn)
    /\ TotalRecords(shard_log) < MaxMsgs
    /\ LET c == connect_id_info[conn] IN
       \/ /\ c \notin session_info
          /\ Distinct(conn)
          /\ UNCHANGED handler
       \/ /\ c \in session_info
          /\ topic_info[t] # None
          /\ handler' = [handler EXCEPT ![conn] = [pc |-> AfterTopic(retain), client |-> c,
                                          topic |-> t, tid |-> topic_info[t], retain |-> retain,
                                          qos |-> qos]]
          /\ UNCHANGED sockets
       \/ /\ c \in session_info
          /\ topic_info[t] = None
          /\ handler' = [handler EXCEPT ![conn] = [pc |-> "set_topic", client |-> c,
                                          topic |-> t, tid |-> 0, retain |-> retain, qos |-> qos]]
          /\ UNCHANGED sockets
    /\ UNCHANGED <<next_conn, conn_vars, topic_vars, shard_log,
                   exclusive_subscribe, failures>>

(* Topic::new gives a fresh topic id; set_topic overwrites the cache entry. *)
publish_set_topic(conn) ==
    /\ handler[conn].pc = "set_topic"
    /\ next_topic_id <= MaxTopicIds
    /\ topic_info' = [topic_info EXCEPT ![handler[conn].topic] = next_topic_id]
    /\ next_topic_id' = next_topic_id + 1
    /\ handler' = [handler EXCEPT ![conn].pc = "save_topic", ![conn].tid = next_topic_id]
    /\ UNCHANGED <<wire_vars, conn_vars, shards,
                   shard_log, exclusive_subscribe, failures>>

(* A storage step of PUBLISH fails: DISCONNECT, the handler returns. *)
PublishFails(conn) ==
    /\ StorageFails
    /\ Distinct(conn)
    /\ handler' = [handler EXCEPT ![conn] = Idle]

(* TopicStorage::save_topic persists the topic; the cache entry stays on failure. *)
publish_save_topic(conn) ==
    LET h == handler[conn] IN
    /\ h.pc = "save_topic"
    /\ \/ /\ handler' = [handler EXCEPT ![conn].pc = "create_shard"]
          /\ UNCHANGED <<sockets, failures>>
       \/ PublishFails(conn)
    /\ UNCHANGED <<next_conn, conn_vars, topic_info, next_topic_id,
                   shards, shard_log, exclusive_subscribe>>

(* create_shard(topic_id, ShardConfig::default()) on the message storage. *)
publish_create_shard(conn) ==
    LET h == handler[conn] IN
    /\ h.pc = "create_shard"
    /\ \/ /\ shards' = shards \cup {h.tid}
          /\ handler' = [handler EXCEPT ![conn].pc = AfterTopic(h.retain)]
          /\ UNCHANGED <<sockets, failures>>
       \/ /\ PublishFails(conn)
          /\ UNCHANGED shards
    /\ UNCHANGED <<next_conn, conn_vars, topic_info,
                   next_topic_id, shard_log, exclusive_subscribe>>

(* save_retain_message(topic_id, message) when the PUBLISH has retain set. *)
publish_save_retain(conn) ==
    LET h == handler[conn] IN
    /\ h.pc = "save_retain"
    /\ \/ /\ handler' = [handler EXCEPT ![conn].pc = "append"]
          /\ UNCHANGED <<sockets, failures>>
       \/ PublishFails(conn)
    /\ UNCHANGED <<next_conn, conn_vars, topic_vars, shard_log,
                   exclusive_subscribe>>

(***************************************************************************)
(* append_topic_message(topic_id, [record]), then the QoS answer (none,    *)
(* PUBACK or PUBREC), which changes no state.  Appending to a shard that   *)
(* was never created is an error of the storage (NotFound).                *)
(***************************************************************************)
publish_append(conn) ==
    LET h == handler[conn] IN
    /\ h.pc = "append"
    /\ \/ /\ h.tid \in shards
          /\ shard_log' = [shard_log EXCEPT ![h.tid] = AppendTopicMessage(@, [publisher |-> h.client, qos |-> h.qos])]
          /\ handler' = [handler EXCEPT ![conn] = Idle]
          /\ UNCHANGED <<sockets, failures>>
       \/ /\ h.tid \notin shards
          /\ Distinct(conn)
          /\ handler' = [handler EXCEPT ![conn] = Idle]
          /\ UNCHANGED <<shard_log, failures>>
       \/ /\ h.tid \in shards
          /\ PublishFails(conn)
          /\ UNCHANGED shard_log
    /\ UNCHANGED <<next_conn, conn_vars, topic_vars,
                   exclusive_subscribe>>

(***************************************************************************)
(* subscribe (mqtt5.rs 300-346).  parse_subscribe (subscribe manager, not  *)
(* in the slice; spec.md 4.D) resolves the filter to the cached topic id,  *)
(* creating, persisting and sharding the topic when it is missing, and     *)
(* stores the descriptor under the client id, replacing an earlier one.    *)
(* send_retain_message then reads the topic's retained message from the    *)
(* storage; when that fails the handler returns DISCONNECT, and the         *)
(* descriptor stored just before stays.  Retained delivery itself is not    *)
(* modelled.                                                               *)
(***************************************************************************)
subscribe(conn, t, nolocal, qos, pkid) ==
    LET c == connect_id_info[conn] IN
    /\ Ready(conn)
    /\ c # None
    /\ \/ /\ topic_info[t] # None
          /\ exclusive_subscribe' = [exclusive_subscribe EXCEPT
                ![c] = [topic |-> t, tid |-> topic_info[t], nolocal |-> nolocal, qos |-> qos,
                        pkid |-> pkid]]
          /\ UNCHANGED topic_vars
       \/ /\ topic_info[t] = None
          /\ next_topic_id <= MaxTopicIds
          /\ topic_info' = [topic_info EXCEPT ![t] = next_topic_id]
          /\ shards' = shards \cup {next_topic_id}
          /\ next_topic_id' = next_topic_id + 1
          /\ exclusive_subscribe' = [exclusive_subscribe EXCEPT
                ![c] = [topic |-> t, tid |-> next_topic_id, nolocal |-> nolocal, qos |-> qos,
                        pkid |-> pkid]]
    /\ \/ UNCHANGED <<sockets, failures>>
       \/ StorageFails /\ Distinct(conn)
    /\ UNCHANGED <<next_conn, conn_vars, shard_log, handler>>

(***************************************************************************)
(* un_subscribe (mqtt5.rs 366-388): the filter is resolved to the topic id *)
(* the cache holds now, and remove_subscribe drops the client's descriptor *)
(* for that topic id.                                                      *)
(***************************************************************************)
un_subscribe(conn, t) ==
    LET c == connect_id_info[conn] IN
    /\ Ready(conn)
    /\ c # None
    /\ topic_info[t] # None
    /\ exclusive_subscribe[c] # None
    /\ exclusive_subscribe[c].tid = topic_info[t]
    /\ exclusive_subscribe' = [exclusive_subscribe EXCEPT ![c] = None]
    /\ UNCHANGED <<wire_vars, conn_vars, topic_vars, shard_log,
                   handler, failures>>

(***************************************************************************)
(* ping (mqtt5.rs 348-364): with a client and a session for the           *)
(* connection, report_hearbeat renews the live time of the connection's   *)
(* heartbeat entry and PINGRESP is returned; otherwise                    *)
(* DISCONNECT(UseAnotherServer).  Heartbeat times are not modelled (no    *)
(* step of the slice reads them), so the renewal is a stuttering step and *)
(* only the refusal is an action.                                         *)
(***************************************************************************)
ping(conn) ==
    /\ Ready(conn)
    /\ connect_id_info[conn] \notin session_info
    /\ Distinct(conn)
    /\ UNCHANGED <<next_conn, conn_vars, topic_vars, shard_log, exclusive_subscribe,
                   handler, failures>>

(***************************************************************************)
(* disconnect (mqtt5.rs 390-402): remove_connect_id drops the connection's *)
(* cache entries (the client's entry only while it still names this       *)
(* connection), remove_connect drops its heartbeat, remove_connect_subscribe*)
(* drops the client's subscriptions; the client then closes the socket.    *)
(* The stored last will is left as it is.                                  *)
(***************************************************************************)
disconnect(conn) ==
    LET c == connect_id_info[conn] IN
    /\ Ready(conn)
    /\ connect_id_info' = [connect_id_info EXCEPT ![conn] = None]
    /\ client_connect' = IF c # None /\ client_connect[c] = conn
                          THEN [client_connect EXCEPT ![c] = None] ELSE client_connect
    /\ heartbeat' = heartbeat \ {conn}
    /\ exclusive_subscribe' = IF c # None THEN [exclusive_subscribe EXCEPT ![c] = None]
                               ELSE exclusive_subscribe
    /\ Distinct(conn)
    /\ UNCHANGED <<next_conn, session_info, topic_vars, shard_log,
                   handler, failures>>

Mqtt5Next ==
    \/ accept
    \/ \E conn \in ConnIds :
          \/ \E c \in Clients, login_ok \in BOOLEAN : connect(conn, c, login_ok)
          \/ \E t \in Topics, retain \in BOOLEAN, qos \in QoSLevels : publish(conn, t, retain, qos)
          \/ publish_set_topic(conn)
          \/ publish_save_topic(conn)
          \/ publish_create_shard(conn)
          \/ publish_save_retain(conn)
          \/ publish_append(conn)
          \/ \E t \in Topics, nolocal \in BOOLEAN, qos \in QoSLevels, pkid \in PacketIds :
                subscribe(conn, t, nolocal, qos, pkid)
          \/ \E t \in Topics : un_subscribe(conn, t)
          \/ ping(conn)
          \/ disconnect(conn)
=============================================================================
