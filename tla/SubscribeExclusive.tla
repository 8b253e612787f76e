------------------------- MODULE SubscribeExclusive -------------------------
(***************************************************************************)
(* The exclusive subscription push engine (SubscribeExclusive in           *)
(* src/mqtt-broker/src/subscribe/exclusive_sub.rs).                        *)
(*                                                                         *)
(* start() calls exclusive_sub_push_thread once a second; it snapshots the *)
(* registry exclusive_subscribe and, for every client id without an entry  *)
(* in push_thread, records a stop sender and spawns a push loop holding    *)
(* the descriptor as it was at that moment.  A loop polls: it resolves the *)
(* client's connection, reads up to record_num records after the group's   *)
(* committed offset (group "system_sub_<client>"), and pushes them one by  *)
(* one; after each pushed record it commits the offset of the LAST record  *)
(* of the batch.  The stop channel is private to this struct and nothing   *)
(* in it ever sends on it, so no step of the model stops a loop.           *)
(*                                                                         *)
(* The registry, the client -> connection cache, the shards and the        *)
(* failure budget belong to Mqtt5Service and are read here.                *)
(***************************************************************************)
EXTENDS Naturals, Sequences, FiniteSets, MessageStorage
LOCAL INSTANCE FiniteSetsExt

CONSTANTS Clients, Topics, MaxConn, MaxTopicIds, MaxFailures, None, QoSLevels, PacketIds,
          RecordNum    \* record_num, the batch size of read_topic_message

ConnIds  == 1..MaxConn
TopicIds == 1..MaxTopicIds

VARIABLES
    push_thread,         \* client ids with a spawned push loop
    loop,                \* client id -> state of its push loop
    committed,           \* topic id -> client id -> committed offset of "system_sub_<client>"
    sent,                \* history: the PUBLISH packets pushed to connections
    exclusive_subscribe, \* (Mqtt5Service) client id -> descriptor | None
    client_connect,      \* (Mqtt5Service) client id -> connection id
    shard_log,           \* (Mqtt5Service) topic id -> records
    failures,            \* (Mqtt5Service) storage calls that have failed so far
    sockets              \* (Mqtt5Service) connections still open

exclusive_vars == <<push_thread, loop, committed, sent>>

(***************************************************************************)
(* A loop is "none" (not spawned), "poll" (at the top of its loop body) or *)
(* "push" (in the for loop over a batch, at offset i of the batch lo..hi   *)
(* that read_topic_message returned).                                      *)
(***************************************************************************)
NoLoop == [pc |-> "none", desc |-> None, conn |-> 0, lo |-> 0, hi |-> 0, i |-> 0]
Polling(desc) == [pc |-> "poll", desc |-> desc, conn |-> 0, lo |-> 0, hi |-> 0, i |-> 0]

(***************************************************************************)
(* A pushed PUBLISH: to which client, which record, on which connection,   *)
(* whether that connection was still open (publish_to_client puts the      *)
(* packet on the response queue; the writer of a closed connection is gone *)
(* and the packet with it), its QoS and its packet identifier.             *)
(***************************************************************************)
Push == [client: Clients, tid: TopicIds, offset: Nat \ {0}, conn: ConnIds, open: BOOLEAN,
         qos: QoSLevels, pkid: PacketIds]

(* min_qos: the lower of the record's and the subscription's QoS. *)
min_qos(a, b) == IF a <= b THEN a ELSE b

(***************************************************************************)
(* The PUBLISH a loop at offset l.i of its batch pushes (exclusive_sub.rs  *)
(* 136-175): QoS min_qos(msg.qos, subscribe.qos), pkid                     *)
(* subscribe.packet_identifier, to the connection resolved for the batch.  *)
(***************************************************************************)
PushOf(c, l) == [client |-> c, tid |-> l.desc.tid, offset |-> l.i, conn |-> l.conn,
                 open |-> l.conn \in sockets,
                 qos |-> min_qos(shard_log[l.desc.tid][l.i].qos, l.desc.qos),
                 pkid |-> l.desc.pkid]

ExclusiveTypeOK ==
    /\ push_thread \subseteq Clients
    /\ \A c \in Clients : loop[c].pc \in {"none", "poll", "push"}
    /\ \A c \in Clients : (loop[c].pc = "none") <=> (c \notin push_thread)
    /\ committed \in [TopicIds -> [Clients -> Nat]]
    /\ sent \subseteq Push

ExclusiveInit ==
    /\ push_thread = {}
    /\ loop = [c \in Clients |-> NoLoop]
    /\ committed = [t \in TopicIds |-> [c \in Clients |-> 0]]
    /\ sent = {}

-----------------------------------------------------------------------------
(***************************************************************************)
(* msg.client_id of a decoded record.  build_record (mqtt5.rs 254) is not  *)
(* given the publisher's client id, so a record carries none of the ids    *)
(* connect assigns (never empty, mqtt5.rs 92-96).  The nolocal check       *)
(* (exclusive_sub.rs 132) skips a record when the subscriber is this id.   *)
(***************************************************************************)
MsgClientId(record) == None
Skips(c, desc, record) == desc.nolocal /\ MsgClientId(record) = c

(* A storage call of the loop returns Err; the loop logs it and goes on. *)
StorageFails == failures < MaxFailures /\ failures' = failures + 1

(* Mutant: the supervisor spawns a loop but forgets its push_thread entry. *)
exclusive_sub_push_thread_no_entry ==
    LET spawn == {c \in Clients : exclusive_subscribe[c] # None /\ c \notin push_thread}
    IN /\ spawn # {}
       /\ UNCHANGED push_thread
       /\ loop' = [c \in Clients |-> IF c \in spawn THEN Polling(exclusive_subscribe[c])
                                     ELSE loop[c]]
       /\ UNCHANGED <<committed, sent, exclusive_subscribe, client_connect, shard_log,
                      failures>>

(***************************************************************************)
(* exclusive_sub_push_thread (exclusive_sub.rs 54-91): one tick of the     *)
(* supervisor.  Every client id of the snapshot that has no push_thread    *)
(* entry gets one and a loop with the descriptor of the snapshot.          *)
(***************************************************************************)
exclusive_sub_push_thread ==
    LET spawn == {c \in Clients : exclusive_subscribe[c] # None /\ c \notin push_thread}
    IN /\ spawn # {}
       /\ push_thread' = push_thread \cup spawn
       /\ loop' = [c \in Clients |-> IF c \in spawn THEN Polling(exclusive_subscribe[c])
                                     ELSE loop[c]]
       /\ UNCHANGED <<committed, sent, exclusive_subscribe, client_connect, shard_log,
                      failures>>

(***************************************************************************)
(* Mutant of push_loop_poll: the batch starts AT the committed offset      *)
(* instead of after it, so the last committed record is read again.        *)
(***************************************************************************)
push_loop_poll_reread_committed(c) ==
    LET l     == loop[c]
        tid   == l.desc.tid
        from  == IF committed[tid][c] > 0 THEN committed[tid][c] - 1 ELSE 0
        batch == ReadTopicMessage(shard_log[tid], from, RecordNum)
    IN /\ l.pc = "poll"
       /\ client_connect[c] # None
       /\ \/ /\ batch # {}
             /\ loop' = [loop EXCEPT ![c] = [pc |-> "push", desc |-> l.desc, conn |-> client_connect[c],
                                             lo |-> Min(batch), hi |-> Max(batch), i |-> Min(batch)]]
             /\ UNCHANGED failures
          \/ /\ StorageFails
             /\ UNCHANGED loop
       /\ UNCHANGED <<push_thread, committed, sent, exclusive_subscribe, client_connect,
                      shard_log>>

(***************************************************************************)
(* The top of the loop body (exclusive_sub.rs 93-121, 202-205): the stop   *)
(* channel is empty; get_connect_id gives the client's connection, which  *)
(* the whole batch is pushed to (while it gives none the loop spins and    *)
(* nothing changes); read_topic_message                                    *)
(* returns the next batch, or Err, after which the loop sleeps and polls   *)
(* again.  An empty batch also sleeps and changes nothing.                 *)
(***************************************************************************)
push_loop_poll(c) ==
    LET l     == loop[c]
        tid   == l.desc.tid
        batch == ReadTopicMessage(shard_log[tid], committed[tid][c], RecordNum)
    IN /\ l.pc = "poll"
       /\ client_connect[c] # None
       /\ \/ /\ batch # {}
             /\ loop' = [loop EXCEPT ![c] = [pc |-> "push", desc |-> l.desc, conn |-> client_connect[c],
                                             lo |-> Min(batch), hi |-> Max(batch), i |-> Min(batch)]]
             /\ UNCHANGED failures
          \/ /\ StorageFails
             /\ UNCHANGED loop
       /\ UNCHANGED <<push_thread, committed, sent, exclusive_subscribe, client_connect,
                      shard_log>>

(***************************************************************************)
(* Mutant of push_loop_send: nolocal skips every record without comparing  *)
(* the record's client id with the subscriber.                             *)
(***************************************************************************)
push_loop_send_skip_all(c) ==
    LET l    == loop[c]
        tid  == l.desc.tid
        next == IF l.i = l.hi THEN [loop EXCEPT ![c] = Polling(l.desc)]
                ELSE [loop EXCEPT ![c].i = l.i + 1]
        push == PushOf(c, l)
        own  == l.desc.nolocal
    IN /\ l.pc = "push"
       /\ loop' = next
       /\ IF own
          THEN UNCHANGED <<sent, committed, failures>>
          ELSE /\ sent' = sent \cup {push}
               /\ \/ /\ committed' = [committed EXCEPT ![tid][c] = l.hi]
                     /\ UNCHANGED failures
                  \/ /\ StorageFails
                     /\ UNCHANGED committed
       /\ UNCHANGED <<push_thread, exclusive_subscribe, client_connect, shard_log>>

(***************************************************************************)
(* One iteration of the for loop over the batch (exclusive_sub.rs 123-200).*)
(* Under nolocal, a record whose client id is the subscriber's is skipped  *)
(* with `continue`, before the commit (with the records build_record makes *)
(* this never happens).  Any other record is pushed to the                 *)
(* connection resolved at the top of the body, and then the offset of the  *)
(* batch's last record is committed; a failed commit is logged and the    *)
(* loop goes on.  After the batch's last record the loop is at its top.    *)
(***************************************************************************)
push_loop_send(c) ==
    LET l    == loop[c]
        tid  == l.desc.tid
        next == IF l.i = l.hi THEN [loop EXCEPT ![c] = Polling(l.desc)]
                ELSE [loop EXCEPT ![c].i = l.i + 1]
        push == PushOf(c, l)
        own  == Skips(c, l.desc, shard_log[tid][l.i])
    IN /\ l.pc = "push"
       /\ loop' = next
       /\ IF own
          THEN UNCHANGED <<sent, committed, failures>>
          ELSE /\ sent' = sent \cup {push}
               /\ \/ /\ committed' = [committed EXCEPT ![tid][c] = l.hi]
                     /\ UNCHANGED failures
                  \/ /\ StorageFails
                     /\ UNCHANGED committed
       /\ UNCHANGED <<push_thread, exclusive_subscribe, client_connect, shard_log>>

ExclusiveNext ==
    \/ exclusive_sub_push_thread
    \/ \E c \in Clients : push_loop_poll(c) \/ push_loop_send(c)
=============================================================================
