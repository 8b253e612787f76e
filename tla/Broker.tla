------------------------------- MODULE Broker -------------------------------
(***************************************************************************)
(* The broker core: the MQTT v5 packet handlers (Mqtt5Service) and the     *)
(* exclusive push engine (SubscribeExclusive) running side by side.  They  *)
(* share the subscription registry, the client -> connection cache, the    *)
(* shards of the message storage and the storage's failure budget.  A step *)
(* is a step of one handler or of the push supervisor or of one push loop. *)
(***************************************************************************)
EXTENDS Naturals, Sequences, FiniteSets

CONSTANTS Clients, Topics, MaxConn, MaxTopicIds, MaxMsgs, MaxFailures, None, RecordNum,
          QoSLevels, PacketIds

VARIABLES
    sockets, next_conn, connect_id_info, client_connect, session_info, heartbeat,
    topic_info, next_topic_id, shards, shard_log, exclusive_subscribe, handler, failures,
    push_thread, loop, committed, sent

H == INSTANCE Mqtt5Service
E == INSTANCE SubscribeExclusive

(* The handler state the push engine neither reads nor writes. *)
handler_only_vars == <<sockets, next_conn, connect_id_info, session_info, heartbeat,
                       topic_info, next_topic_id, shards, handler>>

vars == <<sockets, next_conn, connect_id_info, client_connect, session_info, heartbeat,
          topic_info, next_topic_id, shards, shard_log, exclusive_subscribe, handler,
          failures, push_thread, loop, committed, sent>>

TypeOK == H!Mqtt5TypeOK /\ E!ExclusiveTypeOK

Init == H!Mqtt5Init /\ E!ExclusiveInit

(***************************************************************************)
(* A step of one handler leaves the push engine alone; a step of the push  *)
(* engine leaves the handler-only state alone.                             *)
(***************************************************************************)
engine_vars == <<push_thread, loop, committed, sent>>

Accept                    == H!accept /\ UNCHANGED engine_vars
Connect(conn, c, ok)      == H!connect(conn, c, ok) /\ UNCHANGED engine_vars
Publish(conn, t, r, q)    == H!publish(conn, t, r, q) /\ UNCHANGED engine_vars
PublishSetTopic(conn)     == H!publish_set_topic(conn) /\ UNCHANGED engine_vars
PublishSaveTopic(conn)    == H!publish_save_topic(conn) /\ UNCHANGED engine_vars
PublishCreateShard(conn)  == H!publish_create_shard(conn) /\ UNCHANGED engine_vars
PublishSaveRetain(conn)   == H!publish_save_retain(conn) /\ UNCHANGED engine_vars
PublishAppend(conn)       == H!publish_append(conn) /\ UNCHANGED engine_vars
Subscribe(conn, t, nl, q, p) == H!subscribe(conn, t, nl, q, p) /\ UNCHANGED engine_vars
UnSubscribe(conn, t)      == H!un_subscribe(conn, t) /\ UNCHANGED engine_vars
Ping(conn)                == H!ping(conn) /\ UNCHANGED engine_vars
Disconnect(conn)          == H!disconnect(conn) /\ UNCHANGED engine_vars
SupervisorTick == E!exclusive_sub_push_thread /\ UNCHANGED handler_only_vars
LoopPoll(c)    == E!push_loop_poll(c) /\ UNCHANGED handler_only_vars
LoopSend(c)    == E!push_loop_send(c) /\ UNCHANGED handler_only_vars

Next ==
    \/ Accept
    \/ \E conn \in H!ConnIds :
          \/ \E c \in Clients, ok \in BOOLEAN : Connect(conn, c, ok)
          \/ \E t \in Topics, r \in BOOLEAN, q \in QoSLevels : Publish(conn, t, r, q)
          \/ PublishSetTopic(conn) \/ PublishSaveTopic(conn) \/ PublishCreateShard(conn)
          \/ PublishSaveRetain(conn) \/ PublishAppend(conn)
          \/ \E t \in Topics, nl \in BOOLEAN, q \in QoSLevels, p \in PacketIds :
                Subscribe(conn, t, nl, q, p)
          \/ \E t \in Topics : UnSubscribe(conn, t)
          \/ Ping(conn) \/ Disconnect(conn)
    \/ SupervisorTick
    \/ \E c \in Clients : LoopPoll(c) \/ LoopSend(c)

Spec == Init /\ [][Next]_vars

(***************************************************************************)
(* The supervisor ticks every second and every push loop is a tokio task   *)
(* that the runtime keeps scheduling (its sleeps end): weak fairness for   *)
(* them.  Handlers run when clients send packets, which nobody promises.   *)
(***************************************************************************)
Fairness ==
    /\ WF_vars(SupervisorTick)
    /\ \A c \in Clients : WF_vars(LoopPoll(c)) /\ WF_vars(LoopSend(c))

FairSpec == Spec /\ Fairness

-----------------------------------------------------------------------------
(* The topic id client c's push loop reads, and whether record o of it is    *)
(* one the loop must push (not skipped by the nolocal check).              *)
LoopTid(c) == loop[c].desc.tid
Deliverable(c, o) == ~E!Skips(c, loop[c].desc, shard_log[LoopTid(c)][o])
Pushed(c, tid, o) == \E s \in sent : s.client = c /\ s.tid = tid /\ s.offset = o
(* ... and pushed on a connection that was open at the time. *)
Delivered(c, tid, o) == \E s \in sent : s.client = c /\ s.tid = tid /\ s.offset = o /\ s.open

(***************************************************************************)
(* The push engine implements ConsumerCursor.  The cursor of client c on   *)
(* topic id t is the committed offset of "system_sub_<c>", except while c's *)
(* loop is inside a batch of t: the commits of a batch in progress are not *)
(* final until its last record, and the cursor is the offset before the    *)
(* batch.  A pushed record is a PUBLISH of the history; a skippable record *)
(* is one the nolocal check skips.                                         *)
(***************************************************************************)
CursorOf ==
    [t \in E!TopicIds |-> [c \in Clients |->
        IF loop[c].pc = "push" /\ LoopTid(c) = t THEN loop[c].lo - 1 ELSE committed[t][c]]]
PushedOf == {<<s.client, s.tid, s.offset>> : s \in sent}
SkippedOf ==
    UNION {{<<c, LoopTid(c), o>> : o \in {o \in DOMAIN shard_log[LoopTid(c)] : ~Deliverable(c, o)}} :
           c \in {c \in Clients : loop[c].pc # "none"}}

Cursor == INSTANCE ConsumerCursor WITH TopicIds <- E!TopicIds, cursor <- CursorOf,
                                       pushed <- PushedOf, skipped <- SkippedOf

(***************************************************************************)
(* Commits of a group only move forward, and only over records pushed to   *)
(* the subscriber or skipped under nolocal, and a record is never pushed   *)
(* once its commit has passed it (spec.md 4.B commit_group_offset, 4.E and *)
(* 8 invariant 4).  It rests on the loop reading its batch right after the *)
(* committed offset (exclusive_sub.rs 113-121), visiting every offset of   *)
(* it and committing the batch's last offset (123-200), with one loop per  *)
(* client (54-91).                                                         *)
(***************************************************************************)
ImplementsCursor == Cursor!CursorSpec

(***************************************************************************)
(* A subscription made with nolocal is never pushed a record its own       *)
(* client published (MQTT v5 3.8.3.1; spec.md 1, the engine "respects     *)
(* per-subscription flags (nolocal ...)").  The loop compares msg.client_id *)
(* (exclusive_sub.rs 132), which build_record (mqtt5.rs 254) never fills   *)
(* in with the publisher.                                                  *)
(***************************************************************************)
NoLocalHonoured ==
    \A c \in Clients :
        loop[c].pc # "none" /\ loop[c].desc.nolocal =>
            \A s \in sent :
                s.client = c /\ s.tid = LoopTid(c) => shard_log[s.tid][s.offset].publisher # c

(***************************************************************************)
(* Every record a push loop has to push is eventually pushed to its client *)
(* or the client has no connection: a loop never stalls on a shard that   *)
(* holds records for it (spec.md 8, invariant 3).  It rests on the nolocal *)
(* skip (exclusive_sub.rs 132-134) matching no record: a skip jumps over   *)
(* the commit at 184-199, and a full batch of skipped records would be     *)
(* re-read forever.                                                        *)
(***************************************************************************)
EventualDelivery ==
    \A c \in Clients, o \in 1..MaxMsgs :
        (loop[c].pc # "none" /\ o <= Len(shard_log[LoopTid(c)]) /\ Deliverable(c, o))
            ~> (Pushed(c, LoopTid(c), o) \/ client_connect[c] = None)

-----------------------------------------------------------------------------
(***************************************************************************)
(* The two directions of the connection cache agree (spec.md 3 and 8.1):   *)
(* while connection conn names client c and c names some connection, c    *)
(* names conn.  connect (mqtt5.rs 143-146) sets both directions for the   *)
(* new connection and leaves the entry of the client's earlier connection *)
(* in place, so a second CONNECT of a client breaks this.                 *)
(***************************************************************************)
ConnMapsInverse ==
    \A conn \in H!ConnIds, c \in Clients :
        connect_id_info[conn] = c /\ client_connect[c] # None => client_connect[c] = conn

(***************************************************************************)
(* A subscription reads the shard the topic name leads to: every live      *)
(* descriptor carries the topic id the cache holds for its topic name, so  *)
(* PUBLISH appends to the shard the subscriber reads and UNSUBSCRIBE finds *)
(* the descriptor.  publish looks the topic up (mqtt5.rs 194) and sets a   *)
(* fresh topic id (198-199) as two cache operations; a SUBSCRIBE or another*)
(* PUBLISH that creates the topic in between is overwritten.               *)
(***************************************************************************)
SubscriptionsFollowTopic ==
    \A c \in Clients :
        exclusive_subscribe[c] # None =>
            topic_info[exclusive_subscribe[c].topic] = exclusive_subscribe[c].tid

(***************************************************************************)
(* A topic in the cache has its shard, or the PUBLISH that is creating it  *)
(* is still between set_topic and create_shard (spec.md 3: topics are     *)
(* persisted before first use).  publish caches the topic (mqtt5.rs 199)   *)
(* before save_topic and create_shard; when either fails the handler       *)
(* returns and the cache entry stays, and later PUBLISHes find the topic,  *)
(* skip creation and append to a shard that does not exist.               *)
(***************************************************************************)
CachedTopicHasShard ==
    \A t \in Topics :
        topic_info[t] # None =>
            \/ topic_info[t] \in shards
            \/ \E conn \in H!ConnIds :
                  /\ handler[conn].pc \in {"save_topic", "create_shard"}
                  /\ handler[conn].tid = topic_info[t]

(***************************************************************************)
(* A push loop starts a batch only for a live subscription, as it was      *)
(* registered: removing or replacing a client's descriptor (UNSUBSCRIBE,   *)
(* DISCONNECT, a new SUBSCRIBE) stops or refreshes its loop at the next    *)
(* iteration boundary (spec.md 4.E, 8 invariant 2).  The loop keeps the    *)
(* descriptor it was spawned with (exclusive_sub.rs 64-78), push_thread    *)
(* entries are never removed and nothing sends on the stop channel.       *)
(***************************************************************************)
PushOnlyForLiveSubscription ==
    [][\A c \in Clients :
          (loop[c].pc = "poll" /\ loop'[c].pc = "push") => exclusive_subscribe[c] = loop[c].desc
      ]_vars

(***************************************************************************)
(* A group's committed offset never runs ahead of what was pushed: every   *)
(* record up to it that the loop had to push has been pushed, at every     *)
(* moment and not only between batches.  spec.md 4.E commits after the    *)
(* batch; exclusive_sub.rs 184-199 commits the batch's last offset inside *)
(* the for loop, after the first pushed record, so a crash of the broker  *)
(* mid-batch loses the rest of the batch.                                  *)
(***************************************************************************)
CommitAfterBatch ==
    \A c \in Clients :
        loop[c].pc # "none" =>
            \A o \in 1..committed[LoopTid(c)][c] :
                Deliverable(c, o) => Pushed(c, LoopTid(c), o)

(***************************************************************************)
(* While a client keeps its subscription, every record up to its group's   *)
(* committed offset that it had to get went out on a connection that was  *)
(* open (spec.md 8, invariant 3: delivery, or removal of the              *)
(* subscription).  The loop resolves the connection once per batch        *)
(* (exclusive_sub.rs 107-112) and commits after publish_to_client; a      *)
(* handler that answers DISCONNECT on an error (a failed                  *)
(* send_retain_message, mqtt5.rs 319-340, or a failed publish step) closes *)
(* the connection but leaves client -> connection in the cache, so the    *)
(* loop pushes into the closed connection and commits.                    *)
(***************************************************************************)
CommittedRecordsDelivered ==
    \A c \in Clients :
        loop[c].pc = "poll" /\ exclusive_subscribe[c] # None =>
            \A o \in 1..committed[LoopTid(c)][c] :
                Deliverable(c, o) => Delivered(c, LoopTid(c), o)

(***************************************************************************)
(* Two QoS 1 or 2 PUBLISH packets in flight on one connection carry        *)
(* different packet identifiers (MQTT v5 2.2.1; spec.md 4.E: a QoS 1 push  *)
(* is tracked by its pkid until its PUBACK).  Every push of a loop carries *)
(* subscribe.packet_identifier (exclusive_sub.rs 144-151), and PUBACK and  *)
(* PUBREL change nothing (publish_ack and publish_rel, mqtt5.rs 296-298),  *)
(* so no push ever leaves flight.                                          *)
(***************************************************************************)
InFlightPacketIdsDistinct ==
    \A s1, s2 \in sent :
        s1 # s2 /\ s1.conn = s2.conn /\ s1.qos > 0 /\ s2.qos > 0 => s1.pkid # s2.pkid
=============================================================================
