--------------------------- MODULE MessageStorage ---------------------------
(***************************************************************************)
(* The message storage facade (storage::message::MessageStorage) as the    *)
(* handlers and the push loops use it.  Its code is not part of the        *)
(* repository slice; these operators follow the contract of spec.md 4.B.   *)
(*                                                                         *)
(* A shard is a sequence of records; the offset of a record is its index   *)
(* in the sequence (1, 2, ...).  A record is abstracted to the fields a    *)
(* push reads: the client id that published it (Message.client_id) and     *)
(* its QoS.  A consumer group's committed offset is the offset of the last *)
(* record it committed, 0 for a group that never committed.               *)
(***************************************************************************)
EXTENDS Naturals, Sequences
LOCAL INSTANCE FiniteSetsExt
LOCAL INSTANCE Functions

(* append_topic_message: the shard with one more record at its end. *)
AppendTopicMessage(shard, record) == Append(shard, record)

(***************************************************************************)
(* read_topic_message(topic_id, group_id, record_num): the offsets of the  *)
(* records after the group's committed offset, at most record_num of them; *)
(* the empty set when the group has read everything.                       *)
(***************************************************************************)
ReadTopicMessage(shard, committed_offset, record_num) ==
    (committed_offset + 1) .. Min({committed_offset + record_num, Len(shard)})

(* The number of records over all shards. *)
TotalRecords(shard_log) == SumFunction([t \in DOMAIN shard_log |-> Len(shard_log[t])])
=============================================================================
