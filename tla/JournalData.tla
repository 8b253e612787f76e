---------------------------- MODULE JournalData ----------------------------
(***************************************************************************)
(* The journal write requests (StorageData kinds of the placement center)  *)
(* and their effect on the placement registry.                             *)
(***************************************************************************)
CONSTANTS Shards, Segments, None

(* A write request: its kind (StorageDataType) and the shard and segment it names. *)
ShardReqs   == [kind: {"create_shard", "delete_shard"}, shard: Shards, segment: {None}]
SegmentReqs == [kind: {"create_segment", "delete_segment"}, shard: Shards, segment: Segments]
Requests    == ShardReqs \cup SegmentReqs

EmptyRegistry == [shards |-> {}, segments |-> {}]

(***************************************************************************)
(* The effect of one write on the registry, as the raft state machine of   *)
(* the placement center applies it (not in the repository slice; spec.md   *)
(* 4.B, 4.G): creating an existing shard changes nothing, deleting a shard *)
(* deletes its segments.                                                   *)
(***************************************************************************)
Do(reg, req) ==
    LET s == req.shard  g == req.segment IN
    CASE req.kind = "create_shard"   -> [reg EXCEPT !.shards = @ \cup {s}]
      [] req.kind = "delete_shard"   -> [shards |-> reg.shards \ {s},
                                         segments |-> {p \in reg.segments : p[1] # s}]
      [] req.kind = "create_segment" -> [reg EXCEPT !.segments = @ \cup {<<s, g>>}]
      [] req.kind = "delete_segment" -> [reg EXCEPT !.segments = @ \ {<<s, g>>}]
====
