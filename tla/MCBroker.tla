------------------------------ MODULE MCBroker ------------------------------
(* Model-checking instance of Broker: client ids are model values, and   *)
(* the two clients are interchangeable in the safety runs.               *)
EXTENDS Broker, TLC

ClientSymmetry == Permutations(Clients)

(***************************************************************************)
(* The state without the publishers of the records: no step reads them     *)
(* (they are history for NoLocalHonoured), so states that differ only in  *)
(* them have the same successors.                                          *)
(***************************************************************************)
PublisherFreeView ==
    <<sockets, next_conn, connect_id_info, client_connect, session_info, heartbeat,
      topic_info, next_topic_id, shards, exclusive_subscribe, handler, failures,
      push_thread, loop, committed, sent,
      [t \in DOMAIN shard_log |-> [i \in DOMAIN shard_log[t] |-> shard_log[t][i].qos]]>>

=============================================================================
