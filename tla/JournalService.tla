--------------------------- MODULE JournalService ---------------------------
(***************************************************************************)
(* The placement center's journal engine RPCs (GrpcEngineService in        *)
(* src/placement-center/src/server/grpc/service_journal.rs) over the raft  *)
(* log they write through.                                                 *)
(*                                                                         *)
(* create_shard, delete_shard, create_segment and delete_segment each wrap *)
(* the request in StorageData{kind, bytes} and await                       *)
(* raft_machine_apply.client_write: Ok gives an empty CommonReply, Err     *)
(* gives Status::cancelled.  get_shard answers GetShardReply::default()   *)
(* without reading anything.                                               *)
(*                                                                         *)
(* The raft layer is not in the repository slice; it is modelled from its *)
(* contract.  client_write either fails at once (the node is not the       *)
(* leader: nothing is appended) or appends the entry to the leader's log   *)
(* and waits until the entry is committed and applied.  A leader change   *)
(* answers every waiting client_write with an error, and keeps a prefix   *)
(* of the uncommitted entries (those already replicated to the new        *)
(* leader), which commit later.  Committed entries are never lost.        *)
(***************************************************************************)
EXTENDS Naturals, Sequences, FiniteSets, JournalData
LOCAL INSTANCE SequencesExt

CONSTANTS
    Callers,     \* concurrent RPC callers (storage engine nodes)
    MaxLog,      \* raft entries written in a behaviour
    MaxFaults    \* leader refusals and leader changes in a behaviour

VARIABLES
    log,         \* the raft log: a sequence of requests (StorageData)
    commit,      \* the raft commit index
    rpc,         \* caller -> [pc: "idle" | "wait", req, idx]: its RPC awaiting client_write
    answer,      \* caller -> the last answer it got, [req, ok] | None
    faults       \* refusals and leader changes so far

journal_vars == <<log, commit, rpc, answer, faults>>

NoRpc == [pc |-> "idle", req |-> None, idx |-> 0]

(* The placement state the raft state machine holds after applying a log prefix. *)
Apply(entries) == FoldLeft(LAMBDA reg, req : Do(reg, req), EmptyRegistry, entries)
Applied == Apply(SubSeq(log, 1, commit))

JournalTypeOK ==
    /\ log \in Seq(Requests) /\ Len(log) <= MaxLog
    /\ commit \in 0..Len(log)
    /\ \A c \in Callers : rpc[c].pc = "idle" \/ (rpc[c].req \in Requests /\ rpc[c].idx \in 1..Len(log))
    /\ \A c \in Callers : answer[c] \in [req: Requests, ok: BOOLEAN] \cup {None}
    /\ faults \in 0..MaxFaults

JournalInit ==
    /\ log = <<>>
    /\ commit = 0
    /\ rpc = [c \in Callers |-> NoRpc]
    /\ answer = [c \in Callers |-> None]
    /\ faults = 0

-----------------------------------------------------------------------------
(***************************************************************************)
(* The body shared by the four write RPCs: StorageData::new(kind, bytes)   *)
(* and client_write(data).await.  The write is refused at once (Err:       *)
(* Status::cancelled, nothing appended), or appended to the leader's log   *)
(* and the RPC waits for its answer.                                       *)
(***************************************************************************)
ClientWrite(c, req) ==
    /\ rpc[c].pc = "idle"
    /\ \/ /\ Len(log) < MaxLog
          /\ log' = Append(log, req)
          /\ rpc' = [rpc EXCEPT ![c] = [pc |-> "wait", req |-> req, idx |-> Len(log) + 1]]
          /\ UNCHANGED <<answer, faults>>
       \/ /\ faults < MaxFaults
          /\ faults' = faults + 1
          /\ answer' = [answer EXCEPT ![c] = [req |-> req, ok |-> FALSE]]
          /\ UNCHANGED <<log, rpc>>
    /\ UNCHANGED commit

create_shard(c, s)      == ClientWrite(c, [kind |-> "create_shard", shard |-> s, segment |-> None])
delete_shard(c, s)      == ClientWrite(c, [kind |-> "delete_shard", shard |-> s, segment |-> None])
create_segment(c, s, g) == ClientWrite(c, [kind |-> "create_segment", shard |-> s, segment |-> g])
delete_segment(c, s, g) == ClientWrite(c, [kind |-> "delete_segment", shard |-> s, segment |-> g])

(* get_shard answers GetShardReply::default(): it reads and writes nothing. *)
get_shard(c, s) == UNCHANGED journal_vars

(* The answer an RPC waiting on client_write gives. *)
Answer(c, ok) == [req |-> rpc[c].req, ok |-> ok]

(* Raft: the next entry reaches a quorum and is applied. *)
RaftCommit ==
    /\ commit < Len(log)
    /\ commit' = commit + 1
    /\ UNCHANGED <<log, rpc, answer, faults>>

(* Mutant: Ok as soon as the entry is appended, before it is committed. *)
Respond_before_commit(c) ==
    /\ rpc[c].pc = "wait"
    /\ rpc[c].idx <= Len(log)
    /\ answer' = [answer EXCEPT ![c] = Answer(c, TRUE)]
    /\ rpc' = [rpc EXCEPT ![c] = NoRpc]
    /\ UNCHANGED <<log, commit, faults>>

(* client_write returns Ok once the entry is applied: the empty CommonReply. *)
Respond(c) ==
    /\ rpc[c].pc = "wait"
    /\ rpc[c].idx <= commit
    /\ answer' = [answer EXCEPT ![c] = Answer(c, TRUE)]
    /\ rpc' = [rpc EXCEPT ![c] = NoRpc]
    /\ UNCHANGED <<log, commit, faults>>

(* Mutant of LeaderChange: the new leader may lack committed entries. *)
LeaderChange_loses_committed ==
    /\ faults < MaxFaults
    /\ faults' = faults + 1
    /\ \E k \in 0..Len(log) : log' = SubSeq(log, 1, k)
    /\ answer' = [c \in Callers |-> IF rpc[c].pc = "wait" THEN Answer(c, FALSE) ELSE answer[c]]
    /\ rpc' = [c \in Callers |-> NoRpc]
    /\ UNCHANGED commit

(***************************************************************************)
(* Raft: the leader changes.  The new leader's log keeps the committed     *)
(* entries and a prefix of the rest; every waiting client_write returns    *)
(* Err, and its RPC answers Status::cancelled.                             *)
(***************************************************************************)
LeaderChange ==
    /\ faults < MaxFaults
    /\ faults' = faults + 1
    /\ \E k \in commit..Len(log) : log' = SubSeq(log, 1, k)
    /\ answer' = [c \in Callers |-> IF rpc[c].pc = "wait" THEN Answer(c, FALSE) ELSE answer[c]]
    /\ rpc' = [c \in Callers |-> NoRpc]
    /\ UNCHANGED commit

JournalNext ==
    \/ \E c \in Callers, s \in Shards :
          \/ create_shard(c, s) \/ delete_shard(c, s) \/ get_shard(c, s)
          \/ \E g \in Segments : create_segment(c, s, g) \/ delete_segment(c, s, g)
    \/ RaftCommit
    \/ \E c \in Callers : Respond(c)
    \/ LeaderChange

JournalSpec == JournalInit /\ [][JournalNext]_journal_vars

-----------------------------------------------------------------------------
(***************************************************************************)
(* Refinement: the RPCs over raft implement the atomic registry of         *)
(* JournalRegistry.  The registry is the state machine after the committed *)
(* prefix; a waiting RPC is a write in flight, done once its entry is      *)
(* committed; an uncommitted entry no RPC waits for is an orphan.          *)
(***************************************************************************)
Waiting(c) == rpc[c].pc = "wait"
OrphanIdx  == {i \in (commit + 1)..Len(log) : ~\E c \in Callers : Waiting(c) /\ rpc[c].idx = i}
OrphanBag  == [r \in {log[i] : i \in OrphanIdx} |->
                  Cardinality({i \in OrphanIdx : log[i] = r})]

Registry == INSTANCE JournalRegistry
    WITH registry <- Applied,
         pending  <- [c \in Callers |-> IF Waiting(c) THEN rpc[c].req ELSE None],
         done     <- [c \in Callers |-> Waiting(c) /\ rpc[c].idx <= commit],
         orphans  <- OrphanBag,
         answer   <- answer

(***************************************************************************)
(* Every behaviour of the journal RPCs over raft is a behaviour of the     *)
(* atomic registry: an Ok answer comes only after the write took effect,   *)
(* a write takes effect once, and no effect is undone.                     *)
(***************************************************************************)
ImplementsRegistry == Registry!RegistrySpec
====
