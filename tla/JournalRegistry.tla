-------------------------- MODULE JournalRegistry --------------------------
(***************************************************************************)
(* What the placement center's journal engine RPCs promise their callers   *)
(* (spec.md 4.G): a registry of shards and their segments that every write *)
(* changes atomically, at one moment between its call and its answer.  An  *)
(* Ok answer means the write took effect, once.  A cancelled answer        *)
(* promises nothing: the write may never take effect, may already have     *)
(* taken effect, or may take effect later as an orphan, at most once.      *)
(***************************************************************************)
EXTENDS Naturals, FiniteSets, Bags, JournalData

CONSTANT Callers

VARIABLES
    registry,  \* [shards: the shards that exist, segments: the <<shard, segment>> pairs]
    pending,   \* caller -> its write in flight | None
    done,      \* caller -> whether its write in flight has taken effect
    orphans,   \* bag of writes answered cancelled that may still take effect
    answer     \* caller -> the last answer it got, [req, ok] | None

reg_vars == <<registry, pending, done, orphans, answer>>

RegistryInit ==
    /\ registry = EmptyRegistry
    /\ pending = [c \in Callers |-> None]
    /\ done = [c \in Callers |-> FALSE]
    /\ orphans = EmptyBag
    /\ answer = [c \in Callers |-> None]

Invoke(c, req) ==
    /\ pending[c] = None
    /\ pending' = [pending EXCEPT ![c] = req]
    /\ done' = [done EXCEPT ![c] = FALSE]
    /\ UNCHANGED <<registry, orphans, answer>>

(* A write in flight takes effect. *)
Effect(c) ==
    /\ pending[c] # None /\ ~done[c]
    /\ registry' = Do(registry, pending[c])
    /\ done' = [done EXCEPT ![c] = TRUE]
    /\ UNCHANGED <<pending, orphans, answer>>

(* An orphaned write takes effect. *)
OrphanEffect(req) ==
    /\ BagIn(req, orphans)
    /\ registry' = Do(registry, req)
    /\ orphans' = orphans (-) SetToBag({req})
    /\ UNCHANGED <<pending, done, answer>>

RespondOk(c) ==
    /\ pending[c] # None /\ done[c]
    /\ answer' = [answer EXCEPT ![c] = [req |-> pending[c], ok |-> TRUE]]
    /\ pending' = [pending EXCEPT ![c] = None]
    /\ done' = [done EXCEPT ![c] = FALSE]
    /\ UNCHANGED <<registry, orphans>>

(* A write refused before anything happened: answered cancelled at once. *)
Reject(c, req) ==
    /\ pending[c] = None
    /\ answer' = [answer EXCEPT ![c] = [req |-> req, ok |-> FALSE]]
    /\ UNCHANGED <<registry, pending, done, orphans>>

(***************************************************************************)
(* A disruption: the callers in S are answered cancelled, whether or not   *)
(* their write took effect; those whose write did not become orphans, and  *)
(* any orphans may be lost for good.                                       *)
(***************************************************************************)
Disrupt(S) ==
    LET waiting == {c \in S : pending[c] # None}
        stray   == {pending[c] : c \in {w \in waiting : ~done[w]}}
        counted == [r \in stray |-> Cardinality({w \in waiting : ~done[w] /\ pending[w] = r})]
    IN /\ \E kept \in SubBag(orphans (+) counted) : orphans' = kept
       /\ answer' = [c \in Callers |-> IF c \in waiting THEN [req |-> pending[c], ok |-> FALSE]
                                      ELSE answer[c]]
       /\ pending' = [c \in Callers |-> IF c \in waiting THEN None ELSE pending[c]]
       /\ done' = [c \in Callers |-> IF c \in waiting THEN FALSE ELSE done[c]]
       /\ UNCHANGED registry

RegistryNext ==
    \/ \E c \in Callers, req \in Requests : Invoke(c, req) \/ Reject(c, req)
    \/ \E c \in Callers : Effect(c) \/ RespondOk(c)
    \/ \E req \in Requests : OrphanEffect(req)
    \/ \E S \in SUBSET Callers : Disrupt(S)

RegistrySpec == RegistryInit /\ [][RegistryNext]_reg_vars
=============================================================================
