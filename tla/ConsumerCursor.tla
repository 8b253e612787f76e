-------------------------- MODULE ConsumerCursor ---------------------------
(***************************************************************************)
(* What the exclusive delivery engine promises one subscriber (spec.md     *)
(* 4.E, 4.B and 8): a cursor per (topic id, client) -- the committed offset *)
(* of the group "system_sub_<client>" -- that only moves forward, and only *)
(* over records that have been pushed to the client or that the client may *)
(* skip (its own records under nolocal).  A push is of a record after the  *)
(* cursor: a record is pushed again only while it is uncommitted (the      *)
(* re-read after a failed commit), never once the cursor has passed it.    *)
(*                                                                         *)
(* A step either pushes records of one (client, topic id) and moves its    *)
(* cursor, in one atomic step, or belongs to the environment: records are  *)
(* appended and subscriptions come and go, which may only add to the set   *)
(* of records a subscriber may skip and touches neither cursors nor pushes.*)
(***************************************************************************)
EXTENDS Naturals

CONSTANTS Clients, TopicIds

VARIABLES
    cursor,   \* topic id -> client id -> offset of the last committed record
    pushed,   \* set of <<client, topic id, offset>> pushed so far
    skipped   \* set of <<client, topic id, offset>> the client need not be pushed

cursor_vars == <<cursor, pushed, skipped>>

CursorInit ==
    /\ cursor = [t \in TopicIds |-> [c \in Clients |-> 0]]
    /\ pushed = {}
    /\ skipped = {}

(***************************************************************************)
(* Client c's subscription on topic id t takes a step: it pushes records   *)
(* after its cursor and moves the cursor to some k >= cursor, every record *)
(* up to k having been pushed or being skippable.                          *)
(***************************************************************************)
Deliver(c, t) ==
    LET k == cursor'[t][c]
    IN /\ pushed \subseteq pushed'
       /\ \A x \in pushed' \ pushed : x[1] = c /\ x[2] = t /\ x[3] > cursor[t][c]
       /\ cursor' = [cursor EXCEPT ![t][c] = k]
       /\ k \in Nat /\ k >= cursor[t][c]
       /\ \A o \in (cursor[t][c] + 1)..k : <<c, t, o>> \in pushed' \cup skipped
       /\ UNCHANGED skipped

(* A step of anything else: the skippable records may only grow. *)
Environment ==
    /\ UNCHANGED <<cursor, pushed>>
    /\ skipped \subseteq skipped'

CursorNext ==
    \/ Environment
    \/ \E c \in Clients, t \in TopicIds : Deliver(c, t)

CursorSpec == CursorInit /\ [][CursorNext]_cursor_vars
=============================================================================
