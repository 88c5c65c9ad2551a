--------------------------- MODULE CommandState ---------------------------
(***************************************************************************)
(* The command state machine of crates/av-command/src/state.rs: pure edge  *)
(* functions from a Command to its successor.  A Command is abstracted to  *)
(* what the edges and the ledger read of it.  Its list of transitions is   *)
(* kept as its length (steps) and the ack level of its last element, the   *)
(* only two facts the code ever takes from it.                             *)
(***************************************************************************)
EXTENDS Naturals

CONSTANTS
  Ids,        \* command ids (Command.id)
  Entities,   \* entity ids; the entity is the ledger partition
  Keys,       \* non-empty idempotency keys
  NoKey       \* the empty idempotency key: "never tracked"

ASSUME KeyAssumption == NoKey \notin Keys

CommandStates ==
  {"UNSPECIFIED", "PROPOSED", "CHECKED", "AUTHORIZED", "DISPATCHED",
   "ACKED", "REJECTED", "EXPIRED", "FAILED"}

\* enum AckLevel: Unspecified, Edge, AssetReceived, AssetExecuted.
AckLevel == 0..3

Command ==
  [id : Ids, entity : Entities, key : Keys \cup {NoKey},
   state : CommandStates, level : AckLevel, steps : Nat]

\* The states each edge function accepts (its require_one_of list).
LegalFrom ==
  [PROPOSED   |-> {"UNSPECIFIED"},
   CHECKED    |-> {"PROPOSED"},
   AUTHORIZED |-> {"CHECKED"},
   DISPATCHED |-> {"AUTHORIZED"},
   ACKED      |-> {"DISPATCHED", "ACKED"},
   REJECTED   |-> {"PROPOSED", "CHECKED"},
   EXPIRED    |-> {"AUTHORIZED", "DISPATCHED"},
   FAILED     |-> {"DISPATCHED"}]

\* The edge function for `to' accepts c.  A repeated ack must raise the level.
EdgeAllowed(c, to, level) ==
  /\ c.state \in LegalFrom[to]
  /\ to = "ACKED" /\ c.state = "ACKED" => level > c.level

\* push_transition: one more transition, and the state it names.
PushTransition(c, to, level) ==
  [c EXCEPT !.state = to, !.level = level, !.steps = @ + 1]

\* The Command a Propose request carries: no transition yet.
Fresh(id, entity, key) ==
  [id |-> id, entity |-> entity, key |-> key,
   state |-> "UNSPECIFIED", level |-> 0, steps |-> 0]
=============================================================================
