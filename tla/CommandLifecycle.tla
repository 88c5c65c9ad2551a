------------------------- MODULE CommandLifecycle -------------------------
(***************************************************************************)
(* The life of every command as an operator understands it: born PROPOSED, *)
(* then one line of states, each following the last along an edge of the   *)
(* state machine, the same command throughout (its id, its entity and its  *)
(* key).  life[id] is the durable state of command id.                     *)
(***************************************************************************)
EXTENDS CommandState

CONSTANT NoCommand   \* a command no record mentions

VARIABLE life

\* The ledger may be opened on lives already under way.
LInit ==
  /\ DOMAIN life = Ids
  /\ \A id \in Ids : life[id] = NoCommand \/ (life[id] \in Command /\ life[id].id = id)

\* What comes next is read off life', so that the checker need not enumerate it.
Born(id, c) == c = PushTransition(Fresh(id, c.entity, c.key), "PROPOSED", 0)
Moved(c, d) ==
  /\ d.state \in DOMAIN LegalFrom
  /\ EdgeAllowed(c, d.state, d.level)
  /\ d = PushTransition(c, d.state, d.level)

Advance(id) ==
  /\ life'[id] # life[id]
  /\ IF life[id] = NoCommand THEN Born(id, life'[id]) ELSE Moved(life[id], life'[id])
  /\ \A other \in Ids \ {id} : life'[other] = life[other]

LNext == DOMAIN life' = Ids /\ \E id \in Ids : Advance(id)

LSpec == LInit /\ [][LNext]_life
=============================================================================
