--------------------------- MODULE DispatchOnce ---------------------------
(***************************************************************************)
(* What the command authority promises the asset about idempotency keys:   *)
(* a non-empty key is burned durably before anything is handed over, and   *)
(* no two hand-overs ever carry the same key, across every process         *)
(* lifetime: one burned before the first start is not delivered again.  A  *)
(* burned key may never be delivered at all (a crash in between); a        *)
(* keyless command is outside the promise.                                 *)
(***************************************************************************)
EXTENDS Naturals, Sequences

CONSTANTS Keys, NoKey, Opening   \* Opening: the keys burned before the first start

VARIABLES
  burned,      \* the keys some process lifetime has durably dispatched
  delivered    \* the commands handed to the asset, in order

dvars == <<burned, delivered>>

DeliveredKey(k) == \E i \in DOMAIN delivered : delivered[i].key = k

DInit == burned = Opening /\ delivered = << >>

Burn ==
  /\ \E k \in Keys \ burned : burned' = burned \cup {k}
  /\ UNCHANGED delivered

\* The hand-over of one command c.
Deliver(c) ==
  /\ c.key # NoKey => c.key \in burned \ Opening /\ ~DeliveredKey(c.key)
  /\ delivered' = Append(delivered, c)
  /\ UNCHANGED burned

DNext ==
  \/ Burn
  \/ /\ Len(delivered') = Len(delivered) + 1
     /\ Deliver(delivered'[Len(delivered')])

DSpec == DInit /\ [][DNext]_dvars
=============================================================================
