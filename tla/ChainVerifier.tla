--------------------------- MODULE ChainVerifier ---------------------------
(***************************************************************************)
(* ChainVerifier::submit of crates/av-edge/src/chain.rs for one producer   *)
(* whose batches are well signed and well labelled.  Such a producer makes *)
(* one chain: batch s hashes batch s - 1, so a sequence number stands for  *)
(* the batch and for its hash, and 0 for GENESIS.                          *)
(***************************************************************************)
EXTENDS Naturals

Verdicts == {"accepted", "duplicate", "chain_gap", "chain_break", "stale"}

\* ProducerState: the last accepted sequence (0: none yet), every accepted
\* sequence, and the hash the next batch must chain from.
FreshChain == [last |-> 0, seen |-> {}, head |-> 0]

PrevHash(s) == s - 1

\* The checks in their fixed order; aged says the batch is older than max_age.
VerdictWithoutSeen(chain, s, aged) ==   \* bug: a replayed batch is not recognised
  CASE chain.last # 0 /\ s > chain.last + 1 -> "chain_gap"
    [] chain.last = 0 /\ PrevHash(s) # chain.head -> "chain_break"
    [] OTHER -> IF aged THEN "stale" ELSE "accepted"

Verdict(chain, s, aged) ==
  LET inOrder == chain.last # 0 => s = chain.last + 1
  IN CASE s \in chain.seen -> "duplicate"
       [] s \notin chain.seen /\ ~inOrder -> "chain_gap"
       [] s \notin chain.seen /\ inOrder /\ PrevHash(s) # chain.head -> "chain_break"
       [] OTHER -> IF aged THEN "stale" ELSE "accepted"

\* An accepted batch moves the chain; a rejected one moves a counter only.
AfterAccept(chain, s) == [last |-> s, seen |-> chain.seen \cup {s}, head |-> s]
=============================================================================
