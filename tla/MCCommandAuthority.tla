------------------------ MODULE MCCommandAuthority ------------------------
(* The command authority on small instances.                               *)
EXTENDS CommandAuthority, TLC

CONSTANTS t1, t2, c1, c2, c3, e1, e2, k1

FileOrder == [e \in Entities |-> IF e = e1 THEN 1 ELSE 2]

\* A fresh installation.
EmptyLedger == [e \in Entities |-> << >>]

\* The records of a command that was proposed, allowed and authorized.
RecordTo(id, k, state, steps) ==
  [cmd |-> [id |-> id, entity |-> e1, key |-> k, state |-> state, level |-> 0, steps |-> steps],
   decision |-> IF state = "CHECKED" THEN "allow" ELSE "none",
   proposal |-> state = "PROPOSED"]
AuthorizedRecords(id, k) ==
  << RecordTo(id, k, "PROPOSED", 1), RecordTo(id, k, "CHECKED", 2), RecordTo(id, k, "AUTHORIZED", 3) >>

\* Two authorized commands of one asset that carry the same key.
SharedKeyLedger ==
  [e \in Entities |-> IF e = e1 THEN AuthorizedRecords(c1, k1) \o AuthorizedRecords(c2, k1) ELSE << >>]

\* One command that an earlier life of the service dispatched.
DispatchedLedger ==
  [e \in Entities |->
     IF e = e1 THEN Append(AuthorizedRecords(c1, k1), RecordTo(c1, k1, "DISPATCHED", 4)) ELSE << >>]

\* One authorized command that declares no key.
KeylessLedger == [e \in Entities |-> IF e = e1 THEN AuthorizedRecords(c1, NoKey) ELSE << >>]

Threading == Permutations({t1, t2})
=============================================================================
