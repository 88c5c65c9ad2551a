------------------------- MODULE CommandAuthority -------------------------
(***************************************************************************)
(* The command authority service, crates/av-command/src/service.rs, over   *)
(* its ledger (ledger.rs) and the state machine (state.rs).                *)
(*                                                                         *)
(* Every RPC handler is a thread of a multi-threaded runtime.  No handler  *)
(* holds a lock from the moment it clones a command out of the index to    *)
(* the moment it appends, so each access to shared state is a step of its  *)
(* own: the snapshot, the append (atomic under the ledger's own lock), the *)
(* index write, the side effects, the audit write.  Only Dispatch holds a  *)
(* lock, `seen', across its append.  The process may crash between any two *)
(* steps; a new one rebuilds every index from the ledger before it serves. *)
(*                                                                         *)
(* A refusal that touches nothing shared (bad token, missing role, illegal *)
(* edge, unknown id) returns to the caller and is a stuttering step.       *)
(***************************************************************************)
EXTENDS CommandState, Sequences, FiniteSets

CONSTANTS
  Threads,           \* runtime workers serving RPCs
  NoThread,          \* the holder of a free lock
  NoCommand,         \* an index entry that is absent
  AckLevels,         \* the ack levels callers send
  FileRank,          \* place of each ledger file in the sorted list of paths
  OpeningLedger,     \* what the ledger directory holds when the service starts
  ClientsReuseIds,   \* may a client propose an id already on the ledger?
  OneRpcPerCommand,  \* do clients keep to one RPC at a time per command?
  MaxRpcs,           \* bound: RPCs begun in a behaviour
  MaxCrashes         \* bound: process restarts in a behaviour

Decisions == {"none", "allow", "deny"}

\* LedgerRecord: the POST-transition command, with the decision or the
\* proposal that came with it.
Record == [cmd : Command, decision : Decisions, proposal : BOOLEAN]

ASSUME AuthorityAssumption ==
  /\ NoThread \notin Threads
  /\ NoCommand \notin Command
  /\ AckLevels \subseteq AckLevel
  /\ OpeningLedger \in [Entities -> Seq(Record)]
  /\ IsFiniteSet(Entities)
  /\ FileRank \in [Entities -> 1..Cardinality(Entities)]
  /\ \A e, f \in Entities : FileRank[e] = FileRank[f] => e = f
  /\ ClientsReuseIds \in BOOLEAN /\ OneRpcPerCommand \in BOOLEAN
  /\ MaxRpcs \in Nat /\ MaxCrashes \in Nat

VARIABLES
  ledger,      \* ledger[e]: the records of entity e's file, in append order
  commands,    \* in-memory index of commands
  proposals,   \* in-memory index of proposals (the proposed Command stands for it)
  decisions,   \* in-memory index of policy decisions
  keys,        \* dispatched_idempotency_keys
  seenLock,    \* holder of the lock on keys across Dispatch
  rpc,         \* rpc[t]: where thread t's handler is, and its local values
  sink,        \* commands handed to the DispatchSink, in order
  begun,       \* RPCs begun so far
  crashes      \* restarts so far

indexes == <<commands, proposals, decisions>>
vars == <<ledger, indexes, keys, seenLock, rpc, sink, begun, crashes>>

Ops == {"none", "propose", "check", "authorize", "dispatch", "ack", "expire", "fail"}
Steps == {"idle", "lock", "append", "index", "proposals", "decisions", "keys", "sink", "audit"}
Rpc == [pc : Steps, op : Ops, cmd : Command \cup {NoCommand}, decision : Decisions]

Idle == [pc |-> "idle", op |-> "none", cmd |-> NoCommand, decision |-> "none"]
-----------------------------------------------------------------------------
(* Reading the ledger back.                                                *)

\* Where the records that satisfy Hit are: the indices of each file.
Hits(Hit(_)) == [e \in Entities |-> {i \in DOMAIN ledger[e] : Hit(ledger[e][i])}]
Files(H) == {e \in Entities : H[e] # {}}

\* A scan reads the files in the order of their sorted paths, each in order.
LastRead(H) ==
  LET e == CHOOSE e \in Files(H) : \A f \in Files(H) : FileRank[f] <= FileRank[e]
  IN ledger[e][CHOOSE i \in H[e] : \A j \in H[e] : j <= i]
FirstRead(H) ==
  LET e == CHOOSE e \in Files(H) : \A f \in Files(H) : FileRank[e] <= FileRank[f]
  IN ledger[e][CHOOSE i \in H[e] : \A j \in H[e] : i <= j]

OfCommand(id) == LET Hit(r) == r.cmd.id = id IN Hits(Hit)
ProposalsOf(id) == LET Hit(r) == r.cmd.id = id /\ r.proposal IN Hits(Hit)
DecisionsOf(id) == LET Hit(r) == r.cmd.id = id /\ r.decision # "none" IN Hits(Hit)

\* scan_commands: the last record read for an id wins.
ScanCommand(id) ==
  LET H == OfCommand(id) IN IF Files(H) = {} THEN NoCommand ELSE LastRead(H).cmd

\* scan_proposals: the first record with a proposal wins (or_insert).
ScanProposal(id) ==
  LET H == ProposalsOf(id) IN IF Files(H) = {} THEN NoCommand ELSE FirstRead(H).cmd

\* scan_decisions: the first record with a decision wins (or_insert).
ScanDecision(id) ==
  LET H == DecisionsOf(id) IN IF Files(H) = {} THEN "none" ELSE FirstRead(H).decision

\* Record i of entity e says its command was dispatched under key k.
DispatchedAt(e, i, k) ==
  /\ i \in DOMAIN ledger[e]
  /\ ledger[e][i].cmd.state = "DISPATCHED"
  /\ ledger[e][i].cmd.key = k

\* scan_dispatched_idempotency_keys.
ScanKeys == {k \in Keys : \E e \in Entities : \E i \in DOMAIN ledger[e] : DispatchedAt(e, i, k)}
-----------------------------------------------------------------------------
\* CommandAuthorityServiceImpl::new over the ledger it opens.
Init ==
  /\ ledger = OpeningLedger
  /\ commands = [id \in Ids |-> ScanCommand(id)]
  /\ proposals = [id \in Ids |-> ScanProposal(id)]
  /\ decisions = [id \in Ids |-> ScanDecision(id)]
  /\ keys = ScanKeys
  /\ seenLock = NoThread
  /\ rpc = [t \in Threads |-> Idle]
  /\ sink = << >>
  /\ begun = 0
  /\ crashes = 0

(***************************************************************************)
(* Beginning an RPC.                                                       *)
(***************************************************************************)
AtStep(t, pc) == rpc[t].pc = pc
Goto(t, pc) == rpc' = [rpc EXCEPT ![t].pc = pc]
Return(t) == rpc' = [rpc EXCEPT ![t] = Idle]

\* The client side of one RPC at a time per command, when it is assumed.
InFlight(id) == \E t \in Threads : ~AtStep(t, "idle") /\ rpc[t].cmd.id = id
MayCall(id) == ~(OneRpcPerCommand /\ InFlight(id))

Begin(t, pc, op, cmd, decision) ==
  /\ AtStep(t, "idle")
  /\ begun < MaxRpcs
  /\ begun' = begun + 1
  /\ rpc' = [rpc EXCEPT ![t] = [pc |-> pc, op |-> op, cmd |-> cmd, decision |-> decision]]
  /\ UNCHANGED <<ledger, indexes, keys, seenLock, sink, crashes>>

\* propose reads nothing: the edge is judged on the request's own Command.
Propose(t) ==
  \E id \in Ids, e \in Entities, k \in Keys \cup {NoKey} :
    /\ MayCall(id)
    /\ ClientsReuseIds \/ Files(OfCommand(id)) = {}
    /\ Begin(t, "append", "propose", PushTransition(Fresh(id, e, k), "PROPOSED", 0), "none")

\* Every other RPC clones the command out of the index and judges its edge on
\* that clone; no lock is held from here to the append.
OnSnapshotUnguarded(t, id, pc, op, to, level, decision) ==   \* bug: edge not judged
  /\ commands[id] # NoCommand
  /\ MayCall(id)
  /\ Begin(t, pc, op, PushTransition(commands[id], to, level), decision)

OnSnapshot(t, id, pc, op, to, level, decision) ==
  /\ commands[id] # NoCommand
  /\ MayCall(id)
  /\ EdgeAllowed(commands[id], to, level)
  /\ Begin(t, pc, op, PushTransition(commands[id], to, level), decision)

\* Policy allows (CHECKED) or denies (REJECTED); a deny is an edge as well.
Verdict(decision) == IF decision = "allow" THEN "CHECKED" ELSE "REJECTED"

\* run_check re-enters the PROPOSED edge only: a CHECKED snapshot that policy
\* would now deny is rejected, since reject also accepts CHECKED.
Check(t) ==
  \E id \in Ids, d \in {"allow", "deny"} :
    OnSnapshot(t, id, "append", "check", Verdict(d), 0, d)

Authorize(t) == \E id \in Ids : OnSnapshot(t, id, "append", "authorize", "AUTHORIZED", 0, "none")
Dispatch(t) == \E id \in Ids : OnSnapshot(t, id, "lock", "dispatch", "DISPATCHED", 0, "none")
Ack(t) == \E id \in Ids, l \in AckLevels : OnSnapshot(t, id, "append", "ack", "ACKED", l, "none")
Expire(t) == \E id \in Ids : OnSnapshot(t, id, "append", "expire", "EXPIRED", 0, "none")
Fail(t) == \E id \in Ids : OnSnapshot(t, id, "append", "fail", "FAILED", 0, "none")

(***************************************************************************)
(* Dispatch takes the lock on keys and refuses a key it already holds; the *)
(* guard is dropped by the refusal.                                        *)
(***************************************************************************)
DuplicateByIndex(t) ==   \* bug: the guard asks the index, which a re-proposal overwrites
  \E id \in Ids :
    /\ commands[id] # NoCommand
    /\ commands[id].state = "DISPATCHED"
    /\ commands[id].key = rpc[t].cmd.key

Duplicate(t) == rpc[t].cmd.key # NoKey /\ rpc[t].cmd.key \in keys

LockSeenDroppedEarly(t) ==   \* bug: the guard is dropped once the check is made
  /\ AtStep(t, "lock") /\ seenLock = NoThread
  /\ IF Duplicate(t) THEN Return(t) ELSE Goto(t, "append")
  /\ UNCHANGED <<ledger, indexes, keys, seenLock, sink, begun, crashes>>

LockSeen(t) ==
  /\ AtStep(t, "lock") /\ seenLock = NoThread
  /\ IF Duplicate(t)
     THEN Return(t) /\ UNCHANGED seenLock
     ELSE Goto(t, "append") /\ seenLock' = t
  /\ UNCHANGED <<ledger, indexes, keys, sink, begun, crashes>>

\* An early return drops the guard with the handler's frame.
ReleaseOnReturn(t) == seenLock' = IF seenLock = t THEN NoThread ELSE seenLock

(***************************************************************************)
(* Ledger::append, atomic under the ledger's own lock, then the commits in *)
(* the order of the code: index, proposals or decisions or keys, the sink, *)
(* and last the audit line.                                                *)
(***************************************************************************)
RecordOf(t) ==
  [cmd |-> rpc[t].cmd, decision |-> rpc[t].decision, proposal |-> rpc[t].op = "propose"]

LedgerAppendAuditFirst(t) ==   \* bug: the audit line comes before the index
  /\ AtStep(t, "append")
  /\ ledger' = [ledger EXCEPT ![rpc[t].cmd.entity] = Append(@, RecordOf(t))]
  /\ Goto(t, "audit")
  /\ UNCHANGED <<indexes, keys, seenLock, sink, begun, crashes>>

LedgerAppend(t) ==
  /\ AtStep(t, "append")
  /\ ledger' = [ledger EXCEPT ![rpc[t].cmd.entity] = Append(@, RecordOf(t))]
  /\ Goto(t, "index")
  /\ UNCHANGED <<indexes, keys, seenLock, sink, begun, crashes>>

\* The append (or the rate read before a check's append) fails: the handler
\* returns the error and nothing is committed.
AppendFailsIgnored(t) ==   \* bug: the handler goes on after a failed append
  /\ AtStep(t, "append")
  /\ Goto(t, "index")
  /\ UNCHANGED <<ledger, indexes, keys, seenLock, sink, begun, crashes>>

AppendFails(t) ==
  /\ AtStep(t, "append")
  /\ Return(t)
  /\ ReleaseOnReturn(t)
  /\ UNCHANGED <<ledger, indexes, keys, sink, begun, crashes>>

AfterIndex ==
  [op \in Ops |-> CASE op = "propose" -> "proposals"
                    [] op = "check" -> "decisions"
                    [] op = "dispatch" -> "keys"
                    [] OTHER -> "audit"]

PutCommand(t) ==
  /\ AtStep(t, "index")
  /\ commands' = [commands EXCEPT ![rpc[t].cmd.id] = rpc[t].cmd]
  /\ Goto(t, AfterIndex[rpc[t].op])
  /\ UNCHANGED <<ledger, proposals, decisions, keys, seenLock, sink, begun, crashes>>

PutProposal(t) ==
  /\ AtStep(t, "proposals")
  /\ proposals' = [proposals EXCEPT ![rpc[t].cmd.id] = rpc[t].cmd]
  /\ Goto(t, "audit")
  /\ UNCHANGED <<ledger, commands, decisions, keys, seenLock, sink, begun, crashes>>

PutDecision(t) ==
  /\ AtStep(t, "decisions")
  /\ decisions' = [decisions EXCEPT ![rpc[t].cmd.id] = rpc[t].decision]
  /\ Goto(t, "audit")
  /\ UNCHANGED <<ledger, commands, proposals, keys, seenLock, sink, begun, crashes>>

\* Record the key, then drop the lock.
InsertKeyEvenEmpty(t) ==   \* bug: the empty key is tracked as well
  /\ AtStep(t, "keys")
  /\ keys' = keys \cup {rpc[t].cmd.key}
  /\ seenLock' = NoThread
  /\ Goto(t, "sink")
  /\ UNCHANGED <<ledger, indexes, sink, begun, crashes>>

InsertKeyThenAudit(t) ==   \* bug: a best-effort audit line gates the hand-over
  /\ AtStep(t, "keys")
  /\ keys' = IF rpc[t].cmd.key = NoKey THEN keys ELSE keys \cup {rpc[t].cmd.key}
  /\ seenLock' = NoThread
  /\ Goto(t, "audit")
  /\ UNCHANGED <<ledger, indexes, sink, begun, crashes>>

InsertKey(t) ==
  /\ AtStep(t, "keys")
  /\ keys' = IF rpc[t].cmd.key = NoKey THEN keys ELSE keys \cup {rpc[t].cmd.key}
  /\ seenLock' = NoThread
  /\ Goto(t, "sink")
  /\ UNCHANGED <<ledger, indexes, sink, begun, crashes>>

HandOff(t) ==
  /\ AtStep(t, "sink")
  /\ sink' = Append(sink, rpc[t].cmd)
  /\ Goto(t, "audit")
  /\ UNCHANGED <<ledger, indexes, keys, seenLock, begun, crashes>>

\* The audit line is written; Propose goes on to its automatic check, on its
\* own copy of the command it just recorded.
Audit(t) ==
  /\ AtStep(t, "audit")
  /\ IF rpc[t].op = "propose"
     THEN \E d \in {"allow", "deny"} :
            rpc' = [rpc EXCEPT ![t] =
                     [pc |-> "append", op |-> "check", decision |-> d,
                      cmd |-> PushTransition(rpc[t].cmd, Verdict(d), 0)]]
     ELSE Return(t)
  /\ UNCHANGED <<ledger, indexes, keys, seenLock, sink, begun, crashes>>

\* The audit sink fails: the error is returned, what was committed stays, and
\* a Propose never reaches its check.
AuditFails(t) ==
  /\ AtStep(t, "audit")
  /\ Return(t)
  /\ UNCHANGED <<ledger, indexes, keys, seenLock, sink, begun, crashes>>

(***************************************************************************)
(* The process dies and a new one is constructed over the same ledger: the *)
(* four scans rebuild what was in memory.  What the sink received is gone  *)
(* to the asset.                                                           *)
(***************************************************************************)
CrashRestart ==
  /\ crashes < MaxCrashes
  /\ crashes' = crashes + 1
  /\ rpc' = [t \in Threads |-> Idle]
  /\ seenLock' = NoThread
  /\ keys' = ScanKeys
  /\ commands' = [id \in Ids |-> ScanCommand(id)]
  /\ proposals' = [id \in Ids |-> ScanProposal(id)]
  /\ decisions' = [id \in Ids |-> ScanDecision(id)]
  /\ UNCHANGED <<ledger, sink, begun>>
-----------------------------------------------------------------------------
Handler(t) ==
  \/ LockSeen(t) \/ LedgerAppend(t) \/ AppendFails(t) \/ PutCommand(t) \/ PutProposal(t)
  \/ PutDecision(t) \/ InsertKey(t) \/ HandOff(t) \/ Audit(t) \/ AuditFails(t)

Call(t) ==
  \/ Propose(t) \/ Check(t) \/ Authorize(t) \/ Dispatch(t) \/ Ack(t) \/ Expire(t) \/ Fail(t)

\* Nobody calls: the service may be idle for ever, but no handler may stick.
NoCall == (\A t \in Threads : AtStep(t, "idle")) /\ UNCHANGED vars

Next == (\E t \in Threads : Call(t) \/ Handler(t)) \/ CrashRestart \/ NoCall

Spec == Init /\ [][Next]_vars

\* The runtime keeps running every handler that has a step to take.
FairSpec == Spec /\ \A t \in Threads : WF_vars(Handler(t))
-----------------------------------------------------------------------------
(* Properties.                                                             *)

TypeOK ==
  /\ ledger \in [Entities -> Seq(Record)]
  /\ commands \in [Ids -> Command \cup {NoCommand}]
  /\ proposals \in [Ids -> Command \cup {NoCommand}]
  /\ decisions \in [Ids -> Decisions]
  /\ keys \subseteq Keys
  /\ seenLock \in Threads \cup {NoThread}
  /\ rpc \in [Threads -> Rpc]
  /\ \A t \in Threads : rpc[t].pc # "idle" => rpc[t].cmd \in Command
  /\ sink \in Seq(Command)
  /\ begun \in Nat /\ crashes \in Nat

\* No two hand-overs to the asset carry the same non-empty idempotency key,
\* whatever the interleaving of handlers, re-used ids, failures and restarts
\* (service.rs: the duplicate guard held across the append, and its rebuild).
KeyDispatchedOnce ==
  \A i, j \in DOMAIN sink :
    sink[i].key = sink[j].key /\ sink[i].key # NoKey => i = j

Recorded(c) == \E e \in Entities : \E i \in DOMAIN ledger[e] : ledger[e][i].cmd = c

\* Whatever the service shows or does is already on the ledger: the index, the
\* burned keys and the hand-overs never run ahead of it (R4.2b's ordering).
DurableFirst ==
  /\ \A i \in DOMAIN sink : sink[i].state = "DISPATCHED" /\ Recorded(sink[i])
  /\ \A id \in Ids : commands[id] # NoCommand => Recorded(commands[id])
  /\ keys \subseteq ScanKeys

\* The detailed service implements the abstract promise: keys are burned on
\* the ledger first and delivered at most once.
OpeningKeys ==
  {k \in Keys : \E e \in Entities : \E i \in DOMAIN OpeningLedger[e] :
     OpeningLedger[e][i].cmd.state = "DISPATCHED" /\ OpeningLedger[e][i].cmd.key = k}
Once == INSTANCE DispatchOnce
          WITH Opening <- OpeningKeys, burned <- ScanKeys, delivered <- sink
DispatchOncePromise == Once!DSpec

\* Under clients that keep to one RPC at a time per command and never re-use
\* an id, the ledger tells one life per command: every record follows the one
\* before it along a legal edge, no transition is lost or forked, and entity
\* and key never change (service.rs, the handlers over state.rs).
Lives == INSTANCE CommandLifecycle WITH life <- [id \in Ids |-> ScanCommand(id)]
LifecyclePromise == Lives!LSpec

\* Under the same clients a command with no RPC in flight reads the same from
\* the live index as from a restart, a failed audit line included: an audit
\* failure never rewinds or half-commits what the ledger holds.
IndexMatchesLedger ==
  \A id \in Ids : InFlight(id) \/
    (commands[id] = ScanCommand(id) /\ proposals[id] = ScanProposal(id))

\* A key that is neither free nor in the hands of a running Dispatch is on the
\* ledger, and the other way round: a restart would refuse the same keys.
GuardMatchesLedger == seenLock = NoThread => keys = ScanKeys

\* Once the DISPATCHED record of a command is on the ledger, the command
\* reaches the sink unless the process dies first: neither a failed audit line
\* nor another RPC can come between them.
JustDispatched(id) ==
  \E t \in Threads :
    rpc[t].op = "dispatch" /\ rpc[t].pc \in {"index", "keys", "sink"} /\ rpc[t].cmd.id = id
DispatchedReachesSink ==
  \A id \in Ids, n \in 0..MaxCrashes :
    (JustDispatched(id) /\ crashes = n) ~>
      ((\E i \in DOMAIN sink : sink[i].id = id) \/ crashes > n)
-----------------------------------------------------------------------------
(***************************************************************************)
(* Why KeyDispatchedOnce holds.  The lock serialises "check the key, append *)
(* the DISPATCHED record, insert the key"; the ledger bridges the restarts. *)
(***************************************************************************)
Dispatching(t, pcs) == rpc[t].op = "dispatch" /\ rpc[t].pc \in pcs

\* The lock is held exactly from the duplicate check to the key insert.
LockCoversAppend ==
  \A t \in Threads : seenLock = t <=> Dispatching(t, {"append", "index", "keys"})

\* A step is only ever taken by a handler of the right kind.
StepsFitOps ==
  \A t \in Threads :
    /\ rpc[t].pc \in {"lock", "keys", "sink"} => rpc[t].op = "dispatch"
    /\ rpc[t].op = "dispatch" => rpc[t].pc # "idle"
    /\ rpc[t].pc # "idle" => (rpc[t].op = "dispatch" <=> rpc[t].cmd.state = "DISPATCHED")

\* A key on the ledger is refused already, or is about to be by the lock holder.
LedgerKeysGuarded ==
  \A k \in Keys : k \in ScanKeys =>
    k \in keys \/ \E t \in Threads : Dispatching(t, {"index", "keys"}) /\ rpc[t].cmd.key = k

\* Between the check and the append the key is still fresh.
CheckedKeyFresh ==
  \A t \in Threads : Dispatching(t, {"append"}) => rpc[t].cmd.key \notin keys

\* Between the append and the hand-over the key is burned on the ledger, and
\* nobody else is there, or has been, with the same key.
PendingHandOver ==
  \A t \in Threads : Dispatching(t, {"index", "keys", "sink"}) /\ rpc[t].cmd.key # NoKey =>
    /\ rpc[t].cmd.key \in ScanKeys
    /\ \A u \in Threads :
         Dispatching(u, {"index", "keys", "sink"}) /\ rpc[u].cmd.key = rpc[t].cmd.key => u = t
    /\ \A i \in DOMAIN sink : sink[i].key # rpc[t].cmd.key

\* What was handed over under a key is burned on the ledger.
HandedOverBurned ==
  \A i \in DOMAIN sink : sink[i].key # NoKey => sink[i].key \in ScanKeys

DispatchInv ==
  /\ TypeOK /\ StepsFitOps /\ LockCoversAppend /\ LedgerKeysGuarded /\ CheckedKeyFresh
  /\ PendingHandOver /\ HandedOverBurned /\ KeyDispatchedOnce

\* A key burned before the service was ever started is refused for good: no
\* restart forgets it, and no command re-proposed under it gets past the lock.
EarlierKeysRefused ==
  /\ OpeningKeys \subseteq keys \cap ScanKeys
  /\ \A t \in Threads :
       Dispatching(t, {"append", "index", "keys", "sink"}) => rpc[t].cmd.key \notin OpeningKeys
  /\ \A i \in DOMAIN sink : sink[i].key \notin OpeningKeys

\* What a handler is about to show or do after its append is on the ledger.
AppendedFirst ==
  \A t \in Threads :
    rpc[t].pc \in {"index", "proposals", "decisions", "keys", "sink"} => Recorded(rpc[t].cmd)

\* The inductive invariant: every step of the service keeps it.
AuthorityInv == DispatchInv /\ AppendedFirst /\ DurableFirst
-----------------------------------------------------------------------------
(* What the documentation says of the service, and the service does not do  *)
(* (the second: README, known divergences).                                 *)

\* service.rs: a keyless command, too, is dispatched at most once.
KeylessDispatchedOnce ==
  \A i, j \in DOMAIN sink :
    sink[i].id = sink[j].id /\ sink[i].key = NoKey /\ sink[j].key = NoKey => i = j

\* ledger.rs: a decision is recorded at most once per command id, a command
\* never being checked again once it leaves PROPOSED.
DecidedOnce ==
  \A id \in Ids, e \in Entities : Cardinality(DecisionsOf(id)[e]) <= 1
=============================================================================
