---------------------- MODULE CommandAuthorityProofs ----------------------
(***************************************************************************)
(* Proofs about the command authority, for every number of threads,        *)
(* commands, assets and keys, and every typed opening ledger: its types,   *)
(* the inductive invariant AuthorityInv, what follows from it, that the    *)
(* service implements DispatchOnce and, under disciplined clients, that it *)
(* implements CommandLifecycle.                                            *)
(***************************************************************************)
EXTENDS CommandAuthority, FiniteSetTheorems, WellFoundedInduction, TLAPS

-----------------------------------------------------------------------------
(* What the scans of the ledger return.                                    *)

\* A set of ranks or of positions has a first and, if bounded, a last.
LEMMA LeastExists ==
  ASSUME NEW S \in SUBSET Nat, S # {}
  PROVE  \E m \in S : \A i \in S : m <= i
<1>. DEFINE Less == OpToRel(<, Nat)
<1>1. PICK m \in S : \A i \in S : <<i, m>> \notin Less
  BY WFMin, NatLessThanWellFounded
<1>2. \A i, n \in Nat : i < n => <<i, n>> \in Less
  BY DEF OpToRel
<1>. HIDE DEF Less
<1>3. \A i \in S : i \in Nat /\ m \in Nat /\ ~(i < m)
  BY <1>1, <1>2
<1>. QED BY <1>3

LEMMA GreatestExists ==
  ASSUME NEW n \in Nat, NEW S \in SUBSET (0..n), S # {}
  PROVE  \E m \in S : \A i \in S : i <= m
<1>. DEFINE T == {k \in 0..n : n - k \in S}
<1>1. PICK s \in S : TRUE
  OBVIOUS
<1>2. n - s \in T
  BY <1>1
<1>3. T \in SUBSET Nat /\ T # {}
  BY <1>2
<1>4. \A i \in S : n - i \in T
  OBVIOUS
<1>5. \A k \in T : n - k \in S /\ k \in 0..n
  OBVIOUS
<1>. HIDE DEF T
<1>6. PICK t \in T : \A k \in T : t <= k
  BY <1>3, LeastExists
<1>7. \A i \in S : i <= n - t
  BY <1>4, <1>5, <1>6
<1>. QED BY <1>5, <1>6, <1>7

\* The records of a non-empty selection that a scan returns are on the ledger.
LEMMA ScanReadsLedger ==
  ASSUME ledger \in [Entities -> Seq(Record)],
         NEW H \in [Entities -> SUBSET Nat],
         \A e \in Entities : H[e] \subseteq DOMAIN ledger[e],
         Files(H) # {}
  PROVE  /\ \E e \in Entities : \E i \in H[e] : LastRead(H) = ledger[e][i]
         /\ \E e \in Entities : \E i \in H[e] : FirstRead(H) = ledger[e][i]
<1>. DEFINE Ranks == {FileRank[e] : e \in Files(H)}
<1>1. /\ Cardinality(Entities) \in Nat
      /\ FileRank \in [Entities -> 1..Cardinality(Entities)]
  BY AuthorityAssumption, FS_CardinalityType
<1>2. Files(H) \subseteq Entities
  BY DEF Files
<1>3. Ranks \in SUBSET (0..Cardinality(Entities)) /\ Ranks \in SUBSET Nat /\ Ranks # {}
  BY <1>1, <1>2
<1>4. \E e \in Files(H) : \A f \in Files(H) : FileRank[f] <= FileRank[e]
  <2>1. PICK m \in Ranks : \A r \in Ranks : r <= m
    BY <1>1, <1>3, GreatestExists
  <2>. QED BY <2>1
<1>5. \E e \in Files(H) : \A f \in Files(H) : FileRank[e] <= FileRank[f]
  <2>1. PICK m \in Ranks : \A r \in Ranks : m <= r
    BY <1>3, LeastExists
  <2>. QED BY <2>1
<1>6. \A e \in Files(H) : \E i \in H[e] : \A j \in H[e] : j <= i
  <2>. SUFFICES ASSUME NEW e \in Files(H)
                PROVE  \E i \in H[e] : \A j \in H[e] : j <= i
    OBVIOUS
  <2>1. ledger[e] \in Seq(Record) /\ H[e] \subseteq DOMAIN ledger[e] /\ H[e] # {}
    BY <1>2 DEF Files
  <2>2. Len(ledger[e]) \in Nat /\ H[e] \in SUBSET (0..Len(ledger[e]))
    BY <2>1
  <2>. QED BY <2>1, <2>2, GreatestExists
<1>7. \A e \in Files(H) : \E i \in H[e] : \A j \in H[e] : i <= j
  <2>. SUFFICES ASSUME NEW e \in Files(H)
                PROVE  \E i \in H[e] : \A j \in H[e] : i <= j
    OBVIOUS
  <2>1. H[e] \in SUBSET Nat /\ H[e] # {}
    BY <1>2 DEF Files
  <2>. QED BY <2>1, LeastExists
<1>8. \E e \in Entities : \E i \in H[e] : LastRead(H) = ledger[e][i]
  BY <1>2, <1>4, <1>6 DEF LastRead
<1>9. \E e \in Entities : \E i \in H[e] : FirstRead(H) = ledger[e][i]
  BY <1>2, <1>5, <1>7 DEF FirstRead
<1>. QED BY <1>8, <1>9

\* What a restart rebuilds for a command is typed, and taken from a record.
LEMMA ScanTypes ==
  ASSUME ledger \in [Entities -> Seq(Record)], NEW id \in Ids
  PROVE  /\ ScanCommand(id) \in Command \cup {NoCommand}
         /\ ScanProposal(id) \in Command \cup {NoCommand}
         /\ ScanDecision(id) \in Decisions
         /\ ScanCommand(id) # NoCommand => Recorded(ScanCommand(id))
<1>1. \A e \in Entities : \A i \in DOMAIN ledger[e] : ledger[e][i] \in Record
  OBVIOUS
<1>2. \A r \in Record : r.cmd \in Command /\ r.decision \in Decisions
  BY DEF Record
<1>3. \A e \in Entities : DOMAIN ledger[e] \subseteq Nat
  OBVIOUS
<1>4. /\ OfCommand(id) \in [Entities -> SUBSET Nat]
      /\ \A e \in Entities : OfCommand(id)[e] \subseteq DOMAIN ledger[e]
  BY <1>3 DEF OfCommand, Hits
<1>5. /\ ProposalsOf(id) \in [Entities -> SUBSET Nat]
      /\ \A e \in Entities : ProposalsOf(id)[e] \subseteq DOMAIN ledger[e]
  BY <1>3 DEF ProposalsOf, Hits
<1>6. /\ DecisionsOf(id) \in [Entities -> SUBSET Nat]
      /\ \A e \in Entities : DecisionsOf(id)[e] \subseteq DOMAIN ledger[e]
  BY <1>3 DEF DecisionsOf, Hits
<1>7. ScanCommand(id) # NoCommand =>
        \E e \in Entities : \E i \in DOMAIN ledger[e] : ScanCommand(id) = ledger[e][i].cmd
  BY <1>4, ScanReadsLedger DEF ScanCommand
<1>8. ScanProposal(id) # NoCommand =>
        \E e \in Entities : \E i \in DOMAIN ledger[e] : ScanProposal(id) = ledger[e][i].cmd
  BY <1>5, ScanReadsLedger DEF ScanProposal
<1>9. ScanDecision(id) # "none" =>
        \E e \in Entities : \E i \in DOMAIN ledger[e] : ScanDecision(id) = ledger[e][i].decision
  BY <1>6, ScanReadsLedger DEF ScanDecision
<1>. QED BY <1>1, <1>2, <1>7, <1>8, <1>9 DEF Recorded, Decisions

\* Steps that leave the ledger alone leave the burned keys and records alone.
LEMMA SameLedger ==
  ASSUME ledger' = ledger
  PROVE  ScanKeys' = ScanKeys /\ \A c : Recorded(c)' <=> Recorded(c)
BY DEF ScanKeys, DispatchedAt, Recorded
-----------------------------------------------------------------------------
(* Types.                                                                  *)

\* An edge keeps a command's identity and sets its state.
LEMMA PushTransitionType ==
  ASSUME NEW c \in Command, NEW to \in CommandStates, NEW level \in AckLevel
  PROVE  /\ PushTransition(c, to, level) \in Command
         /\ PushTransition(c, to, level).state = to
         /\ PushTransition(c, to, level).key = c.key
<1>1. c.steps + 1 \in Nat /\ c.key \in Keys \cup {NoKey}
  BY DEF Command
<1>2. [c EXCEPT !.state = to] \in Command
  BY DEF Command
<1>3. [[c EXCEPT !.state = to] EXCEPT !.level = level] \in Command
  BY <1>2 DEF Command
<1>4. PushTransition(c, to, level) =
        [[[c EXCEPT !.state = to] EXCEPT !.level = level] EXCEPT !.steps = c.steps + 1]
  BY DEF PushTransition
<1>5. PushTransition(c, to, level) \in Command
  BY <1>1, <1>3, <1>4 DEF Command
<1>. QED BY <1>4, <1>5 DEF Command

\* Every RPC begins in one of two ways: Dispatch at the lock with a DISPATCHED
\* command, every other at its append with a command in another state.
LEMMA CallBegins ==
  ASSUME TypeOK, NEW t \in Threads, Call(t)
  PROVE  \E pc \in {"append", "lock"}, op \in Ops \ {"none"}, c \in Command, d \in Decisions :
           /\ Begin(t, pc, op, c, d)
           /\ pc = "lock" <=> op = "dispatch"
           /\ op = "dispatch" <=> c.state = "DISPATCHED"
<1>1. CASE Propose(t)
  <2>1. PICK id \in Ids, e \in Entities, k \in Keys \cup {NoKey} :
          Begin(t, "append", "propose", PushTransition(Fresh(id, e, k), "PROPOSED", 0), "none")
    BY <1>1 DEF Propose
  <2>2. Fresh(id, e, k) \in Command
    BY DEF Fresh, Command, CommandStates, AckLevel
  <2>3. /\ PushTransition(Fresh(id, e, k), "PROPOSED", 0) \in Command
        /\ PushTransition(Fresh(id, e, k), "PROPOSED", 0).state = "PROPOSED"
    BY <2>2, PushTransitionType DEF CommandStates, AckLevel
  <2>. QED BY <2>1, <2>3 DEF Ops, Decisions
<1>2. ASSUME NEW id \in Ids, NEW pc \in {"append", "lock"}, NEW op \in Ops \ {"none"},
             NEW to \in CommandStates, NEW level \in AckLevel, NEW d \in Decisions,
             OnSnapshot(t, id, pc, op, to, level, d),
             pc = "lock" <=> op = "dispatch", op = "dispatch" <=> to = "DISPATCHED"
      PROVE  \E c \in Command : /\ Begin(t, pc, op, c, d)
                                /\ op = "dispatch" <=> c.state = "DISPATCHED"
  <2>1. commands[id] \in Command
    BY <1>2 DEF OnSnapshot, TypeOK
  <2>2. Begin(t, pc, op, PushTransition(commands[id], to, level), d)
    BY <1>2 DEF OnSnapshot
  <2>. QED BY <1>2, <2>1, <2>2, PushTransitionType
<1>3. CASE Check(t)
  BY <1>2, <1>3 DEF Check, Verdict, Ops, Decisions, CommandStates, AckLevel
<1>4. CASE Authorize(t)
  BY <1>2, <1>4 DEF Authorize, Ops, Decisions, CommandStates, AckLevel
<1>5. CASE Dispatch(t)
  BY <1>2, <1>5 DEF Dispatch, Ops, Decisions, CommandStates, AckLevel
<1>6. CASE Ack(t)
  <2>1. AckLevels \subseteq AckLevel
    BY AuthorityAssumption
  <2>. QED BY <1>2, <1>6, <2>1 DEF Ack, Ops, Decisions, CommandStates
<1>7. CASE Expire(t)
  BY <1>2, <1>7 DEF Expire, Ops, Decisions, CommandStates, AckLevel
<1>8. CASE Fail(t)
  BY <1>2, <1>8 DEF Fail, Ops, Decisions, CommandStates, AckLevel
<1>. QED BY <1>1, <1>3, <1>4, <1>5, <1>6, <1>7, <1>8 DEF Call

\* What an append writes is a record of the asset's file.
LEMMA AppendTypes ==
  ASSUME TypeOK, NEW t \in Threads, AtStep(t, "append")
  PROVE  /\ rpc[t].cmd \in Command
         /\ RecordOf(t) \in Record
         /\ rpc[t].cmd.entity \in Entities
<1>1. rpc[t].cmd \in Command /\ rpc[t].decision \in Decisions
  BY DEF TypeOK, AtStep, Rpc
<1>. QED BY <1>1 DEF RecordOf, Record, Command

\* A service opened on a typed ledger is typed.
LEMMA TypeInit == Init => TypeOK
<1>. SUFFICES ASSUME Init PROVE TypeOK
  OBVIOUS
<1>1. ledger \in [Entities -> Seq(Record)]
  BY AuthorityAssumption DEF Init
<1>2. /\ commands \in [Ids -> Command \cup {NoCommand}]
      /\ proposals \in [Ids -> Command \cup {NoCommand}]
      /\ decisions \in [Ids -> Decisions]
  BY <1>1, ScanTypes DEF Init
<1>3. keys \subseteq Keys
  BY DEF Init, ScanKeys
<1>4. rpc \in [Threads -> Rpc] /\ \A t \in Threads : rpc[t].pc = "idle"
  BY DEF Init, Idle, Rpc, Steps, Ops, Decisions
<1>. QED BY <1>1, <1>2, <1>3, <1>4 DEF Init, TypeOK

\* Moving a handler along, or ending it, keeps its frame typed.
LEMMA FrameTypes ==
  ASSUME TypeOK, NEW t \in Threads, ~AtStep(t, "idle"),
         Return(t) \/ \E pc \in Steps : Goto(t, pc)
  PROVE  /\ rpc' \in [Threads -> Rpc]
         /\ \A u \in Threads : rpc'[u].pc # "idle" => rpc'[u].cmd \in Command
<1>1. CASE Return(t)
  BY <1>1 DEF Return, Idle, TypeOK, Rpc, Steps, Ops, Decisions
<1>2. ASSUME NEW pc \in Steps, Goto(t, pc)
      PROVE  /\ rpc' \in [Threads -> Rpc]
             /\ \A u \in Threads : rpc'[u].pc # "idle" => rpc'[u].cmd \in Command
  BY <1>2 DEF Goto, TypeOK, Rpc, AtStep
<1>. QED BY <1>1, <1>2

\* Every step keeps the types.
LEMMA TypeStep == TypeOK /\ [Next]_vars => TypeOK'
<1>. SUFFICES ASSUME TypeOK, [Next]_vars PROVE TypeOK'
  OBVIOUS
<1>1. ASSUME NEW t \in Threads, Call(t) PROVE TypeOK'
  <2>1. PICK pc \in {"append", "lock"}, op \in Ops \ {"none"}, c \in Command, d \in Decisions :
          Begin(t, pc, op, c, d)
    BY <1>1, CallBegins
  <2>2. [pc |-> pc, op |-> op, cmd |-> c, decision |-> d] \in Rpc
    BY DEF Rpc, Steps
  <2>. QED BY <2>1, <2>2 DEF Begin, TypeOK, indexes
<1>2. ASSUME NEW t \in Threads, LockSeen(t) PROVE TypeOK'
  <2>1. Return(t) \/ Goto(t, "append")
    BY <1>2 DEF LockSeen
  <2>2. seenLock' \in Threads \cup {NoThread}
    BY <1>2 DEF LockSeen, TypeOK
  <2>. QED BY <1>2, <2>1, <2>2, FrameTypes DEF LockSeen, TypeOK, AtStep, indexes, Steps
<1>3. ASSUME NEW t \in Threads, LedgerAppend(t) PROVE TypeOK'
  <2>1. RecordOf(t) \in Record /\ rpc[t].cmd.entity \in Entities
    BY <1>3, AppendTypes DEF LedgerAppend
  <2>2. ledger' \in [Entities -> Seq(Record)]
    BY <1>3, <2>1 DEF LedgerAppend, TypeOK
  <2>. QED BY <1>3, <2>2, FrameTypes DEF LedgerAppend, TypeOK, AtStep, indexes, Steps
<1>4. ASSUME NEW t \in Threads, AppendFails(t) PROVE TypeOK'
  <2>1. seenLock' \in Threads \cup {NoThread}
    BY <1>4 DEF AppendFails, ReleaseOnReturn, TypeOK
  <2>. QED BY <1>4, <2>1, FrameTypes DEF AppendFails, TypeOK, AtStep, indexes
<1>5. ASSUME NEW t \in Threads, PutCommand(t) PROVE TypeOK'
  <2>1. rpc[t].cmd \in Command /\ AfterIndex[rpc[t].op] \in Steps
    BY <1>5 DEF PutCommand, AtStep, TypeOK, Rpc, AfterIndex, Steps
  <2>. QED BY <1>5, <2>1, FrameTypes DEF PutCommand, TypeOK, AtStep, Command
<1>6. ASSUME NEW t \in Threads, PutProposal(t) PROVE TypeOK'
  <2>1. rpc[t].cmd \in Command
    BY <1>6 DEF PutProposal, AtStep, TypeOK
  <2>. QED BY <1>6, <2>1, FrameTypes DEF PutProposal, TypeOK, AtStep, Steps, Command
<1>7. ASSUME NEW t \in Threads, PutDecision(t) PROVE TypeOK'
  <2>1. rpc[t].cmd \in Command /\ rpc[t].decision \in Decisions
    BY <1>7 DEF PutDecision, AtStep, TypeOK, Rpc
  <2>. QED BY <1>7, <2>1, FrameTypes DEF PutDecision, TypeOK, AtStep, Steps, Command
<1>8. ASSUME NEW t \in Threads, InsertKey(t) PROVE TypeOK'
  <2>1. rpc[t].cmd \in Command
    BY <1>8 DEF InsertKey, AtStep, TypeOK
  <2>2. keys' \subseteq Keys
    BY <1>8, <2>1 DEF InsertKey, TypeOK, Command
  <2>. QED BY <1>8, <2>2, FrameTypes DEF InsertKey, TypeOK, AtStep, indexes, Steps
<1>9. ASSUME NEW t \in Threads, HandOff(t) PROVE TypeOK'
  <2>1. sink' \in Seq(Command)
    BY <1>9 DEF HandOff, AtStep, TypeOK
  <2>. QED BY <1>9, <2>1, FrameTypes DEF HandOff, TypeOK, AtStep, indexes, Steps
<1>10. ASSUME NEW t \in Threads, Audit(t) PROVE TypeOK'
  <2>1. CASE rpc[t].op = "propose"
    <3>1. PICK d \in {"allow", "deny"} :
            rpc' = [rpc EXCEPT ![t] =
                     [pc |-> "append", op |-> "check", decision |-> d,
                      cmd |-> PushTransition(rpc[t].cmd, Verdict(d), 0)]]
      BY <1>10, <2>1 DEF Audit
    <3>2. rpc[t].cmd \in Command
      BY <1>10 DEF Audit, AtStep, TypeOK
    <3>3. PushTransition(rpc[t].cmd, Verdict(d), 0) \in Command
      BY <3>2, PushTransitionType DEF Verdict, CommandStates, AckLevel
    <3>4. [pc |-> "append", op |-> "check", decision |-> d,
           cmd |-> PushTransition(rpc[t].cmd, Verdict(d), 0)] \in Rpc
      BY <3>3 DEF Rpc, Steps, Ops, Decisions
    <3>. QED BY <1>10, <3>1, <3>3, <3>4 DEF Audit, TypeOK, indexes
  <2>2. CASE rpc[t].op # "propose"
    BY <1>10, <2>2, FrameTypes DEF Audit, TypeOK, AtStep, indexes
  <2>. QED BY <2>1, <2>2
<1>11. ASSUME NEW t \in Threads, AuditFails(t) PROVE TypeOK'
  BY <1>11, FrameTypes DEF AuditFails, TypeOK, AtStep, indexes
<1>12. CASE CrashRestart
  <2>1. Idle \in Rpc /\ Idle.pc = "idle"
    BY DEF Idle, Rpc, Steps, Ops, Decisions
  <2>2. ledger \in [Entities -> Seq(Record)]
    BY DEF TypeOK
  <2>3. /\ commands' \in [Ids -> Command \cup {NoCommand}]
        /\ proposals' \in [Ids -> Command \cup {NoCommand}]
        /\ decisions' \in [Ids -> Decisions]
    BY <1>12, <2>2, ScanTypes DEF CrashRestart
  <2>4. keys' \subseteq Keys
    BY <1>12 DEF CrashRestart, ScanKeys
  <2>. QED BY <1>12, <2>1, <2>3, <2>4 DEF CrashRestart, TypeOK
<1>13. CASE UNCHANGED vars
  BY <1>13 DEF vars, indexes, TypeOK
<1>. QED
  BY <1>1, <1>2, <1>3, <1>4, <1>5, <1>6, <1>7, <1>8, <1>9, <1>10, <1>11, <1>12, <1>13
  DEF Next, Handler, NoCall

\* Every reachable state of the service is typed: only known commands, keys and
\* handlers, whatever is on the ledger it opens.
THEOREM TypeCorrect == Spec => []TypeOK
BY TypeInit, TypeStep, PTL DEF Spec
-----------------------------------------------------------------------------
(* The inductive invariant.                                                *)

\* An append adds the handler's command to the records, and burns its key if
\* it is a dispatch.
LEMMA LedgerGrows ==
  ASSUME TypeOK, NEW t \in Threads, LedgerAppend(t)
  PROVE  /\ \A c : Recorded(c)' <=> Recorded(c) \/ c = rpc[t].cmd
         /\ ScanKeys' = ScanKeys \cup
              {k \in Keys : rpc[t].cmd.state = "DISPATCHED" /\ rpc[t].cmd.key = k}
<1>. DEFINE a == rpc[t].cmd.entity
            n == Len(ledger[a]) + 1
<1>1. /\ a \in Entities /\ RecordOf(t).cmd = rpc[t].cmd
      /\ ledger \in [Entities -> Seq(Record)] /\ RecordOf(t) \in Record
  BY AppendTypes DEF LedgerAppend, RecordOf, TypeOK
<1>2. ledger' = [ledger EXCEPT ![a] = Append(ledger[a], RecordOf(t))]
  BY DEF LedgerAppend
<1>. HIDE DEF a
<1>3. ledger[a] \in Seq(Record) /\ Len(ledger[a]) \in Nat
  BY <1>1
<1>4. /\ DOMAIN ledger[a] = 1..Len(ledger[a])
      /\ ledger'[a] = Append(ledger[a], RecordOf(t))
      /\ \A e \in Entities : e # a => ledger'[e] = ledger[e]
  BY <1>1, <1>2, <1>3
<1>5. /\ DOMAIN ledger'[a] = DOMAIN ledger[a] \cup {n}
      /\ \A i \in DOMAIN ledger[a] : ledger'[a][i] = ledger[a][i]
      /\ ledger'[a][n] = RecordOf(t)
  BY <1>1, <1>3, <1>4
<1>. HIDE DEF n
<1>6. \A e \in Entities : \A i \in DOMAIN ledger[e] :
        i \in DOMAIN ledger'[e] /\ ledger'[e][i] = ledger[e][i]
  BY <1>4, <1>5
<1>7. \A e \in Entities : \A i \in DOMAIN ledger'[e] :
        \/ (i \in DOMAIN ledger[e] /\ ledger'[e][i] = ledger[e][i])
        \/ ledger'[e][i] = RecordOf(t)
  BY <1>4, <1>5
<1>8. n \in DOMAIN ledger'[a] /\ ledger'[a][n].cmd = rpc[t].cmd
  BY <1>1, <1>5
<1>9. ASSUME NEW c PROVE Recorded(c)' <=> Recorded(c) \/ c = rpc[t].cmd
  <2>1. ASSUME Recorded(c)' PROVE Recorded(c) \/ c = rpc[t].cmd
    <3>1. PICK e \in Entities : \E i \in DOMAIN ledger'[e] : ledger'[e][i].cmd = c
      BY <2>1 DEF Recorded
    <3>. QED BY <1>1, <1>7, <3>1 DEF Recorded
  <2>2. ASSUME Recorded(c) PROVE Recorded(c)'
    BY <1>6, <2>2 DEF Recorded
  <2>3. ASSUME c = rpc[t].cmd PROVE Recorded(c)'
    BY <1>1, <1>8, <2>3 DEF Recorded
  <2>. QED BY <2>1, <2>2, <2>3
<1>10. ASSUME NEW k \in Keys
       PROVE  k \in ScanKeys' <=>
                k \in ScanKeys \/ (rpc[t].cmd.state = "DISPATCHED" /\ rpc[t].cmd.key = k)
  <2>1. ASSUME k \in ScanKeys'
        PROVE  k \in ScanKeys \/ (rpc[t].cmd.state = "DISPATCHED" /\ rpc[t].cmd.key = k)
    <3>. PICK e \in Entities : \E i \in DOMAIN ledger'[e] : DispatchedAt(e, i, k)'
      BY <2>1 DEF ScanKeys
    <3>1. PICK i \in DOMAIN ledger'[e] :
            ledger'[e][i].cmd.state = "DISPATCHED" /\ ledger'[e][i].cmd.key = k
      BY DEF DispatchedAt
    <3>2. CASE i \in DOMAIN ledger[e] /\ ledger'[e][i] = ledger[e][i]
      BY <3>1, <3>2 DEF ScanKeys, DispatchedAt
    <3>3. CASE ledger'[e][i] = RecordOf(t)
      BY <1>1, <3>1, <3>3
    <3>. QED BY <1>7, <3>2, <3>3
  <2>2. ASSUME k \in ScanKeys PROVE k \in ScanKeys'
    BY <1>6, <2>2 DEF ScanKeys, DispatchedAt
  <2>3. ASSUME rpc[t].cmd.state = "DISPATCHED", rpc[t].cmd.key = k PROVE k \in ScanKeys'
    BY <1>1, <1>8, <2>3 DEF ScanKeys, DispatchedAt
  <2>. QED BY <2>1, <2>2, <2>3
<1>11. ScanKeys \subseteq Keys /\ ScanKeys' \subseteq Keys
  BY DEF ScanKeys
<1>. QED BY <1>9, <1>10, <1>11

\* A service that has just been constructed satisfies the invariant.
LEMMA AuthorityInit == Init => AuthorityInv
<1>. SUFFICES ASSUME Init PROVE AuthorityInv
  OBVIOUS
<1>1. TypeOK
  BY TypeInit
<1>2. \A t \in Threads : rpc[t].pc = "idle" /\ rpc[t].op = "none"
  BY DEF Init, Idle
<1>3. keys = ScanKeys /\ sink = << >> /\ seenLock = NoThread /\ NoThread \notin Threads
  BY AuthorityAssumption DEF Init
<1>4. \A id \in Ids : commands[id] # NoCommand => Recorded(commands[id])
  BY <1>1, ScanTypes DEF Init, TypeOK
<1>5. StepsFitOps /\ LockCoversAppend /\ CheckedKeyFresh /\ PendingHandOver /\ AppendedFirst
  BY <1>2, <1>3
  DEF StepsFitOps, LockCoversAppend, CheckedKeyFresh, PendingHandOver, AppendedFirst, Dispatching
<1>6. LedgerKeysGuarded /\ HandedOverBurned /\ KeyDispatchedOnce /\ DurableFirst
  BY <1>3, <1>4 DEF LedgerKeysGuarded, HandedOverBurned, KeyDispatchedOnce, DurableFirst
<1>. QED BY <1>1, <1>5, <1>6 DEF AuthorityInv, DispatchInv

\* A step that leaves the ledger, the index, the keys and the sink alone keeps
\* the conjuncts about them alone.
LEMMA QuietStep ==
  ASSUME DurableFirst, HandedOverBurned, KeyDispatchedOnce,
         UNCHANGED <<ledger, commands, keys, sink>>
  PROVE  DurableFirst' /\ HandedOverBurned' /\ KeyDispatchedOnce'
<1>1. ScanKeys' = ScanKeys /\ \A c : Recorded(c)' <=> Recorded(c)
  BY SameLedger
<1>. QED BY <1>1 DEF DurableFirst, HandedOverBurned, KeyDispatchedOnce

\* Beginning an RPC: a handler that has neither checked nor appended anything.
LEMMA CallKeepsInv ==
  ASSUME AuthorityInv, TypeOK', NEW t \in Threads, Call(t)
  PROVE  AuthorityInv'
<1>1. PICK pc \in {"append", "lock"}, op \in Ops \ {"none"}, c \in Command, d \in Decisions :
        /\ Begin(t, pc, op, c, d)
        /\ pc = "lock" <=> op = "dispatch"
        /\ op = "dispatch" <=> c.state = "DISPATCHED"
  BY CallBegins DEF AuthorityInv, DispatchInv
<1>2. /\ UNCHANGED <<ledger, commands, keys, seenLock, sink>>
      /\ rpc[t].pc = "idle"
      /\ rpc'[t] = [pc |-> pc, op |-> op, cmd |-> c, decision |-> d]
      /\ \A u \in Threads : u # t => rpc'[u] = rpc[u]
  BY <1>1 DEF Begin, AtStep, indexes, AuthorityInv, DispatchInv, TypeOK
<1>3. DurableFirst' /\ HandedOverBurned' /\ KeyDispatchedOnce'
  BY <1>2, QuietStep DEF AuthorityInv, DispatchInv
<1>4. ScanKeys' = ScanKeys /\ \A x : Recorded(x)' <=> Recorded(x)
  BY <1>2, SameLedger
<1>5. StepsFitOps'
  BY <1>1, <1>2 DEF StepsFitOps, AuthorityInv, DispatchInv
<1>6. LockCoversAppend'
  BY <1>1, <1>2 DEF LockCoversAppend, Dispatching, StepsFitOps, AuthorityInv, DispatchInv
<1>7. LedgerKeysGuarded'
  BY <1>1, <1>2, <1>4 DEF LedgerKeysGuarded, Dispatching, AuthorityInv, DispatchInv
<1>8. CheckedKeyFresh'
  BY <1>1, <1>2 DEF CheckedKeyFresh, Dispatching, AuthorityInv, DispatchInv
<1>9. PendingHandOver'
  BY <1>1, <1>2, <1>4 DEF PendingHandOver, Dispatching, AuthorityInv, DispatchInv
<1>10. AppendedFirst'
  BY <1>1, <1>2, <1>4 DEF AppendedFirst, AuthorityInv, DispatchInv
<1>. QED BY <1>3, <1>5, <1>6, <1>7, <1>8, <1>9, <1>10 DEF AuthorityInv, DispatchInv

\* Taking the lock: the holder's key is fresh, or the handler returns.
LEMMA LockKeepsInv ==
  ASSUME AuthorityInv, TypeOK', NEW t \in Threads, LockSeen(t)
  PROVE  AuthorityInv'
<1>1. /\ UNCHANGED <<ledger, commands, keys, sink>>
      /\ rpc[t].pc = "lock" /\ rpc[t].op = "dispatch" /\ seenLock = NoThread
      /\ rpc[t].cmd \in Command /\ NoThread \notin Threads /\ keys \subseteq Keys
      /\ \A u \in Threads : u # t => rpc'[u] = rpc[u]
  BY AuthorityAssumption
  DEF LockSeen, AtStep, Goto, Return, indexes, AuthorityInv, DispatchInv, TypeOK, StepsFitOps
<1>2. \/ Duplicate(t) /\ rpc'[t] = Idle /\ seenLock' = NoThread
      \/ /\ ~Duplicate(t) /\ seenLock' = t
         /\ rpc'[t].pc = "append" /\ rpc'[t].op = "dispatch" /\ rpc'[t].cmd = rpc[t].cmd
  BY <1>1 DEF LockSeen, Goto, Return, AuthorityInv, DispatchInv, TypeOK, Rpc
<1>3. DurableFirst' /\ HandedOverBurned' /\ KeyDispatchedOnce'
  BY <1>1, QuietStep DEF AuthorityInv, DispatchInv
<1>4. ScanKeys' = ScanKeys /\ \A x : Recorded(x)' <=> Recorded(x)
  BY <1>1, SameLedger
<1>5. StepsFitOps'
  BY <1>1, <1>2 DEF StepsFitOps, Idle, AuthorityInv, DispatchInv
<1>6. LockCoversAppend'
  BY <1>1, <1>2 DEF LockCoversAppend, Dispatching, Idle, AuthorityInv, DispatchInv
<1>7. LedgerKeysGuarded'
  BY <1>1, <1>2, <1>4 DEF LedgerKeysGuarded, Dispatching, AuthorityInv, DispatchInv
<1>8. CheckedKeyFresh'
  BY <1>1, <1>2, KeyAssumption
  DEF CheckedKeyFresh, Dispatching, Duplicate, Idle, AuthorityInv, DispatchInv
<1>9. PendingHandOver'
  BY <1>1, <1>2, <1>4 DEF PendingHandOver, Dispatching, Idle, AuthorityInv, DispatchInv
<1>10. AppendedFirst'
  BY <1>1, <1>2, <1>4 DEF AppendedFirst, Idle, AuthorityInv, DispatchInv
<1>. QED BY <1>3, <1>5, <1>6, <1>7, <1>8, <1>9, <1>10 DEF AuthorityInv, DispatchInv

\* The append: a dispatch burns a key that nobody had burned.
LEMMA AppendKeepsInv ==
  ASSUME AuthorityInv, TypeOK', NEW t \in Threads, LedgerAppend(t)
  PROVE  AuthorityInv'
<1>1. /\ UNCHANGED <<commands, keys, seenLock, sink>>
      /\ rpc[t].pc = "append" /\ rpc[t].cmd \in Command
      /\ \A u \in Threads : u # t => rpc'[u] = rpc[u]
      /\ rpc'[t].pc = "index" /\ rpc'[t].op = rpc[t].op /\ rpc'[t].cmd = rpc[t].cmd
  BY DEF LedgerAppend, AtStep, Goto, indexes, AuthorityInv, DispatchInv, TypeOK, Rpc
<1>2. /\ \A c : Recorded(c)' <=> Recorded(c) \/ c = rpc[t].cmd
      /\ ScanKeys' = ScanKeys \cup
           {k \in Keys : rpc[t].cmd.state = "DISPATCHED" /\ rpc[t].cmd.key = k}
  BY LedgerGrows DEF AuthorityInv, DispatchInv
<1>3. rpc[t].op = "dispatch" <=> rpc[t].cmd.state = "DISPATCHED"
  BY <1>1 DEF StepsFitOps, AuthorityInv, DispatchInv
<1>4. rpc[t].cmd.key \in Keys \cup {NoKey}
  BY <1>1 DEF Command
<1>5. rpc[t].op = "dispatch" => rpc[t].cmd.key \notin ScanKeys
  \* The lock is held by t itself, so nobody else guards the key outside keys.
  <2>1. rpc[t].op = "dispatch" => seenLock = t /\ rpc[t].cmd.key \notin keys
    BY <1>1 DEF LockCoversAppend, CheckedKeyFresh, Dispatching, AuthorityInv, DispatchInv
  <2>2. rpc[t].op = "dispatch" => \A u \in Threads : ~Dispatching(u, {"index", "keys"})
    BY <1>1, <2>1 DEF LockCoversAppend, Dispatching, AuthorityInv, DispatchInv
  <2>3. ScanKeys \subseteq Keys
    BY DEF ScanKeys
  <2>. QED BY <2>1, <2>2, <2>3 DEF LedgerKeysGuarded, AuthorityInv, DispatchInv
<1>6. StepsFitOps'
  BY <1>1 DEF StepsFitOps, AuthorityInv, DispatchInv
<1>7. LockCoversAppend'
  BY <1>1 DEF LockCoversAppend, Dispatching, AuthorityInv, DispatchInv
<1>8. LedgerKeysGuarded'
  BY <1>1, <1>2, <1>3 DEF LedgerKeysGuarded, Dispatching, AuthorityInv, DispatchInv
<1>9. CheckedKeyFresh'
  BY <1>1 DEF CheckedKeyFresh, Dispatching, AuthorityInv, DispatchInv
<1>10. PendingHandOver'
  BY <1>1, <1>2, <1>3, <1>4, <1>5
  DEF PendingHandOver, HandedOverBurned, Dispatching, AuthorityInv, DispatchInv
<1>11. HandedOverBurned' /\ KeyDispatchedOnce'
  BY <1>1, <1>2 DEF HandedOverBurned, KeyDispatchedOnce, AuthorityInv, DispatchInv
<1>12. AppendedFirst'
  BY <1>1, <1>2 DEF AppendedFirst, AuthorityInv, DispatchInv
<1>13. DurableFirst'
  BY <1>1, <1>2 DEF DurableFirst, AuthorityInv, DispatchInv
<1>. QED BY <1>6, <1>7, <1>8, <1>9, <1>10, <1>11, <1>12, <1>13 DEF AuthorityInv, DispatchInv

\* A handler that returns, or goes on to its audit line or to an automatic
\* check, from a step that guards no key, and drops the lock if it has it.
LEMMA QuietMoveKeepsInv ==
  ASSUME AuthorityInv, TypeOK', NEW t \in Threads,
         UNCHANGED <<ledger, commands, keys, sink>>,
         \A u \in Threads : u # t => rpc'[u] = rpc[u],
         ~Dispatching(t, {"index", "keys"}),
         \/ rpc'[t] = Idle
         \/ rpc[t].pc # "idle" /\ rpc'[t].pc = "audit" /\ rpc'[t].op = rpc[t].op
                               /\ rpc'[t].cmd = rpc[t].cmd
         \/ rpc'[t].pc = "append" /\ rpc'[t].op = "check" /\ rpc'[t].cmd.state # "DISPATCHED",
         seenLock' = IF seenLock = t THEN NoThread ELSE seenLock
  PROVE  AuthorityInv'
<1>1. DurableFirst' /\ HandedOverBurned' /\ KeyDispatchedOnce'
  BY QuietStep DEF AuthorityInv, DispatchInv
<1>2. ScanKeys' = ScanKeys /\ \A x : Recorded(x)' <=> Recorded(x)
  BY SameLedger
<1>3. StepsFitOps'
  BY DEF StepsFitOps, Idle, AuthorityInv, DispatchInv
<1>4. LockCoversAppend'
  <2>1. NoThread \notin Threads
    BY AuthorityAssumption
  <2>. QED BY <2>1 DEF LockCoversAppend, Dispatching, Idle, AuthorityInv, DispatchInv
<1>5. LedgerKeysGuarded'
  BY <1>2 DEF LedgerKeysGuarded, Dispatching, AuthorityInv, DispatchInv
<1>6. CheckedKeyFresh'
  BY DEF CheckedKeyFresh, Dispatching, Idle, AuthorityInv, DispatchInv
<1>7. PendingHandOver'
  BY <1>2 DEF PendingHandOver, Dispatching, Idle, AuthorityInv, DispatchInv
<1>8. AppendedFirst'
  BY <1>2 DEF AppendedFirst, Idle, AuthorityInv, DispatchInv
<1>. QED BY <1>1, <1>3, <1>4, <1>5, <1>6, <1>7, <1>8 DEF AuthorityInv, DispatchInv

\* The index write shows a record that is on the ledger.
LEMMA PutCommandKeepsInv ==
  ASSUME AuthorityInv, TypeOK', NEW t \in Threads, PutCommand(t)
  PROVE  AuthorityInv'
<1>1. /\ UNCHANGED <<ledger, keys, seenLock, sink>>
      /\ rpc[t].pc = "index" /\ rpc[t].cmd \in Command /\ Recorded(rpc[t].cmd)
      /\ commands' = [commands EXCEPT ![rpc[t].cmd.id] = rpc[t].cmd]
      /\ \A u \in Threads : u # t => rpc'[u] = rpc[u]
      /\ rpc'[t].op = rpc[t].op /\ rpc'[t].cmd = rpc[t].cmd
  BY DEF PutCommand, AtStep, Goto, AuthorityInv, DispatchInv, TypeOK, Rpc, AppendedFirst
<1>2. /\ rpc'[t].pc \in {"proposals", "decisions", "keys", "audit"}
      /\ rpc'[t].pc = "keys" <=> rpc[t].op = "dispatch"
  BY DEF PutCommand, AfterIndex, Goto, AuthorityInv, DispatchInv, TypeOK, Rpc, Ops
<1>3. ScanKeys' = ScanKeys /\ \A x : Recorded(x)' <=> Recorded(x)
  BY <1>1, SameLedger
<1>4. StepsFitOps'
  BY <1>1, <1>2 DEF StepsFitOps, AuthorityInv, DispatchInv
<1>5. LockCoversAppend'
  BY <1>1, <1>2 DEF LockCoversAppend, Dispatching, AuthorityInv, DispatchInv
<1>6. LedgerKeysGuarded'
  BY <1>1, <1>2, <1>3 DEF LedgerKeysGuarded, Dispatching, AuthorityInv, DispatchInv
<1>7. CheckedKeyFresh'
  BY <1>1, <1>2 DEF CheckedKeyFresh, Dispatching, AuthorityInv, DispatchInv
<1>8. PendingHandOver'
  BY <1>1, <1>2, <1>3 DEF PendingHandOver, Dispatching, AuthorityInv, DispatchInv
<1>9. HandedOverBurned' /\ KeyDispatchedOnce'
  BY <1>1, <1>3 DEF HandedOverBurned, KeyDispatchedOnce, AuthorityInv, DispatchInv
<1>10. AppendedFirst'
  BY <1>1, <1>2, <1>3 DEF AppendedFirst, AuthorityInv, DispatchInv
<1>11. DurableFirst'
  <2>1. commands \in [Ids -> Command \cup {NoCommand}]
    BY DEF AuthorityInv, DispatchInv, TypeOK
  <2>. QED BY <1>1, <1>3, <2>1 DEF DurableFirst, AuthorityInv
<1>. QED BY <1>4, <1>5, <1>6, <1>7, <1>8, <1>9, <1>10, <1>11 DEF AuthorityInv, DispatchInv

\* Recording the key passes its protection from the lock to the key set.
LEMMA InsertKeyKeepsInv ==
  ASSUME AuthorityInv, TypeOK', NEW t \in Threads, InsertKey(t)
  PROVE  AuthorityInv'
<1>1. /\ UNCHANGED <<ledger, commands, sink>>
      /\ rpc[t].pc = "keys" /\ rpc[t].op = "dispatch" /\ rpc[t].cmd \in Command
      /\ \A u \in Threads : u # t => rpc'[u] = rpc[u]
      /\ rpc'[t].pc = "sink" /\ rpc'[t].op = rpc[t].op /\ rpc'[t].cmd = rpc[t].cmd
      /\ keys' = IF rpc[t].cmd.key = NoKey THEN keys ELSE keys \cup {rpc[t].cmd.key}
      /\ seenLock' = NoThread /\ NoThread \notin Threads
  BY AuthorityAssumption
  DEF InsertKey, AtStep, Goto, indexes, AuthorityInv, DispatchInv, TypeOK, Rpc, StepsFitOps
<1>2. seenLock = t /\ \A u \in Threads : u # t => ~Dispatching(u, {"append", "index", "keys"})
  BY <1>1 DEF LockCoversAppend, Dispatching, AuthorityInv, DispatchInv
<1>3. ScanKeys' = ScanKeys /\ \A x : Recorded(x)' <=> Recorded(x)
  BY <1>1, SameLedger
<1>4. StepsFitOps'
  BY <1>1 DEF StepsFitOps, AuthorityInv, DispatchInv
<1>5. LockCoversAppend'
  BY <1>1, <1>2 DEF LockCoversAppend, Dispatching
<1>6. LedgerKeysGuarded'
  BY <1>1, <1>3, KeyAssumption DEF LedgerKeysGuarded, Dispatching, AuthorityInv, DispatchInv
<1>7. CheckedKeyFresh'
  BY <1>1, <1>2 DEF CheckedKeyFresh, Dispatching
<1>8. PendingHandOver'
  BY <1>1, <1>3 DEF PendingHandOver, Dispatching, AuthorityInv, DispatchInv
<1>9. HandedOverBurned' /\ KeyDispatchedOnce'
  BY <1>1, <1>3 DEF HandedOverBurned, KeyDispatchedOnce, AuthorityInv, DispatchInv
<1>10. AppendedFirst'
  BY <1>1, <1>3 DEF AppendedFirst, AuthorityInv, DispatchInv
<1>11. DurableFirst'
  <2>1. rpc[t].cmd.key # NoKey => rpc[t].cmd.key \in ScanKeys
    BY <1>1 DEF PendingHandOver, Dispatching, AuthorityInv, DispatchInv
  <2>. QED BY <1>1, <1>3, <2>1 DEF DurableFirst, AuthorityInv
<1>. QED BY <1>4, <1>5, <1>6, <1>7, <1>8, <1>9, <1>10, <1>11 DEF AuthorityInv, DispatchInv

\* The hand-over is the first of its key.
LEMMA HandOffKeepsInv ==
  ASSUME AuthorityInv, TypeOK', NEW t \in Threads, HandOff(t)
  PROVE  AuthorityInv'
<1>1. /\ UNCHANGED <<ledger, commands, keys, seenLock>>
      /\ rpc[t].pc = "sink" /\ rpc[t].op = "dispatch" /\ rpc[t].cmd.state = "DISPATCHED"
      /\ Recorded(rpc[t].cmd)
      /\ \A u \in Threads : u # t => rpc'[u] = rpc[u]
      /\ rpc'[t].pc = "audit" /\ rpc'[t].op = rpc[t].op /\ rpc'[t].cmd = rpc[t].cmd
  BY DEF HandOff, AtStep, Goto, indexes, AuthorityInv, DispatchInv, TypeOK, Rpc, StepsFitOps,
         AppendedFirst
<1>2. /\ DOMAIN sink' = DOMAIN sink \cup {Len(sink) + 1} /\ Len(sink) + 1 \notin DOMAIN sink
      /\ \A i \in DOMAIN sink : sink'[i] = sink[i]
      /\ sink'[Len(sink) + 1] = rpc[t].cmd
  BY <1>1 DEF HandOff, AuthorityInv, DispatchInv, TypeOK
<1>3. rpc[t].cmd.key # NoKey =>
        /\ rpc[t].cmd.key \in ScanKeys
        /\ \A i \in DOMAIN sink : sink[i].key # rpc[t].cmd.key
        /\ \A u \in Threads : Dispatching(u, {"index", "keys", "sink"})
              /\ rpc[u].cmd.key = rpc[t].cmd.key => u = t
  BY <1>1 DEF PendingHandOver, Dispatching, AuthorityInv, DispatchInv
<1>4. ScanKeys' = ScanKeys /\ \A x : Recorded(x)' <=> Recorded(x)
  BY <1>1, SameLedger
<1>5. StepsFitOps'
  BY <1>1 DEF StepsFitOps, AuthorityInv, DispatchInv
<1>6. LockCoversAppend'
  BY <1>1 DEF LockCoversAppend, Dispatching, AuthorityInv, DispatchInv
<1>7. LedgerKeysGuarded'
  BY <1>1, <1>4 DEF LedgerKeysGuarded, Dispatching, AuthorityInv, DispatchInv
<1>8. CheckedKeyFresh'
  BY <1>1 DEF CheckedKeyFresh, Dispatching, AuthorityInv, DispatchInv
<1>9. PendingHandOver'
  BY <1>1, <1>2, <1>3, <1>4 DEF PendingHandOver, Dispatching, AuthorityInv, DispatchInv
<1>10. HandedOverBurned'
  BY <1>2, <1>3, <1>4 DEF HandedOverBurned, AuthorityInv, DispatchInv
<1>11. KeyDispatchedOnce'
  BY <1>2, <1>3 DEF KeyDispatchedOnce, AuthorityInv, DispatchInv
<1>12. AppendedFirst'
  BY <1>1, <1>4 DEF AppendedFirst, AuthorityInv, DispatchInv
<1>13. DurableFirst'
  BY <1>1, <1>2, <1>4 DEF DurableFirst, AuthorityInv
<1>. QED BY <1>5, <1>6, <1>7, <1>8, <1>9, <1>10, <1>11, <1>12, <1>13 DEF AuthorityInv, DispatchInv

\* A restart rebuilds what the invariant says of memory from the ledger.
LEMMA RestartKeepsInv ==
  ASSUME AuthorityInv, TypeOK', CrashRestart
  PROVE  AuthorityInv'
<1>1. /\ UNCHANGED <<ledger, sink>> /\ keys' = ScanKeys /\ seenLock' = NoThread
      /\ \A t \in Threads : rpc'[t].pc = "idle" /\ rpc'[t].op = "none"
      /\ NoThread \notin Threads
  BY AuthorityAssumption DEF CrashRestart, Idle
<1>2. ScanKeys' = ScanKeys /\ \A x : Recorded(x)' <=> Recorded(x)
  BY <1>1, SameLedger
<1>3. StepsFitOps' /\ LockCoversAppend' /\ CheckedKeyFresh' /\ PendingHandOver' /\ AppendedFirst'
  BY <1>1
  DEF StepsFitOps, LockCoversAppend, CheckedKeyFresh, PendingHandOver, AppendedFirst, Dispatching
<1>4. LedgerKeysGuarded'
  BY <1>1, <1>2 DEF LedgerKeysGuarded
<1>5. HandedOverBurned' /\ KeyDispatchedOnce'
  BY <1>1, <1>2 DEF HandedOverBurned, KeyDispatchedOnce, AuthorityInv, DispatchInv
<1>6. DurableFirst'
  <2>1. \A id \in Ids : commands'[id] = ScanCommand(id)
    BY DEF CrashRestart
  <2>2. \A id \in Ids : commands'[id] # NoCommand => Recorded(commands'[id])
    BY <2>1, ScanTypes DEF AuthorityInv, DispatchInv, TypeOK
  <2>. QED BY <1>1, <1>2, <2>2 DEF DurableFirst, AuthorityInv
<1>. QED BY <1>3, <1>4, <1>5, <1>6 DEF AuthorityInv, DispatchInv

\* Every step keeps the invariant.
LEMMA AuthorityStep == AuthorityInv /\ [Next]_vars => AuthorityInv'
<1>. SUFFICES ASSUME AuthorityInv, [Next]_vars PROVE AuthorityInv'
  OBVIOUS
<1>1. TypeOK /\ TypeOK'
  BY TypeStep DEF AuthorityInv, DispatchInv
<1>2. \A t \in Threads : rpc \in [Threads -> Rpc] /\ (Return(t) => rpc'[t] = Idle)
  BY <1>1 DEF TypeOK, Return
<1>3. ASSUME NEW t \in Threads, Call(t) PROVE AuthorityInv'
  BY <1>1, <1>3, CallKeepsInv
<1>4. ASSUME NEW t \in Threads, LockSeen(t) PROVE AuthorityInv'
  BY <1>1, <1>4, LockKeepsInv
<1>5. ASSUME NEW t \in Threads, LedgerAppend(t) PROVE AuthorityInv'
  BY <1>1, <1>5, AppendKeepsInv
<1>6. ASSUME NEW t \in Threads, AppendFails(t) PROVE AuthorityInv'
  BY <1>1, <1>2, <1>6, QuietMoveKeepsInv
  DEF AppendFails, ReleaseOnReturn, AtStep, Return, Dispatching, indexes
<1>7. ASSUME NEW t \in Threads, PutCommand(t) PROVE AuthorityInv'
  BY <1>1, <1>7, PutCommandKeepsInv
<1>8. ASSUME NEW t \in Threads, PutProposal(t) \/ PutDecision(t) \/ Audit(t) \/ AuditFails(t)
      PROVE  AuthorityInv'
  <2>1. UNCHANGED <<ledger, commands, keys, sink, seenLock>>
    BY <1>8 DEF PutProposal, PutDecision, Audit, AuditFails, indexes
  <2>2. rpc[t].pc \in {"proposals", "decisions", "audit"} /\ seenLock # t
    BY <1>8 DEF PutProposal, PutDecision, Audit, AuditFails, AtStep,
                LockCoversAppend, Dispatching, AuthorityInv, DispatchInv
  <2>3. \A u \in Threads : u # t => rpc'[u] = rpc[u]
    BY <1>2, <1>8 DEF PutProposal, PutDecision, Audit, AuditFails, Goto, Return
  <2>4. \/ rpc'[t] = Idle
        \/ rpc'[t].pc = "audit" /\ rpc'[t].op = rpc[t].op /\ rpc'[t].cmd = rpc[t].cmd
        \/ rpc'[t].pc = "append" /\ rpc'[t].op = "check" /\ rpc'[t].cmd.state # "DISPATCHED"
    <3>1. CASE Audit(t) /\ rpc[t].op = "propose"
      <4>1. rpc[t].cmd \in Command
        BY <1>1, <2>2 DEF TypeOK
      <4>2. \A d \in {"allow", "deny"} :
              PushTransition(rpc[t].cmd, Verdict(d), 0).state # "DISPATCHED"
        BY <4>1, PushTransitionType DEF Verdict, CommandStates, AckLevel
      <4>. QED BY <1>2, <3>1, <4>2 DEF Audit
    <3>2. CASE PutProposal(t) \/ PutDecision(t)
      BY <1>2, <3>2 DEF PutProposal, PutDecision, Goto, Rpc
    <3>3. CASE AuditFails(t) \/ (Audit(t) /\ rpc[t].op # "propose")
      BY <1>2, <3>3 DEF AuditFails, Audit
    <3>. QED BY <1>8, <3>1, <3>2, <3>3
  <2>. QED BY <1>1, <2>1, <2>2, <2>3, <2>4, QuietMoveKeepsInv DEF Dispatching
<1>9. ASSUME NEW t \in Threads, InsertKey(t) PROVE AuthorityInv'
  BY <1>1, <1>9, InsertKeyKeepsInv
<1>10. ASSUME NEW t \in Threads, HandOff(t) PROVE AuthorityInv'
  BY <1>1, <1>10, HandOffKeepsInv
<1>11. CASE CrashRestart
  BY <1>1, <1>11, RestartKeepsInv
<1>12. CASE UNCHANGED vars
  <2>1. /\ UNCHANGED <<ledger, commands, keys, sink, seenLock, rpc>>
    BY <1>12 DEF vars, indexes
  <2>2. ScanKeys' = ScanKeys
    BY <2>1, SameLedger
  <2>. QED BY <1>1, <2>1, <2>2, QuietStep
       DEF AuthorityInv, DispatchInv, StepsFitOps, LockCoversAppend, LedgerKeysGuarded,
           CheckedKeyFresh, PendingHandOver, AppendedFirst, Dispatching, Recorded
<1>. QED
  BY <1>3, <1>4, <1>5, <1>6, <1>7, <1>8, <1>9, <1>10, <1>11, <1>12 DEF Next, Handler, NoCall

\* The inductive invariant holds of every reachable state.
THEOREM AuthorityInvariant == Spec => []AuthorityInv
BY AuthorityInit, AuthorityStep, PTL DEF Spec
-----------------------------------------------------------------------------
(* The keys burned before the first start.                                 *)

\* Every step leaves a handler that is past the lock with the command it had
\* there, or has just found that command's key fresh.
LEMMA PastTheLock ==
  ASSUME AuthorityInv, [Next]_vars, NEW t \in Threads,
         Dispatching(t, {"append", "index", "keys", "sink"})'
  PROVE  \/ /\ Dispatching(t, {"append", "index", "keys", "sink"})
            /\ rpc'[t].cmd = rpc[t].cmd
         \/ rpc'[t].cmd.key \notin keys
<1>. DEFINE Past == {"append", "index", "keys", "sink"}
<1>1. TypeOK /\ rpc \in [Threads -> Rpc] /\ keys \subseteq Keys
  BY DEF AuthorityInv, DispatchInv, TypeOK
<1>2. ASSUME NEW u \in Threads, Call(u), u = t PROVE FALSE
  <2>1. PICK pc \in {"append", "lock"}, op \in Ops \ {"none"}, c \in Command, d \in Decisions :
          Begin(u, pc, op, c, d) /\ (pc = "lock" <=> op = "dispatch")
    BY <1>1, <1>2, CallBegins
  <2>2. rpc'[t] = [pc |-> pc, op |-> op, cmd |-> c, decision |-> d]
    BY <1>1, <1>2, <2>1 DEF Begin
  <2>. QED BY <2>1, <2>2 DEF Dispatching
<1>3. ASSUME NEW u \in Threads, LockSeen(u), u = t PROVE rpc'[t].cmd.key \notin keys
  <2>1. rpc[t].cmd \in Command /\ (Duplicate(t) => rpc'[t] = Idle)
        /\ (~Duplicate(t) => rpc'[t].cmd = rpc[t].cmd)
    BY <1>1, <1>3 DEF LockSeen, Goto, Return, AtStep, TypeOK, Rpc
  <2>. QED BY <1>1, <2>1, KeyAssumption DEF Duplicate, Dispatching, Idle
<1>4. ASSUME NEW u \in Threads, u = t,
             LedgerAppend(u) \/ PutCommand(u) \/ InsertKey(u)
      PROVE  Dispatching(t, Past) /\ rpc'[t].cmd = rpc[t].cmd
  <2>1. rpc[t].pc \in Past /\ rpc'[t].op = rpc[t].op /\ rpc'[t].cmd = rpc[t].cmd
    BY <1>1, <1>4 DEF LedgerAppend, PutCommand, InsertKey, Goto, AtStep, Rpc
  <2>. QED BY <2>1 DEF Dispatching
<1>5. ASSUME NEW u \in Threads, u = t,
             AppendFails(u) \/ PutProposal(u) \/ PutDecision(u) \/ HandOff(u) \/ AuditFails(u)
      PROVE  FALSE
  <2>1. rpc'[t].pc \in {"idle", "audit"}
    BY <1>1, <1>5 DEF AppendFails, PutProposal, PutDecision, HandOff, AuditFails, Goto, Return,
                      Idle, Rpc
  <2>. QED BY <2>1 DEF Dispatching
<1>6. ASSUME NEW u \in Threads, u = t, Audit(u) PROVE FALSE
  <2>1. rpc'[t].op \in {"none", "check"}
    BY <1>1, <1>6 DEF Audit, Return, Idle
  <2>. QED BY <2>1 DEF Dispatching
<1>7. ASSUME NEW u \in Threads, u # t, Call(u) \/ Handler(u) PROVE rpc'[t] = rpc[t]
  <2>1. CASE Call(u)
    BY <1>1, <1>7, <2>1, CallBegins DEF Begin
  <2>2. CASE Handler(u)
    BY <1>1, <1>7, <2>2
    DEF Handler, LockSeen, LedgerAppend, AppendFails, PutCommand, PutProposal, PutDecision,
        InsertKey, HandOff, Audit, AuditFails, Goto, Return
  <2>. QED BY <1>7, <2>1, <2>2
<1>8. CASE CrashRestart
  BY <1>8 DEF CrashRestart, Idle, Dispatching
<1>9. CASE NoCall \/ UNCHANGED vars
  BY <1>9 DEF NoCall, vars, Dispatching
<1>10. ASSUME rpc'[t] = rpc[t] PROVE Dispatching(t, Past) /\ rpc'[t].cmd = rpc[t].cmd
  BY <1>10 DEF Dispatching
<1>. QED
  BY <1>2, <1>3, <1>4, <1>5, <1>6, <1>7, <1>8, <1>9, <1>10 DEF Next, Handler

\* No step forgets a key: neither the ledger nor, across a restart, the guard.
LEMMA KeysOnlyGrow ==
  ASSUME AuthorityInv, [Next]_vars
  PROVE  ScanKeys \subseteq ScanKeys' /\ keys \subseteq keys'
<1>1. ASSUME NEW t \in Threads, LedgerAppend(t) PROVE ScanKeys \subseteq ScanKeys'
  BY <1>1, LedgerGrows DEF AuthorityInv, DispatchInv
<1>2. ASSUME ledger' = ledger PROVE ScanKeys \subseteq ScanKeys'
  BY <1>2, SameLedger
<1>3. ASSUME NEW t \in Threads, Call(t) PROVE ledger' = ledger /\ keys' = keys
  <2>1. PICK pc, op, c, d : Begin(t, pc, op, c, d)
    BY <1>3, CallBegins DEF AuthorityInv, DispatchInv
  <2>. QED BY <2>1 DEF Begin
<1>4. ASSUME NEW t \in Threads, Handler(t)
      PROVE  (LedgerAppend(t) \/ ledger' = ledger) /\ keys \subseteq keys'
  BY <1>4 DEF Handler, LockSeen, LedgerAppend, AppendFails, PutCommand, PutProposal, PutDecision,
              InsertKey, HandOff, Audit, AuditFails
<1>5. CASE CrashRestart
  <2>1. ledger' = ledger /\ keys' = ScanKeys /\ keys \subseteq ScanKeys
    BY <1>5 DEF CrashRestart, AuthorityInv, DurableFirst
  <2>. QED BY <1>2, <2>1
<1>6. CASE NoCall \/ UNCHANGED vars
  BY <1>2, <1>6 DEF NoCall, vars
<1>. QED BY <1>1, <1>2, <1>3, <1>4, <1>5, <1>6 DEF Next

\* What is handed over comes from a handler past the lock.
LEMMA SinkGrows ==
  ASSUME AuthorityInv, [Next]_vars
  PROVE  \/ sink' = sink
         \/ \E t \in Threads : Dispatching(t, {"sink"}) /\ sink' = Append(sink, rpc[t].cmd)
<1>1. ASSUME NEW t \in Threads, Call(t) PROVE sink' = sink
  <2>1. PICK pc, op, c, d : Begin(t, pc, op, c, d)
    BY <1>1, CallBegins DEF AuthorityInv, DispatchInv
  <2>. QED BY <2>1 DEF Begin
<1>2. ASSUME NEW t \in Threads, Handler(t)
      PROVE  sink' = sink \/ (Dispatching(t, {"sink"}) /\ sink' = Append(sink, rpc[t].cmd))
  <2>1. HandOff(t) => Dispatching(t, {"sink"}) /\ sink' = Append(sink, rpc[t].cmd)
    BY DEF HandOff, AtStep, Dispatching, StepsFitOps, AuthorityInv, DispatchInv
  <2>. QED BY <1>2, <2>1
       DEF Handler, LockSeen, LedgerAppend, AppendFails, PutCommand, PutProposal, PutDecision,
           InsertKey, Audit, AuditFails
<1>3. CASE CrashRestart \/ NoCall \/ UNCHANGED vars
  BY <1>3 DEF CrashRestart, NoCall, vars
<1>. QED BY <1>1, <1>2, <1>3 DEF Next

\* Every step keeps the keys of earlier lives refused.
LEMMA EarlierKeysStep == AuthorityInv /\ EarlierKeysRefused /\ [Next]_vars => EarlierKeysRefused'
<1>. SUFFICES ASSUME AuthorityInv, EarlierKeysRefused, [Next]_vars PROVE EarlierKeysRefused'
  OBVIOUS
<1>1. OpeningKeys' = OpeningKeys
  BY DEF OpeningKeys
<1>2. (OpeningKeys \subseteq keys \cap ScanKeys)'
  BY <1>1, KeysOnlyGrow DEF EarlierKeysRefused
<1>3. ASSUME NEW t \in Threads, Dispatching(t, {"append", "index", "keys", "sink"})'
      PROVE  rpc'[t].cmd.key \notin OpeningKeys
  BY <1>3, PastTheLock DEF EarlierKeysRefused
<1>4. ASSUME NEW i \in DOMAIN sink' PROVE sink'[i].key \notin OpeningKeys
  <2>1. CASE sink' = sink
    BY <1>4, <2>1 DEF EarlierKeysRefused
  <2>2. CASE \E t \in Threads : Dispatching(t, {"sink"}) /\ sink' = Append(sink, rpc[t].cmd)
    <3>1. PICK t \in Threads : Dispatching(t, {"sink"}) /\ sink' = Append(sink, rpc[t].cmd)
      BY <2>2
    <3>2. rpc[t].cmd.key \notin OpeningKeys
      BY <3>1 DEF Dispatching, EarlierKeysRefused
    <3>3. sink \in Seq(Command)
      BY DEF AuthorityInv, DispatchInv, TypeOK
    <3>4. (i \in DOMAIN sink /\ sink'[i] = sink[i]) \/ sink'[i] = rpc[t].cmd
      BY <1>4, <3>1, <3>3
    <3>. QED BY <3>2, <3>4 DEF EarlierKeysRefused
  <2>. QED BY <2>1, <2>2, SinkGrows
<1>. QED BY <1>1, <1>2, <1>3, <1>4 DEF EarlierKeysRefused

\* A key burned before the service was ever started is never handed over, by
\* whatever id, asset, handler or restart.
THEOREM EarlierKeysStayBurned == Spec => []EarlierKeysRefused
<1>1. Init => EarlierKeysRefused
  BY DEF Init, Idle, Dispatching, EarlierKeysRefused, OpeningKeys, ScanKeys, DispatchedAt
<1>. QED BY <1>1, EarlierKeysStep, AuthorityInvariant, PTL DEF Spec
-----------------------------------------------------------------------------
(* What follows from it.                                                   *)

\* No two hand-overs to the asset ever carry the same non-empty key: whatever
\* the number of threads, restarts, failed writes, re-used ids and shared keys.
THEOREM KeyNeverDispatchedTwice == Spec => []KeyDispatchedOnce
<1>1. AuthorityInv => KeyDispatchedOnce
  BY DEF AuthorityInv, DispatchInv
<1>. QED BY <1>1, AuthorityInvariant, PTL

\* Nothing is shown, burned or handed over before the ledger holds it.
THEOREM NothingAheadOfLedger == Spec => []DurableFirst
<1>1. AuthorityInv => DurableFirst
  BY DEF AuthorityInv
<1>. QED BY <1>1, AuthorityInvariant, PTL

\* Outside a Dispatch the duplicate guard in memory is exactly the one a
\* restart would rebuild.
THEOREM GuardIsRebuildable == Spec => []GuardMatchesLedger
<1>1. AuthorityInv => GuardMatchesLedger
  <2>. SUFFICES ASSUME AuthorityInv, seenLock = NoThread PROVE keys = ScanKeys
    BY DEF GuardMatchesLedger
  <2>1. \A t \in Threads : ~Dispatching(t, {"index", "keys"})
    BY AuthorityAssumption DEF LockCoversAppend, Dispatching, AuthorityInv, DispatchInv
  <2>2. ScanKeys \subseteq keys
    BY <2>1 DEF LedgerKeysGuarded, ScanKeys, AuthorityInv, DispatchInv
  <2>. QED BY <2>2 DEF DurableFirst, AuthorityInv
<1>. QED BY <1>1, AuthorityInvariant, PTL
-----------------------------------------------------------------------------
(* The service implements DispatchOnce: an append of a dispatch under a key *)
(* is a Burn, a hand-over is a Deliver, every other step stutters.          *)

\* An append either burns one fresh key or none.
LEMMA AppendBurns ==
  ASSUME AuthorityInv, NEW t \in Threads, LedgerAppend(t)
  PROVE  ScanKeys' = ScanKeys \/ \E k \in Keys \ ScanKeys : ScanKeys' = ScanKeys \cup {k}
<1>1. ScanKeys' = ScanKeys \cup
        {k \in Keys : rpc[t].cmd.state = "DISPATCHED" /\ rpc[t].cmd.key = k}
  BY LedgerGrows DEF AuthorityInv, DispatchInv
<1>2. CASE rpc[t].cmd.state = "DISPATCHED" /\ rpc[t].cmd.key \in Keys \ ScanKeys
  <2>1. ScanKeys' = ScanKeys \cup {rpc[t].cmd.key}
    BY <1>1, <1>2
  <2>. QED BY <1>2, <2>1
<1>3. CASE ~(rpc[t].cmd.state = "DISPATCHED" /\ rpc[t].cmd.key \in Keys \ ScanKeys)
  BY <1>1, <1>3
<1>. QED BY <1>2, <1>3

\* Every step of the service is a step of the promise.
LEMMA PromiseStep ==
  AuthorityInv /\ EarlierKeysRefused /\ [Next]_vars => [Once!DNext]_(Once!dvars)
<1>. SUFFICES ASSUME AuthorityInv, EarlierKeysRefused, [Next]_vars
              PROVE  \/ UNCHANGED <<ScanKeys, sink>>
                     \/ Once!DNext
  BY DEF Once!dvars
<1>1. ASSUME NEW t \in Threads, LedgerAppend(t)
      PROVE  UNCHANGED <<ScanKeys, sink>> \/ Once!DNext
  <2>1. sink' = sink
    BY <1>1 DEF LedgerAppend
  <2>2. ScanKeys' = ScanKeys \/ \E k \in Keys \ ScanKeys : ScanKeys' = ScanKeys \cup {k}
    BY <1>1, AppendBurns
  <2>. QED BY <2>1, <2>2 DEF Once!DNext, Once!Burn
<1>2. ASSUME NEW t \in Threads, HandOff(t)
      PROVE  Once!DNext
  <2>1. /\ rpc[t].pc = "sink" /\ rpc[t].op = "dispatch" /\ rpc[t].cmd \in Command
        /\ sink \in Seq(Command) /\ sink' = Append(sink, rpc[t].cmd)
    BY <1>2 DEF HandOff, AtStep, AuthorityInv, DispatchInv, TypeOK, StepsFitOps
  <2>2. Len(sink') = Len(sink) + 1 /\ sink'[Len(sink')] = rpc[t].cmd
    BY <2>1
  <2>3. rpc[t].cmd.key # NoKey =>
          /\ rpc[t].cmd.key \in ScanKeys \ OpeningKeys
          /\ \A i \in DOMAIN sink : sink[i].key # rpc[t].cmd.key
    BY <2>1 DEF PendingHandOver, EarlierKeysRefused, Dispatching, AuthorityInv, DispatchInv
  <2>4. ScanKeys' = ScanKeys
    BY <1>2, SameLedger DEF HandOff
  <2>. QED BY <2>1, <2>2, <2>3, <2>4 DEF Once!DNext, Once!Deliver, Once!DeliveredKey
<1>3. ASSUME ledger' = ledger, sink' = sink PROVE UNCHANGED <<ScanKeys, sink>>
  BY <1>3, SameLedger
<1>4. ASSUME NEW t \in Threads, Call(t) PROVE ledger' = ledger /\ sink' = sink
  <2>1. PICK pc, op, c, d : Begin(t, pc, op, c, d)
    BY <1>4, CallBegins DEF AuthorityInv, DispatchInv
  <2>. QED BY <2>1 DEF Begin
<1>5. ASSUME NEW t \in Threads, Handler(t)
      PROVE  LedgerAppend(t) \/ HandOff(t) \/ (ledger' = ledger /\ sink' = sink)
  BY <1>5 DEF Handler, LockSeen, AppendFails, PutCommand, PutProposal, PutDecision, InsertKey,
              Audit, AuditFails
<1>6. ASSUME CrashRestart \/ NoCall \/ UNCHANGED vars PROVE ledger' = ledger /\ sink' = sink
  BY <1>6 DEF CrashRestart, NoCall, vars
<1>. QED BY <1>1, <1>2, <1>3, <1>4, <1>5, <1>6 DEF Next

\* The service keeps the promise it makes the asset, for every opening ledger:
\* keys are burned on the ledger first and delivered at most once.
THEOREM ServiceImplementsPromise == Spec => DispatchOncePromise
<1>1. Init => Once!DInit
  BY DEF Init, Once!DInit, ScanKeys, DispatchedAt, OpeningKeys
<1>. QED
  BY <1>1, PromiseStep, AuthorityInvariant, EarlierKeysStayBurned, PTL
  DEF Spec, DispatchOncePromise, Once!DSpec

-----------------------------------------------------------------------------
(***************************************************************************)
(* The life of a command.  Under clients that keep to one RPC at a time    *)
(* per command and never re-use an id, for every number of threads,        *)
(* commands and assets: the live index is what a restart would rebuild,    *)
(* and the ledger tells one life per command (CommandLifecycle).           *)
(***************************************************************************)

\* The clients the two results are about.
DisciplinedClients == OneRpcPerCommand /\ ~ClientsReuseIds

\* A record stands in the file of its command's entity (ledger.rs, append).
FiledByEntity(L) == \A e \in Entities : \A i \in DOMAIN L[e] : L[e][i].cmd.entity = e

\* d is what an edge makes of c, or a first proposal when there is no c.
Follows(c, d) == IF c = NoCommand THEN Lives!Born(d.id, d) ELSE Lives!Moved(c, d)

\* What a running handler knows of its command.  Up to the append it carries
\* the successor of what the ledger says; from then on the ledger says what it
\* carries.  The indexes lag behind the ledger only between append and write.
Unproposed(t) == rpc[t].op = "propose" /\ rpc[t].pc \in {"index", "proposals"}
View(t) ==
  LET c == rpc[t].cmd
  IN /\ IF rpc[t].pc \in {"lock", "append"} THEN Follows(ScanCommand(c.id), c)
                                            ELSE ScanCommand(c.id) = c
     /\ rpc[t].pc # "index" => commands[c.id] = ScanCommand(c.id)
     /\ IF Unproposed(t) THEN ScanProposal(c.id) = c
                         ELSE proposals[c.id] = ScanProposal(c.id)
     /\ rpc[t].pc = "proposals" => rpc[t].op = "propose"
     /\ rpc[t].op = "propose" =>
          c.state = "PROPOSED" /\ (rpc[t].pc = "append" => ScanCommand(c.id) = NoCommand)
     /\ rpc[t].op = "propose" => rpc[t].pc # "lock"

OneEach ==
  \A t, u \in Threads :
    ~AtStep(t, "idle") /\ ~AtStep(u, "idle") /\ rpc[t].cmd.id = rpc[u].cmd.id => t = u

LifeInv ==
  /\ FiledByEntity(ledger) /\ OneEach /\ IndexMatchesLedger
  /\ \A t \in Threads : ~AtStep(t, "idle") => View(t)
-----------------------------------------------------------------------------
(* Where a scan's first and last records are.                              *)

TopFile(F) == CHOOSE e \in F : \A f \in F : FileRank[f] <= FileRank[e]
LowFile(F) == CHOOSE e \in F : \A f \in F : FileRank[e] <= FileRank[f]
Newest(S) == CHOOSE i \in S : \A j \in S : j <= i
Oldest(S) == CHOOSE i \in S : \A j \in S : i <= j

IdHits(L, id) == [e \in Entities |-> {i \in DOMAIN L[e] : L[e][i].cmd.id = id}]
ProposalHits(L, id) ==
  [e \in Entities |-> {i \in DOMAIN L[e] : L[e][i].cmd.id = id /\ L[e][i].proposal}]

\* The two scans as functions of the ledger they read.
Latest(L, id) ==
  LET H == IdHits(L, id)
  IN IF Files(H) = {} THEN NoCommand ELSE L[TopFile(Files(H))][Newest(H[TopFile(Files(H))])].cmd
FirstProposal(L, id) ==
  LET H == ProposalHits(L, id)
  IN IF Files(H) = {} THEN NoCommand ELSE L[LowFile(Files(H))][Oldest(H[LowFile(Files(H))])].cmd

\* Both scans depend on nothing but the ledger.
LEMMA ScansRead ==
  ASSUME NEW id
  PROVE  /\ OfCommand(id) = IdHits(ledger, id)
         /\ ScanCommand(id) = Latest(ledger, id)
         /\ ScanCommand(id)' = Latest(ledger', id)
         /\ ScanProposal(id) = FirstProposal(ledger, id)
         /\ ScanProposal(id)' = FirstProposal(ledger', id)
<1>1. /\ OfCommand(id) = IdHits(ledger, id)
      /\ OfCommand(id)' = IdHits(ledger', id)
  BY DEF OfCommand, Hits, IdHits
<1>2. /\ ProposalsOf(id) = ProposalHits(ledger, id)
      /\ ProposalsOf(id)' = ProposalHits(ledger', id)
  BY DEF ProposalsOf, Hits, ProposalHits
<1>3. /\ ScanCommand(id) = Latest(ledger, id)
      /\ ScanCommand(id)' = Latest(ledger', id)
  BY <1>1 DEF ScanCommand, LastRead, Latest, TopFile, Newest
<1>4. /\ ScanProposal(id) = FirstProposal(ledger, id)
      /\ ScanProposal(id)' = FirstProposal(ledger', id)
  BY <1>2 DEF ScanProposal, FirstRead, FirstProposal, LowFile, Oldest
<1>. QED BY <1>1, <1>3, <1>4

LEMMA RanksAreNat == FileRank \in [Entities -> Nat]
BY AuthorityAssumption

\* The file that a scan reads last is the one of the greatest rank.
LEMMA TopIs ==
  ASSUME NEW F \in SUBSET Entities, NEW e \in F, \A f \in F : FileRank[f] <= FileRank[e]
  PROVE  TopFile(F) = e
<1>1. FileRank \in [Entities -> Nat] /\ \A a, b \in Entities : FileRank[a] = FileRank[b] => a = b
  BY AuthorityAssumption
<1>2. \A g \in F : (\A f \in F : FileRank[f] <= FileRank[g]) => g = e
  BY <1>1
<1>. QED BY <1>2 DEF TopFile

\* There is one, if there is a file at all.
LEMMA TopExists ==
  ASSUME NEW F \in SUBSET Entities, F # {}
  PROVE  TopFile(F) \in F /\ \A f \in F : FileRank[f] <= FileRank[TopFile(F)]
<1>. DEFINE Ranks == {FileRank[e] : e \in F}
<1>1. /\ Cardinality(Entities) \in Nat
      /\ FileRank \in [Entities -> 1..Cardinality(Entities)]
  BY AuthorityAssumption, FS_CardinalityType
<1>2. Ranks \in SUBSET (0..Cardinality(Entities)) /\ Ranks # {}
  BY <1>1
<1>3. PICK m \in Ranks : \A r \in Ranks : r <= m
  BY <1>1, <1>2, GreatestExists
<1>4. PICK e \in F : \A f \in F : FileRank[f] <= FileRank[e]
  BY <1>3
<1>. QED BY <1>4 DEF TopFile

\* The last record of a file is the newest.
LEMMA NewestIs ==
  ASSUME NEW S \in SUBSET Nat, NEW n \in S, \A j \in S : j <= n
  PROVE  Newest(S) = n
<1>1. \A i \in S : (\A j \in S : j <= i) => i = n
  OBVIOUS
<1>. QED BY <1>1 DEF Newest

LEMMA NewestExists ==
  ASSUME NEW n \in Nat, NEW S \in SUBSET (0..n), S # {}
  PROVE  Newest(S) \in S
<1>1. PICK m \in S : \A i \in S : i <= m
  BY GreatestExists
<1>. QED BY <1>1 DEF Newest

\* A command that the ledger knows is typed, under its id, and stands in the
\* last of the files that mention it.
LEMMA LatestStands ==
  ASSUME NEW L \in [Entities -> Seq(Record)], FiledByEntity(L), NEW id \in Ids,
         Files(IdHits(L, id)) # {}
  PROVE  /\ Latest(L, id) \in Command
         /\ Latest(L, id).id = id
         /\ Latest(L, id).entity \in Entities
         /\ \A f \in Files(IdHits(L, id)) : FileRank[f] <= FileRank[Latest(L, id).entity]
<1>. DEFINE H == IdHits(L, id)
            e == TopFile(Files(H))
            i == Newest(H[e])
<1>1. Files(H) \in SUBSET Entities
  BY DEF Files
<1>2. e \in Files(H) /\ \A f \in Files(H) : FileRank[f] <= FileRank[e]
  BY <1>1, TopExists
<1>3. e \in Entities /\ H[e] # {} /\ H[e] = {k \in DOMAIN L[e] : L[e][k].cmd.id = id}
  BY <1>1, <1>2 DEF Files, IdHits
<1>4. Len(L[e]) \in Nat /\ DOMAIN L[e] = 1..Len(L[e])
  BY <1>3
<1>5. H[e] \in SUBSET (0..Len(L[e]))
  BY <1>3, <1>4
<1>6. i \in H[e]
  <2>. HIDE DEF H, e
  <2>. QED BY <1>3, <1>4, <1>5, NewestExists
<1>7. Latest(L, id) = L[e][i].cmd
  BY DEF Latest
<1>. HIDE DEF i, e, H
<1>8. i \in DOMAIN L[e] /\ L[e][i].cmd.id = id /\ L[e][i].cmd.entity = e /\ L[e][i] \in Record
  BY <1>3, <1>4, <1>6 DEF FiledByEntity
<1>9. L[e][i].cmd \in Command
  BY <1>8 DEF Record
<1>10. \A f \in Files(H) : FileRank[f] <= FileRank[L[e][i].cmd.entity]
  BY <1>2, <1>8
<1>. QED BY <1>3, <1>7, <1>8, <1>9, <1>10 DEF H

\* The same of the scan that keeps the first record.
LEMMA LowExists ==
  ASSUME NEW F \in SUBSET Entities, F # {}
  PROVE  LowFile(F) \in F
<1>. DEFINE Ranks == {FileRank[e] : e \in F}
<1>1. FileRank \in [Entities -> Nat]
  BY AuthorityAssumption
<1>2. Ranks \in SUBSET Nat /\ Ranks # {}
  BY <1>1
<1>3. PICK m \in Ranks : \A r \in Ranks : m <= r
  BY <1>2, LeastExists
<1>4. PICK e \in F : \A f \in F : FileRank[e] <= FileRank[f]
  BY <1>3
<1>. QED BY <1>4 DEF LowFile

LEMMA OldestExists ==
  ASSUME NEW S \in SUBSET Nat, S # {}
  PROVE  Oldest(S) \in S
<1>1. PICK m \in S : \A i \in S : m <= i
  BY LeastExists
<1>. QED BY <1>1 DEF Oldest

\* Hits that an append leaves alone are read as before.
LEMMA SameHits ==
  ASSUME NEW L \in [Entities -> Seq(Record)], NEW M,
         NEW H \in [Entities -> SUBSET Nat],
         \A e \in Entities : \A i \in DOMAIN L[e] : M[e][i] = L[e][i],
         \A e \in Entities : H[e] \subseteq DOMAIN L[e],
         Files(H) # {}
  PROVE  /\ M[TopFile(Files(H))][Newest(H[TopFile(Files(H))])]
              = L[TopFile(Files(H))][Newest(H[TopFile(Files(H))])]
         /\ M[LowFile(Files(H))][Oldest(H[LowFile(Files(H))])]
              = L[LowFile(Files(H))][Oldest(H[LowFile(Files(H))])]
<1>1. Files(H) \in SUBSET Entities /\ \A e \in Files(H) : H[e] # {}
  BY DEF Files
<1>2. TopFile(Files(H)) \in Files(H) /\ LowFile(Files(H)) \in Files(H)
  BY <1>1, TopExists, LowExists
<1>3. ASSUME NEW e \in Files(H) PROVE Newest(H[e]) \in DOMAIN L[e] /\ Oldest(H[e]) \in DOMAIN L[e]
  <2>1. e \in Entities /\ H[e] # {} /\ H[e] \subseteq DOMAIN L[e] /\ H[e] \in SUBSET Nat
    BY <1>1
  <2>2. Len(L[e]) \in Nat /\ DOMAIN L[e] = 1..Len(L[e])
    BY <2>1
  <2>3. H[e] \in SUBSET (0..Len(L[e]))
    BY <2>1, <2>2
  <2>. QED BY <2>1, <2>2, <2>3, NewestExists, OldestExists
<1>. QED BY <1>1, <1>2, <1>3

LEMMA SameLatest ==
  ASSUME NEW L \in [Entities -> Seq(Record)], NEW M, NEW id,
         \A e \in Entities : \A i \in DOMAIN L[e] : M[e][i] = L[e][i],
         IdHits(M, id) = IdHits(L, id)
  PROVE  Latest(M, id) = Latest(L, id)
<1>. DEFINE H == IdHits(L, id)
<1>1. /\ H \in [Entities -> SUBSET Nat]
      /\ \A e \in Entities : H[e] \subseteq DOMAIN L[e]
  BY DEF IdHits
<1>2. Latest(L, id) = IF Files(H) = {} THEN NoCommand
                  ELSE L[TopFile(Files(H))][Newest(H[TopFile(Files(H))])].cmd
  BY DEF Latest
<1>3. Latest(M, id) = IF Files(H) = {} THEN NoCommand
                  ELSE M[TopFile(Files(H))][Newest(H[TopFile(Files(H))])].cmd
  BY DEF Latest
<1>. HIDE DEF H
<1>4. Files(H) # {} => M[TopFile(Files(H))][Newest(H[TopFile(Files(H))])]
                       = L[TopFile(Files(H))][Newest(H[TopFile(Files(H))])]
  BY <1>1, SameHits
<1>. QED BY <1>2, <1>3, <1>4

LEMMA SameFirstProposal ==
  ASSUME NEW L \in [Entities -> Seq(Record)], NEW M, NEW id,
         \A e \in Entities : \A i \in DOMAIN L[e] : M[e][i] = L[e][i],
         ProposalHits(M, id) = ProposalHits(L, id)
  PROVE  FirstProposal(M, id) = FirstProposal(L, id)
<1>. DEFINE H == ProposalHits(L, id)
<1>1. /\ H \in [Entities -> SUBSET Nat]
      /\ \A e \in Entities : H[e] \subseteq DOMAIN L[e]
  BY DEF ProposalHits
<1>2. FirstProposal(L, id) = IF Files(H) = {} THEN NoCommand
                  ELSE L[LowFile(Files(H))][Oldest(H[LowFile(Files(H))])].cmd
  BY DEF FirstProposal
<1>3. FirstProposal(M, id) = IF Files(H) = {} THEN NoCommand
                  ELSE M[LowFile(Files(H))][Oldest(H[LowFile(Files(H))])].cmd
  BY DEF FirstProposal
<1>. HIDE DEF H
<1>4. Files(H) # {} => M[LowFile(Files(H))][Oldest(H[LowFile(Files(H))])]
                       = L[LowFile(Files(H))][Oldest(H[LowFile(Files(H))])]
  BY <1>1, SameHits
<1>. QED BY <1>2, <1>3, <1>4

\* What an append does to the records, one by one: n is the new one's place.
Longer(L, M, a, r, n) ==
  /\ n \in Nat \ DOMAIN L[a]
  /\ DOMAIN M[a] = DOMAIN L[a] \cup {n}
  /\ \A i \in DOMAIN L[a] : M[a][i] = L[a][i] /\ i \in Nat /\ i <= n
  /\ M[a][n] = r
  /\ \A e \in Entities : e # a => M[e] = L[e]

LEMMA AppendIsLonger ==
  ASSUME NEW L \in [Entities -> Seq(Record)], NEW r \in Record, NEW a \in Entities
  PROVE  Longer(L, [L EXCEPT ![a] = Append(L[a], r)], a, r, Len(L[a]) + 1)
<1>. DEFINE M == [L EXCEPT ![a] = Append(L[a], r)]
<1>1. L[a] \in Seq(Record) /\ Len(L[a]) \in Nat /\ DOMAIN L[a] = 1..Len(L[a])
  OBVIOUS
<1>2. M[a] = Append(L[a], r) /\ \A e \in Entities : e # a => M[e] = L[e]
  OBVIOUS
<1>. HIDE DEF M
<1>. QED BY <1>1, <1>2 DEF Longer, M

\* What the scans read after an append of r made M out of L: it is the last word
\* on its command, the first proposal of it when there was no record before, and
\* nothing to any other command.
ReadsAppend(L, M, r) ==
  /\ FiledByEntity(M)
  /\ Latest(M, r.cmd.id) = r.cmd
  /\ \A id : id # r.cmd.id => Latest(M, id) = Latest(L, id)
  /\ \A id : id # r.cmd.id \/ ~r.proposal => FirstProposal(M, id) = FirstProposal(L, id)
  /\ r.proposal /\ Files(IdHits(L, r.cmd.id)) = {} => FirstProposal(M, r.cmd.id) = r.cmd

\* So it is when no file after that of its entity mentions the command.
LEMMA AppendScans ==
  ASSUME NEW L \in [Entities -> Seq(Record)], FiledByEntity(L),
         NEW r \in Record, NEW a \in Entities, r.cmd.entity = a,
         \A f \in Files(IdHits(L, r.cmd.id)) : FileRank[f] <= FileRank[a],
         NEW M, NEW n, Longer(L, M, a, r, n)
  PROVE  ReadsAppend(L, M, r)
<1>2. /\ DOMAIN M[a] = DOMAIN L[a] \cup {n} /\ n \notin DOMAIN L[a] /\ n \in Nat
      /\ \A i \in DOMAIN L[a] : M[a][i] = L[a][i] /\ i \in Nat /\ i <= n
      /\ M[a][n] = r
      /\ \A e \in Entities : e # a => M[e] = L[e]
  BY DEF Longer
<1>3. \A e \in Entities : \A i \in DOMAIN L[e] : M[e][i] = L[e][i]
  BY <1>2
<1>4. FiledByEntity(M)
  BY <1>2 DEF FiledByEntity
<1>5. ASSUME NEW id
      PROVE  /\ IdHits(L, id) \in [Entities -> SUBSET Nat]
             /\ \A e \in Entities : IdHits(L, id)[e] \subseteq DOMAIN L[e]
             /\ ProposalHits(L, id) \in [Entities -> SUBSET Nat]
             /\ \A e \in Entities : ProposalHits(L, id)[e] \subseteq DOMAIN L[e]
  BY DEF IdHits, ProposalHits
<1>6. ASSUME NEW id, id # r.cmd.id PROVE Latest(M, id) = Latest(L, id)
  <2>1. IdHits(M, id) = IdHits(L, id)
    <3>1. \A e \in Entities : {i \in DOMAIN M[e] : M[e][i].cmd.id = id}
                                = {i \in DOMAIN L[e] : L[e][i].cmd.id = id}
      BY <1>2, <1>6
    <3>. QED BY <3>1 DEF IdHits
  <2>. QED BY <1>3, <2>1, SameLatest
<1>7. ASSUME NEW id, id # r.cmd.id \/ ~r.proposal PROVE FirstProposal(M, id) = FirstProposal(L, id)
  <2>1. ProposalHits(M, id) = ProposalHits(L, id)
    <3>1. \A e \in Entities : {i \in DOMAIN M[e] : M[e][i].cmd.id = id /\ M[e][i].proposal}
                                = {i \in DOMAIN L[e] : L[e][i].cmd.id = id /\ L[e][i].proposal}
      BY <1>2, <1>7
    <3>. QED BY <3>1 DEF ProposalHits
  <2>. QED BY <1>3, <2>1, SameFirstProposal
<1>8. Latest(M, r.cmd.id) = r.cmd
  <2>. DEFINE G == IdHits(M, r.cmd.id)
              H == IdHits(L, r.cmd.id)
  <2>1. /\ G[a] = H[a] \cup {n} /\ H[a] \subseteq DOMAIN L[a]
        /\ \A e \in Entities : e # a => G[e] = H[e]
    BY <1>2 DEF IdHits
  <2>2. Files(G) = Files(H) \cup {a}
    BY <2>1 DEF Files
  <2>3. \A f \in Files(H) : FileRank[f] <= FileRank[a]
    OBVIOUS
  <2>4. FileRank[a] \in Nat /\ Files(G) \in SUBSET Entities
    BY RanksAreNat DEF Files
  <2>5. Latest(M, r.cmd.id) =
          IF Files(G) = {} THEN NoCommand
          ELSE M[TopFile(Files(G))][Newest(G[TopFile(Files(G))])].cmd
    BY DEF Latest
  <2>. HIDE DEF G, H
  <2>6. \A f \in Files(G) : FileRank[f] <= FileRank[a]
    BY <2>2, <2>3, <2>4
  <2>7. TopFile(Files(G)) = a
    BY <2>2, <2>4, <2>6, TopIs
  <2>8. G[a] \in SUBSET Nat /\ n \in G[a] /\ \A j \in G[a] : j <= n
    BY <1>2, <2>1
  <2>9. Newest(G[a]) = n
    BY <2>8, NewestIs
  <2>. QED BY <1>2, <2>2, <2>5, <2>7, <2>9
<1>9. ASSUME r.proposal, Files(IdHits(L, r.cmd.id)) = {} PROVE FirstProposal(M, r.cmd.id) = r.cmd
  <2>. DEFINE G == ProposalHits(M, r.cmd.id)
  <2>1. \A e \in Entities : \A i \in DOMAIN L[e] : L[e][i].cmd.id # r.cmd.id
    BY <1>9 DEF Files, IdHits
  <2>2. G[a] = {n} /\ \A e \in Entities : e # a => G[e] = {}
    BY <1>2, <1>9, <2>1 DEF ProposalHits
  <2>3. Files(G) = {a}
    BY <2>2 DEF Files
  <2>4. FirstProposal(M, r.cmd.id) =
          IF Files(G) = {} THEN NoCommand
          ELSE M[LowFile(Files(G))][Oldest(G[LowFile(Files(G))])].cmd
    BY DEF FirstProposal
  <2>. HIDE DEF G
  <2>5. LowFile({a}) = a
    <3>1. {a} \in SUBSET Entities /\ {a} # {}
      OBVIOUS
    <3>2. LowFile({a}) \in {a}
      BY <3>1, LowExists
    <3>. QED BY <3>2
  <2>6. Oldest({n}) = n
    <3>1. {n} \in SUBSET Nat /\ {n} # {}
      BY <1>2
    <3>2. Oldest({n}) \in {n}
      BY <3>1, OldestExists
    <3>. QED BY <3>2
  <2>7. G[LowFile(Files(G))] = {n} /\ LowFile(Files(G)) = a
    BY <2>2, <2>3, <2>5
  <2>8. FirstProposal(M, r.cmd.id) = M[a][n].cmd
    BY <2>3, <2>4, <2>6, <2>7
  <2>. QED BY <1>2, <2>8
<1>. QED BY <1>4, <1>6, <1>7, <1>8, <1>9 DEF ReadsAppend
-----------------------------------------------------------------------------
(* Edges.                                                                  *)

\* An edge never changes which command it is, nor its asset.
LEMMA MovedKeeps ==
  ASSUME NEW c \in Command, NEW d, Lives!Moved(c, d)
  PROVE  d.id = c.id /\ d.entity = c.entity
<1>1. d = [c EXCEPT !.state = d.state, !.level = d.level, !.steps = @ + 1]
  BY DEF Lives!Moved, Lives!PushTransition
<1>. QED BY <1>1 DEF Command

\* What the guard of a handler allows is a move of the life.
LEMMA EdgeMoves ==
  ASSUME NEW c \in Command, NEW to \in DOMAIN LegalFrom, NEW level \in AckLevel,
         EdgeAllowed(c, to, level)
  PROVE  /\ Follows(c, PushTransition(c, to, level))
         /\ PushTransition(c, to, level).id = c.id
<1>. DEFINE d == PushTransition(c, to, level)
<1>1. d = [c EXCEPT !.state = to, !.level = level, !.steps = c.steps + 1]
  BY DEF PushTransition
<1>2. d.id = c.id /\ d.state = to /\ d.level = level
  BY <1>1 DEF Command
<1>3. d = Lives!PushTransition(c, d.state, d.level)
  BY <1>1, <1>2 DEF Lives!PushTransition
<1>4. d.state \in DOMAIN Lives!LegalFrom /\ Lives!EdgeAllowed(c, d.state, d.level)
  BY <1>2 DEF Lives!EdgeAllowed, Lives!LegalFrom, EdgeAllowed, LegalFrom
<1>5. c # NoCommand
  BY AuthorityAssumption
<1>. HIDE DEF d
<1>. QED BY <1>2, <1>3, <1>4, <1>5 DEF Follows, Lives!Moved, d

\* A first proposal begins a life.
LEMMA ProposalBorn ==
  ASSUME NEW id \in Ids, NEW e \in Entities, NEW k \in Keys \cup {NoKey}
  PROVE  LET c == PushTransition(Fresh(id, e, k), "PROPOSED", 0)
         IN c.id = id /\ c.state = "PROPOSED" /\ Follows(NoCommand, c)
<1>. DEFINE c == PushTransition(Fresh(id, e, k), "PROPOSED", 0)
<1>1. c.id = id /\ c.entity = e /\ c.key = k /\ c.state = "PROPOSED"
  <2>. DEFINE f == Fresh(id, e, k)
  <2>1. f \in [id : Ids, entity : Entities, key : Keys \cup {NoKey}, state : {"UNSPECIFIED"},
               level : {0}, steps : {0}] /\ f.id = id /\ f.entity = e /\ f.key = k
    BY DEF Fresh
  <2>2. c = [f EXCEPT !.state = "PROPOSED", !.level = 0, !.steps = f.steps + 1]
    BY DEF PushTransition
  <2>. HIDE DEF f, c
  <2>. QED BY <2>1, <2>2
<1>2. c = Lives!PushTransition(Lives!Fresh(id, e, k), "PROPOSED", 0)
  BY Zenon DEF Lives!PushTransition, Lives!Fresh, PushTransition, Fresh
<1>. HIDE DEF c
<1>. QED BY <1>1, <1>2 DEF Follows, Lives!Born, c
-----------------------------------------------------------------------------
(* Steps.                                                                  *)

LEMMA SameScans ==
  ASSUME ledger' = ledger, NEW id
  PROVE  ScanCommand(id)' = ScanCommand(id) /\ ScanProposal(id)' = ScanProposal(id)
BY ScansRead

\* A command without a record is absent from the scan, and no other is.
LEMMA AbsentHasNoFile ==
  ASSUME TypeOK, FiledByEntity(ledger), NEW id \in Ids
  PROVE  ScanCommand(id) = NoCommand <=> Files(IdHits(ledger, id)) = {}
<1>1. ledger \in [Entities -> Seq(Record)] /\ NoCommand \notin Command
  BY AuthorityAssumption DEF TypeOK
<1>2. Files(IdHits(ledger, id)) # {} => Latest(ledger, id) \in Command
  BY <1>1, LatestStands
<1>3. Files(IdHits(ledger, id)) = {} => Latest(ledger, id) = NoCommand
  BY DEF Latest
<1>. QED BY <1>1, <1>2, <1>3, ScansRead

\* Every RPC begins on a command nobody else works on, with the successor of
\* what the ledger says of it.
LEMMA CallFollows ==
  ASSUME DisciplinedClients, TypeOK, LifeInv, NEW t \in Threads, Call(t)
  PROVE  \E pc \in {"append", "lock"}, op \in Ops \ {"none"}, c \in Command, d \in Decisions :
           /\ Begin(t, pc, op, c, d)
           /\ ~InFlight(c.id)
           /\ Follows(ScanCommand(c.id), c)
           /\ op = "propose" =>
                pc = "append" /\ c.state = "PROPOSED" /\ ScanCommand(c.id) = NoCommand
<1>1. CASE Propose(t)
  <2>1. PICK id \in Ids, e \in Entities, k \in Keys \cup {NoKey} :
          /\ MayCall(id)
          /\ Files(OfCommand(id)) = {}
          /\ Begin(t, "append", "propose", PushTransition(Fresh(id, e, k), "PROPOSED", 0), "none")
    BY <1>1 DEF Propose, DisciplinedClients
  <2>. DEFINE c == PushTransition(Fresh(id, e, k), "PROPOSED", 0)
  <2>2. Fresh(id, e, k) \in Command
    BY DEF Fresh, Command, CommandStates, AckLevel
  <2>3. c \in Command
    BY <2>2, PushTransitionType DEF CommandStates, AckLevel
  <2>4. c.id = id /\ c.state = "PROPOSED" /\ Follows(NoCommand, c)
    BY ProposalBorn
  <2>5. ScanCommand(id) = NoCommand
    BY <2>1 DEF ScanCommand
  <2>6. ~InFlight(id)
    BY <2>1 DEF MayCall, DisciplinedClients
  <2>. HIDE DEF c
  <2>7. Begin(t, "append", "propose", c, "none")
    BY <2>1 DEF c
  <2>. QED BY <2>3, <2>4, <2>5, <2>6, <2>7 DEF Ops, Decisions
<1>2. ASSUME NEW id \in Ids, NEW pc \in {"append", "lock"}, NEW op \in Ops \ {"none", "propose"},
             NEW to \in DOMAIN LegalFrom, NEW level \in AckLevel, NEW d \in Decisions,
             OnSnapshot(t, id, pc, op, to, level, d)
      PROVE  \E c \in Command : /\ Begin(t, pc, op, c, d)
                                /\ ~InFlight(c.id)
                                /\ Follows(ScanCommand(c.id), c)
  <2>1. /\ commands[id] \in Command /\ ~InFlight(id) /\ EdgeAllowed(commands[id], to, level)
        /\ Begin(t, pc, op, PushTransition(commands[id], to, level), d)
    BY <1>2 DEF OnSnapshot, MayCall, DisciplinedClients, TypeOK
  <2>2. commands[id] = ScanCommand(id)
    BY <2>1 DEF LifeInv, IndexMatchesLedger
  <2>3. ScanCommand(id).id = id
    <3>1. ledger \in [Entities -> Seq(Record)] /\ FiledByEntity(ledger) /\ NoCommand \notin Command
      BY AuthorityAssumption DEF TypeOK, LifeInv
    <3>2. Files(IdHits(ledger, id)) # {}
      BY <2>1, <2>2, <3>1, AbsentHasNoFile
    <3>. QED BY <3>1, <3>2, LatestStands, ScansRead
  <2>. DEFINE c == PushTransition(commands[id], to, level)
  <2>4. Follows(commands[id], c) /\ c.id = commands[id].id
    BY <2>1, EdgeMoves
  <2>5. c \in Command
    <3>1. to \in CommandStates
      BY DEF LegalFrom, CommandStates
    <3>. QED BY <2>1, <3>1, PushTransitionType
  <2>. HIDE DEF c
  <2>6. Begin(t, pc, op, c, d)
    BY <2>1 DEF c
  <2>. QED BY <2>1, <2>2, <2>3, <2>4, <2>5, <2>6
<1>3. CASE Check(t)
  BY <1>2, <1>3 DEF Check, Verdict, Ops, Decisions, LegalFrom, AckLevel
<1>4. CASE Authorize(t)
  BY <1>2, <1>4 DEF Authorize, Ops, Decisions, LegalFrom, AckLevel
<1>5. CASE Dispatch(t)
  BY <1>2, <1>5 DEF Dispatch, Ops, Decisions, LegalFrom, AckLevel
<1>6. CASE Ack(t)
  <2>1. AckLevels \subseteq AckLevel
    BY AuthorityAssumption
  <2>. QED BY <1>2, <1>6, <2>1 DEF Ack, Ops, Decisions, LegalFrom
<1>7. CASE Expire(t)
  BY <1>2, <1>7 DEF Expire, Ops, Decisions, LegalFrom, AckLevel
<1>8. CASE Fail(t)
  BY <1>2, <1>8 DEF Fail, Ops, Decisions, LegalFrom, AckLevel
<1>. QED BY <1>1, <1>3, <1>4, <1>5, <1>6, <1>7, <1>8 DEF Call

\* An append moves the life of its command, and of no other.
LEMMA AppendMoves ==
  ASSUME TypeOK, LifeInv, NEW t \in Threads, LedgerAppend(t), NEW c, c = rpc[t].cmd
  PROVE  /\ FiledByEntity(ledger')
         /\ ScanCommand(c.id)' = c
         /\ \A id : id # c.id => ScanCommand(id)' = ScanCommand(id)
         /\ \A id : id # c.id => ScanProposal(id)' = ScanProposal(id)
         /\ IF rpc[t].op = "propose" THEN ScanProposal(c.id)' = c
                                     ELSE ScanProposal(c.id)' = ScanProposal(c.id)
<1>. DEFINE r == RecordOf(t)
            a == rpc[t].cmd.entity
<1>1. /\ r \in Record /\ r.cmd = c /\ a \in Entities /\ c \in Command /\ c.id \in Ids
      /\ r.proposal <=> rpc[t].op = "propose"
      /\ r.proposal \in BOOLEAN
  <2>1. c \in Command /\ r \in Record /\ a \in Entities
    BY AppendTypes DEF LedgerAppend
  <2>. QED BY <2>1 DEF RecordOf, Command
<1>2. ledger \in [Entities -> Seq(Record)] /\ FiledByEntity(ledger) /\ NoCommand \notin Command
  BY AuthorityAssumption DEF TypeOK, LifeInv
<1>3. Longer(ledger, ledger', a, r, Len(ledger[a]) + 1)
  <2>1. ledger' = [ledger EXCEPT ![a] = Append(ledger[a], r)]
    BY DEF LedgerAppend
  <2>. HIDE DEF a, r
  <2>. QED BY <1>1, <1>2, <2>1, AppendIsLonger
<1>4. /\ Follows(ScanCommand(c.id), c)
      /\ rpc[t].op = "propose" => ScanCommand(c.id) = NoCommand
  BY DEF LifeInv, View, LedgerAppend, AtStep
<1>5. \A f \in Files(IdHits(ledger, c.id)) : FileRank[f] <= FileRank[a]
  <2>1. CASE Files(IdHits(ledger, c.id)) = {}
    BY <2>1
  <2>2. CASE Files(IdHits(ledger, c.id)) # {}
    <3>1. /\ Latest(ledger, c.id) \in Command
          /\ \A f \in Files(IdHits(ledger, c.id)) :
               FileRank[f] <= FileRank[Latest(ledger, c.id).entity]
      BY <1>1, <1>2, <2>2, LatestStands
    <3>2. Lives!Moved(Latest(ledger, c.id), c)
      BY <1>2, <1>4, <3>1, ScansRead DEF Follows
    <3>. QED BY <3>1, <3>2, MovedKeeps
  <2>. QED BY <2>1, <2>2
<1>6. /\ FiledByEntity(ledger')
      /\ Latest(ledger', c.id) = c
      /\ \A id : id # c.id => Latest(ledger', id) = Latest(ledger, id)
      /\ \A id : id # c.id \/ ~r.proposal => FirstProposal(ledger', id) = FirstProposal(ledger, id)
      /\ r.proposal /\ Files(IdHits(ledger, c.id)) = {} => FirstProposal(ledger', c.id) = c
  <2>1. r.cmd.entity = a
    BY <1>1
  <2>. DEFINE n == Len(ledger[a]) + 1
  <2>2. Longer(ledger, ledger', a, r, n) /\ r \in Record /\ a \in Entities
    BY <1>1, <1>3
  <2>3. \A f \in Files(IdHits(ledger, r.cmd.id)) : FileRank[f] <= FileRank[a]
    BY <1>1, <1>5
  <2>. HIDE DEF a, r, n
  <2>4. ReadsAppend(ledger, ledger', r)
    BY <1>2, <2>1, <2>2, <2>3, AppendScans
  <2>5. r.cmd = c
    BY <1>1
  <2>. QED BY <2>4, <2>5 DEF ReadsAppend
<1>7. rpc[t].op = "propose" => Files(IdHits(ledger, c.id)) = {}
  BY <1>1, <1>2, <1>4, AbsentHasNoFile
<1>. HIDE DEF a, r
<1>8. ASSUME NEW id
      PROVE  /\ id # c.id => ScanCommand(id)' = ScanCommand(id)
             /\ id # c.id \/ rpc[t].op # "propose" => ScanProposal(id)' = ScanProposal(id)
  BY <1>1, <1>6, ScansRead
<1>9. ScanCommand(c.id)' = c /\ (rpc[t].op = "propose" => ScanProposal(c.id)' = c)
  BY <1>1, <1>6, <1>7, ScansRead
<1>. QED BY <1>6, <1>8, <1>9

\* A step of one handler, on a command only it works on, disturbs nothing else.
LEMMA OneHandler ==
  ASSUME LifeInv, NEW t \in Threads, NEW k,
         FiledByEntity(ledger'),
         \A u \in Threads : u # t => rpc'[u] = rpc[u],
         \A u \in Threads : u # t /\ ~AtStep(u, "idle") => rpc[u].cmd.id # k,
         \A id \in Ids : id # k =>
           /\ ScanCommand(id)' = ScanCommand(id) /\ ScanProposal(id)' = ScanProposal(id)
           /\ commands'[id] = commands[id] /\ proposals'[id] = proposals[id],
         rpc[t].pc = "idle" \/ rpc[t].cmd.id = k,
         \A u \in Threads : ~AtStep(u, "idle") => rpc[u].cmd.id \in Ids,
         \/ /\ rpc'[t].pc = "idle"
            /\ commands'[k] = ScanCommand(k)' /\ proposals'[k] = ScanProposal(k)'
         \/ rpc'[t].pc # "idle" /\ rpc'[t].cmd.id = k /\ View(t)'
  PROVE  LifeInv'
<1>1. OneEach'
  BY DEF OneEach, LifeInv, AtStep
<1>2. ASSUME NEW u \in Threads, ~AtStep(u, "idle")' PROVE View(u)'
  <2>1. CASE u = t
    BY <1>2, <2>1 DEF AtStep
  <2>2. CASE u # t
    <3>1. rpc'[u] = rpc[u] /\ ~AtStep(u, "idle") /\ rpc[u].cmd.id # k /\ rpc[u].cmd.id \in Ids
      BY <1>2, <2>2 DEF AtStep
    <3>2. View(u)
      BY <3>1 DEF LifeInv
    <3>3. /\ ScanCommand(rpc[u].cmd.id)' = ScanCommand(rpc[u].cmd.id)
          /\ ScanProposal(rpc[u].cmd.id)' = ScanProposal(rpc[u].cmd.id)
          /\ commands'[rpc[u].cmd.id] = commands[rpc[u].cmd.id]
          /\ proposals'[rpc[u].cmd.id] = proposals[rpc[u].cmd.id]
      BY <3>1
    <3>. QED BY <3>1, <3>2, <3>3 DEF View, Unproposed
  <2>. QED BY <2>1, <2>2
<1>3. ASSUME NEW id \in Ids, ~InFlight(id)'
      PROVE  commands'[id] = ScanCommand(id)' /\ proposals'[id] = ScanProposal(id)'
  <2>1. CASE id = k
    BY <1>3, <2>1 DEF InFlight, AtStep
  <2>2. CASE id # k
    <3>1. ~InFlight(id)
      BY <1>3, <2>2 DEF InFlight, AtStep
    <3>. QED BY <2>2, <3>1 DEF LifeInv, IndexMatchesLedger
  <2>. QED BY <2>1, <2>2
<1>. QED BY <1>1, <1>2, <1>3 DEF LifeInv, IndexMatchesLedger, InFlight, AtStep

\* A service that has just been constructed has the index of its ledger.
LEMMA LifeInit == FiledByEntity(OpeningLedger) /\ Init => LifeInv
BY DEF Init, Idle, LifeInv, OneEach, IndexMatchesLedger, AtStep

LEMMA CallKeepsLife ==
  ASSUME DisciplinedClients, TypeOK, LifeInv, NEW t \in Threads, Call(t)
  PROVE  LifeInv'
<1>1. PICK pc \in {"append", "lock"}, op \in Ops \ {"none"}, c \in Command, d \in Decisions :
        /\ Begin(t, pc, op, c, d)
        /\ ~InFlight(c.id)
        /\ Follows(ScanCommand(c.id), c)
        /\ op = "propose" => pc = "append" /\ c.state = "PROPOSED" /\ ScanCommand(c.id) = NoCommand
  BY CallFollows
<1>2. /\ ledger' = ledger /\ commands' = commands /\ proposals' = proposals
      /\ rpc[t].pc = "idle" /\ c.id \in Ids
      /\ rpc'[t] = [pc |-> pc, op |-> op, cmd |-> c, decision |-> d]
      /\ \A u \in Threads : u # t => rpc'[u] = rpc[u]
  BY <1>1 DEF Begin, AtStep, indexes, TypeOK, Command
<1>3. \A id : ScanCommand(id)' = ScanCommand(id) /\ ScanProposal(id)' = ScanProposal(id)
  BY <1>2, SameScans
<1>4. commands[c.id] = ScanCommand(c.id) /\ proposals[c.id] = ScanProposal(c.id)
  BY <1>1, <1>2 DEF LifeInv, IndexMatchesLedger
<1>5. View(t)'
  BY <1>1, <1>2, <1>3, <1>4 DEF View, Unproposed
<1>6. \A u \in Threads : ~AtStep(u, "idle") => rpc[u].cmd.id # c.id /\ rpc[u].cmd.id \in Ids
  BY <1>1 DEF InFlight, AtStep, TypeOK, Command
<1>7. FiledByEntity(ledger')
  BY <1>2 DEF LifeInv
<1>. QED BY <1>2, <1>3, <1>5, <1>6, <1>7, OneHandler

\* Nobody else works on a running handler's command.
LEMMA Alone ==
  ASSUME TypeOK, LifeInv, NEW t \in Threads, rpc[t].pc # "idle"
  PROVE  /\ rpc[t].cmd \in Command /\ rpc[t].cmd.id \in Ids
         /\ \A u \in Threads : ~AtStep(u, "idle") => rpc[u].cmd.id \in Ids
         /\ \A u \in Threads : u # t /\ ~AtStep(u, "idle") => rpc[u].cmd.id # rpc[t].cmd.id
BY DEF TypeOK, LifeInv, OneEach, AtStep, Command

LEMMA AppendKeepsLife ==
  ASSUME TypeOK, LifeInv, NEW t \in Threads, LedgerAppend(t)
  PROVE  LifeInv'
<1>1. PICK c : c = rpc[t].cmd
  OBVIOUS
<1>2. /\ rpc[t].pc = "append" /\ commands' = commands /\ proposals' = proposals
      /\ rpc'[t].pc = "index" /\ rpc'[t].op = rpc[t].op /\ rpc'[t].cmd = c
      /\ \A u \in Threads : u # t => rpc'[u] = rpc[u]
  BY <1>1 DEF LedgerAppend, AtStep, Goto, indexes, TypeOK, Rpc
<1>3. /\ FiledByEntity(ledger')
      /\ ScanCommand(c.id)' = c
      /\ \A id : id # c.id => ScanCommand(id)' = ScanCommand(id)
      /\ \A id : id # c.id => ScanProposal(id)' = ScanProposal(id)
      /\ IF rpc[t].op = "propose" THEN ScanProposal(c.id)' = c
                                  ELSE ScanProposal(c.id)' = ScanProposal(c.id)
  BY <1>1, AppendMoves
<1>4. View(t)
  BY <1>2 DEF LifeInv, AtStep
<1>5. View(t)'
  BY <1>1, <1>2, <1>3, <1>4 DEF View, Unproposed
<1>. QED BY <1>1, <1>2, <1>3, <1>5, Alone, OneHandler

\* A step that touches neither the ledger nor the two indexes.
LEMMA QuietKeepsLife ==
  ASSUME TypeOK, LifeInv, NEW t \in Threads, rpc[t].pc \notin {"idle", "index"}, ~Unproposed(t),
         ledger' = ledger, commands' = commands, proposals' = proposals,
         \A u \in Threads : u # t => rpc'[u] = rpc[u],
         rpc'[t].pc = "idle" \/ (rpc'[t].cmd.id = rpc[t].cmd.id /\ View(t)')
  PROVE  LifeInv'
<1>1. PICK k : k = rpc[t].cmd.id
  OBVIOUS
<1>2. \A id : ScanCommand(id)' = ScanCommand(id) /\ ScanProposal(id)' = ScanProposal(id)
  BY SameScans
<1>3. commands[k] = ScanCommand(k) /\ proposals[k] = ScanProposal(k)
  BY <1>1 DEF LifeInv, View, AtStep
<1>4. FiledByEntity(ledger')
  BY DEF LifeInv
<1>5. commands'[k] = ScanCommand(k)' /\ proposals'[k] = ScanProposal(k)'
  BY <1>2, <1>3
<1>. QED BY <1>1, <1>2, <1>4, <1>5, Alone, OneHandler

\* A handler goes on, with the same command, to a step past its append.
LEMMA GoesOn ==
  ASSUME TypeOK, LifeInv, NEW t \in Threads, NEW pc \in {"append", "sink", "audit"}, Goto(t, pc),
         rpc[t].pc \in {"lock", "decisions", "keys", "sink"},
         rpc[t].pc = "lock" <=> pc = "append",
         ledger' = ledger, commands' = commands, proposals' = proposals
  PROVE  LifeInv'
<1>1. /\ rpc'[t].pc = pc /\ rpc'[t].op = rpc[t].op /\ rpc'[t].cmd = rpc[t].cmd
      /\ \A u \in Threads : u # t => rpc'[u] = rpc[u]
  BY DEF Goto, TypeOK, Rpc
<1>2. View(t)
  BY DEF LifeInv, AtStep
<1>3. \A id : ScanCommand(id)' = ScanCommand(id) /\ ScanProposal(id)' = ScanProposal(id)
  BY SameScans
<1>4. View(t)'
  BY <1>1, <1>2, <1>3 DEF View, Unproposed
<1>. QED BY <1>1, <1>4, QuietKeepsLife DEF Unproposed

\* A handler that returns has left both indexes as the ledger.
LEMMA ReturnKeepsLife ==
  ASSUME TypeOK, LifeInv, NEW t \in Threads, Return(t), rpc[t].pc \in {"lock", "append", "audit"},
         ledger' = ledger, commands' = commands, proposals' = proposals
  PROVE  LifeInv'
<1>1. rpc'[t].pc = "idle" /\ \A u \in Threads : u # t => rpc'[u] = rpc[u]
  BY DEF Return, Idle, TypeOK, Rpc
<1>. QED BY <1>1, QuietKeepsLife DEF Unproposed

LEMMA PutCommandKeepsLife ==
  ASSUME TypeOK, LifeInv, NEW t \in Threads, PutCommand(t)
  PROVE  LifeInv'
<1>1. PICK c : c = rpc[t].cmd
  OBVIOUS
<1>2. /\ rpc[t].pc = "index" /\ ledger' = ledger /\ proposals' = proposals
      /\ c.id \in Ids /\ commands'[c.id] = c
      /\ \A id \in Ids : id # c.id => commands'[id] = commands[id]
      /\ rpc'[t].op = rpc[t].op /\ rpc'[t].cmd = c
      /\ \A u \in Threads : u # t => rpc'[u] = rpc[u]
  BY <1>1 DEF PutCommand, AtStep, Goto, TypeOK, Rpc, Command
<1>3. /\ rpc'[t].pc \in {"proposals", "decisions", "keys", "audit"}
      /\ rpc'[t].pc = "proposals" <=> rpc[t].op = "propose"
  BY DEF PutCommand, AfterIndex, Goto, TypeOK, Rpc, Ops
<1>4. \A id : ScanCommand(id)' = ScanCommand(id) /\ ScanProposal(id)' = ScanProposal(id)
  BY <1>2, SameScans
<1>5. View(t)
  BY <1>2 DEF LifeInv, AtStep
<1>6. View(t)'
  BY <1>1, <1>2, <1>3, <1>4, <1>5 DEF View, Unproposed
<1>7. FiledByEntity(ledger')
  BY <1>2 DEF LifeInv
<1>. QED BY <1>1, <1>2, <1>3, <1>4, <1>6, <1>7, Alone, OneHandler

LEMMA PutProposalKeepsLife ==
  ASSUME TypeOK, LifeInv, NEW t \in Threads, PutProposal(t)
  PROVE  LifeInv'
<1>1. PICK c : c = rpc[t].cmd
  OBVIOUS
<1>2. /\ rpc[t].pc = "proposals" /\ ledger' = ledger /\ commands' = commands
      /\ c.id \in Ids /\ proposals'[c.id] = c
      /\ \A id \in Ids : id # c.id => proposals'[id] = proposals[id]
      /\ rpc'[t].pc = "audit" /\ rpc'[t].op = rpc[t].op /\ rpc'[t].cmd = c
      /\ \A u \in Threads : u # t => rpc'[u] = rpc[u]
  BY <1>1 DEF PutProposal, AtStep, Goto, TypeOK, Rpc, Command
<1>3. \A id : ScanCommand(id)' = ScanCommand(id) /\ ScanProposal(id)' = ScanProposal(id)
  BY <1>2, SameScans
<1>4. View(t)
  BY <1>2 DEF LifeInv, AtStep
<1>5. View(t)'
  BY <1>1, <1>2, <1>3, <1>4 DEF View, Unproposed
<1>6. FiledByEntity(ledger')
  BY <1>2 DEF LifeInv
<1>. QED BY <1>1, <1>2, <1>3, <1>5, <1>6, Alone, OneHandler

\* The automatic check of a proposal is an edge of the command just recorded.
LEMMA AuditKeepsLife ==
  ASSUME TypeOK, LifeInv, NEW t \in Threads, Audit(t)
  PROVE  LifeInv'
<1>1. rpc[t].pc = "audit" /\ ledger' = ledger /\ commands' = commands /\ proposals' = proposals
  BY DEF Audit, AtStep, indexes
<1>2. CASE rpc[t].op # "propose"
  BY <1>1, <1>2, ReturnKeepsLife DEF Audit
<1>3. CASE rpc[t].op = "propose"
  <2>1. PICK c : c = rpc[t].cmd
    OBVIOUS
  <2>2. PICK d \in {"allow", "deny"} :
          rpc' = [rpc EXCEPT ![t] =
                   [pc |-> "append", op |-> "check", decision |-> d,
                    cmd |-> PushTransition(c, Verdict(d), 0)]]
    BY <1>3, <2>1 DEF Audit
  <2>3. c \in Command /\ c.state = "PROPOSED" /\ ScanCommand(c.id) = c
        /\ commands[c.id] = c /\ proposals[c.id] = ScanProposal(c.id)
    BY <1>1, <1>3, <2>1 DEF LifeInv, View, Unproposed, AtStep, TypeOK
  <2>4. Verdict(d) \in DOMAIN LegalFrom /\ EdgeAllowed(c, Verdict(d), 0) /\ 0 \in AckLevel
    BY <2>3 DEF Verdict, LegalFrom, EdgeAllowed, AckLevel
  <2>. DEFINE e == PushTransition(c, Verdict(d), 0)
  <2>5. Follows(c, e) /\ e.id = c.id
    BY <2>3, <2>4, EdgeMoves
  <2>. HIDE DEF e
  <2>6. /\ rpc'[t].pc = "append" /\ rpc'[t].op = "check" /\ rpc'[t].cmd = e
        /\ \A u \in Threads : u # t => rpc'[u] = rpc[u]
    BY <2>2 DEF e, TypeOK
  <2>7. \A id : ScanCommand(id)' = ScanCommand(id) /\ ScanProposal(id)' = ScanProposal(id)
    BY <1>1, SameScans
  <2>8. View(t)'
    BY <1>1, <2>3, <2>5, <2>6, <2>7 DEF View, Unproposed
  <2>. QED BY <1>1, <2>1, <2>5, <2>6, <2>8, QuietKeepsLife DEF Unproposed
<1>. QED BY <1>2, <1>3

\* Under disciplined clients every step keeps the invariant.
LEMMA LifeStep == ASSUME DisciplinedClients PROVE TypeOK /\ LifeInv /\ [Next]_vars => LifeInv'
<1>. SUFFICES ASSUME TypeOK, LifeInv, [Next]_vars PROVE LifeInv'
  OBVIOUS
<1>1. ASSUME NEW t \in Threads, LockSeen(t) PROVE LifeInv'
  <2>1. Return(t) \/ Goto(t, "append")
    BY <1>1 DEF LockSeen
  <2>2. rpc[t].pc = "lock" /\ ledger' = ledger /\ commands' = commands /\ proposals' = proposals
    BY <1>1 DEF LockSeen, AtStep, indexes
  <2>. QED BY <2>1, <2>2, ReturnKeepsLife, GoesOn
<1>2. ASSUME NEW t \in Threads, AppendFails(t) \/ AuditFails(t) PROVE LifeInv'
  BY <1>2, ReturnKeepsLife DEF AppendFails, AuditFails, AtStep, indexes
<1>3. ASSUME NEW t \in Threads, PutDecision(t) \/ InsertKey(t) \/ HandOff(t) PROVE LifeInv'
  BY <1>3, GoesOn DEF PutDecision, InsertKey, HandOff, AtStep, indexes
<1>4. CASE CrashRestart
  <2>1. /\ ledger' = ledger /\ \A t \in Threads : rpc'[t].pc = "idle"
        /\ \A id \in Ids : commands'[id] = ScanCommand(id) /\ proposals'[id] = ScanProposal(id)
    BY <1>4 DEF CrashRestart, Idle
  <2>2. \A id : ScanCommand(id)' = ScanCommand(id) /\ ScanProposal(id)' = ScanProposal(id)
    BY <2>1, SameScans
  <2>. QED BY <2>1, <2>2 DEF LifeInv, OneEach, IndexMatchesLedger, AtStep
<1>5. CASE NoCall \/ UNCHANGED vars
  <2>1. UNCHANGED <<ledger, commands, proposals, rpc>>
    BY <1>5 DEF NoCall, vars, indexes
  <2>2. \A id : ScanCommand(id)' = ScanCommand(id) /\ ScanProposal(id)' = ScanProposal(id)
    BY <2>1, SameScans
  <2>3. OneEach' /\ FiledByEntity(ledger')
    BY <2>1 DEF LifeInv, OneEach, AtStep
  <2>4. IndexMatchesLedger'
    BY <2>1, <2>2 DEF LifeInv, IndexMatchesLedger, InFlight, AtStep
  <2>5. ASSUME NEW t \in Threads, ~AtStep(t, "idle")' PROVE View(t)'
    BY <2>1, <2>2, <2>5 DEF LifeInv, View, Unproposed, AtStep
  <2>. QED BY <2>3, <2>4, <2>5 DEF LifeInv
<1>. QED
  BY <1>1, <1>2, <1>3, <1>4, <1>5, CallKeepsLife, AppendKeepsLife, PutCommandKeepsLife,
     PutProposalKeepsLife, AuditKeepsLife
  DEF Next, Handler
-----------------------------------------------------------------------------
(* Theorems.                                                               *)

\* With one RPC at a time per command and fresh ids, a command at rest reads
\* the same from the live index as from a restart, whatever failed before.
THEOREM IndexIsLedger ==
  ASSUME DisciplinedClients, FiledByEntity(OpeningLedger)
  PROVE  Spec => []IndexMatchesLedger
<1>1. Init => LifeInv
  BY LifeInit
<1>2. TypeOK /\ LifeInv /\ [Next]_vars => LifeInv'
  BY LifeStep
<1>3. LifeInv => IndexMatchesLedger
  BY DEF LifeInv
<1>. QED BY <1>1, <1>2, <1>3, TypeCorrect, PTL DEF Spec

\* Only appends touch the ledger.
LEMMA OthersLeaveLedger ==
  ASSUME DisciplinedClients, TypeOK, LifeInv, [Next]_vars,
         \A t \in Threads : ~LedgerAppend(t)
  PROVE  ledger' = ledger
<1>1. ASSUME NEW t \in Threads, Call(t) PROVE ledger' = ledger
  <2>1. PICK pc, op, c, d : Begin(t, pc, op, c, d)
    BY <1>1, CallBegins
  <2>. QED BY <2>1 DEF Begin
<1>2. ASSUME NEW t \in Threads, Handler(t) PROVE ledger' = ledger
  BY <1>2
  DEF Handler, LockSeen, AppendFails, PutCommand, PutProposal, PutDecision, InsertKey, HandOff,
      Audit, AuditFails
<1>3. CASE CrashRestart \/ NoCall \/ UNCHANGED vars
  BY <1>3 DEF CrashRestart, NoCall, vars
<1>. QED BY <1>1, <1>2, <1>3 DEF Next

\* What the ledger says of the commands when the service starts.
LEMMA LivesInit == FiledByEntity(OpeningLedger) /\ Init => Lives!LInit
<1>. SUFFICES ASSUME FiledByEntity(OpeningLedger), Init, NEW id \in Ids
              PROVE  ScanCommand(id) = NoCommand
                       \/ (ScanCommand(id) \in Command /\ ScanCommand(id).id = id)
  BY DEF Lives!LInit, Lives!Command, Command, Lives!CommandStates, CommandStates,
         Lives!AckLevel, AckLevel
<1>1. TypeOK /\ FiledByEntity(ledger)
  BY TypeInit DEF Init
<1>2. ledger \in [Entities -> Seq(Record)]
  BY <1>1 DEF TypeOK
<1>3. Files(IdHits(ledger, id)) # {} => Latest(ledger, id) \in Command /\ Latest(ledger, id).id = id
  BY <1>1, <1>2, LatestStands
<1>. QED BY <1>1, <1>3, AbsentHasNoFile, ScansRead

\* An append is a step of one life; every other step is none.
LEMMA LivesStep ==
  ASSUME DisciplinedClients
  PROVE  TypeOK /\ LifeInv /\ [Next]_vars => [Lives!LNext]_([id \in Ids |-> ScanCommand(id)])
<1>. SUFFICES ASSUME TypeOK, LifeInv, [Next]_vars
              PROVE  \/ \A id \in Ids : ScanCommand(id)' = ScanCommand(id)
                     \/ Lives!LNext
  OBVIOUS
<1>1. CASE \A t \in Threads : ~LedgerAppend(t)
  BY <1>1, OthersLeaveLedger, SameScans
<1>2. ASSUME NEW t \in Threads, LedgerAppend(t)
      PROVE  (\A id \in Ids : ScanCommand(id)' = ScanCommand(id)) \/ Lives!LNext
  <2>1. PICK c : c = rpc[t].cmd
    OBVIOUS
  <2>2. c.id \in Ids /\ Follows(ScanCommand(c.id), c)
    BY <1>2, <2>1, Alone DEF LedgerAppend, AtStep, LifeInv, View
  <2>3. ScanCommand(c.id)' = c /\ \A id : id # c.id => ScanCommand(id)' = ScanCommand(id)
    BY <1>2, <2>1, AppendMoves
  <2>4. CASE ScanCommand(c.id) = c
    BY <2>3, <2>4
  <2>5. CASE ScanCommand(c.id) # c
    <3>1. Lives!Advance(c.id)
      BY <2>2, <2>3, <2>5 DEF Lives!Advance, Follows
    <3>. QED BY <2>2, <3>1 DEF Lives!LNext
  <2>. QED BY <2>4, <2>5
<1>. QED BY <1>1, <1>2

\* With one RPC at a time per command and fresh ids, the ledger tells one life
\* per command: no transition is lost, forked or out of order.
THEOREM OneLifePerCommand ==
  ASSUME DisciplinedClients, FiledByEntity(OpeningLedger)
  PROVE  Spec => LifecyclePromise
<1>1. Init => LifeInv /\ Lives!LInit
  BY LifeInit, LivesInit
<1>2. TypeOK /\ LifeInv /\ [Next]_vars => LifeInv'
  BY LifeStep
<1>3. TypeOK /\ LifeInv /\ [Next]_vars => [Lives!LNext]_([id \in Ids |-> ScanCommand(id)])
  BY LivesStep
<1>. QED BY <1>1, <1>2, <1>3, TypeCorrect, PTL DEF Spec, LifecyclePromise, Lives!LSpec
=============================================================================
