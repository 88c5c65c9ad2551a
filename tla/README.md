# Verification of altavista

TLA+ models of the parts of altavista whose correctness depends on interleaving, failure and
restart, TLC configurations that check them on small instances, and TLAPS proofs. All paths
below are relative to `src/`.

## 1. The system

altavista is a Rust workspace (`crates/`), a Python server (`altavista/`), a web client (`web/`)
and flight-software glue (`services/`). What it does: edge producers sign measurement batches and
send them to an ingest, which keeps them on hash-chained partition logs; a command authority
takes an operator's command from proposal to the asset and records each step on a hash-chained
ledger; a job queue and a study sweep run heavy work; a simulation kernel runs federates, some of
them in lockstep with containers.

| Component | State | Operations | Hard behaviour | What makes it correct |
|---|---|---|---|---|
| Command authority service (`av-command/src/service.rs`, `authority.rs`) | indexes of commands, proposals, decisions; the set of dispatched idempotency keys; all rebuilt from the ledger | Propose (and its automatic check), Check, Authorize, Dispatch, Ack, Expire, Fail, Query, VerifyLedger | handlers interleave between snapshot, append, index and side effects; one lock, held by Dispatch only; audit and append failures; restart | a key reaches the asset once; nothing is shown or done before it is durable; the ledger tells a legal life per command; a restart refuses the same keys |
| Command state machine (`state.rs`) | none (pure) | eight edges | the ack level is strictly rising | legal predecessors |
| Command ledger (`ledger.rs`) | one chained file per entity, a cached chain state | append, four restart scans, verify, window count | two writes per frame; kill or failure in between; readers without the lock | what was returned is readable; one chain; history only grows |
| Identity, roles, policy, audit (`authz.rs`, `oidc.rs`, `policy.rs`, `audit.rs`) | configuration, audit file | decisions, audit lines | none of its own | (decisions taken as free) |
| Edge buffer and uplink driver (`av-edge/src/buffer.rs`) | buffer file, watermark file, `was_down` | append, replay, commit of the watermark, `step` | outage in the middle of a drain; kill between truncating and writing the watermark | nothing is lost, the watermark is never overstated |
| Chain verifier, ingest (`av-edge/src/chain.rs`, `av-ingest/src/ingest.rs`, `log.rs`) | chain state per producer (memory), partition logs (disk) | submit | replays, staleness, a failed append after the chain moved, restart | one ordered copy per ingest life |
| Edge plugin (`av-ingest-client/src/bin/av-edge-plugin.rs`) | none durable | one run over a fixed list of batches | an outage as an RPC error | survives an outage |
| Ingest service (`av-ingest/src/service.rs`) | announce state | Announce, Submit stream | two locks; partial streams | - |
| Job queue, log, runner (`av-jobs/src/queue.rs`, `log.rs`, `runner.rs`) | one chained file | submit, pending, complete, run_one, run_pending, open with recovery | racing submitters; unlocked readers; kill or I/O failure in an append | one submission per id; a completed job is not run again; recovery loses nothing acknowledged |
| Kubernetes job executor (`av-jobs/src/k8s/`) | the guard of Job and scratch, what the polls have seen; the Job and its pods on the cluster | create, poll, judge, read outputs, teardown, drop | the Job is read before its pods and the cluster moves in between; lost replies; deletions, deadline and ttl racing the workload; death of the executor | the report tells what happened; a clean cleanup leaves nothing; nobody else's Job is touched; every Job ends |
| Other executors (`tiler.rs`, `container.rs`) | scratch files | execute | - | - |
| Study sweep (`av-sweep/src/study_write.rs`, `store.rs`, `clickhouse/`) | header and data rows in ClickHouse, a directory per study and `.incoming-*` stages in a file store | check_plan, then per store prepare, commit, abort; settle a failed rename | nothing serializes two runs; no transactions; a lost reply, an insert that outlives its client, a kill between the two commits | a success is in both stores, an error leaves nothing visible, a disagreement is named, the documented repair converges |
| Simulation kernel, shared run (`av-kernel/src/drm/executor.rs`, `router.rs`, `schedule.rs`, `kernel.rs`) | the router's queues and traffic log, every instance's due and current epoch, models' cells | poll commands, dispatch, span, step, sample, cross a boundary, drain | periods that do not match; frames held over a boundary; one command with many ways to end | no frame lost, early or doubled; one story per command; the run ends |
| Replay (`drm/replay.rs`, `drm/board_replay.rs`) | the recorded traffic | window of a step, refusals | windows over coarse steps and boundaries | a replay that is not refused repeats the run |
| Edge board (`av-edge-board`: `service.rs`, `iolog.rs`, `relink.rs`, `power.rs`, `udp.rs`) | the exchange gate, the signed log and its poisoning, `lost`, the run of the log | Bind, Step, Reset, Shutdown, PowerCycle, BoardIoLogHead, re-handshake | datagrams lost, copied, reordered; a reboot in the middle; handlers dropped while an append runs; deadlines | the log is never behind the kernel; a completed run replays from its pin; every run ends |
| Lockstep (`av-lockstep-shim/src/peer_link.rs`, relay, `services/cfs/apps/io_lockstep`, `av-lockstep`) | sequence and epoch of the outstanding request; the guest's loop | handshake, bind, step, reset, shutdown | stale answers, crash and reboot of the guest | an answer is matched to its request |
| Catalog, gateway, proposer, store, tiles, track, dynamics service, orbital, CDM, codec, YAML, labels, Python server, web, cFS apps | see `PROJECT.json` | | little state of their own | |

Interactions. The gateway and the proposer call Propose; operators call Authorize; service
principals call Dispatch, Ack, Expire and Fail. Dispatch hands the command to a `DispatchSink`
callback. The ledger is shared by all handlers behind one mutex. The edge plugin calls
`UplinkDriver::step`, which calls a `BatchSink`, which calls the ingest over gRPC; the ingest calls
the chain verifier and then a partition log. A simulation run calls the instances in turn on one
thread: models in process, containers and boards through a timed lockstep client; a board's calls go
over gRPC to the edge service, which forwards them as UDP frames through the relay to the flight
software, and appends each exchange to a signed log before it answers. External commands enter the
run through the router, as frames of the instance that sends them. The job runner calls an executor
for each job, the Kubernetes one over the cluster's HTTP API. The runner shares the job queue with
the threads that submit. Three of these components keep a length-prefixed hash-chained file and
differ in what they do with a torn tail: the command ledger refuses it, the job log cuts it off.

`PROJECT.json` lists every component with its status and every hazard with its line.

## 2. The modules

| Module | Models | How its state and actions correspond to the code |
|---|---|---|
| `CommandState` | `state.rs` | `Command` keeps id, entity, key, state, the level of its last transition and the number of transitions (all the code reads back). `LegalFrom`/`EdgeAllowed` are the `require_one_of` lists and the ack rule, `PushTransition` is `push_transition`. |
| `CommandAuthority` | `service.rs`, `authority.rs` over `ledger.rs` | `rpc[t]` is a handler's position and its local clone. `Propose`...`Fail` take the snapshot and judge the edge on it; `LockSeen` is the duplicate guard of Dispatch; `LedgerAppend`/`AppendFails`, `PutCommand`, `PutProposal`, `PutDecision`, `InsertKey`, `HandOff`, `Audit`/`AuditFails` follow in the order of the code. `CrashRestart` is `new` over the ledger left behind, through the four scans (`ScanCommand` last wins, `ScanProposal`/`ScanDecision` first wins, `ScanKeys`). Files are scanned in the order of their sorted paths (`FileRank`). |
| `DispatchOnce` | the abstract promise about keys | keys are burned before a hand-over, each key is handed over at most once. `CommandAuthority` implements it with `burned <- ScanKeys`, `delivered <- sink`. |
| `CommandLifecycle` | the abstract life of a command | born PROPOSED, then one edge at a time, with the same entity and key. `CommandAuthority` implements it, for clients with one RPC at a time per command, with `life` read off the ledger. |
| `LedgerFile` | one file of `ledger.rs` | opens the step `LedgerAppend`: `BeginAppend` (lock, chain state, record), `WriteLength`, `WriteBody`, `ReturnRecord`, `WriteFails`, `Kill`, `Start`. |
| `ChainVerifier` | `chain.rs` for one well-formed producer | `Verdict` is the fixed order of checks. |
| `EdgeUplink` | `buffer.rs`, the plugin's loop, `ingest.rs`, `av-ingest/src/log.rs` | `driver` is `UplinkDriver` and where `step` is; each submission is a step, so the link, the ingest and the batches' age change in between. The plugin kills and restarts at `StopRun`/`StartRun`; the ingest at `RestartIngest`. |
| `JobQueue` | `queue.rs`, `log.rs`, `runner.rs` of `av-jobs` | `Submit` checks under `submit_guard`; `BeginAppend`, `WriteFrame`, `SyncAndReturn`/`AppendFails` are `JobLog::append`; `RunPending`/`Execute` the runner; `Open` is `JobLog::open` with what `scan_frames` keeps (`Kept`), `OpenUnread` the same when the file cannot be read. |
| `StudyWrite` | `study_write.rs` over `store.rs` and `clickhouse/mod.rs` | `pc[r]` is where a run's `write_study` is; `PlanClickHouse`...`PrepareFile` are check_plan and prepare, `InsertHeader`, `HeaderShows`/`GiveUp`, `RereadWinner` ClickHouse's commit (the server stamps a row when the insert begins and shows it when it ends, perhaps after the client gave up: `HeaderShowsLate`), `Rename`, `SettleRename` the file store's. Every read and every write of a store is a step. |
| `PortRouter` | `router.rs`, `sorted_inbox` of `ports.rs` | a router is a value: `Deliver`, `TakeInbox`, `BeginStep` are its methods, with port faults (drop, delay, duplicate, corrupt) and the traffic records. Queues and log are sets; a record's key, <<call, message, connection, copy>>, is the place at which the code pushes it, and `InboxKey` and `LogKey` are the code's two sort orders over them. |
| `SharedRun` | `run_shared_group`, `run_one_span`, the scheduler, command source, replay, the commanded model of `binding.rs` | `phase` is where the executor's loop is; `PrepareCommands` is poll, checks and sequence numbers, `DispatchNext` one turn of the dispatch loop; `StartSpan`, `Step`, `Sample`, `CrossBoundary`, `EndLastSpan`, `Drain` its parts in order; `StartReplay` executes the scenario again with some instances read from the log (`Window`, `Playback`, `RefuseReplay`). What an instance emits is free. |
| `BoardLink` | `av-edge-board`, `peer_link.rs`, the relay, `io_lockstep_app.c`, `power.rs` and the timed client of `binding.rs` | `call[r]` is the one RPC of run `r` as the edge service handles it: `Begin`, `ReadAnswer`, `Recorded`/`RecordFails` under the gate; `BeginCycle`, `Channel`, `SendHello`, `HelloRead` are the power cycle. `air` is a bag of datagrams; `KTimeout` and `KExit` drop a handler where it waits, and its append may still run (`OrphanAppend`). |
| `K8sExecutor` | one run of `k8s/mod.rs` with the judgement of `k8s/status.rs`, against an external cluster | `pc` is where `run`, `drive`, `poll_until_decided` and the `RunGuard` are, one step per API call: `Created`, `CreateRefused`, `CreateServerError` and `CreateLost` are what the create call may return (`LatePost` lands it behind the client's back), `GetJob` and `ListPods` the two reads of a poll, `Assess` and `AssessAtBound` the verdict in the order of its checks, `DeleteJob`...`Drop` the teardown and the backstop. The cluster is what `manifest.rs` asks of it (deadline, ttl, foreground deletion) and what the executor guards against: a second pod, deletions by others, a taken name. |
| `MCCommandAuthority`, `MCLedgerFile`, `MCJobQueue`, `MCStudyWrite`, `MCSharedRun` | - | the small instances: opening ledgers, scenarios, symmetry. |
| `CommandAuthorityProofs`, `LedgerFileProofs`, `JobQueueProofs`, `EdgeUplinkProofs`, `StudyWriteProofs`, `K8sExecutorProofs`, `BoardLinkProofs`, `SharedRunProofs` | - | the proofs. |

Abstractions. A hash is what it covers (a sequence of payloads, or a batch number), so two hashes
are equal exactly when what they cover is. Timestamps, actors, reasons, tokens and policy text
are left out: whether a caller may do a thing is a free choice, since a refusal changes nothing
shared. A `RecordOf` carries the post-transition command with its decision or proposal.
`write_all` is taken to put bytes on file; losing them to a power failure is not modelled.
A study is its content; a lockstep frame is the request it carries or answers (op, sequence,
epoch, run); the physics of a model is left out but for the value a command sets.
The operators marked `bug:` are not part of any specification: each is the mutant of the
definition below it and shows that a property can fail.

## 3. The runs

| Run | Question | Result |
|---|---|---|
| `authority_serial` | Two commands with one key race for dispatch under failures and two crashes, and clients send one RPC at a time per command: is the key handed over once, is the ledger a legal life per command, is the index what a restart would read, and does a durable dispatch reach the asset? | holds: the refinements `DispatchOncePromise` and `LifecyclePromise`, `IndexMatchesLedger`, `DispatchedReachesSink` |
| `authority_reuse` | With ids that are proposed again and RPCs that overlap on one command: does a key of an earlier life stay burned, and is nothing shown or handed over before it is durable? | holds: `EarlierKeysRefused`, `DurableFirst` |
| `authority_keyless` | Is a command without a key dispatched once "by construction"? | no: finding 1 |
| `ledger_file` | Does the ledger file survive kills and failed writes? | holds: `ChainLinked`, `AckedReadable` (up to the first write that fails half way), `HistoryOnlyGrows` |
| `edge_uplink` | Is anything lost, repeated or reordered on the uplink? | holds, within an ingest life and but for stale batches and failed appends: `LogInOrder`, `NothingLost`, `WatermarkNeverOverstated` |
| `edge_outage` | Does a plugin run survive an outage? | no: finding 2 |
| `job_queue` | Is a job submitted once and never run again once its completion is on file; does recovery keep what was acknowledged? | holds: `SubmittedOnce`, `DoneNotRerun`, `AckedSurvives` (up to the first I/O failure) |
| `study_write` | Do the two stores agree, or does the error say so? | holds: `SuccessInBothStores`, `RefusalIsClean` (but for a run that gave up on its header insert), `DisagreementNamed`, `RepairConverges` |
| `shared_run` | Do frames arrive once and when due over faults, latencies and boundaries, is every applied command one that was sent and acked, does each command have one story, does a replay repeat the run, and does the run end? | holds: `FramesConserved`, `DeliveredWhenDue`, `AppliedOnEvidence`, `OutcomesLegal`, `ReplayReproduces`, `RunCompletes` |
| `shared_run_silent` | Is the source told something of every command? | no: finding 3 |
| `board_link` | Is the signed log never behind the kernel, does a completed run replay from its pin, does every run end? | holds: `LogAheadOfKernel`, `PinnedRunReplays`, `RunEnds` |
| `k8s_executor` | Does the report of a Kubernetes run tell what happened on the cluster, does a clean cleanup leave nothing behind, is somebody else's Job left alone, and does every Job go away? | holds: `OutcomeTrue`, `GoneWhenClean` (but for a create request that takes effect behind the client's back), `ForeignJobKept`, `JobsGoAway` |

Every passing run but `authority_serial` also checks its module's `TypeOK`. Seven safety properties
are proved for every value of the constants (section 4) and not repeated in a run:
`KeyDispatchedOnce`, which `DispatchOncePromise` implies, `GuardMatchesLedger` with the inductive
`AuthorityInv`, `QuietReadable`, `FileStudyKept`, `EverySampleInRange`, without which no run
would complete (`RunCompletes`), `SteppedOnSchedule` and `OnlyStartIsSilent`.

Findings, each a statement of the repository the code does not keep (quoted in `PROJECT.json`):

1. Two concurrent Dispatch calls on a command without a key both pass: the edge is judged on a
   clone taken before the lock.
2. The plugin's sink turns an outage into an error, which ends the run with the batch unbuffered.
3. A command due at or before the run's first epoch is accepted and then neither dispatched nor
   reported. It is the only kind: of every other command the source is told (`SilentOnlyAtStart`,
   section 4).

### Bounds, and why they are enough

- `authority_*`: two workers (a race needs two), one key (a duplicate needs two commands and one
  key), three RPCs (`MaxRpcs`), at most two crashes (`MaxCrashes`) in `authority_serial` and one in
  `authority_reuse`. `authority_serial` opens with two AUTHORIZED commands of one key and one
  unborn, so that competing dispatches come before and after each crash; a refused duplicate, acks,
  expiry, failure, a proposal with its automatic check, re-checks and rejections all happen.
  `authority_reuse` opens with a command already DISPATCHED and lets clients propose its id again,
  for another asset too: three RPCs (propose with its automatic check, authorize, dispatch) lead to
  the guard. Workers are interchangeable, hence `SYMMETRY` (not in the run with liveness).
  Deadlock is checked: the service may idle only while no handler is under way.
- `ledger_file`: four frames and four lives (`MaxRecords`, `MaxLives`): a torn frame, a whole one
  behind it, and a restart on either side.
- `edge_*`: four batches (three in `edge_outage`), three runs, two outages, one ageing batch, one
  failed append, two ingest lives: a drain can be interrupted, resumed by a later run, and met by
  a new ingest.
- `job_queue`: three jobs, two submitters, one runner, four lives (the file is bounded by the jobs).
- `study_write`: three runs (one that publishes, one that races it, one that repairs), two
  contents, two faults, one kill, one insert that outlives its client; either store may hold the
  study before. The directory, once published, is never removed, so a third writer meets every
  state a later one could. Runs and contents are interchangeable. Once every run has returned
  nothing is left to do, hence no deadlock check.
- `shared_run`: a container, a commanded spacecraft and a sub-sampling sensor, with periods 4, 4
  and 2 over an output period of 2, links with latency 0, 1 and 3, and eight units of time: the
  receiver's step is longer than, as long as and shorter than the sender's. Five scenarios: every
  way a command can end before the run; a dropped command; a doubled command with a corrupted
  frame; a frame delayed over a maneuver; a command delayed over a power cycle and a fault. Each
  is run and then replayed; the models' emissions are free, so each scenario is many runs. A run
  that is over stops, hence no deadlock check.
- `board_link`: two runs on one service (the second inherits the log, the link and the board), two
  steps with a power cycle after the first, two HELLO attempts, one fault in all (a loss, a copy,
  a crash, a channel or a disk failure), deadlines at any moment. Reordering is free, since `air`
  is a bag. `config` ranges over boards that match or not, declare a reboot or not, and have no
  channel, one that cycles, or one that reboots.
- `k8s_executor`: one run, two pods (`MaxPods`: a retry needs two), one poll error in a row forgiven
  (`PollErrorBudget`; the code counts in the same way up to a larger budget), one deletion by
  somebody else (`MaxMeddles`), and a clock of three values: before the Job's deadline, past it, past
  the executor's own bound. The name is free or taken. The scratch directory, the outputs and every
  call may fail, and the executor may die anywhere. A run that is over stops, and so may the
  cluster, hence no deadlock check.

### Fairness

- `authority_serial`: `WF_vars(Handler(t))` for each worker. A handler is an async
  function without a wait on anything but the key lock, polled by a multi-threaded runtime until it
  returns; nothing in it waits for another client. Calls, crashes and failures have no fairness.
  Because the RPCs of a behaviour are bounded, a worker waiting for the lock cannot be overtaken
  for ever, so weak fairness is enough. `DispatchedReachesSink` excuses a crash, as the code does.
- `shared_run`: `WF_vars(Next)`. The executor is one thread in a loop that waits for nothing.
  (A container's own call has a deadline; that is `BoardLink`'s subject.)
- `board_link`: `WF_vars(KernelMoves(r))`: the kernel's thread runs and its `recv_timeout` fires.
  Nothing is assumed of the edge service, the link or the board, so `RunEnds` rests on the
  deadlines alone; the mutant that leaves one call without a deadline violates it.
- `k8s_executor`: time passes, a late request settles, and the cluster's controllers do what the
  manifest asks of them: the Job is finished, its deadline and ttl are enforced, deletions complete,
  and a container that is being killed ends. Nothing is assumed of the executor, which may die, nor
  of the container, which may run for ever. `JobsGoAway` rests on the deadline and the ttl of
  `manifest.rs`; the mutant without a ttl violates it.

The other runs assume none and check safety only.

## 4. What is proved

Every theorem is for all values of the constants that satisfy the module's ASSUME, so without
the bounds of the runs on workers, commands, jobs, batches, runs, contents, failures and lives.

### The command authority

`CommandAuthorityProofs`, for any sets of workers, ids, entities and keys, any opening ledger of
the right type and any bounds, from `KeyAssumption` and `AuthorityAssumption`:

- `TypeCorrect`: `Spec => []TypeOK`
- `AuthorityInvariant`: `Spec => []AuthorityInv`
- `KeyNeverDispatchedTwice` (`KeyDispatchedOnce`), `NothingAheadOfLedger` (`DurableFirst`),
  `GuardIsRebuildable` (`GuardMatchesLedger`: with the lock free, the keys in memory are those a
  restart would rebuild)
- `EarlierKeysStayBurned`: `Spec => []EarlierKeysRefused`, for a key that a life before the
  opening of the ledger burned
- `ServiceImplementsPromise`: `Spec => DispatchOncePromise`

The argument. `KeyDispatchedOnce` is not inductive: nothing in it says why the next hand-over is
fresh. `AuthorityInv` adds that (a) the lock is held exactly from the duplicate check to the key
insert (`LockCoversAppend`); (b) a key on the ledger is refused already or is the lock holder's own
(`LedgerKeysGuarded`), so a key that passed the check is on no record; (c) between its append and
its hand-over a key is on the ledger, belongs to one worker, and was not handed over before
(`PendingHandOver`); (d) what was handed over is on the ledger (`HandedOverBurned`). A crash frees
the lock and empties every handler, and the rebuilt keys are those of the ledger, which keeps (b)
and makes (c) vacuous: the durable record carries the guarantee over the restart. `AppendedFirst`
does the same for `DurableFirst`. `EarlierKeysRefused` is inductive relative to `AuthorityInv`: keys
only grow (`KeysOnlyGrow`, a restart included, since the guard is a subset of the ledger's keys),
and whoever is past the lock found its key fresh (`PastTheLock`). The proof has one step per action;
the refinement maps `LedgerAppend` to `Burn` or a stutter, `HandOff` to `Deliver`, and the rest to
stutters. `LeastExists` and `GreatestExists` show that a finite set of files with distinct ranks has
a first and a last one, which the scans' `CHOOSE` needs.

The second part of the module has the two results about the order of a command's transitions.
They assume `DisciplinedClients` (one RPC at a time per command, no id proposed twice) and an opening
ledger in which a record stands in the file of its command's entity (`FiledByEntity`):

- `IndexIsLedger`: `Spec => []IndexMatchesLedger`
- `OneLifePerCommand`: `Spec => LifecyclePromise`

Without the first assumption both fail: no handler holds a lock from the clone of a command to its
append, so two of them may fork it. `LifeInv` says what a running handler knows (`View`): up to the
append it carries the successor of what the ledger says of its command, from then on what the
ledger says, and the two indexes lag behind only between the append and their own write. A step of
one handler leaves what another one knows alone, because no two are on one command (`OneEach`).
The rest is about the scans: an append to the file of a command's entity is the last word on that
command, even when older files mention it too, because an edge never changes the entity
(`AppendScans`, `MovedKeeps`), and it changes nothing the scans say of any other.

### The ledger file

`LedgerFileProofs`, from `FileAssumption`: `TypeCorrect`, `ReadsOneChain` (`ChainLinked`),
`ReturnedIsReadable` (`AckedReadable`), `ReadersNeverLose` (`HistoryOnlyGrows`). `ChainLinked` says
nothing of what the next record will be. The inductive `IInv` adds that the chain state in memory
is that of the file while every piece of it is whole, and that the record under way is the next
one (`AppendFollows`); that before a half-written frame only the last piece can be broken, and no
process starts on it (`SoundWhole`), so a returned record is never behind a broken piece
(`AckedKept`); and that the counts leave room (`Places`). `HistoryOnlyGrows` follows because what a
reader reaches (`Reaches`) is a prefix of the file and no step changes a piece before the last.

### The job queue

`JobQueueProofs`, from `QueueAssumption`: `TypeCorrect`, `NoJobTwice`, `CompletedStaysDone`,
`AcknowledgedSurvives`, `ReadableWhenQuiet`. `IInv` says who holds which lock at which step
(`Locks`), that the frame of an append under way is the last one (`FrameUnderWay`), that the
duplicate check of a submission holds until its frame is written, because the guard is held
throughout (`CheckHolds`), and that what `run_pending` read is still pending, but for the job whose
completion is being logged (`RunHolds`). Recovery is one lemma (`Leaves`): what opening leaves is a
prefix of the file with at most one frame of garbage, and cuts off no chained frame. It carries
`OneChain` and `AckedChained` over a restart.

### The edge uplink

`EdgeUplinkProofs`, from `UplinkAssumption`: `TypeCorrect`, `LogStaysInOrder`, `NothingIsLost`,
`WatermarkHonest`. The chain state is a prefix of the batches (`ChainIsPrefix`) and the log of the
present life follows it, a hole being excused (`LogFollows`): hence `LogInOrder`, over any number
of ingest lives. While the first ingest lives (`FirstLife`), the argument for the watermark is
that the buffer is in order: whatever stands before a buffered batch in the stream has been
answered or is buffered before it (`BufferOrder`), and what is above the watermark in the buffer is
still in the backlog or has been answered (`Drained`). So the first batch of the backlog is
submitted when all before it have been answered, and the ingest then answers it too, as taken,
as a duplicate, as stale, or as behind an excused one (`IngestTakes`); an empty backlog means that
everything is answered, and the watermark may be written.

### The study write

`StudyWriteProofs`, from `StudyAssumption`: `TypeCorrect`, `SuccessesInBothStores`,
`RefusalsAreClean`, `DirectoryNeverReplaced`, `DisagreementsNamed`, `RepairsConverge`. A success is
in ClickHouse because the file store is committed only after a shown header with the run's content
was seen, and rows are never removed (`ClickHouseFirst`); it is in the file store because a
directory, once published, stays (`FileHolds`). A refused run's header can never win: another one,
stamped before it, is shown already (`RefusedBeaten`), which is why `created_at`, and not the order
in which rows show, decides.

`DisagreementsNamed` (`DisagreementNamed`) and `RepairsConverge` (`RepairConverges`) need more of
the past (`RepairInv`): what the stores held at the start they still hold, in front of every other
header and in the directory (`EarlierKept`), so a run that gets as far as the file store has the
content that was there first (`Inherited`); and a run that met no fault of its own re-reads only
after it was stamped and settles a rename only against a directory that is there (`Unharmed`). With
one content about (`Alone`) every read then finds that content or nothing, and no refusal is
possible; with several, a winning header and the directory can only be those of runs that returned
Ok, or from before.

### The Kubernetes executor

`K8sExecutorProofs`, from `K8sAssumption`, for any number of pods, deletions by others and poll
errors: `TypeCorrect`, `ReportTellsTruth` (`OutcomeTrue`), `CleanMeansGone` (`GoneWhenClean`),
`OthersLeftAlone` (`ForeignJobKept`). None of them is inductive, since each speaks of what the run
believes while the cluster moves on. `IInv` says what the answer of the create call tells of the
cluster (`Flow`, `AnswerTrue`), and that what the polls remember of a pod stays true of it
(`TracksTrue`), because the cluster only moves one way (`Evolves`, of which every step of it is an
instance): a container that ended stays as it ended, a deletion is not taken back, and pods are
added only under a Job that has neither finished nor succeeded. Hence what was read of a finished
Job is still true when its pods are read, a step later (`ReadTrue`), and a verdict stays true until
it is reported (`ResultTrue`). `GoneTrue` holds from the moment the teardown saw the Job gone: with
no create request left on its way, none can come back under the run's name.

### The board link

`BoardLinkProofs`, from `BoardAssumption`, for any number of runs, steps, HELLO attempts, link
faults and failed appends: `TypeCorrect`, `LogNeverBehind` (`LogAheadOfKernel`),
`CompletedRunsReplay` (`PinnedRunReplays`). The two properties are about what the kernel was told
and what the log holds; neither says how a step of the board comes to be on both. `IInv` follows the
script of a run from BIND over the steps, with the power cycle between two of them, to SHUTDOWN:

- one run is alive at a time, and only a live one has a call (`OneAlive`); where its kernel is in
  the script decides its counters (`Scripted`, by `AtOp`) and the request its call carries
  (`CallsMatch`);
- the log's name is that of the run that bound to it last, and a live run past its BIND writes in
  its own (`LogIsItsOwn`);
- a frame on the air or in a handler, however late, copied or out of order, is what the board
  answers to the request it names (`FramesTrue`), so an answer that matches the request's sequence
  number is the answer of this step of this run;
- the step records of a live run are those the kernel was told of and at most the one it has asked
  for and not been told of (`StepsInOrder`): the gate holds from the exchange to the append, and the
  reply comes after it;
- a handler that was dropped while its append was under way may still append, and what it appends
  is then the last record of a run that is gone (`OrphansLast`). So it cannot fall between two
  records of a run that goes on;
- the log of a run that nothing disturbed is the script up to what it has written (`OnTrack`, by
  `Written` and `WrittenInCall`), and its pin is the length of the script when it is `Pinned`.

A run that completes therefore leaves exactly its script, with the answers the kernel was given:
what `board_replay.rs` asks for.

### The shared run

`SharedRunProofs`, from `RunAssumption`: for any instances, periods, output period, connections and
latencies, commands, port faults and boundaries, in a run and in its replay: `TypeCorrect`,
`NoFrameLost` (`FramesConserved`), `FramesOnTime` (`DeliveredWhenDue`), `NeverOutOfRange`
(`EverySampleInRange`), `AppliedAreAcked` (`AppliedOnEvidence`), `StepsAsPlanned`
(`SteppedOnSchedule`), `SilentOnlyAtStart` (`OnlyStartIsSilent`) and, under a hypothesis on the
connections, `OneStoryEach` (`OutcomesLegal`). `RunAssumption` is what loading a run has checked or
done (a run's length and its boundaries on the output grid, a container's period dividing the run,
no two port faults open on one port, boundaries sorted, finitely many instances) and that a source
names each command by an id of its own. `IInv` has these parts:

- `Carried` is about the router and is proved apart from the run, for one call of each method
  (`DeliverArrives`, `TakeInboxKeeps`, `BeginStepKeeps`). A delivery adds the same copies to a
  queue and to the log, under keys no earlier call has given and no later one will (`IsRouter`),
  and every copy notes how many steps its receiver had taken. So frames are conserved
  (`ArrivalConserves`, `TakingConserves`), and what still waits in a queue was not due at any step
  taken since it was queued (`OnTime`), which is why the step that takes it is the first that may.
- `Schedule` says that each instance's next epoch is a period after its current one, and `SpanLoop`
  that a span begins and ends on output instants. `Held` says that every instance has a value at the
  instant that is being reached (`Samplable`): an instance without a state never runs ahead of it, and
  one with a state, even in steps that straddle several instants, keeps the step before.
  `EverySampleInRange` alone is not inductive, since a sample asks for both ends of a step.
- `Commands` says that no instance steps before the dispatch loop is over, so that no frame of a
  command is late for a step; `Recorded` that every step put one outbox and one inbox on record.
- `Applied` adds to `AppliedOnEvidence` that the sort of an inbox has one last frame (`LastIsOne`),
  so that the command a step took, the value it set and the ack it sent are the same command's.

The last three theorems rest on more.

- `Planned` gives the schedule in closed form. A step is an epoch `start + n * Period` of a span
  start (0, or a boundary inside the run) that fits before the next start and the end: wholly if the
  instance has no state, by its beginning if it has one (`StepIn`). So where an instance steps does
  not depend on the output period, on the others or on the frames, and a replay steps where the run
  did. The lemmas behind it say that what an instance stepped at before a boundary lies before
  its first step after it (`BeforeStart`), also for a coarse instance the boundary sets back.
- The sequence numbers: there is one numbering (`OrdersUnique`), it has every command that is to be
  dispatched, by epochs, and it has no id twice (`OrdersFacts`). So a run and its replay number
  commands alike.
- `DeliverExact` says what one call of deliver queues, draws and logs, and nothing else.
  From it `Frames`: the faults on `cmd_out` draw on the commands alone while they are dispatched, so
  that which frames of a command arrive, and when, is settled by the commands and the faults
  (`CommandFrame`); those are all queued or taken at its target, and a command frame at a consumer is
  one of its own commands'. In a replay a replayed sender's frames enter a second time (section 5);
  those the dispatch sent are there all the same.
- `Acked`: an ack was sent at the first epoch of the target's schedule at or after an instant at
  which a frame of its command is available (`DueAt`), in the run and in what a replay plays back.
  So what the drain reports of a target that is replayed, which it reads off a log of another run,
  is what the target's own queue says too: the frame was taken at that epoch (`ExecutedReplayed`).
  For one that ran it is `AppliedOnEvidence` with `Frames` (`ExecutedLive`).
- `Heard` and `Reported` are the stories so far: a command that is turned away is told of once, one
  the dispatch loop has been over has its two reports together and the acks after them, one it
  passed over or has not reached has none.

The hypothesis of `OneStoryEach` is `Wired`: a consumer's command port is fed from `cmd_out` ports
only, and an instance that sends commands to a consumer has its `cmd_out` connected to the command
port of no other one. That is what the dispatch is written for (`command.rs:114`,
`executor.rs:2409`), but no code checks it, and without it the theorem is false: of two consumers
fed from one `cmd_out` each applies the other's commands and has its own reported (section 5).
`MCSharedRun` assumes it of its connections, so that TLC evaluates it. The other theorems do not need
it.

### Model-checked only

Liveness (`DispatchedReachesSink`, `RunCompletes`, `RunEnds`, `JobsGoAway`), which the prover
does not do. `ReplayReproduces`, which holds for the scenarios' connections and boundaries and not
for all (section 5); what is proved of a replay is that it steps where the run did and that its
commands' stories are legal too. `EveryCommandReported` fails: finding 3.

## 5. Known divergences

What the code does that a comment, or a reader, would not expect. The first three have a run; the
others have a definition that states the expectation, where named, and a counterexample found
with the module it stands in, but are no longer among the runs.

- `KeylessDispatchedOnce`, `OutageSurvived`, `EveryCommandReported`: findings 1 to 3 above.
- `DecidedOnce` (`CommandAuthority`): a Check of a CHECKED command that policy now denies is not
  refused: it is rejected, with a second decision on the ledger; after a restart the first one is
  shown (`authority.rs:127`).
- `TornTailRefused` (`LedgerFile`): after a write that fails half way the same process keeps
  appending behind the torn bytes, and a torn length prefix of one to three bytes reads as a clean
  end of file (`ledger.rs:375`).
- `ChainNeverAheadOfLog` (`EdgeUplink`): a partition append that fails leaves the producer's chain
  ahead of the log; the resubmission is answered as a duplicate and the batch is lost
  (`ingest.rs:211`).
- `RefusalsHold` (`StudyWrite`): a header insert whose client times out shows after the re-read
  found no header: the run reported that nothing was made visible, and the study appears
  (`clickhouse/mod.rs:402`).
- `CommandHolds` (`SharedRun`): a fault or maneuver boundary of any instance builds every model
  anew, and a commanded value goes back to full scale on instances the boundary does not target,
  though AckedExecuted was reported (`executor.rs:2561`, `binding.rs:3987`;
  `BystanderScenarios`).
- `EveryBoundaryApplied` (`SharedRun`): of two boundaries at one epoch the second is passed over,
  a window that begins where another ends included (`executor.rs:2438`; `CoincidentScenarios`).
- Acks are attributed by instance and field: of several commands to one target the last one is
  acked for all of them, and `OutcomesLegal` speaks of commands alone at their target. For the same
  reason, where a `cmd_out` port is connected to two consumers, both take every command sent from it,
  and a consumer that applies the other one's has its own reported as executed (`executor.rs:2774`):
  the ack itself names the right one (`AppliedOnEvidence`).
- A replay refuses the faithful log of an instance that emits nothing in some of its steps
  (`MissingFrame`), which `ReplayReproduces` excuses. It does not reproduce two cases, which the
  scenarios leave out: a boundary off a coarse instance's own steps, whose discarded future
  frames stay in the router and are emitted again; and a replayed instance that commands are sent
  from, whose command frames enter twice. A third lies in the connections: the log is sorted by
  epoch, step and port (`executor.rs:3460`) and `ReplayModel` plays it in that order
  (`replay.rs:297`), so that two ports of a replayed instance that lead to one input port deliver
  frames of one epoch by port name, where the run had them in the order they were emitted, and the
  last one on the port is another one.
- A command refused or expired consumes its idempotency key, so that a later valid one with the
  same key is a duplicate, though the comment speaks of keys "already dispatched".
- A frame sent inside a coarse receiver's step arrives at the step after it, a step later than
  `router.rs`'s comment reads: the receiver has stepped ahead by then. `DeliveredWhenDue` is about
  the steps a receiver takes after the frame was queued.
- `BoardLink`: after a failed run the kernel sends no Shutdown, so the edge service's exit on a lost
  link is never taken by it; a PowerCycle dropped between the reboot and the re-handshake leaves
  the link not marked lost, so that the next run binds to a session that is gone
  (`relink.rs:33`); a late frame read during the re-handshake is answered with an ERROR frame, which
  ends the rebooted guest; a second run on a service whose log holds an earlier run completes live
  but is refused in replay.
- `GoneWhenClean` (`K8sExecutor`) excuses two cases. A 5xx answer to the create call counts as a
  refusal, so that `job_may_exist` is cleared and a Job the request did create is neither deleted nor
  reported, though the comments say that no Job of ours was created and that the guard removes it on
  every path (`k8s/mod.rs:555`, `:769`). A create request whose reply was lost may also take effect
  after the teardown found no Job. In both the deadline and the ttl end the Job (`JobsGoAway`).
- `K8sExecutor`: a deadline that falls between the read of the Job and the read of its pods, with a
  container that never ended, is reported as a pod deleted by somebody else, though `status.rs`
  puts the deadline before the pod; a container that waits for a reason judged permanent is reported
  as never started at once, though the kubelet may still start it before the delete; and at the
  executor's bound a pod that exited 0, whose Job is not complete yet, is reported as a deadline
  overrun.

## 6. What is not modelled, and why

Authentication, roles and policy evaluation (pure decisions, taken as free); the rate window (the
count is read before the append); readers that look at a ledger file in the middle of an append; a
lost page cache; more than one producer per ingest (chains are independent per producer; partitions
are shared, but an append is atomic under the log's lock); the announce handshake and the framing of
the Submit stream; recovery of the edge buffer's and the board log's torn tails (scans of the same
kind as the job log's, which is modelled); reading and listing studies; what a job does; the
Kubernetes executor's start-up checks (nodes, NetworkPolicy, network gate), logs and failure texts;
the tiler and the Docker executor (one blocking call each); loading and checking a DRM, pacing,
sensors' numerics, GMAT sharing and the single-system kernel; the Docker management and the test
lock of the lockstep crates; and the components listed as `not_modelled` in `PROJECT.json`: numeric
code, wire protocols, parsing, rendering, device I/O, with no state to interleave.

## 7. How the modules were ordered

By what an error would cost: 1 `CommandState`, `CommandAuthority`, `DispatchOnce`,
`CommandLifecycle` and their proofs; 2 `LedgerFile`; 3 `ChainVerifier`, `EdgeUplink`; 4 `JobQueue`;
5 `StudyWrite`; 6 `PortRouter`, `SharedRun`; 7 `BoardLink`; 8 the proofs of 2 to 5; 9 `K8sExecutor`
and its proofs; 10 the proofs of 7; 11 those of 6. What would come next: the rate window and unlocked readers in
`CommandAuthority`, several producers and the announce handshake in `EdgeUplink`.
