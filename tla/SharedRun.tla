------------------------------ MODULE SharedRun ------------------------------
(***************************************************************************)
(* One simulation run: drm/executor.rs run_shared_group and run_one_span   *)
(* over the scheduler (schedule.rs), the output loop (kernel.rs) and one   *)
(* router (PortRouter), with the commands of an external source            *)
(* (drm/command_source.rs), and then a replay of the run from the traffic  *)
(* it recorded (drm/replay.rs).                                            *)
(*                                                                         *)
(* The executor is one thread, so what is free is what the models emit,    *)
(* and when; a model is deterministic, so in a replay an instance that is  *)
(* not replayed emits again what it emitted before.  A scenario fixes the  *)
(* commands, the faults and maneuvers, and who is replayed.                *)
(***************************************************************************)
EXTENDS PortRouter, SequencesExt

CONSTANTS
  Period,        \* [Instance -> Nat \ {0}]
  End,           \* the run is [0, End]
  Model,         \* instances the executor rebuilds at a boundary; the rest are containers
  Stateless,     \* instances with state_dim 0
  Consumer,      \* ConstantAccel models with a command port and an ack port
  SubStep,       \* sensors that sample between two of their steps
  Scenarios      \* the scenarios of this instance of the model

\* A CommandRequest of the source, a boundary of the timeline, a PORT fault, a connection.
Command == [id : Nat, key : STRING, from : Nat, target : Nat, value : Int, notBefore : Int,
            deadline : Int, malformed : BOOLEAN]
Boundary == [kind : STRING, target : Instance, tai : Nat]
PortFault == [kind : {"drop", "delay", "corrupt", "duplicate"}, from : Instance, port : STRING,
              start : Int, duration : Nat, delay : Int, hits : SUBSET Nat]
Connection == [from : Instance, port : STRING, to : Instance, inPort : STRING, latency : Int]

\* The run ends, and a boundary falls, on an output instant; an id, by which the source
\* correlates what it is told (CommandOutcome), names one command.
OnGrid(t) == \E n \in 0 .. t : t = n * OutputPeriod

ASSUME RunAssumption ==
  /\ Instance \subseteq Nat /\ IsFiniteSet(Instance) /\ Model \subseteq Instance /\ Consumer \subseteq Model
  /\ Instance \ Model \subseteq Stateless /\ Stateless \subseteq Instance
  /\ SubStep \subseteq Instance
  /\ Edges \in Seq(Connection)
  /\ Period \in [Instance -> Nat \ {0}] /\ OutputPeriod \in Nat \ {0}
  /\ End \in Nat /\ OnGrid(End)
  /\ \A i \in Instance \ Model : End % Period[i] = 0
  /\ \A s \in Scenarios :
       /\ s.commands \in Seq(Command)
       /\ \A j, k \in DOMAIN s.commands : s.commands[j].id = s.commands[k].id => j = k
       /\ s.boundaries \in Seq(Boundary)
       /\ \A k \in DOMAIN s.boundaries : OnGrid(s.boundaries[k].tai)
       /\ \A j, k \in DOMAIN s.boundaries : j < k => s.boundaries[j].tai <= s.boundaries[k].tai
       /\ s.portFaults \subseteq PortFault /\ FaultsLegal(s.portFaults)

VARIABLES
  scenario,  \* what is run
  phase,     \* where run_shared_group is
  next,      \* the boundary the loop is at
  segStart,  \* where the current span began
  tick,      \* the output instant the scheduler advances to
  due, curr, prev,   \* HeteroSystemEntry next_due_ns and history, -1 for no prev
  router,
  orders,    \* the commands that will be dispatched, by (epoch, id): their sequence numbers
  looped,    \* how many of them the dispatch loop has been over
  cells,     \* ConstantAccelModel commanded_accel_scale and last_applied_command_value
  applied,   \* applied_commands of each instance
  reports,   \* what ExternalCommandSource::report was told
  crossed,   \* history: boundaries that were applied
  taken,     \* history: what each instance took from its ports, step by step
  emitted,   \* history: what each instance put on its ports, step by step
  original   \* the run a replay repeats, << >> when there is none

progress == <<phase, next, segStart, tick>>
scheduler == <<due, curr, prev>>
history == <<crossed, taken, emitted, original>>
vars == <<scenario, progress, scheduler, router, orders, looped, cells, applied, reports, history>>

Phases == {"poll", "dispatch", "boundary", "advance", "drain", "done", "outOfRange", "missingFrame"}
FullScale == 1          \* commanded_accel_scale of a new ConstantAccelModel
Unset == -1
NewCell == [value |-> FullScale, last |-> Unset]

Replaying == original # << >>
Replayed == IF Replaying THEN scenario.replayed ELSE {}
Boundaries == scenario.boundaries
-----------------------------------------------------------------------------
TypeOK ==
  /\ scenario \in Scenarios
  /\ phase \in Phases
  /\ next \in 1 .. Len(Boundaries) + 1
  /\ segStart \in 0 .. End /\ tick \in 0 .. End /\ segStart <= tick
  /\ due \in [Instance -> Nat] /\ curr \in [Instance -> Nat] /\ prev \in [Instance -> Int]
  /\ \A i \in Instance : due[i] = curr[i] + Period[i]
  /\ looped \in 0 .. Len(orders)
  /\ \A i \in Instance : \A q \in router.pending[i] :
       q.to = i /\ q.from \in Instance /\ q.after \in 0 .. Len(taken[i])
  /\ cells \in [Instance -> [value : Int, last : Int]]
  /\ crossed \subseteq DOMAIN Boundaries
  /\ \A i \in Instance : Len(taken[i]) = Len(emitted[i])

Fresh(s) ==
  /\ scenario' = s
  /\ phase' = "poll" /\ next' = 1 /\ segStart' = 0 /\ tick' = 0
  /\ curr' = [i \in Instance |-> 0]
  /\ due' = Period
  /\ prev' = [i \in Instance |-> -1]
  /\ router' = NewRouter(s.portFaults)
  /\ orders' = << >> /\ looped' = 0 /\ reports' = << >>
  /\ cells' = [i \in Instance |-> NewCell]
  /\ applied' = [i \in Instance |-> << >>]
  /\ crossed' = {}
  /\ taken' = [i \in Instance |-> << >>] /\ emitted' = [i \in Instance |-> << >>]

Init ==
  /\ scenario \in Scenarios
  /\ phase = "poll" /\ next = 1 /\ segStart = 0 /\ tick = 0
  /\ curr = [i \in Instance |-> 0]
  /\ due = Period
  /\ prev = [i \in Instance |-> -1]
  /\ router = NewRouter(scenario.portFaults)
  /\ orders = << >> /\ looped = 0 /\ reports = << >>
  /\ cells = [i \in Instance |-> NewCell]
  /\ applied = [i \in Instance |-> << >>]
  /\ crossed = {}
  /\ taken = [i \in Instance |-> << >>] /\ emitted = [i \in Instance |-> << >>]
  /\ original = << >>
-----------------------------------------------------------------------------
(* The commands of the external source, polled once, at the start.         *)

\* What the executor finds wrong with a command before it looks at its times.
Refusal(c) ==
  IF c.from \notin Instance THEN "UnknownSender"
  ELSE IF c.target \notin Instance THEN "UnknownTarget"
  ELSE IF c.target \notin Consumer THEN "TargetNotFramedConsumer"
  ELSE IF c.malformed THEN "MalformedPayload"
  ELSE "none"

\* decide_disposition: when the command goes out, or why it does not.
Epoch(c) == IF c.notBefore > 0 THEN c.notBefore ELSE 0
Disposition(c) ==
  IF c.deadline # 0 /\ Epoch(c) >= c.deadline THEN "Expired"
  ELSE IF Epoch(c) >= End THEN "NotDispatchedRunEnded"
  ELSE "Dispatch"

\* DuplicateIdempotencyKeyTracker::is_duplicate: the key of every earlier command is seen.
Duplicate(k) ==
  LET c == scenario.commands[k]
  IN  c.key # "" /\ \E j \in 1 .. k - 1 : scenario.commands[j].key = c.key

\* The outcome reported for the k-th command when it is polled, "Dispatch" for none.
PollOutcome(k) ==
  LET c == scenario.commands[k]
  IN  IF Duplicate(k) THEN "DuplicateIdempotencyKey"
      ELSE IF Refusal(c) # "none" THEN Refusal(c)
      ELSE Disposition(c)

Report(id, outcome, tai) == [id |-> id, outcome |-> outcome, tai |-> tai]
\* What is reported while the commands are polled, in the order they come in.
Undispatched == {k \in DOMAIN scenario.commands : PollOutcome(k) # "Dispatch"}
NthUndispatched(n) ==
  CHOOSE k \in Undispatched : Cardinality({j \in Undispatched : j <= k}) = n
PollReports ==
  [n \in 1 .. Cardinality(Undispatched) |->
     LET k == NthUndispatched(n) IN Report(scenario.commands[k].id, PollOutcome(k), 0)]

\* assign_sequence_numbers: by (epoch, id); the place of a command is its number.
Chosen == {k \in DOMAIN scenario.commands : PollOutcome(k) = "Dispatch"}
CommandKey(k) == <<Epoch(scenario.commands[k]), scenario.commands[k].id>>
Order(c) == [id |-> c.id, from |-> c.from, target |-> c.target, value |-> c.value, tai |-> Epoch(c)]
Numbered(S) == {[n \in DOMAIN f |-> Order(scenario.commands[f[n]])] : f \in Sorted(S, CommandKey)}

\* A bug: an expired command is reported and then dispatched all the same.
OrdersWithExpired == Numbered({k \in DOMAIN scenario.commands : PollOutcome(k) \in {"Dispatch", "Expired"}})
Orders == Numbered(Chosen)

PrepareCommands ==
  /\ phase = "poll"
  /\ orders' \in Orders
  /\ reports' = PollReports
  /\ phase' = IF orders' = << >> THEN "boundary" ELSE "dispatch"
  /\ UNCHANGED <<scenario, next, segStart, tick, scheduler, router, looped, cells, applied, history>>

\* The dispatch loop sends only what falls strictly inside the run, each command
\* through the router as if its sender had emitted it on its cmd_out port.
Dispatchable(c) == 0 < c.tai /\ c.tai < End
Frame(port, tai, payload) == [port |-> port, tai |-> tai, payload |-> payload]
DispatchNext ==
  /\ phase = "dispatch"
  /\ looped' = looped + 1
  /\ LET c == orders[looped']
     IN  IF Dispatchable(c)
         THEN /\ router' = Deliver(router, c.from, c.tai, [i \in Instance |-> 0],
                                     <<Frame("cmd_out", c.tai, looped')>>)
              /\ reports' = reports \o <<Report(c.id, "Dispatched", c.tai),
                                        Report(c.id, "AckedEdge", c.tai)>>
         ELSE UNCHANGED <<router, reports>>
  /\ phase' = IF looped' = Len(orders) THEN "boundary" ELSE "dispatch"
  /\ UNCHANGED <<scenario, next, segStart, tick, scheduler, orders, cells, applied, history>>
-----------------------------------------------------------------------------
(* Spans: the boundary loop of run_shared_group around run_one_span.       *)

InRun(b) == segStart < b.tai /\ b.tai < End
SpanEnd == IF next \in DOMAIN Boundaries THEN Boundaries[next].tai ELSE End

\* A boundary that is not strictly after the last one is passed over.
SkipBoundary ==
  /\ phase = "boundary"
  /\ next \in DOMAIN Boundaries /\ ~ InRun(Boundaries[next])
  /\ next' = next + 1
  /\ UNCHANGED <<scenario, phase, segStart, tick, scheduler, router, orders, looped, cells, applied,
                 reports, history>>

\* A bug: the instances keep their places in the schedule.
StartSpanOldSchedule ==
  /\ phase = "boundary"
  /\ next \in DOMAIN Boundaries => InRun(Boundaries[next])
  /\ curr' = [i \in Instance |-> segStart]
  /\ tick' = segStart
  /\ router' = BeginStep(router)
  /\ phase' = "advance"
  /\ UNCHANGED <<scenario, next, segStart, due, prev, orders, looped, cells, applied, reports, history>>

\* run_one_span: a new kernel, every instance registered at the start of the span.
StartSpan ==
  /\ phase = "boundary"
  /\ next \in DOMAIN Boundaries => InRun(Boundaries[next])
  /\ curr' = [i \in Instance |-> segStart]
  /\ due' = [i \in Instance |-> segStart + Period[i]]
  /\ prev' = [i \in Instance |-> -1]
  /\ tick' = segStart
  /\ router' = BeginStep(router)
  /\ phase' = "advance"
  /\ UNCHANGED <<scenario, next, segStart, orders, looped, cells, applied, reports, history>>

\* A bug: an instance with a state is not stepped past the output instant either.
EligibleWhenDue(i) == due[i] <= tick

\* catch_up_eligible: what has no state never runs ahead of the output instant, what
\* has a state is stepped until it has reached it.
Eligible(i) == IF i \in Stateless THEN due[i] <= tick ELSE curr[i] < tick
\* The scheduler's loop: the earliest due first, in the order of names at one instant.
Turn(i) ==
  /\ Eligible(i)
  /\ \A j \in Instance \ {i} : Eligible(j) => due[i] < due[j] \/ (due[i] = due[j] /\ i < j)

\* sample_held and sample_kind: the instants at which instance i has a value.
InRange(i) ==
  IF i \in Stateless
  THEN curr[i] <= tick
  ELSE tick = curr[i] \/ (prev[i] # -1 /\ prev[i] <= tick /\ tick <= curr[i])

\* The output loop: every instance is sampled, then the next instant is advanced to.
Sample ==
  /\ phase = "advance" /\ \A i \in Instance : ~ Eligible(i)
  /\ IF \E i \in Instance : ~ InRange(i)
     THEN phase' = "outOfRange" /\ UNCHANGED <<tick, router>>
     ELSE /\ tick < SpanEnd
          /\ tick' = tick + OutputPeriod
          /\ router' = BeginStep(router)
          /\ UNCHANGED phase
  /\ UNCHANGED <<scenario, next, segStart, scheduler, orders, looped, cells, applied, reports, history>>

SpanDone ==
  /\ phase = "advance" /\ tick = SpanEnd
  /\ \A i \in Instance : ~ Eligible(i) /\ InRange(i)

\* A boundary changes its target; every model, target or not, is built anew.
CrossBoundary ==
  /\ SpanDone /\ next \in DOMAIN Boundaries
  /\ cells' = [i \in Instance |-> IF i \in Model THEN NewCell ELSE cells[i]]
  /\ crossed' = crossed \cup {next}
  /\ next' = next + 1
  /\ segStart' = Boundaries[next].tai
  /\ phase' = "boundary"
  /\ UNCHANGED <<scenario, tick, scheduler, router, orders, looped, applied, reports, taken, emitted,
                 original>>

EndLastSpan ==
  /\ SpanDone /\ next \notin DOMAIN Boundaries
  /\ phase' = "drain"
  /\ UNCHANGED <<scenario, next, segStart, tick, scheduler, router, orders, looped, cells, applied,
                 reports, history>>
-----------------------------------------------------------------------------
(* One step of one instance.                                               *)

\* ReplayModel::new and step_with_ports: the OUT records of the instance that fall in
\* the step, as port_traffic.binpb holds them (sort_port_traffic).
Log(i) == {x \in original.traffic : x.instance = i /\ x.dir = "out"}

\* A bug: the window of a step holds its first instant, not its last.
WindowFromStart(i) == {x \in Log(i) : curr[i] <= x.tai /\ x.tai < due[i]}
Window(i) == {x \in Log(i) : curr[i] < x.tai /\ x.tai <= due[i]}
Playback(i) == {[n \in DOMAIN f |-> Frame(f[n].port, f[n].tai, f[n].payload)] :
                  f \in Sorted(Window(i), LogKey)}
\* A step with no frame between the first and the last of the log is refused.
InteriorGap(i) ==
  /\ Window(i) = {}
  /\ \E x \in Log(i) : x.tai < due[i]
  /\ \E x \in Log(i) : curr[i] < x.tai

\* ConstantAccelModel::step_with_ports: the last command on the port is in force, if it can be
\* decoded; it is reported and acknowledged when its value is new.
OnCommandPort(i, inbox) == {q \in inbox : i \in Consumer /\ q.port = "cmd"}
LastCommand(i, inbox) ==
  {q \in OnCommandPort(i, inbox) :
     \A p \in OnCommandPort(i, inbox) : ~ Precedes(InboxKey(q), InboxKey(p))}
Commanded(i, inbox) == {q.payload : q \in LastCommand(i, inbox)} \cap DOMAIN orders
CellAfter(i, inbox) ==
  LET n == Commanded(i, inbox)
  IN  IF n = {} THEN cells[i]
      ELSE LET v == orders[CHOOSE x \in n : TRUE].value IN [value |-> v, last |-> v]
NewlyApplied(i, inbox) == {n \in Commanded(i, inbox) : cells[i].last # orders[n].value}

\* A bug: the ack names the command that was numbered last.
AckOfNewest(i, inbox) == {Frame("ack", due[i], Len(orders)) : n \in NewlyApplied(i, inbox)}
Ack(i, inbox) == {Frame("ack", due[i], n) : n \in NewlyApplied(i, inbox)}
Telemetry(i, inbox) == Frame("tlm", due[i], CellAfter(i, inbox).value)

\* What the instance puts on its ports in the step: a ConstantAccel model its telemetry
\* and its ack, anything else what it likes, at the end of the step or inside it.
Outboxes(i, inbox) ==
  IF i \in Consumer
  THEN IF Ack(i, inbox) = {} THEN {<<Telemetry(i, inbox)>>}
       ELSE {<<Telemetry(i, inbox), ack>> : ack \in Ack(i, inbox)}
  ELSE {<< >>, <<Frame("tlm", NoEpoch, 0)>>}
       \cup (IF i \in SubStep THEN {<<Frame("tlm", due[i] - 1, 0), Frame("tlm", due[i], 0)>>} ELSE {})

\* A replayed instance sends what its log says, and so does in effect a live one in a replay,
\* in the steps that it took before: a model is deterministic.
Live(i) == i \notin Replayed
StepsTaken(i) == Len(emitted[i])
Sends(i, inbox) ==
  IF ~ Live(i) THEN Playback(i)
  ELSE IF Replaying /\ i \notin Consumer /\ StepsTaken(i) < Len(original.emitted[i])
  THEN {original.emitted[i][StepsTaken(i) + 1]}
  ELSE Outboxes(i, inbox)

Step(i) ==
  /\ phase = "advance" /\ Turn(i)
  /\ i \in Replayed => ~ InteriorGap(i)
  /\ \E inbox \in {Ready(router, i, due[i])} :
       \E outbox \in Sends(i, inbox) :
           /\ taken' = [taken EXCEPT ![i] = Append(@, [at |-> due[i], inbox |-> inbox])]
           /\ emitted' = [emitted EXCEPT ![i] = Append(@, outbox)]
           /\ router' = Deliver(TakeInbox(router, i, due[i]), i, due[i],
                                     [j \in Instance |-> Len(taken'[j])], outbox)
           /\ cells' = IF Live(i) THEN [cells EXCEPT ![i] = CellAfter(i, inbox)] ELSE cells
           /\ applied' = IF Live(i) /\ NewlyApplied(i, inbox) # {}
                         THEN [applied EXCEPT ![i] =
                                 Append(@, [value |-> cells'[i].value, at |-> curr[i]])]
                         ELSE applied
  /\ prev' = [prev EXCEPT ![i] = curr[i]]
  /\ curr' = [curr EXCEPT ![i] = due[i]]
  /\ due' = [due EXCEPT ![i] = @ + Period[i]]
  /\ UNCHANGED <<scenario, progress, orders, looped, reports, crossed, original>>

RefuseReplay(i) ==
  /\ phase = "advance" /\ Turn(i) /\ i \in Replayed /\ InteriorGap(i)
  /\ phase' = "missingFrame"
  /\ UNCHANGED <<scenario, next, segStart, tick, scheduler, router, orders, looped, cells, applied,
                 reports, history>>
-----------------------------------------------------------------------------
(* After the last span.                                                    *)

\* commands_by_target_field: of the commands of one target the last is kept.
LastOrder(i) == {n \in DOMAIN orders :
                   orders[n].target = i /\ \A m \in n + 1 .. Len(orders) : orders[m].target # i}
\* An instance that ran: each command it applied is acked, under that command's id.
AppliedReports(i) ==
  {Report(orders[n].id, "AckedExecuted", applied[i][k].at) :
     n \in LastOrder(i), k \in DOMAIN applied[i]}
\* A replayed one: the acks are read off its OUT records, the last one of a command.
Acks(i, n) == {x \in router.traffic : x.instance = i /\ x.dir = "out" /\ x.port = "ack" /\ x.payload = n}
LastAck(i, n) == {x \in Acks(i, n) : \A y \in Acks(i, n) : ~ Precedes(x.key, y.key)}
ReplayedReports(i) ==
  UNION {{Report(orders[n].id, "AckedExecuted", x.tai - Period[i]) : x \in LastAck(i, n)} :
           n \in {m \in DOMAIN orders : orders[m].target = i}}
ExecutedReports ==
  UNION {IF i \in Replayed THEN ReplayedReports(i) ELSE AppliedReports(i) : i \in Consumer}

Drain ==
  /\ phase = "drain"
  /\ reports' = reports \o SetToSeq(ExecutedReports)
  /\ phase' = "done"
  /\ UNCHANGED <<scenario, next, segStart, tick, scheduler, router, orders, looped, cells, applied,
                 history>>

\* execute() again, with some instances bound to the log of the first run.
StartReplay ==
  /\ phase = "done" /\ ~ Replaying /\ scenario.replayed # {}
  /\ original' = [traffic |-> router.traffic, taken |-> taken, emitted |-> emitted,
                  reports |-> reports]
  /\ Fresh(scenario)

Next ==
  \/ PrepareCommands \/ DispatchNext
  \/ SkipBoundary \/ StartSpan \/ CrossBoundary \/ EndLastSpan
  \/ Sample
  \/ \E i \in Instance : Step(i) \/ RefuseReplay(i)
  \/ Drain \/ StartReplay

\* The executor's thread runs until its loop is over; nothing in it waits.
Spec == Init /\ [][Next]_vars /\ WF_vars(Next)
-----------------------------------------------------------------------------
(* The traffic.                                                            *)

Inboxes(i) == {taken[i][k].inbox : k \in DOMAIN taken[i]}
Had(i) == router.pending[i] \cup UNION Inboxes(i)
Delivered(i) == {x \in router.traffic : x.instance = i /\ x.dir = "in"}
Content(x) == <<x.key, x.port, x.tai, x.payload>>

\* Whatever the faults, the latencies and the boundaries, the IN records of an instance are
\* what it took from its ports and what is still queued for it, frame for frame: nothing the
\* traffic log shows as delivered was lost between two spans, and nothing was taken twice.
FramesConserved ==
  \A i \in Instance :
    /\ {Content(x) : x \in Delivered(i)} = {<<q.key, q.port, q.epoch, q.payload>> : q \in Had(i)}
    /\ \A p, q \in Had(i) : p.key = q.key => p = q
    /\ \A x, y \in Delivered(i) : x.key = y.key => x = y
    /\ \A k \in DOMAIN taken[i] :
         /\ taken[i][k].inbox \cap router.pending[i] = {}
         /\ \A m \in DOMAIN taken[i] \ {k} : taken[i][k].inbox \cap taken[i][m].inbox = {}

\* Open question 110 (router.rs): a frame is taken by the first step of its receiver, after it
\* was queued, whose epoch is its availability or later: never before, and never a step late,
\* also when a delay carries it over a boundary that moves the receiver's steps.
DeliveredWhenDue ==
  \A i \in Instance : \A k \in DOMAIN taken[i] : \A q \in taken[i][k].inbox :
    /\ q.avail <= taken[i][k].at
    /\ \A earlier \in q.after + 1 .. k - 1 : taken[i][earlier].at < q.avail

\* schedule.rs HeteroScheduleError::OutOfRange: whatever the periods, and wherever a boundary
\* puts the instances back to, each of them has a value to hold at every output instant.
EverySampleInRange == phase # "outOfRange"

\* schedule.rs, executor.rs run_one_span: where an instance steps is settled before the run.
\* From the start of the run, and again from every boundary inside it, it steps once a period:
\* what has a state until it has reached the next start or the end, what has none never past it.
SpanStarts == {0} \cup {Boundaries[k].tai : k \in {j \in DOMAIN Boundaries :
                                                    0 < Boundaries[j].tai /\ Boundaries[j].tai < End}}
Fits(i, t, end) == IF i \in Stateless THEN t <= end ELSE t - Period[i] < end
StepIn(i, start, t) ==
  /\ \E n \in 1 .. t : t = start + n * Period[i]
  /\ Fits(i, t, End) /\ \A s \in SpanStarts : s <= start \/ Fits(i, t, s)
StepEpoch(i, t) == \E start \in SpanStarts : StepIn(i, start, t)

\* What it stepped at, when the last span is over, is just that, each epoch once and in order,
\* whatever the other instances, the frames and the output period, live or replayed.
SteppedOnSchedule ==
  \A i \in Instance :
    /\ \A j, k \in DOMAIN taken[i] : j < k => taken[i][j].at < taken[i][k].at
    /\ phase \in {"drain", "done"} =>
         {taken[i][k].at : k \in DOMAIN taken[i]} = {t \in 1 .. End + Period[i] : StepEpoch(i, t)}
-----------------------------------------------------------------------------
(* The commands.                                                           *)

\* What the source was told of a command, by its places in the reports.
Told(c) == {n \in DOMAIN reports : reports[n].id = c.id}
Got(c, outcome) == {reports[n] : n \in {m \in Told(c) : reports[m].outcome = outcome}}
AloneAtTarget(n) == \A m \in DOMAIN orders : orders[m].target = orders[n].target => m = n
TookFrame(n, start) ==
  \E k \in DOMAIN taken[orders[n].target] :
    LET step == taken[orders[n].target][k]
    IN  /\ step.at - Period[orders[n].target] = start
        /\ \E q \in step.inbox : q.port = "cmd" /\ q.payload = n

\* The connections the executor's dispatch is written for (command.rs COMMAND_DISPATCH_PORT,
\* executor.rs:2409): a command port is fed from cmd_out ports only, and whoever sends a
\* consumer commands has its cmd_out connected to no other one.  The code does not check it.
Wired ==
  \A e \in DOMAIN Edges : Edges[e].to \in Consumer /\ Edges[e].inPort = "cmd" =>
    /\ Edges[e].port = "cmd_out"
    /\ \A s \in Scenarios : \A k \in DOMAIN s.commands :
         s.commands[k].from = Edges[e].from /\ s.commands[k].target \in Consumer
           => s.commands[k].target = Edges[e].to

\* Turned away, once; or dispatched, once, with what came of it after that.
SentOutcomes == {"Dispatched", "AckedEdge", "AckedExecuted"}
TurnedAway(c) ==
  /\ \A m, n \in Told(c) : m = n
  /\ \A n \in Told(c) : reports[n].outcome \notin SentOutcomes
SentOnce(c, epoch) ==
  \E n \in Told(c) :
    /\ reports[n] = Report(c.id, "Dispatched", epoch)
    /\ n + 1 \in Told(c) /\ reports[n + 1] = Report(c.id, "AckedEdge", epoch)
    /\ \A m \in Told(c) \ {n, n + 1} : m > n + 1 /\ reports[m].outcome = "AckedExecuted"

\* drm/command_source.rs: a command has one story.  It is turned away once, with nothing after
\* that, or it is dispatched once, at its epoch; and it is reported executed only when its
\* target took its frame in that very step, whatever dropped, delayed or doubled the frame and
\* whether the target ran or was replayed.  (Commands of one target: see CommandHolds.)
OutcomesLegal ==
  /\ \A k \in DOMAIN scenario.commands :
       LET c == scenario.commands[k] IN TurnedAway(c) \/ SentOnce(c, Epoch(c))
  /\ \A n \in DOMAIN orders : AloneAtTarget(n) =>
       \A r \in Got(orders[n], "AckedExecuted") : TookFrame(n, r.tai)

\* executor.rs:2743 a value is only reported as applied "in the same step it also pushes
\* ack_framed's own packet": for every value an instance is recorded to have applied, over any
\* boundary and for any command traffic, there is one step, begun then, in which it took a
\* command of that value from its port and put the ack of that very command on the other.
AppliedOnEvidence ==
  \A i \in Instance : \A k \in DOMAIN applied[i] : \E m \in DOMAIN taken[i] :
    /\ taken[i][m].at = applied[i][k].at + Period[i]
    /\ \E q \in taken[i][m].inbox :
         /\ q.port = "cmd" /\ q.payload \in DOMAIN orders
         /\ orders[q.payload].value = applied[i][k].value
         /\ \E n \in DOMAIN emitted[i][m] :
              emitted[i][m][n] = Frame("ack", taken[i][m].at, q.payload)

\* command_source.rs:59 "Every refusal is reported, never a silent drop": when the run is over
\* the source has been told something of every command it gave.
EveryCommandReported ==
  phase = "done" => \A k \in DOMAIN scenario.commands : Told(scenario.commands[k]) # {}

\* Of the commands it gave only one with an epoch no later than the start of the run is never
\* spoken of: it is numbered for dispatch, and the dispatch loop passes it over.
OnlyStartIsSilent ==
  phase = "done" => \A k \in DOMAIN scenario.commands :
    Told(scenario.commands[k]) = {}
      => PollOutcome(k) = "Dispatch" /\ Epoch(scenario.commands[k]) <= 0

\* The next two fail (README, known divergences).
\* executor.rs:1733 "an unaffected instance's own Trajectory.samples are byte-identical whether
\* it runs alone or alongside a target instance's own fault/maneuver boundaries": the value a
\* command was last reported to set stays in force while no boundary targets its instance.
CommandHolds ==
  \A i \in Consumer :
    applied[i] # << >> /\ (\A k \in crossed : Boundaries[k].target # i)
      => cells[i].value = applied[i][Len(applied[i])].value

\* fault.rs:549 windows that touch stay legal: every boundary inside the run is applied.
EveryBoundaryApplied ==
  phase = "done" => \A k \in DOMAIN Boundaries :
    0 < Boundaries[k].tai /\ Boundaries[k].tai < End => k \in crossed
-----------------------------------------------------------------------------
(* The replay, and the end of a run.                                       *)

\* drm/replay.rs: a replay that is not refused repeats the run.  Every instance, replayed or
\* not, takes the same frames at the same steps as in the run that was recorded, under the same
\* port faults, and the same acks are reported.  (The scenarios' boundaries are on every
\* instance's own steps, and no replayed instance sends commands: see the README.)
Place(q, inbox) == Cardinality({p \in inbox : Precedes(InboxKey(p), InboxKey(q))})
Seen(step) ==
  <<step.at, {<<Place(q, step.inbox), q.port, q.avail, q.epoch, q.from, q.payload>> : q \in step.inbox}>>
ReplayReproduces ==
  Replaying =>
    /\ \A i \in Instance : \A k \in DOMAIN taken[i] : Seen(taken[i][k]) = Seen(original.taken[i][k])
    /\ phase = "done" =>
         /\ \A i \in Instance : Len(taken[i]) = Len(original.taken[i])
         /\ {reports[k] : k \in DOMAIN reports}
              = {original.reports[k] : k \in DOMAIN original.reports}

\* schedule.rs: the loop always comes to its end, with every instance sampled at every output
\* instant, whatever its period; only a replay may stop, at a log that has a gap.
RunCompletes ==
  <>(IF scenario.replayed = {} THEN phase = "done"
     ELSE Replaying /\ phase \in {"done", "missingFrame"})
=============================================================================
