----------------------------- MODULE BoardLink -----------------------------
(* A run whose instance is a board: the kernel's timed lockstep client       *)
(* (binding.rs, power.rs), the edge service that forwards its calls over one *)
(* UDP link and logs every exchange (av-edge-board), the re-handshake after  *)
(* a power cycle, and the flight software's io_lockstep application.  The    *)
(* signed log is judged as a replay of the run judges it (board_replay.rs).  *)
EXTENDS Naturals, Sequences, SequencesExt, BagsExt

CONSTANTS
    Runs,           \* kernels that use one edge service, one after the other
    Steps,          \* lockstep steps of a run
    CycleAfter,     \* the step after which the power_cycle fault fires
    HelloLimit,     \* how many HELLOs fit before the re-handshake deadline
    Faults          \* budget of losses, copies, guest crashes, disk failures

ASSUME BoardAssumption ==
    /\ Runs \in Nat \ {0} /\ HelloLimit \in Nat \ {0} /\ Faults \in Nat
    /\ Steps \in Nat /\ CycleAfter \in 1 .. (Steps - 1)

VARIABLES
    config,     \* what the DRM and the operator declared about the board
    kernel,     \* per run: where it is in its script, what it was answered
    call,       \* per run: its one RPC, as the edge service handles it
    gate,       \* BoardIoLog.gate: the run whose exchange is on, or 0
    lost,       \* PeerCell.lost
    log,        \* the records in the signed log file
    logRun,     \* BoardIoLog.run: whom records without a run id belong to
    poisoned,   \* an append failed: the writer is unusable
    orphans,    \* appends of dropped handlers, still in the blocking pool
    up,         \* the edge service serves
    air,        \* datagrams sent and not yet read, a bag per reader
    guest,      \* the io_lockstep application
    spent       \* faults so far

edgeVars == <<gate, lost, log, logRun, poisoned, orphans, up>>
vars == <<config, kernel, call, gate, lost, log, logRun, poisoned, orphans, up,
          air, guest, spent>>

Run == 1 .. Runs
Ops == {"BIND", "STEP", "RESET", "SHUTDOWN", "POWER_CYCLE", "HEAD"}
Status == {"waiting", "running", "done", "failed", "gone"}
Stages == {"none", "gate", "reading", "recording", "channel", "recordCycle",
           "hello", "helloWait", "recordLink", "answered"}
Kinds == {"BIND", "STEP", "RESET", "SHUTDOWN", "POWER_CYCLE", "LINK_REHANDSHAKE"}

(* A frame names the request it carries or answers: op, sequence, epoch and  *)
(* the run that sent it.  What a step computes is known by the frame itself. *)
Frame(op, seq, at, r) == [op |-> op, seq |-> seq, at |-> at, run |-> r]
Hello == Frame("HELLO", 0, 0, 0)
ErrorFrame == Frame("ERROR", 0, 0, 0)
Record(kind, r, seq, at, error, output) ==
    [kind |-> kind, run |-> r, seq |-> seq, at |-> at, error |-> error, output |-> output]
NoCall == [op |-> "BIND", seq |-> 0, at |-> 0, stage |-> "none", ok |-> FALSE,
           frame |-> Hello, hellos |-> 0, relinked |-> FALSE, pin |-> 0]

Init ==
    /\ config \in [matches: BOOLEAN, declared: BOOLEAN,
                   channel: {"none", "cycles", "reboots"}]
    /\ kernel = [r \in Run |-> [status |-> IF r = 1 THEN "running" ELSE "waiting",
                                op |-> "BIND", seq |-> 1, steps |-> 0,
                                outputs |-> <<>>, pin |-> 0]]
    /\ call = [r \in Run |-> NoCall]
    /\ gate = 0 /\ lost = FALSE /\ log = <<>> /\ logRun = 0
    /\ poisoned = FALSE /\ orphans = {} /\ up = TRUE
    /\ air = [guest |-> EmptyBag, edge |-> EmptyBag]
    /\ guest = [state |-> "bind", tick |-> 0]
    /\ spent = 0

-----------------------------------------------------------------------------
(* The kernel: one call at a time, each with a deadline.                     *)

Idle(r) == call[r].stage = "none"

KCall(r) ==
    /\ kernel[r].status = "running" /\ Idle(r) /\ up
    /\ LET k == kernel[r] IN
       call' = [call EXCEPT ![r] = [NoCall EXCEPT
                  !.op = k.op, !.stage = "gate",
                  !.seq = IF k.op \in {"STEP", "RESET"} THEN k.seq ELSE 0,
                  !.at = CASE k.op = "BIND" -> 0
                           [] k.op = "STEP" -> k.steps + 1
                           [] OTHER -> k.steps]]
    /\ UNCHANGED <<config, kernel, edgeVars, air, guest, spent>>

AfterStep(n) ==
    IF n = CycleAfter THEN "POWER_CYCLE" ELSE IF n = Steps THEN "HEAD" ELSE "STEP"

(* What the run does next.  A power cycle whose peer was re-handshaken is    *)
(* followed by a second BIND; the RESET follows either way.                  *)
NextOp(k, c) ==
    CASE c.op = "BIND" -> IF k.steps = 0 THEN "STEP" ELSE "RESET"
      [] c.op = "STEP" -> AfterStep(k.steps + 1)
      [] c.op = "POWER_CYCLE" -> IF c.relinked THEN "BIND" ELSE "RESET"
      [] c.op = "RESET" -> "STEP"
      [] OTHER -> "SHUTDOWN"

(* An empty log or, where the DRM declares a reboot, a power cycle without a *)
(* re-handshake is an error to the kernel even if the edge service says OK.  *)
Accepted(c) ==
    /\ c.ok
    /\ c.op = "POWER_CYCLE" /\ config.declared => c.relinked
    /\ c.op = "HEAD" => c.pin > 0

Advanced(k, c) ==
    [k EXCEPT !.op = NextOp(k, c),
              !.status = IF c.op = "SHUTDOWN" THEN "done" ELSE "running",
              !.seq = IF c.op \in {"STEP", "RESET"} THEN @ + 1 ELSE @,
              !.steps = IF c.op = "STEP" THEN @ + 1 ELSE @,
              !.outputs = IF c.op = "STEP" THEN Append(@, c.frame) ELSE @,
              !.pin = IF c.op = "HEAD" THEN c.pin ELSE @]

KReply(r) ==
    /\ kernel[r].status = "running" /\ call[r].stage = "answered"
    /\ kernel' = [kernel EXCEPT ![r] =
                    IF Accepted(call[r]) THEN Advanced(@, call[r])
                                         ELSE [@ EXCEPT !.status = "failed"]]
    /\ call' = [call EXCEPT ![r] = NoCall]
    /\ UNCHANGED <<config, edgeVars, air, guest, spent>>

TimedExchange(op) == op # "HEAD"

Timed(op) == op \in Ops

(* recv_timeout: the run ends with a typed error and never uses the link     *)
(* again; the abandoned RPC stays with the edge service.                     *)
KTimeout(r) ==
    /\ kernel[r].status = "running" /\ (~Idle(r) \/ ~up) /\ Timed(kernel[r].op)
    /\ kernel' = [kernel EXCEPT ![r].status = "failed"]
    /\ UNCHANGED <<config, call, edgeVars, air, guest, spent>>

(* The process of a failed run ends: its connection closes and the edge      *)
(* service drops the handler where it waits.  An append that was handed to   *)
(* the blocking pool still runs; a channel that is killed may have rebooted  *)
(* the board already.                                                        *)
Draft(r) ==
    LET c == call[r] IN
    CASE c.stage = "recording" ->
           Record(c.op, logRun, c.seq, c.at, ~c.ok, c.frame)
      [] c.stage = "recordCycle" -> Record("POWER_CYCLE", r, 0, c.at, ~c.ok, Hello)
      [] OTHER -> Record("LINK_REHANDSHAKE", r, 0, c.at, ~c.relinked, Hello)

Recording(r) == call[r].stage \in {"recording", "recordCycle", "recordLink"}
Rebooted == [state |-> "booting", tick |-> 0]

KExit(r) ==
    /\ kernel[r].status = "failed"
    /\ kernel' = [kernel EXCEPT ![r].status = "gone"]
    /\ gate' = IF gate = r THEN 0 ELSE gate
    /\ orphans' = IF Recording(r) THEN orphans \cup {Draft(r)} ELSE orphans
    /\ call' = [call EXCEPT ![r] = NoCall]
    /\ \/ guest' = guest
       \/ call[r].stage = "channel" /\ config.channel = "reboots" /\ guest' = Rebooted
    /\ UNCHANGED <<config, lost, log, logRun, poisoned, up, air, spent>>

KStart(r) ==
    /\ r > 1 /\ kernel[r].status = "waiting" /\ kernel[r - 1].status = "gone" /\ up
    /\ kernel' = [kernel EXCEPT ![r].status = "running"]
    /\ UNCHANGED <<config, call, edgeVars, air, guest, spent>>

-----------------------------------------------------------------------------
(* The edge service: a handler holds the gate from its first check to the    *)
(* record of what it exchanged.                                              *)

Answer(r, ok) == call' = [call EXCEPT ![r].stage = "answered", ![r].ok = ok]

(* Refusals that exchange nothing: the Bind-time check and the missing       *)
(* channel answer before the gate; a failed log and a lost link behind it.   *)
RefusedAtDoor(c) ==
    \/ c.op = "BIND" /\ ~config.matches
    \/ c.op = "POWER_CYCLE" /\ config.channel = "none"

RefusedInside(c) == poisoned \/ (lost /\ c.op \in {"BIND", "STEP", "RESET"})

Refuse(r) ==
    /\ call[r].stage = "gate"
    /\ RefusedAtDoor(call[r]) \/ (gate = 0 /\ RefusedInside(call[r]))
    /\ Answer(r, FALSE)
    /\ UNCHANGED <<config, kernel, edgeVars, air, guest, spent>>

Enters(r) ==
    /\ call[r].stage = "gate" /\ gate = 0
    /\ ~RefusedAtDoor(call[r]) /\ ~RefusedInside(call[r])

(* bind, step, reset, shutdown: send the frame.  A Bind names the log's run; *)
(* a Shutdown on a lost link is logged as failed and sends nothing.          *)
Begin(r) ==
    LET c == call[r] IN
    /\ Enters(r) /\ c.op \in {"BIND", "STEP", "RESET", "SHUTDOWN"}
    /\ gate' = r
    /\ logRun' = IF c.op = "BIND" THEN r ELSE logRun
    /\ IF lost THEN /\ call' = [call EXCEPT ![r].stage = "recording"]
                    /\ UNCHANGED air
               ELSE /\ call' = [call EXCEPT ![r].stage = "reading"]
                    /\ air' = [air EXCEPT !.guest = BagAdd(@, Frame(c.op, c.seq, c.at, r))]
    /\ UNCHANGED <<config, kernel, lost, log, poisoned, orphans, up, guest, spent>>

(* board_io_log_head: refused unless the log is of this run.                 *)
Head_(r) ==
    /\ Enters(r) /\ call[r].op = "HEAD"
    /\ call' = [call EXCEPT ![r].stage = "answered", ![r].ok = logRun = r,
                            ![r].pin = Len(log)]
    /\ UNCHANGED <<config, kernel, edgeVars, air, guest, spent>>

(* PeerLink: the frame that is read must answer the request that was sent.   *)
AnswersOp(f, c) == f.op = c.op

Answers(f, c) ==
    /\ f.op = c.op
    /\ c.op \in {"STEP", "RESET"} => f.seq = c.seq
    /\ c.op = "STEP" => f.at = c.at

ReadAnswerUnlogged(r) ==
    /\ call[r].stage = "reading"
    /\ \E f \in BagToSet(air.edge) :
         LET ok == Answers(f, call[r]) IN
         /\ air' = [air EXCEPT !.edge = BagRemove(@, f)]
         /\ call' = [call EXCEPT ![r].stage = "answered", ![r].frame = f, ![r].ok = ok]
         /\ orphans' = orphans \cup {Record(call[r].op, logRun, call[r].seq, call[r].at, ~ok, f)}
    /\ gate' = 0
    /\ UNCHANGED <<config, kernel, lost, log, logRun, poisoned, up, guest, spent>>

ReadAnswer(r) ==
    /\ call[r].stage = "reading"
    /\ \E f \in BagToSet(air.edge) :
         /\ air' = [air EXCEPT !.edge = BagRemove(@, f)]
         /\ call' = [call EXCEPT ![r].stage = "recording", ![r].frame = f,
                                 ![r].ok = Answers(f, call[r])]
    /\ UNCHANGED <<config, kernel, edgeVars, guest, spent>>

(* An append, fsync included.  One that fails poisons the writer and may or  *)
(* may not have left its frame in the file; a poisoned writer writes nothing.*)
Durable(draft) ==
    /\ ~poisoned
    /\ log' = Append(log, draft)
    /\ UNCHANGED <<poisoned, spent>>

NotDurable(draft) ==
    /\ \/ poisoned /\ UNCHANGED <<log, spent>>
       \/ /\ ~poisoned /\ spent < Faults /\ spent' = spent + 1
          /\ log' \in {log, Append(log, draft)}
    /\ poisoned' = TRUE

(* After a Shutdown the process leaves, logged or not.                       *)
Leaves(c) == c.op = "SHUTDOWN" /\ (c.ok \/ lost)

Relinks(c) == config.channel = "reboots" /\ c.stage = "recordCycle" /\ c.ok

(* The record is on disk before the handler goes on.                         *)
Recorded(r) ==
    LET c == call[r] IN
    /\ Recording(r) /\ Durable(Draft(r))
    /\ IF Relinks(c)
         THEN /\ call' = [call EXCEPT ![r].stage = "hello"]
              /\ UNCHANGED <<gate, up>>
         ELSE /\ Answer(r, IF c.stage = "recordLink" THEN c.relinked ELSE c.ok)
              /\ gate' = 0
              /\ up' = (up /\ ~Leaves(c))
    /\ UNCHANGED <<config, kernel, lost, logRun, orphans, air, guest>>

RecordFails(r) ==
    /\ Recording(r) /\ NotDurable(Draft(r))
    /\ Answer(r, FALSE)
    /\ gate' = 0
    /\ up' = (up /\ ~Leaves(call[r]))
    /\ UNCHANGED <<config, kernel, lost, logRun, orphans, air, guest>>

OrphanAppend ==
    \E draft \in orphans :
        /\ orphans' = orphans \ {draft}
        /\ Durable(draft) \/ NotDurable(draft)
        /\ UNCHANGED <<config, kernel, call, gate, lost, logRun, up, air, guest>>

-----------------------------------------------------------------------------
(* power_cycle: the channel runs inside the gate, then HELLO is sent until   *)
(* the rebooted peer answers or the deadline passes.                         *)

BeginCycle(r) ==
    /\ Enters(r) /\ call[r].op = "POWER_CYCLE"
    /\ gate' = r
    /\ call' = [call EXCEPT ![r].stage = "channel"]
    /\ UNCHANGED <<config, kernel, lost, log, logRun, poisoned, orphans, up,
                   air, guest, spent>>

Channel(r) ==
    /\ call[r].stage = "channel"
    /\ \E performed \in BOOLEAN :
         /\ performed \/ spent < Faults
         /\ spent' = IF performed THEN spent ELSE spent + 1
         /\ call' = [call EXCEPT ![r].stage = "recordCycle", ![r].ok = performed]
         /\ \/ ~(performed /\ config.channel = "reboots") /\ guest' = guest
            \/ config.channel = "reboots" /\ guest' = Rebooted
    /\ UNCHANGED <<config, kernel, edgeVars, air>>

(* Each attempt first discards what has reached the socket by then.          *)
SendHelloForever(r) ==
    /\ call[r].stage = "hello"
    /\ \E late \in SUBSET BagToSet(air.edge) :
         air' = [guest |-> BagAdd(air.guest, Hello),
                 edge |-> [f \in late |-> air.edge[f]]]
    /\ call' = [call EXCEPT ![r].stage = "helloWait", ![r].hellos = @ + 1]
    /\ UNCHANGED <<config, kernel, edgeVars, guest, spent>>

SendHello(r) ==
    /\ call[r].stage = "hello" /\ call[r].hellos < HelloLimit
    /\ \E late \in SUBSET BagToSet(air.edge) :
         air' = [guest |-> BagAdd(air.guest, Hello),
                 edge |-> [f \in late |-> air.edge[f]]]
    /\ call' = [call EXCEPT ![r].stage = "helloWait", ![r].hellos = @ + 1]
    /\ UNCHANGED <<config, kernel, edgeVars, guest, spent>>

(* Anything but a HELLO is answered with an ERROR frame and is no answer.     *)
HelloRead(r) ==
    /\ call[r].stage = "helloWait"
    /\ \E f \in BagToSet(air.edge) :
         IF f = Hello
         THEN /\ air' = [air EXCEPT !.edge = BagRemove(@, f)]
              /\ call' = [call EXCEPT ![r].stage = "recordLink", ![r].relinked = TRUE]
              /\ lost' = FALSE
         ELSE /\ air' = [guest |-> BagAdd(air.guest, ErrorFrame),
                         edge |-> BagRemove(air.edge, f)]
              /\ call' = [call EXCEPT ![r].stage = "hello"]
              /\ UNCHANGED lost
    /\ UNCHANGED <<config, kernel, gate, log, logRun, poisoned, orphans, up,
                   guest, spent>>

HelloUnanswered(r) ==
    /\ call[r].stage = "helloWait"
    /\ call' = [call EXCEPT ![r].stage = "hello"]
    /\ UNCHANGED <<config, kernel, edgeVars, air, guest, spent>>

HelloDeadline(r) ==
    /\ call[r].stage = "hello" /\ call[r].hellos = HelloLimit
    /\ call' = [call EXCEPT ![r].stage = "recordLink"]
    /\ lost' = TRUE
    /\ UNCHANGED <<config, kernel, gate, log, logRun, poisoned, orphans, up,
                   air, guest, spent>>

-----------------------------------------------------------------------------
(* The link and the flight software.                                         *)

Connected == guest.state \in {"hello", "bind", "loop"}

(* UDP loses datagrams, delivers them twice and, as the bags say, in any     *)
(* order.                                                                    *)
LinkFault ==
    \E way \in DOMAIN air : \E f \in BagToSet(air[way]) :
        /\ spent < Faults /\ spent' = spent + 1
        /\ \/ air' = [air EXCEPT ![way] = BagRemove(@, f)]
           \/ air' = [air EXCEPT ![way] = BagAdd(@, f)]
        /\ UNCHANGED <<config, kernel, call, edgeVars, guest>>

(* One frame, in the state the application is in: any other frame, or a tick *)
(* that does not increase, ends it.                                          *)
Expects(state, f) ==
    \/ state = "hello" /\ f = Hello
    \/ state = "bind" /\ f.op = "BIND"
    \/ state = "loop" /\ f.op = "STEP" /\ f.at > guest.tick
    \/ state = "loop" /\ f.op \in {"RESET", "SHUTDOWN"}

Then(state, f) ==
    CASE state = "hello" -> "bind"
      [] state = "loop" /\ f.op = "SHUTDOWN" -> "ended"
      [] OTHER -> "loop"

(* The relay drops what arrives while no guest is connected.                 *)
GuestReads ==
    \E f \in BagToSet(air.guest) :
        LET taken == Connected /\ Expects(guest.state, f) IN
        /\ air' = [guest |-> BagRemove(air.guest, f),
                   edge |-> IF taken THEN BagAdd(air.edge, f) ELSE air.edge]
        /\ guest' =
              IF taken THEN [state |-> Then(guest.state, f),
                             tick |-> IF f.op \in {"BIND", "STEP", "RESET"}
                                      THEN f.at ELSE guest.tick]
              ELSE IF Connected THEN [guest EXCEPT !.state = "ended"] ELSE guest
        /\ UNCHANGED <<config, kernel, call, edgeVars, spent>>

GuestBoots ==
    /\ guest.state = "booting"
    /\ guest' = [guest EXCEPT !.state = "hello"]
    /\ UNCHANGED <<config, kernel, call, edgeVars, air, spent>>

GuestCrashes ==
    /\ Connected /\ spent < Faults /\ spent' = spent + 1
    /\ guest' = [guest EXCEPT !.state = "ended"]
    /\ UNCHANGED <<config, kernel, call, edgeVars, air>>

-----------------------------------------------------------------------------
KernelMoves(r) == KCall(r) \/ KReply(r) \/ KTimeout(r)
HandlerMoves(r) ==
    \/ Refuse(r) \/ Begin(r) \/ Head_(r) \/ ReadAnswer(r)
    \/ Recorded(r) \/ RecordFails(r)
    \/ BeginCycle(r) \/ Channel(r) \/ SendHello(r) \/ HelloRead(r)
    \/ HelloUnanswered(r) \/ HelloDeadline(r)

Next ==
    \/ \E r \in Run : KernelMoves(r) \/ KExit(r) \/ KStart(r) \/ HandlerMoves(r)
    \/ OrphanAppend
    \/ LinkFault \/ GuestReads \/ GuestBoots \/ GuestCrashes

(* Fairness: the kernel's own thread runs, and recv_timeout fires.  Nothing  *)
(* is assumed of the edge service, the link or the board.                    *)
Spec == Init /\ [][Next]_vars /\ \A r \in Run : WF_vars(KernelMoves(r))

-----------------------------------------------------------------------------
Frames == [op : Ops \cup {"HELLO", "ERROR"}, seq : 0 .. Steps + 2, at : 0 .. Steps, run : 0 .. Runs]
Records == [kind : Kinds, run : 0 .. Runs, seq : 0 .. Steps + 2, at : 0 .. Steps,
            error : BOOLEAN, output : Frames]

Kernels == [status : Status, op : Ops, seq : 1 .. Steps + 2, steps : 0 .. Steps,
            outputs : Seq(Frames), pin : Nat]
Calls == [op : Ops, seq : 0 .. Steps + 2, at : 0 .. Steps, stage : Stages, ok : BOOLEAN,
          frame : Frames, hellos : 0 .. HelloLimit, relinked : BOOLEAN, pin : Nat]

(* Every variable stays in its type: sequence numbers, epochs and attempts   *)
(* within the run's length, the gate at one live handler, and the channel's  *)
(* stages only ever entered by a power cycle.                                *)
TypeOK ==
    /\ config \in [matches : BOOLEAN, declared : BOOLEAN, channel : {"none", "cycles", "reboots"}]
    /\ kernel \in [Run -> Kernels] /\ call \in [Run -> Calls]
    /\ \A r \in Run : /\ call[r].hellos > 0 => call[r].op = "POWER_CYCLE"
                      /\ call[r].stage \notin {"none", "gate", "answered"} => gate = r
    /\ gate \in 0 .. Runs /\ logRun \in 0 .. Runs
    /\ orphans \subseteq Records /\ log \in Seq(Records)
    /\ lost \in BOOLEAN /\ poisoned \in BOOLEAN /\ up \in BOOLEAN
    /\ DOMAIN air = {"guest", "edge"}
    /\ \A way \in DOMAIN air : IsABag(air[way]) /\ BagToSet(air[way]) \subseteq Frames
    /\ guest \in [state : {"booting", "hello", "bind", "loop", "ended"}, tick : 0 .. Steps]
    /\ spent \in 0 .. Faults

(* The records of a run's answered steps, and the answers by step number, as *)
(* the log tells them and as the kernel was given them.                      *)
StepAt(r) == {i \in DOMAIN log : log[i].kind = "STEP" /\ log[i].run = r /\ ~log[i].error}
Logged(r) == {<<log[i].at, log[i].output>> : i \in StepAt(r)}
Given(r) == {<<n, kernel[r].outputs[n]>> : n \in DOMAIN kernel[r].outputs}

(* The signed log is never behind the kernel: what a run has been answered   *)
(* is, in order, what the log says the board answered, and the log is ahead  *)
(* by at most the exchange in progress (service.rs: the record is on disk    *)
(* before the reply), whatever was dropped, cancelled or appended late.      *)
LogAheadOfKernel ==
    \A r \in Run :
        /\ Given(r) \subseteq Logged(r)
        /\ \A i, j \in StepAt(r) : i < j => log[i].at < log[j].at
        /\ \A i \in StepAt(r) : log[i].at <= Len(kernel[r].outputs) + 1

Entry(kind, seq, at) == [kind |-> kind, seq |-> seq, at |-> at]

(* What into_script expects of the records up to the pinned head.            *)
Script(relinked) ==
    <<Entry("BIND", 0, 0)>> \o [n \in 1 .. CycleAfter |-> Entry("STEP", n, n)]
    \o <<Entry("POWER_CYCLE", 0, CycleAfter)>>
    \o (IF relinked THEN <<Entry("LINK_REHANDSHAKE", 0, CycleAfter), Entry("BIND", 0, 0)>>
                    ELSE <<>>)
    \o <<Entry("RESET", CycleAfter + 1, CycleAfter)>>
    \o [n \in 1 .. Steps - CycleAfter |-> Entry("STEP", CycleAfter + 1 + n, CycleAfter + n)]

(* load and into_script take the log, and the replayed kernel is given the   *)
(* frames the live one was, each computed for that run's own step.           *)
Replays(r) ==
    LET pin == kernel[r].pin
        body == SubSeq(log, 1, pin) IN
    /\ Len(log) = pin + 1 /\ log[pin + 1].kind = "SHUTDOWN"
    /\ \A i \in DOMAIN log : ~log[i].error
    /\ \E relinked \in BOOLEAN :
         [i \in DOMAIN body |-> Entry(body[i].kind, body[i].seq, body[i].at)] = Script(relinked)
    /\ Logged(r) = Given(r)
    /\ \A i \in StepAt(r) : log[i].output = Frame("STEP", log[i].seq, log[i].at, r)

(* A run that completed on a log of its own can be replayed from that log:   *)
(* the pin the kernel took before the Shutdown fits it, through losses,      *)
(* copies, reordering, a reboot of the board and its re-handshake.           *)
PinnedRunReplays ==
    \A r \in Run :
        kernel[r].status = "done" /\ (\A i \in DOMAIN log : log[i].run = r) => Replays(r)

(* A run that started ends, with a result or a typed error, whatever the     *)
(* link, the board and the edge service do (binding.rs: every call has a     *)
(* deadline).                                                                *)
RunEnds ==
    \A r \in Run : kernel[r].status = "running" ~> kernel[r].status # "running"
=============================================================================
