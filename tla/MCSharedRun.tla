---- MODULE MCSharedRun ----
(* A ground station in a container (1), a commanded spacecraft whose steps are coarser   *)
(* than the output period (2), and a sensor that samples inside its steps (3).           *)
EXTENDS SharedRun

PortNames == <<"ack", "acks", "cmd", "cmd_out", "in", "tlm">>
Link(from, port, to, inPort, latency) ==
  [from |-> from, port |-> port, to |-> to, inPort |-> inPort, latency |-> latency]
Connections == <<Link(1, "cmd_out", 2, "cmd", 1), Link(1, "tlm", 3, "in", 0),
                 Link(2, "ack", 1, "acks", 0), Link(2, "tlm", 1, "in", 1),
                 Link(3, "tlm", 2, "in", 0), Link(3, "tlm", 1, "in", 3)>>
Periods == <<4, 4, 2>>

Request(id, key, from, target, value, notBefore, deadline) ==
  [id |-> id, key |-> key, from |-> from, target |-> target, value |-> value,
   notBefore |-> notBefore, deadline |-> deadline, malformed |-> FALSE]
Fault(kind, from, port, start, duration, hits) ==
  [kind |-> kind, from |-> from, port |-> port, start |-> start, duration |-> duration,
   delay |-> 3, hits |-> hits]
At(kind, target, tai) == [kind |-> kind, target |-> target, tai |-> tai]

Quiet == [commands |-> << >>, portFaults |-> {}, boundaries |-> << >>, replayed |-> {}]
Throttle == Request(1, "k", 1, 2, 5, 2, 0)
\* One command for every way a command can end before the run starts.
Batch == <<Throttle, Request(2, "k", 1, 2, 6, 2, 0), Request(3, "", 9, 2, 6, 2, 0),
           Request(4, "", 1, 9, 6, 2, 0), Request(5, "", 1, 3, 6, 2, 0),
           [Request(6, "", 1, 2, 6, 2, 0) EXCEPT !.malformed = TRUE],
           Request(7, "", 1, 2, 6, 4, 3), Request(8, "", 1, 2, 6, 20, 0)>>

PassScenarios ==
  { [Quiet EXCEPT !.commands = Batch, !.replayed = {2}],
    [Quiet EXCEPT !.commands = <<Throttle>>, !.replayed = {2, 3},
                  !.portFaults = {Fault("drop", 1, "cmd_out", 0, 4, {1}),
                                  Fault("duplicate", 3, "tlm", 2, 4, {1, 3})}],
    [Quiet EXCEPT !.commands = <<Throttle>>, !.replayed = {2},
                  !.portFaults = {Fault("duplicate", 1, "cmd_out", 0, 0, {1}),
                                  Fault("corrupt", 2, "tlm", 0, 0, {2})}],
    [Quiet EXCEPT !.boundaries = <<At("maneuver", 2, 4)>>, !.replayed = {1, 3},
                  !.portFaults = {Fault("delay", 3, "tlm", 0, 6, {2, 3})}],
    [Quiet EXCEPT !.commands = <<Throttle, Request(2, "", 1, 2, 6, 6, 0)>>,
                  !.boundaries = <<At("powerCycle", 1, 2), At("fault", 2, 6),
                                   At("sensorFault", 3, 6)>>,
                  !.portFaults = {Fault("delay", 1, "cmd_out", 0, 0, {1})}] }
SilentScenarios == {[Quiet EXCEPT !.commands = <<Request(1, "k", 1, 2, 5, 0, 0)>>]}
\* For CommandHolds and EveryBoundaryApplied, which these scenarios violate.
BystanderScenarios == {[Quiet EXCEPT !.commands = <<Throttle>>,
                                     !.boundaries = <<At("fault", 3, 4)>>],
                       [Quiet EXCEPT !.commands = <<Throttle>>,
                                     !.boundaries = <<At("fault", 3, 6)>>]}
CoincidentScenarios == {[Quiet EXCEPT !.boundaries = <<At("sensorFaultEnd", 3, 4),
                                                       At("sensorFault", 3, 4)>>]}

\* The hypothesis of SharedRunProofs about outcomes holds here.
ASSUME MCAssumption == Wired
====
