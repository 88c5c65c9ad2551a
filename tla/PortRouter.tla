----------------------------- MODULE PortRouter -----------------------------
(***************************************************************************)
(* crates/av-kernel/src/router.rs: the messages between the instances of a *)
(* run.  A router is a value, threaded through every span of one run       *)
(* (SharedRun keeps it); the operators here are its methods.               *)
(*                                                                         *)
(* Every port is FRAMED, so every message is recorded: one OUT record for  *)
(* what the sender put on its port, one IN record for each copy queued.    *)
(* The log and the queues are sets: the place at which the code pushes a   *)
(* record or a copy is its key, <<call, message, connection, copy>>, and   *)
(* the keys tell their order.  A fault is one that install_port_faults     *)
(* accepted: at most one is open on a port at an epoch.  Its seeded        *)
(* generator is the set of draws that hit.                                 *)
(***************************************************************************)
EXTENDS Integers, Sequences, FiniteSets

CONSTANTS
  Instance,      \* numbered in the order of their names
  Ports,         \* sequence of the ports' names, in their order
  Edges,         \* sequence of connections [from, port, to, inPort, latency]
  OutputPeriod   \* of the run; also how late a duplicate comes

NoEpoch == -1     \* NO_MESSAGE_EPOCH, the smallest i64
Corrupted == -1

\* Router::build: a router carries its records and what is still queued.
NewRouter(faults) ==
  [pending |-> [i \in Instance |-> {}], traffic |-> {}, calls |-> 0, step |-> 0,
   faults |-> faults, drawn |-> [f \in faults |-> 0]]

\* Router::begin_step.
BeginStep(r) == [r EXCEPT !.step = @ + 1]
-----------------------------------------------------------------------------
\* install_port_faults: half-open windows, duration 0 lasting to the end of the run.
Until(f) == IF f.duration = 0 THEN f.start + 1000000 ELSE f.start + f.duration
InWindow(f, t) == f.start <= t /\ t < Until(f)
\* ... and it refuses two of them that overlap on one port.
FaultsLegal(faults) ==
  \A f, g \in faults : f # g /\ f.from = g.from /\ f.port = g.port
    => ~ \E t \in {f.start, g.start} : InWindow(f, t) /\ InWindow(g, t)

\* How much later than the link's latency each copy of a message is available.
Copies(effect) ==
  CASE effect.kind = "drop" -> << >>
    [] effect.kind = "delay" -> <<effect.delay>>
    [] effect.kind = "duplicate" -> <<0, OutputPeriod>>
    [] OTHER -> <<0>>

Record(key, instance, port, dir, tai, payload, step) ==
  [key |-> key, instance |-> instance, port |-> port, dir |-> dir, tai |-> tai,
   payload |-> payload, sequence |-> step]

\* Router::deliver.  A message without an epoch has that of its sender's step; a fault
\* draws once for every message in its window; steps[i] is how many steps receiver i has
\* taken, which a queued message keeps for the properties.
Deliver(r, from, fallback, steps, outbox) ==
  LET Epoch(k) == IF outbox[k].tai = NoEpoch THEN fallback ELSE outbox[k].tai
      Concerns(f, k) == f.from = from /\ f.port = outbox[k].port /\ InWindow(f, Epoch(k))
      Draws(f, k) == Cardinality({j \in 1 .. k : Concerns(f, j)})
      Effect(k) ==
        LET hit == {f \in r.faults : Concerns(f, k) /\ r.drawn[f] + Draws(f, k) \in f.hits}
        IN  IF hit = {} THEN [kind |-> "none"] ELSE CHOOSE f \in hit : TRUE
      Payload(k) == IF Effect(k).kind = "corrupt" THEN Corrupted ELSE outbox[k].payload
      Key(k, t, c) == <<r.calls + 1, k, t, c>>
      Sent == {s \in (DOMAIN outbox) \X (DOMAIN Edges) \X {1, 2} :
                 /\ Edges[s[2]].from = from /\ Edges[s[2]].port = outbox[s[1]].port
                 /\ s[3] \in DOMAIN Copies(Effect(s[1]))}
      Out(k) == Record(Key(k, 0, 0), from, outbox[k].port, "out", Epoch(k), outbox[k].payload, r.step)
      In(k, t, c) == Record(Key(k, t, c), Edges[t].to, Edges[t].inPort, "in", Epoch(k), Payload(k), r.step)
      Queued(k, t, c) ==
        [key |-> Key(k, t, c), to |-> Edges[t].to, port |-> Edges[t].inPort, epoch |-> Epoch(k),
         from |-> from, avail |-> Epoch(k) + Edges[t].latency + Copies(Effect(k))[c],
         payload |-> Payload(k), after |-> steps[Edges[t].to]]
  IN  [r EXCEPT
        !.traffic = @ \cup {Out(k) : k \in DOMAIN outbox} \cup {In(s[1], s[2], s[3]) : s \in Sent},
        !.pending = [i \in Instance |-> @[i] \cup {Queued(s[1], s[2], s[3]) : s \in
                                                    {x \in Sent : Edges[x[2]].to = i}}],
        !.calls = @ + 1,
        !.drawn = [f \in r.faults |-> @[f] + Draws(f, Len(outbox))]]
-----------------------------------------------------------------------------
\* A bug: a frame is gated by when it was sent, not by when it is available.
ReadyWhenSent(r, i, asOf) == {q \in r.pending[i] : q.epoch <= asOf}
\* A bug: what is not available yet is dropped.
TakeInboxForgets(r, i, asOf) == [r EXCEPT !.pending[i] = {}]

\* Router::take_inbox: what is available by a step's epoch is taken, the rest stays.
Ready(r, i, asOf) == {q \in r.pending[i] : q.avail <= asOf}
TakeInbox(r, i, asOf) == [r EXCEPT !.pending[i] = {q \in @ : q.avail > asOf}]
-----------------------------------------------------------------------------
\* Tuples of numbers in their order.
Precedes(a, b) == \E n \in DOMAIN a : a[n] < b[n] /\ \A m \in 1 .. n - 1 : a[m] = b[m]
\* The elements of a finite set in the order of their keys: a set of one sequence.
Sorted(S, Key(_)) ==
  {f \in [1 .. Cardinality(S) -> S] :
     \A m, n \in DOMAIN f : m < n => Precedes(Key(f[m]), Key(f[n]))}

PortPlace(port) == CHOOSE n \in DOMAIN Ports : Ports[n] = port
\* ports.rs sorted_inbox: by port, then by emission epoch, then by sender; stable.
InboxKey(q) ==
  <<PortPlace(q.port), q.epoch, q.from, q.key[1], q.key[2], q.key[3], q.key[4]>>
\* sort_port_traffic, for one instance: by epoch, then by output step, then by port; stable.
LogKey(x) ==
  <<x.tai, x.sequence, PortPlace(x.port), x.key[1], x.key[2], x.key[3], x.key[4]>>
=============================================================================
