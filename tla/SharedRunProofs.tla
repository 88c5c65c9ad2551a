-------------------------- MODULE SharedRunProofs --------------------------
(***************************************************************************)
(* The traffic of a shared run, for any instances, connections, periods,   *)
(* commands, port faults and boundaries, live or replayed: no frame is     *)
(* lost or taken twice, and each is taken by the first step of its         *)
(* receiver that it is available to.  Then when the instances step, what   *)
(* becomes of the commands, and what their source is told of them.         *)
(***************************************************************************)
EXTENDS SharedRun, FiniteSetTheorems, WellFoundedInduction, TLAPS

PortName == {"tlm", "ack", "cmd_out"} \cup {Edges[t].inPort : t \in DOMAIN Edges}
PushKey == Nat \X Nat \X Nat \X Nat
Message == [key : PushKey, to : Instance, port : PortName, epoch : Int, from : Instance,
            avail : Int, payload : Int, after : Nat]
TrafficRecord == [key : PushKey, instance : Instance, port : PortName, dir : {"in", "out"},
                  tai : Int, payload : Int, sequence : Nat]
PortFrame == [port : PortName, tai : Int, payload : Int]
Outbox == Seq(PortFrame)
StepTaken == [at : Nat, inbox : SUBSET Message]

(* A router: its fields, and keys that no later call gives again.            *)
IsRouter(r) ==
  /\ r = [pending |-> r.pending, traffic |-> r.traffic, calls |-> r.calls, step |-> r.step,
          faults |-> r.faults, drawn |-> r.drawn]
  /\ r.pending \in [Instance -> SUBSET Message]
  /\ r.traffic \subseteq TrafficRecord /\ IsFiniteSet(r.traffic)
  /\ r.calls \in Nat /\ r.step \in Nat /\ r.faults \subseteq PortFault
  /\ \A x \in r.traffic : x.key[1] <= r.calls
  /\ \A i \in Instance : \A q \in r.pending[i] : q.to = i

InLog(r, i) == {x \in r.traffic : x.instance = i /\ x.dir = "in"}
AsLogged(q) == <<q.key, q.port, q.epoch, q.payload>>

(* What one call of deliver queues for an instance, and what it logs of it.  *)
Arrives(r, d, i, after, new, logged) ==
  /\ d.pending[i] = r.pending[i] \cup new
  /\ InLog(d, i) = InLog(r, i) \cup logged
  /\ {Content(x) : x \in logged} = {AsLogged(q) : q \in new}
  /\ new \subseteq Message /\ \A q \in new : q.key[1] = r.calls + 1 /\ q.to = i /\ q.after = after
  /\ \A x \in logged : x.key[1] = r.calls + 1
  /\ \A p, q \in new : p.key = q.key => p = q
  /\ \A x, y \in logged : x.key = y.key => x = y

NumberedOrder == [id : Nat, from : Instance, target : Instance, value : Int, tai : Int]

(* The traffic of one instance: P is queued, L is logged, K is what it took. *)
Took(K) == UNION {K[k].inbox : k \in DOMAIN K}
Conserved(P, L, K) ==
  /\ {Content(x) : x \in L} = {AsLogged(q) : q \in P \cup Took(K)}
  /\ \A p, q \in P \cup Took(K) : p.key = q.key => p = q
  /\ \A x, y \in L : x.key = y.key => x = y
  /\ \A k \in DOMAIN K :
       /\ K[k].inbox \cap P = {}
       /\ \A m \in DOMAIN K \ {k} : K[k].inbox \cap K[m].inbox = {}
\* What is still queued was not available to any step since it was queued.
OnTime(P, K) ==
  \A q \in P : q.after <= Len(K) /\ \A k \in q.after + 1 .. Len(K) : K[k].at < q.avail
TakenWhenDue(K) ==
  \A k \in DOMAIN K : \A q \in K[k].inbox :
    q.avail <= K[k].at /\ \A e \in q.after + 1 .. k - 1 : K[e].at < q.avail

(* The inductive invariant.  A router r has carried the frames that the      *)
(* steps t took;                                                             *)
Carried(r, t) ==
  /\ IsRouter(r) /\ t \in [Instance -> Seq(StepTaken)]
  /\ \A i \in Instance : /\ Conserved(r.pending[i], InLog(r, i), t[i])
                         /\ OnTime(r.pending[i], t[i]) /\ TakenWhenDue(t[i])

(* a span begins and ends on an output instant, at a boundary or at the end; *)
SpanLoop ==
  /\ scenario \in Scenarios /\ phase \in Phases
  /\ next \in 1 .. Len(Boundaries) + 1 /\ crossed \subseteq DOMAIN Boundaries
  /\ segStart \in 0 .. End /\ tick \in 0 .. End /\ segStart <= tick
  /\ OnGrid(segStart) /\ OnGrid(tick)
  /\ phase = "advance" => /\ tick <= SpanEnd
                          /\ next \in DOMAIN Boundaries => InRun(Boundaries[next])

(* an instance is due one period after where it is;                          *)
Schedule ==
  /\ due \in [Instance -> Nat] /\ curr \in [Instance -> Nat] /\ prev \in [Instance -> Int]
  /\ \A i \in Instance : due[i] = curr[i] + Period[i]

(* the commands are on their way before any instance has stepped;            *)
Commands ==
  /\ orders \in Seq(NumberedOrder) /\ looped \in 0 .. Len(orders)
  /\ cells \in [Instance -> [value : Int, last : Int]]
  /\ phase = "poll" => looped = 0
  /\ phase = "dispatch" => looped < Len(orders)
  /\ phase \in {"poll", "dispatch"} => \A i \in Instance : taken[i] = << >>

(* and what an instance sent is recorded for every step that it took.        *)
Recorded ==
  /\ emitted \in [Instance -> Seq(Outbox)]
  /\ \A i \in Instance : Len(taken[i]) = Len(emitted[i])
  /\ Replaying => /\ original.traffic \subseteq TrafficRecord /\ IsFiniteSet(original.traffic)
                  /\ original.emitted \in [Instance -> Seq(Outbox)]

(* At every instant to come an instance has a value: what has no state is    *)
(* not ahead, what has one held its last value before.                       *)
Samplable(i) ==
  IF i \in Stateless THEN curr[i] <= tick
  ELSE prev[i] <= tick /\ (prev[i] = -1 => curr[i] <= tick)
Held == phase # "outOfRange" /\ (phase = "advance" => \A i \in Instance : Samplable(i))

(* What an instance applied it took and acked.                               *)
Applied ==
  /\ applied \in [Instance -> Seq([value : Int, at : Nat])]
  /\ phase = "poll" => \A i \in Instance : applied[i] = << >>
  /\ AppliedOnEvidence

IInv == Carried(router, taken) /\ SpanLoop /\ Schedule /\ Commands /\ Recorded /\ Held /\ Applied
-----------------------------------------------------------------------------
(* The router.                                                               *)

LEMMA ImageFinite ==
  ASSUME NEW f, IsFiniteSet(DOMAIN f)
  PROVE  IsFiniteSet({f[x] : x \in DOMAIN f})
<1>. DEFINE T == {f[x] : x \in DOMAIN f}
            g == [x \in DOMAIN f |-> f[x]]
<1>1. g \in Surjection(DOMAIN f, T)
  BY DEF Surjection
<1>. QED BY <1>1, FS_Surjection

LEMMA NewRouterIsOne ==
  ASSUME NEW faults \in SUBSET PortFault
  PROVE  IsRouter(NewRouter(faults))
<1>. DEFINE r == NewRouter(faults)
<1>1. /\ r.pending = [i \in Instance |-> {}] /\ r.traffic = {} /\ r.calls = 0 /\ r.step = 0
      /\ r.faults = faults /\ r.drawn = [f \in faults |-> 0]
  BY DEF NewRouter
<1>2. r = [pending |-> r.pending, traffic |-> r.traffic, calls |-> r.calls, step |-> r.step,
           faults |-> r.faults, drawn |-> r.drawn]
  BY DEF NewRouter
<1>3. IsFiniteSet(r.traffic)
  BY <1>1, FS_EmptySet
<1>. QED BY <1>1, <1>2, <1>3 DEF IsRouter

LEMMA BeginStepKeeps ==
  ASSUME NEW r, IsRouter(r)
  PROVE  /\ IsRouter(BeginStep(r)) /\ BeginStep(r).pending = r.pending
         /\ BeginStep(r).traffic = r.traffic /\ BeginStep(r).calls = r.calls
<1>1. BeginStep(r) = [pending |-> r.pending, traffic |-> r.traffic, calls |-> r.calls, step |-> r.step + 1,
          faults |-> r.faults, drawn |-> r.drawn]
  BY DEF BeginStep, IsRouter
<1>. QED BY <1>1 DEF IsRouter

LEMMA TakeInboxKeeps ==
  ASSUME NEW r, IsRouter(r), NEW i \in Instance, NEW asOf \in Int
  PROVE  LET t == TakeInbox(r, i, asOf) IN
         /\ IsRouter(t) /\ t.traffic = r.traffic /\ t.calls = r.calls
         /\ t.pending = [r.pending EXCEPT ![i] = {q \in @ : q.avail > asOf}]
         /\ r.pending[i] = t.pending[i] \cup Ready(r, i, asOf)
         /\ t.pending[i] \cap Ready(r, i, asOf) = {}
<1>. DEFINE t == TakeInbox(r, i, asOf)
<1>1. t = [pending |-> [r.pending EXCEPT ![i] = {q \in @ : q.avail > asOf}], traffic |-> r.traffic,
           calls |-> r.calls, step |-> r.step, faults |-> r.faults, drawn |-> r.drawn]
  <2>. DEFINE P == [r.pending EXCEPT ![i] = {q \in @ : q.avail > asOf}]
  <2>1. t = [r EXCEPT !.pending = P]
    BY DEF TakeInbox
  <2>. HIDE DEF P, t
  <2>2. t = [pending |-> P, traffic |-> r.traffic, calls |-> r.calls, step |-> r.step, faults |-> r.faults,
             drawn |-> r.drawn]
    BY <2>1 DEF IsRouter
  <2>. QED BY <2>2 DEF P
<1>2. IsRouter(t)
  BY <1>1 DEF IsRouter
<1>3. r.pending[i] \subseteq Message
  BY DEF IsRouter
<1>4. t.pending[i] = {q \in r.pending[i] : q.avail > asOf}
  BY <1>1 DEF IsRouter
<1>5. \A q \in r.pending[i] : q.avail \in Int
  BY <1>3 DEF Message
<1>6. \A q \in r.pending[i] : q.avail > asOf <=> ~(q.avail <= asOf)
  BY <1>5
<1>. QED BY <1>1, <1>2, <1>4, <1>6 DEF Ready

LEMMA CopiesTyped ==
  ASSUME NEW e, e.kind = "none" \/ e \in PortFault
  PROVE  \A c \in DOMAIN Copies(e) : c \in {1, 2} /\ Copies(e)[c] \in Int
BY RunAssumption DEF Copies, PortFault

(* One call of deliver keeps a router, queues one copy for every record that *)
(* it logs of a receiver, and gives all of them keys of its own.             *)
LEMMA DeliverArrives ==
  ASSUME NEW r, IsRouter(r), NEW from \in Instance, NEW fallback \in Int,
         NEW steps \in [Instance -> Nat], NEW outbox \in Outbox
  PROVE  LET d == Deliver(r, from, fallback, steps, outbox) IN
         /\ IsRouter(d) /\ d.calls = r.calls + 1
         /\ \A i \in Instance : \E new, logged : Arrives(r, d, i, steps[i], new, logged)
<1>. DEFINE d == Deliver(r, from, fallback, steps, outbox)
            Epoch_(k) == IF outbox[k].tai = NoEpoch THEN fallback ELSE outbox[k].tai
            Concerns(f, k) == f.from = from /\ f.port = outbox[k].port /\ InWindow(f, Epoch_(k))
            Draws(f, k) == Cardinality({j \in 1 .. k : Concerns(f, j)})
            Hit(k) == {f \in r.faults : Concerns(f, k) /\ r.drawn[f] + Draws(f, k) \in f.hits}
            Effect(k) == IF Hit(k) = {} THEN [kind |-> "none"] ELSE CHOOSE f \in Hit(k) : TRUE
            Payload(k) == IF Effect(k).kind = "corrupt" THEN Corrupted ELSE outbox[k].payload
            Key(k, t, c) == <<r.calls + 1, k, t, c>>
            Sent == {s \in (DOMAIN outbox) \X (DOMAIN Edges) \X {1, 2} :
                       /\ Edges[s[2]].from = from /\ Edges[s[2]].port = outbox[s[1]].port
                       /\ s[3] \in DOMAIN Copies(Effect(s[1]))}
            Out(k) == Record(Key(k, 0, 0), from, outbox[k].port, "out", Epoch_(k), outbox[k].payload, r.step)
            In(k, t, c) == Record(Key(k, t, c), Edges[t].to, Edges[t].inPort, "in", Epoch_(k), Payload(k), r.step)
            Queued(k, t, c) ==
              [key |-> Key(k, t, c), to |-> Edges[t].to, port |-> Edges[t].inPort, epoch |-> Epoch_(k),
               from |-> from, avail |-> Epoch_(k) + Edges[t].latency + Copies(Effect(k))[c],
               payload |-> Payload(k), after |-> steps[Edges[t].to]]
            Outs == {Out(k) : k \in DOMAIN outbox}
            Ins == {In(s[1], s[2], s[3]) : s \in Sent}
            For(i) == {x \in Sent : Edges[x[2]].to = i}
            New(i) == {Queued(s[1], s[2], s[3]) : s \in For(i)}
            Logged(i) == {In(s[1], s[2], s[3]) : s \in For(i)}
<1>1. d = [r EXCEPT !.traffic = @ \cup Outs \cup Ins,
                    !.pending = [i \in Instance |-> @[i] \cup New(i)],
                    !.calls = @ + 1,
                    !.drawn = [f \in r.faults |-> @[f] + Draws(f, Len(outbox))]]
  BY DEF Deliver
<1>2. d = [pending |-> [i \in Instance |-> r.pending[i] \cup New(i)],
           traffic |-> r.traffic \cup Outs \cup Ins, calls |-> r.calls + 1, step |-> r.step,
           faults |-> r.faults, drawn |-> [f \in r.faults |-> r.drawn[f] + Draws(f, Len(outbox))]]
  <2>. HIDE DEF New, Outs, Ins, Draws, d
  <2>. QED BY <1>1 DEF IsRouter
<1>3. \A k \in DOMAIN outbox : /\ k \in Nat /\ outbox[k].port \in PortName /\ outbox[k].payload \in Int
                              /\ outbox[k].tai \in Int
  <2>1. outbox \in Seq(PortFrame)
    BY DEF Outbox
  <2>2. \A k \in DOMAIN outbox : k \in Nat /\ outbox[k] \in PortFrame
    BY <2>1
  <2>. QED BY <2>2 DEF PortFrame
<1>4. \A k \in DOMAIN outbox : Epoch_(k) \in Int /\ Payload(k) \in Int
  BY <1>3 DEF Corrupted
<1>5. \A k \in DOMAIN outbox : Effect(k).kind = "none" \/ Effect(k) \in PortFault
  BY DEF IsRouter
<1>6. \A k \in DOMAIN outbox : \A c \in DOMAIN Copies(Effect(k)) : Copies(Effect(k))[c] \in Int
  BY <1>5, CopiesTyped
<1>7. \A t \in DOMAIN Edges : t \in Nat /\ Edges[t] \in Connection /\ Edges[t].inPort \in PortName
  BY RunAssumption DEF PortName
<1>. HIDE DEF Epoch_, Effect, Payload
<1>8. \A s \in Sent : /\ s[1] \in DOMAIN outbox /\ s[2] \in DOMAIN Edges /\ s[3] \in {1, 2}
                      /\ s = <<s[1], s[2], s[3]>>
                      /\ s[3] \in DOMAIN Copies(Effect(s[1]))
  OBVIOUS
<1>. DEFINE q(s) == Queued(s[1], s[2], s[3])
            x(s) == In(s[1], s[2], s[3])
<1>9. \A s \in Sent : /\ x(s) \in TrafficRecord /\ x(s).key = <<r.calls + 1, s[1], s[2], s[3]>>
                      /\ x(s).instance = Edges[s[2]].to /\ x(s).dir = "in"
  <2>. SUFFICES ASSUME NEW s \in Sent
                PROVE  /\ x(s) \in TrafficRecord /\ x(s).key = <<r.calls + 1, s[1], s[2], s[3]>>
                       /\ x(s).instance = Edges[s[2]].to /\ x(s).dir = "in"
    OBVIOUS
  <2>. HIDE DEF Sent
  <2>1. Epoch_(s[1]) \in Int /\ Payload(s[1]) \in Int /\ s[1] \in Nat /\ s[2] \in Nat /\ s[3] \in Nat
        /\ r.calls + 1 \in Nat /\ r.step \in Nat /\ Edges[s[2]] \in Connection
        /\ Edges[s[2]].inPort \in PortName
    BY <1>3, <1>4, <1>7, <1>8 DEF IsRouter
  <2>2. x(s) = [key |-> <<r.calls + 1, s[1], s[2], s[3]>>, instance |-> Edges[s[2]].to, port |-> Edges[s[2]].inPort,
                dir |-> "in", tai |-> Epoch_(s[1]), payload |-> Payload(s[1]), sequence |-> r.step]
    BY DEF Record
  <2>. HIDE DEF x, Sent
  <2>. QED BY <2>1, <2>2 DEF TrafficRecord, PushKey, Connection
<1>10. \A s \in Sent : /\ q(s) \in Message /\ q(s).key = <<r.calls + 1, s[1], s[2], s[3]>>
                       /\ q(s).to = Edges[s[2]].to /\ q(s).after = steps[Edges[s[2]].to]
                       /\ AsLogged(q(s)) = Content(x(s))
  <2>. SUFFICES ASSUME NEW s \in Sent
                PROVE  /\ q(s) \in Message /\ q(s).key = <<r.calls + 1, s[1], s[2], s[3]>>
                       /\ q(s).to = Edges[s[2]].to /\ q(s).after = steps[Edges[s[2]].to]
                       /\ AsLogged(q(s)) = Content(x(s))
    OBVIOUS
  <2>. DEFINE extra == Copies(Effect(s[1]))[s[3]]
  <2>. HIDE DEF Sent
  <2>1. Epoch_(s[1]) \in Int /\ Payload(s[1]) \in Int /\ s[1] \in Nat /\ s[2] \in Nat /\ s[3] \in Nat
        /\ r.calls + 1 \in Nat /\ Edges[s[2]] \in Connection /\ Edges[s[2]].inPort \in PortName
    BY <1>3, <1>4, <1>7, <1>8 DEF IsRouter
  <2>2. extra \in Int
    BY <1>6, <1>8
  <2>3. q(s) = [key |-> <<r.calls + 1, s[1], s[2], s[3]>>, to |-> Edges[s[2]].to, port |-> Edges[s[2]].inPort,
                epoch |-> Epoch_(s[1]), from |-> from, avail |-> Epoch_(s[1]) + Edges[s[2]].latency + extra,
                payload |-> Payload(s[1]), after |-> steps[Edges[s[2]].to]]
    OBVIOUS
  <2>4. x(s) = [key |-> <<r.calls + 1, s[1], s[2], s[3]>>, instance |-> Edges[s[2]].to, port |-> Edges[s[2]].inPort,
                dir |-> "in", tai |-> Epoch_(s[1]), payload |-> Payload(s[1]), sequence |-> r.step]
    BY DEF Record
  <2>. HIDE DEF x, q, Sent, extra
  <2>5. Edges[s[2]].latency \in Int /\ Edges[s[2]].to \in Instance
    BY <2>1 DEF Connection
  <2>. QED BY <2>1, <2>2, <2>3, <2>4, <2>5 DEF Message, PushKey, AsLogged, Content
<1>11. \A k \in DOMAIN outbox : Out(k) \in TrafficRecord /\ Out(k).key[1] = r.calls + 1 /\ Out(k).dir = "out"
  <2>. SUFFICES ASSUME NEW k \in DOMAIN outbox
                PROVE  Out(k) \in TrafficRecord /\ Out(k).key[1] = r.calls + 1 /\ Out(k).dir = "out"
    OBVIOUS
  <2>1. Epoch_(k) \in Int /\ r.calls + 1 \in Nat /\ r.step \in Nat
    BY <1>4 DEF IsRouter
  <2>2. Out(k) = [key |-> <<r.calls + 1, k, 0, 0>>, instance |-> from, port |-> outbox[k].port,
                  dir |-> "out", tai |-> Epoch_(k), payload |-> outbox[k].payload, sequence |-> r.step]
    BY DEF Record
  <2>. HIDE DEF Out
  <2>. QED BY <1>3, <2>1, <2>2 DEF TrafficRecord, PushKey
<1>12. IsFiniteSet(Outs) /\ IsFiniteSet(Ins)
  <2>1. IsFiniteSet(DOMAIN outbox) /\ IsFiniteSet(DOMAIN Edges) /\ IsFiniteSet({1, 2})
    <3>1. outbox \in Seq(PortFrame) /\ Edges \in Seq(Connection)
      BY RunAssumption DEF Outbox
    <3>2. DOMAIN outbox = 1 .. Len(outbox) /\ Len(outbox) \in Nat
      BY <3>1
    <3>3. DOMAIN Edges = 1 .. Len(Edges) /\ Len(Edges) \in Nat
      BY <3>1
    <3>4. {1, 2} = {1} \cup {2}
      OBVIOUS
    <3>5. IsFiniteSet(1 .. Len(outbox))
      BY <3>2, FS_Interval
    <3>6. IsFiniteSet(1 .. Len(Edges))
      BY <3>3, FS_Interval
    <3>7. IsFiniteSet({1} \cup {2})
      BY FS_Singleton, FS_Union
    <3>. QED BY <3>2, <3>3, <3>4, <3>5, <3>6, <3>7
  <2>2. IsFiniteSet((DOMAIN outbox) \X (DOMAIN Edges))
    BY <2>1, FS_Product
  <2>3. IsFiniteSet(((DOMAIN outbox) \X (DOMAIN Edges)) \X {1, 2})
    BY <2>1, <2>2, FS_Product
  <2>. DEFINE Triples == (DOMAIN outbox) \X (DOMAIN Edges) \X {1, 2}
              pair == [p \in ((DOMAIN outbox) \X (DOMAIN Edges)) \X {1, 2} |-> <<p[1][1], p[1][2], p[2]>>]
  <2>4. \A s \in Triples : \E p \in DOMAIN pair : s = pair[p]
    <3>. SUFFICES ASSUME NEW s \in Triples PROVE \E p \in DOMAIN pair : s = pair[p]
      OBVIOUS
    <3>1. <<<<s[1], s[2]>>, s[3]>> \in DOMAIN pair /\ s = <<s[1], s[2], s[3]>>
      OBVIOUS
    <3>2. pair[<<<<s[1], s[2]>>, s[3]>>] = <<s[1], s[2], s[3]>>
      BY <3>1
    <3>. QED BY <3>1, <3>2
  <2>5. IsFiniteSet({pair[p] : p \in DOMAIN pair})
    BY <2>3, ImageFinite
  <2>6. IsFiniteSet(Sent)
    <3>1. Sent \subseteq {pair[p] : p \in DOMAIN pair}
      <4>1. Sent \subseteq Triples
        OBVIOUS
      <4>. HIDE DEF Sent, Triples, pair
      <4>. QED BY <2>4, <4>1
    <3>. HIDE DEF Sent, pair
    <3>. QED BY <2>5, <3>1, FS_Subset
  <2>7. IsFiniteSet(Outs)
    <3>. DEFINE f == [k \in DOMAIN outbox |-> Out(k)]
    <3>1. IsFiniteSet(DOMAIN f)
      BY <2>1
    <3>2. IsFiniteSet({f[k] : k \in DOMAIN f})
      BY <3>1, ImageFinite
    <3>3. {f[k] : k \in DOMAIN f} = Outs
      <4>. HIDE DEF Out
      <4>. QED OBVIOUS
    <3>. QED BY <3>2, <3>3
  <2>8. IsFiniteSet(Ins)
    <3>. DEFINE f == [s \in Sent |-> x(s)]
    <3>. HIDE DEF Sent
    <3>1. IsFiniteSet(DOMAIN f)
      BY <2>6
    <3>2. IsFiniteSet({f[k] : k \in DOMAIN f})
      BY <3>1, ImageFinite
    <3>3. {f[k] : k \in DOMAIN f} = {x(s) : s \in Sent}
      <4>. HIDE DEF x
      <4>. QED OBVIOUS
    <3>. QED BY <3>2, <3>3
  <2>. QED BY <2>7, <2>8
<1>. HIDE DEF Out, Sent
<1>13. IsRouter(d)
  <2>. DEFINE P == [i \in Instance |-> r.pending[i] \cup New(i)]
              T == r.traffic \cup Outs \cup Ins
              D == [f \in r.faults |-> r.drawn[f] + Draws(f, Len(outbox))]
  <2>1. \A i \in Instance : New(i) \subseteq Message /\ \A m \in New(i) : m.to = i
    <3>. SUFFICES ASSUME NEW i \in Instance, NEW m \in New(i) PROVE m \in Message /\ m.to = i
      OBVIOUS
    <3>1. PICK s \in For(i) : m = q(s)
      BY DEF q
    <3>2. s \in Sent /\ Edges[s[2]].to = i
      OBVIOUS
    <3>. HIDE DEF q, New, For
    <3>. QED BY <1>10, <3>1, <3>2
  <2>2. Outs \cup Ins \subseteq TrafficRecord /\ \A y \in Outs \cup Ins : y.key[1] = r.calls + 1
    <3>. HIDE DEF x
    <3>1. Ins = {x(s) : s \in Sent}
      BY DEF x
    <3>2. \A s \in Sent : x(s).key[1] = r.calls + 1
      BY <1>9
    <3>. QED BY <1>9, <1>11, <3>1, <3>2
  <2>. HIDE DEF New, Outs, Ins
  <2>3. P \in [Instance -> SUBSET Message] /\ \A i \in Instance : \A m \in P[i] : m.to = i
    BY <2>1 DEF IsRouter
  <2>4. T \subseteq TrafficRecord /\ \A y \in T : y.key[1] <= r.calls + 1
    <3>1. \A y \in r.traffic : y.key[1] \in Nat /\ y.key[1] <= r.calls /\ y \in TrafficRecord
      BY DEF IsRouter, TrafficRecord, PushKey
    <3>2. r.calls \in Nat
      BY DEF IsRouter
    <3>. QED BY <2>2, <3>1, <3>2
  <2>5. IsFiniteSet(T)
    BY <1>12, FS_Union DEF IsRouter
  <2>. HIDE DEF P, T, D, d
  <2>6. d = [pending |-> P, traffic |-> T, calls |-> r.calls + 1, step |-> r.step, faults |-> r.faults, drawn |-> D]
    BY <1>2 DEF P, T, D
  <2>. QED BY <2>3, <2>4, <2>5, <2>6 DEF IsRouter
<1>14. d.calls = r.calls + 1
  BY <1>2
<1>15. ASSUME NEW i \in Instance
       PROVE  Arrives(r, d, i, steps[i], New(i), Logged(i))
  <2>. HIDE DEF d
  <2>1. d.pending[i] = r.pending[i] \cup New(i)
    <3>. HIDE DEF New, Outs, Ins, Draws
    <3>. QED BY <1>2
  <2>2. d.traffic = r.traffic \cup Outs \cup Ins
    <3>. HIDE DEF New, Outs, Ins, Draws
    <3>. QED BY <1>2
  <2>3. New(i) = {q(s) : s \in For(i)} /\ Logged(i) = {x(s) : s \in For(i)} /\ Ins = {x(s) : s \in Sent}
    OBVIOUS
  <2>4. \A s \in For(i) : s \in Sent /\ Edges[s[2]].to = i
    OBVIOUS
  <2>5. \A s \in Sent : Edges[s[2]].to = i => s \in For(i)
    OBVIOUS
  <2>. HIDE DEF q, x, For
  <2>6. InLog(d, i) = InLog(r, i) \cup Logged(i)
    <3>1. \A y \in Outs : y.dir # "in"
      BY <1>11
    <3>2. \A y \in Ins : y.instance = i <=> y \in Logged(i)
      BY <1>9, <2>3, <2>4, <2>5
    <3>3. \A y \in Logged(i) : y \in Ins /\ y.instance = i /\ y.dir = "in"
      BY <1>9, <2>3, <2>4
    <3>. HIDE DEF Outs, Ins, Logged
    <3>. QED BY <2>2, <3>1, <3>2, <3>3 DEF InLog
  <2>. HIDE DEF New, Logged
  <2>7. {Content(y) : y \in Logged(i)} = {AsLogged(m) : m \in New(i)}
    <3>1. \A y \in Logged(i) : \E m \in New(i) : Content(y) = AsLogged(m)
      BY <1>10, <2>3, <2>4
    <3>2. \A m \in New(i) : \E y \in Logged(i) : Content(y) = AsLogged(m)
      BY <1>10, <2>3, <2>4
    <3>. QED BY <3>1, <3>2
  <2>8. \A s \in Sent : q(s).key[1] = r.calls + 1 /\ x(s).key[1] = r.calls + 1
    BY <1>9, <1>10
  <2>9. New(i) \subseteq Message /\ \A m \in New(i) : m.key[1] = r.calls + 1 /\ m.to = i /\ m.after = steps[i]
    BY <1>10, <2>3, <2>4, <2>8
  <2>10. \A y \in Logged(i) : y.key[1] = r.calls + 1
    BY <2>3, <2>4, <2>8
  <2>11. \A s, t \in Sent : q(s).key = q(t).key \/ x(s).key = x(t).key => s = t
    BY <1>8, <1>9, <1>10
  <2>12. \A m, n \in New(i) : m.key = n.key => m = n
    BY <2>3, <2>4, <2>11
  <2>13. \A y, z \in Logged(i) : y.key = z.key => y = z
    BY <2>3, <2>4, <2>11
  <2>. QED BY <2>1, <2>6, <2>7, <2>9, <2>10, <2>12, <2>13 DEF Arrives
<1>. QED BY <1>13, <1>14, <1>15
-----------------------------------------------------------------------------
(* The schedule.                                                             *)

(* The output instant after one before b is not after b.                     *)
LEMMA NextInstant ==
  ASSUME NEW a \in Nat, NEW b \in Nat, a < b, OnGrid(a), OnGrid(b)
  PROVE  a + OutputPeriod <= b /\ OnGrid(a + OutputPeriod)
<1>. DEFINE P == OutputPeriod
<1>1. P \in Nat /\ P >= 1
  BY RunAssumption
<1>2. PICK m \in 0 .. a : a = m * P
  BY DEF OnGrid
<1>3. PICK n \in 0 .. b : b = n * P
  BY DEF OnGrid
<1>. HIDE DEF P
<1>4. m + 1 <= n
  <2>. SUFFICES ASSUME n <= m PROVE FALSE
    OBVIOUS
  <2>1. n * P <= m * P
    BY <1>1
  <2>. QED BY <1>2, <1>3, <2>1
<1>5. (m + 1) * P <= n * P /\ (m + 1) * P = m * P + P
  BY <1>1, <1>4
<1>6. m + 1 \in 0 .. (a + P)
  BY <1>1, <1>2
<1>. QED BY <1>2, <1>3, <1>5, <1>6 DEF OnGrid, P
-----------------------------------------------------------------------------
(* The traffic.                                                              *)

LEMMA PerInstance ==
  ASSUME \A i \in Instance : Conserved(router.pending[i], InLog(router, i), taken[i]) /\ TakenWhenDue(taken[i])
  PROVE  FramesConserved /\ DeliveredWhenDue
BY DEF FramesConserved, DeliveredWhenDue, Conserved, TakenWhenDue, Took, Had, Inboxes, Delivered, InLog, AsLogged

(* What arrives is new: it is logged and queued under keys of its own.       *)
LEMMA ArrivalConserves ==
  ASSUME NEW P, NEW L, NEW K, Conserved(P, L, K), NEW n \in Nat,
         \A x \in L : x.key[1] \in Nat /\ x.key[1] <= n,
         NEW new, NEW logged, {Content(x) : x \in logged} = {AsLogged(q) : q \in new},
         \A q \in new : q.key[1] = n + 1, \A x \in logged : x.key[1] = n + 1,
         \A p, q \in new : p.key = q.key => p = q, \A x, y \in logged : x.key = y.key => x = y
  PROVE  Conserved(P \cup new, L \cup logged, K)
<1>1. \A q \in P \cup Took(K) : \E x \in L : AsLogged(q) = Content(x)
  BY DEF Conserved
<1>2. \A q \in P \cup Took(K) : \E x \in L : q.key = x.key
  BY <1>1 DEF AsLogged, Content
<1>3. \A q \in P \cup Took(K) : q.key[1] \in Nat /\ q.key[1] <= n
  BY <1>2
<1>4. \A q \in new : q \notin P \cup Took(K) /\ \A p \in P \cup Took(K) : p.key # q.key
  BY <1>3
<1>5. \A y \in logged : \A x \in L : x.key # y.key
  OBVIOUS
<1>6. {Content(x) : x \in L \cup logged} = {AsLogged(q) : q \in (P \cup new) \cup Took(K)}
  <2>1. {Content(x) : x \in L \cup logged} = {Content(x) : x \in L} \cup {Content(x) : x \in logged}
    OBVIOUS
  <2>2. {AsLogged(q) : q \in (P \cup new) \cup Took(K)}
          = {AsLogged(q) : q \in P \cup Took(K)} \cup {AsLogged(q) : q \in new}
    OBVIOUS
  <2>. QED BY <2>1, <2>2 DEF Conserved
<1>7. \A k \in DOMAIN K : K[k].inbox \subseteq Took(K)
  BY DEF Took
<1>8. \A k \in DOMAIN K : K[k].inbox \cap (P \cup new) = {}
  BY <1>4, <1>7 DEF Conserved
<1>. QED BY <1>4, <1>5, <1>6, <1>8 DEF Conserved

(* A step takes part of what is queued and leaves the rest.                  *)
LEMMA TakingConserves ==
  ASSUME NEW H, NEW I \in SUBSET Message, NEW L, NEW K \in Seq(StepTaken), Conserved(H \cup I, L, K),
         H \cap I = {}, NEW at \in Nat
  PROVE  Conserved(H, L, Append(K, [at |-> at, inbox |-> I]))
<1>. DEFINE s == [at |-> at, inbox |-> I]
            A == Append(K, s)
<1>1. /\ DOMAIN A = 1 .. Len(K) + 1 /\ DOMAIN K = 1 .. Len(K) /\ Len(K) \in Nat
      /\ A[Len(K) + 1] = s /\ \A k \in 1 .. Len(K) : A[k] = K[k]
  <2>1. s \in StepTaken
    BY DEF StepTaken
  <2>. QED BY <2>1
<1>2. s.inbox = I
  OBVIOUS
<1>. HIDE DEF A, s
<1>3. Took(A) = Took(K) \cup I
  BY <1>1, <1>2 DEF Took
<1>4. \A k \in DOMAIN K : K[k].inbox \cap H = {} /\ K[k].inbox \cap I = {}
  BY DEF Conserved
<1>5. \A k \in DOMAIN A : A[k].inbox \cap H = {}
  BY <1>1, <1>2, <1>4
<1>6. \A k, m \in DOMAIN A : k # m => A[k].inbox \cap A[m].inbox = {}
  <2>1. \A k, m \in DOMAIN K : k # m => A[k].inbox \cap A[m].inbox = {}
    BY <1>1 DEF Conserved
  <2>2. \A k \in DOMAIN K : A[k].inbox \cap A[Len(K) + 1].inbox = {}
    BY <1>1, <1>2, <1>4
  <2>3. DOMAIN A = DOMAIN K \cup {Len(K) + 1}
    BY <1>1
  <2>. QED BY <2>1, <2>2, <2>3
<1>7. H \cup Took(A) = (H \cup I) \cup Took(K)
  BY <1>3
<1>. QED BY <1>5, <1>6, <1>7 DEF Conserved, A, s

(* ... and leaves only what is not available to it.                          *)
LEMMA TakingOnTime ==
  ASSUME NEW H \in SUBSET Message, NEW I \in SUBSET Message, NEW K \in Seq(StepTaken), NEW at \in Nat,
         OnTime(H \cup I, K), TakenWhenDue(K),
         \A q \in H : at < q.avail, \A q \in I : q.avail <= at
  PROVE  LET A == Append(K, [at |-> at, inbox |-> I]) IN OnTime(H, A) /\ TakenWhenDue(A)
<1>. DEFINE s == [at |-> at, inbox |-> I]
            A == Append(K, s)
<1>1. /\ DOMAIN A = 1 .. Len(K) + 1 /\ DOMAIN K = 1 .. Len(K) /\ Len(K) \in Nat /\ Len(A) = Len(K) + 1
      /\ A[Len(K) + 1] = s /\ \A k \in 1 .. Len(K) : A[k] = K[k]
  <2>1. s \in StepTaken
    BY DEF StepTaken
  <2>. QED BY <2>1
<1>2. s.inbox = I /\ s.at = at
  OBVIOUS
<1>. HIDE DEF A, s
<1>3. \A q \in Message : q.after \in Nat /\ q.avail \in Int
  BY DEF Message
<1>4. OnTime(H, A)
  BY <1>1, <1>2, <1>3 DEF OnTime
<1>5. TakenWhenDue(A)
  <2>. SUFFICES ASSUME NEW k \in DOMAIN A, NEW q \in A[k].inbox
                PROVE  q.avail <= A[k].at /\ \A e \in q.after + 1 .. k - 1 : A[e].at < q.avail
    BY DEF TakenWhenDue
  <2>1. CASE k = Len(K) + 1
    BY <1>1, <1>2, <1>3, <2>1 DEF OnTime
  <2>2. CASE k \in 1 .. Len(K)
    <3>1. K[k].inbox \subseteq Message
      <4>1. K[k] \in StepTaken
        BY <2>2
      <4>. QED BY <4>1 DEF StepTaken
    <3>. QED BY <1>1, <1>3, <2>2, <3>1 DEF TakenWhenDue
  <2>. QED BY <1>1, <2>1, <2>2
<1>. QED BY <1>4, <1>5 DEF A, s

LEMMA LogKeysSeen ==
  ASSUME NEW r, IsRouter(r), NEW i
  PROVE  \A x \in InLog(r, i) : x.key[1] \in Nat /\ x.key[1] <= r.calls
<1>1. \A x \in r.traffic : x.key \in PushKey /\ x.key[1] <= r.calls
  BY DEF IsRouter, TrafficRecord
<1>2. \A k \in PushKey : k[1] \in Nat
  BY DEF PushKey
<1>. QED BY <1>1, <1>2 DEF InLog

(* The router, and what was taken, at the start of a run.                    *)
LEMMA CarriedAtStart ==
  ASSUME NEW faults \in SUBSET PortFault
  PROVE  Carried(NewRouter(faults), [i \in Instance |-> << >>])
<1>. DEFINE r == NewRouter(faults)
            t == [i \in Instance |-> << >>]
<1>1. IsRouter(r)
  BY NewRouterIsOne
<1>2. r.traffic = {} /\ \A i \in Instance : r.pending[i] = {} /\ t[i] = << >> /\ InLog(r, i) = {}
  BY DEF NewRouter, InLog
<1>3. t \in [Instance -> Seq(StepTaken)]
  OBVIOUS
<1>4. Conserved({}, {}, << >>) /\ OnTime({}, << >>) /\ TakenWhenDue(<< >>)
  BY DEF Conserved, OnTime, TakenWhenDue, Took
<1>. HIDE DEF r, t
<1>5. Carried(r, t)
  BY <1>1, <1>2, <1>3, <1>4 DEF Carried
<1>. QED BY <1>5 DEF r, t

LEMMA CarriedByBeginStep ==
  ASSUME NEW r, NEW t, Carried(r, t)
  PROVE  Carried(BeginStep(r), t)
BY BeginStepKeeps DEF Carried, InLog

LEMMA CarriedByDeliver ==
  ASSUME NEW r, NEW t, Carried(r, t), NEW from \in Instance, NEW fallback \in Int, NEW outbox \in Outbox,
         NEW steps, steps = [j \in Instance |-> Len(t[j])]
  PROVE  Carried(Deliver(r, from, fallback, steps, outbox), t)
<1>. DEFINE d == Deliver(r, from, fallback, steps, outbox)
<1>1. IsRouter(r) /\ t \in [Instance -> Seq(StepTaken)]
  BY DEF Carried
<1>2. steps \in [Instance -> Nat]
  BY <1>1
<1>3. IsRouter(d) /\ \A i \in Instance : \E new, logged : Arrives(r, d, i, steps[i], new, logged)
  BY <1>1, <1>2, DeliverArrives
<1>. HIDE DEF d
<1>4. ASSUME NEW i \in Instance
      PROVE  Conserved(d.pending[i], InLog(d, i), t[i]) /\ OnTime(d.pending[i], t[i]) /\ TakenWhenDue(t[i])
  <2>1. PICK new, logged : Arrives(r, d, i, steps[i], new, logged)
    BY <1>3
  <2>2. steps[i] = Len(t[i]) /\ Len(t[i]) \in Nat /\ r.calls \in Nat
    BY <1>1 DEF IsRouter
  <2>3. Conserved(r.pending[i], InLog(r, i), t[i]) /\ OnTime(r.pending[i], t[i]) /\ TakenWhenDue(t[i])
    BY DEF Carried
  <2>4. \A x \in InLog(r, i) : x.key[1] \in Nat /\ x.key[1] <= r.calls
    BY <1>1, LogKeysSeen
  <2>5. Conserved(r.pending[i] \cup new, InLog(r, i) \cup logged, t[i])
    BY <2>1, <2>2, <2>3, <2>4, ArrivalConserves DEF Arrives
  <2>6. OnTime(r.pending[i] \cup new, t[i])
    <3>1. \A q \in new : q.after = Len(t[i])
      BY <2>1, <2>2 DEF Arrives
    <3>. QED BY <2>2, <2>3, <3>1 DEF OnTime
  <2>. QED BY <2>1, <2>3, <2>5, <2>6 DEF Arrives
<1>. QED BY <1>1, <1>3, <1>4 DEF Carried, d

LEMMA CarriedByTakeInbox ==
  ASSUME NEW r, NEW t, Carried(r, t), NEW i \in Instance, NEW at \in Nat
  PROVE  Carried(TakeInbox(r, i, at), [t EXCEPT ![i] = Append(@, [at |-> at, inbox |-> Ready(r, i, at)])])
<1>. DEFINE T == TakeInbox(r, i, at)
            I == Ready(r, i, at)
            u == [t EXCEPT ![i] = Append(@, [at |-> at, inbox |-> I])]
<1>1. IsRouter(r) /\ t \in [Instance -> Seq(StepTaken)]
  BY DEF Carried
<1>2. /\ IsRouter(T) /\ T.traffic = r.traffic
      /\ T.pending = [r.pending EXCEPT ![i] = {q \in @ : q.avail > at}]
      /\ r.pending[i] = T.pending[i] \cup I /\ T.pending[i] \cap I = {}
  BY <1>1, TakeInboxKeeps
<1>3. r.pending \in [Instance -> SUBSET Message]
  BY <1>1 DEF IsRouter
<1>4. T.pending[i] = {q \in r.pending[i] : q.avail > at} /\ \A j \in Instance \ {i} : T.pending[j] = r.pending[j]
  BY <1>2, <1>3
<1>5. \A q \in I : q.avail <= at
  BY DEF Ready
<1>. HIDE DEF T, I
<1>6. T.pending[i] \in SUBSET Message /\ I \in SUBSET Message
  BY <1>2, <1>3
<1>7. \A j \in Instance : InLog(T, j) = InLog(r, j)
  BY <1>2 DEF InLog
<1>8. [at |-> at, inbox |-> I] \in StepTaken
  BY <1>6 DEF StepTaken
<1>9. /\ u \in [Instance -> Seq(StepTaken)] /\ u[i] = Append(t[i], [at |-> at, inbox |-> I])
      /\ \A j \in Instance \ {i} : u[j] = t[j]
  BY <1>1, <1>8
<1>. HIDE DEF u
<1>10. Conserved(T.pending[i], InLog(T, i), u[i]) /\ OnTime(T.pending[i], u[i]) /\ TakenWhenDue(u[i])
  <2>1. /\ Conserved(T.pending[i] \cup I, InLog(T, i), t[i]) /\ OnTime(T.pending[i] \cup I, t[i])
        /\ TakenWhenDue(t[i])
    BY <1>2, <1>7 DEF Carried
  <2>2. t[i] \in Seq(StepTaken)
    BY <1>1
  <2>3. Conserved(T.pending[i], InLog(T, i), Append(t[i], [at |-> at, inbox |-> I]))
    BY <1>2, <1>6, <2>1, <2>2, TakingConserves
  <2>4. \A q \in T.pending[i] : at < q.avail
    <3>1. \A q \in T.pending[i] : q.avail \in Int /\ q.avail > at
      BY <1>3, <1>4 DEF Message
    <3>. QED BY <3>1
  <2>5. OnTime(T.pending[i], u[i]) /\ TakenWhenDue(u[i])
    BY <1>5, <1>6, <1>9, <2>1, <2>2, <2>4, TakingOnTime
  <2>. QED BY <1>9, <2>3, <2>5
<1>11. ASSUME NEW j \in Instance \ {i}
       PROVE  Conserved(T.pending[j], InLog(T, j), u[j]) /\ OnTime(T.pending[j], u[j]) /\ TakenWhenDue(u[j])
  BY <1>4, <1>7, <1>9 DEF Carried
<1>. QED BY <1>2, <1>9, <1>10, <1>11 DEF Carried, T, I, u
-----------------------------------------------------------------------------
(* What an instance sends, and what a command sets, is of the right type.    *)

LEMMA CommandedTyped ==
  ASSUME Commands, NEW i \in Instance, NEW inbox
  PROVE  /\ \A n \in Commanded(i, inbox) : n \in 1 .. Len(orders) /\ orders[n].value \in Int
         /\ CellAfter(i, inbox) \in [value : Int, last : Int]
<1>1. \A n \in DOMAIN orders : n \in 1 .. Len(orders) /\ orders[n].value \in Int
  <2>1. orders \in Seq(NumberedOrder)
    BY DEF Commands
  <2>2. \A n \in DOMAIN orders : n \in 1 .. Len(orders) /\ orders[n] \in NumberedOrder
    BY <2>1
  <2>. QED BY <2>2 DEF NumberedOrder
<1>2. \A n \in Commanded(i, inbox) : n \in 1 .. Len(orders) /\ orders[n].value \in Int
  BY <1>1 DEF Commanded
<1>3. cells[i] \in [value : Int, last : Int]
  BY DEF Commands
<1>4. Commanded(i, inbox) # {} => (CHOOSE n \in Commanded(i, inbox) : TRUE) \in Commanded(i, inbox)
  OBVIOUS
<1>. QED BY <1>2, <1>3, <1>4 DEF CellAfter

LEMMA SendsTyped ==
  ASSUME IInv, NEW i \in Instance, NEW inbox, NEW outbox \in Sends(i, inbox)
  PROVE  outbox \in Outbox
<1>. DEFINE end == due[i]
<1>1. end \in Nat
  BY DEF IInv, Schedule
<1>0. "tlm" \in PortName /\ "ack" \in PortName
  BY DEF PortName
<1>2. \A port \in PortName : \A tai, payload \in Int : Frame(port, tai, payload) \in PortFrame
  BY DEF Frame, PortFrame
<1>3. CASE ~Live(i)
  <2>1. Replaying /\ outbox \in Playback(i)
    BY <1>3 DEF Live, Replayed, Sends
  <2>2. IsFiniteSet(Window(i)) /\ Window(i) \subseteq TrafficRecord
    <3>1. original.traffic \subseteq TrafficRecord /\ IsFiniteSet(original.traffic)
      BY <2>1 DEF IInv, Recorded
    <3>. QED BY <3>1, FS_Subset DEF Window, Log
  <2>3. Cardinality(Window(i)) \in Nat
    BY <2>2, FS_CardinalityType
  <2>4. PICK f \in [1 .. Cardinality(Window(i)) -> Window(i)] :
          outbox = [n \in DOMAIN f |-> Frame(f[n].port, f[n].tai, f[n].payload)]
    BY <2>1 DEF Playback, Sorted
  <2>5. \A n \in DOMAIN f : Frame(f[n].port, f[n].tai, f[n].payload) \in PortFrame
    <3>. SUFFICES ASSUME NEW n \in DOMAIN f PROVE Frame(f[n].port, f[n].tai, f[n].payload) \in PortFrame
      OBVIOUS
    <3>1. f[n] \in TrafficRecord
      <4>. HIDE DEF Window
      <4>. QED BY <2>2, <2>4
    <3>2. f[n].port \in PortName /\ f[n].tai \in Int /\ f[n].payload \in Int
      BY <3>1 DEF TrafficRecord
    <3>. QED BY <1>2, <3>2
  <2>6. outbox \in [1 .. Cardinality(Window(i)) -> PortFrame]
    BY <2>4, <2>5
  <2>. QED BY <2>3, <2>6 DEF Outbox
<1>4. CASE Live(i) /\ outbox \in Outboxes(i, inbox)
  <2>1. CASE i \in Consumer
    <3>1. CellAfter(i, inbox).value \in Int /\ \A n \in NewlyApplied(i, inbox) : n \in Int
      BY CommandedTyped DEF NewlyApplied, IInv
    <3>2. Telemetry(i, inbox) \in PortFrame
      BY <1>0, <1>1, <1>2, <3>1 DEF Telemetry
    <3>3. \A ack \in Ack(i, inbox) : ack \in PortFrame
      BY <1>0, <1>1, <1>2, <3>1 DEF Ack
    <3>4. outbox = <<Telemetry(i, inbox)>> \/ \E ack \in Ack(i, inbox) : outbox = <<Telemetry(i, inbox), ack>>
      BY <1>4, <2>1 DEF Outboxes
    <3>5. \A x, y \in PortFrame : <<x>> \in Seq(PortFrame) /\ <<x, y>> \in Seq(PortFrame)
      OBVIOUS
    <3>. QED BY <3>2, <3>3, <3>4, <3>5 DEF Outbox
  <2>2. CASE i \notin Consumer
    <3>1. outbox \in {<< >>, <<Frame("tlm", NoEpoch, 0)>>, <<Frame("tlm", end - 1, 0), Frame("tlm", end, 0)>>}
      BY <1>4, <2>2 DEF Outboxes
    <3>2. NoEpoch \in Int /\ end - 1 \in Int /\ end \in Int /\ 0 \in Int
      BY <1>1 DEF NoEpoch
    <3>3. /\ Frame("tlm", NoEpoch, 0) \in PortFrame /\ Frame("tlm", end - 1, 0) \in PortFrame
          /\ Frame("tlm", end, 0) \in PortFrame
      BY <1>0, <1>2, <3>2
    <3>4. \A x, y \in PortFrame : /\ << >> \in Seq(PortFrame) /\ <<x>> \in Seq(PortFrame)
                                 /\ <<x, y>> \in Seq(PortFrame)
      OBVIOUS
    <3>. QED BY <3>1, <3>3, <3>4 DEF Outbox
  <2>. QED BY <2>1, <2>2
<1>5. CASE Live(i) /\ outbox \notin Outboxes(i, inbox)
  <2>1. /\ Replaying /\ StepsTaken(i) < Len(original.emitted[i])
        /\ outbox = original.emitted[i][StepsTaken(i) + 1]
    BY <1>5 DEF Sends
  <2>2. original.emitted[i] \in Seq(Outbox)
    BY <2>1 DEF IInv, Recorded
  <2>3. emitted[i] \in Seq(Outbox)
    BY DEF IInv, Recorded
  <2>4. StepsTaken(i) \in Nat
    BY <2>3 DEF StepsTaken
  <2>. QED BY <2>1, <2>2, <2>4
<1>. QED BY <1>3, <1>4, <1>5

(* The commands to be dispatched.                                            *)
LEMMA OrdersTyped ==
  ASSUME scenario \in Scenarios, NEW s \in Orders
  PROVE  s \in Seq(NumberedOrder)
<1>1. scenario.commands \in Seq(Command)
  BY RunAssumption
<1>2. DOMAIN scenario.commands = 1 .. Len(scenario.commands) /\ Len(scenario.commands) \in Nat
  BY <1>1
<1>3. Chosen \subseteq 1 .. Len(scenario.commands)
  BY <1>2 DEF Chosen
<1>4. IsFiniteSet(Chosen)
  <2>1. IsFiniteSet(1 .. Len(scenario.commands))
    BY <1>2, FS_Interval
  <2>. QED BY <1>3, <2>1, FS_Subset
<1>5. Cardinality(Chosen) \in Nat
  BY <1>4, FS_CardinalityType
<1>6. PICK f \in [1 .. Cardinality(Chosen) -> Chosen] : s = [n \in DOMAIN f |-> Order(scenario.commands[f[n]])]
  BY DEF Orders, Numbered, Sorted
<1>7. \A k \in Chosen : Order(scenario.commands[k]) \in NumberedOrder
  <2>. SUFFICES ASSUME NEW k \in Chosen PROVE Order(scenario.commands[k]) \in NumberedOrder
    OBVIOUS
  <2>. DEFINE c == scenario.commands[k]
  <2>1. c \in Command
    BY <1>1, <1>2, <1>3
  <2>2. PollOutcome(k) = "Dispatch"
    BY DEF Chosen
  <2>3. Refusal(c) = "none"
    BY <2>2 DEF PollOutcome, Refusal
  <2>4. c.from \in Instance /\ c.target \in Instance
    BY <2>3 DEF Refusal
  <2>5. c.value \in Int /\ Epoch(c) \in Int /\ c.id \in Nat
    BY <2>1 DEF Command, Epoch
  <2>. HIDE DEF c
  <2>6. Order(c) \in NumberedOrder
    BY <2>4, <2>5 DEF Order, NumberedOrder
  <2>. QED BY <2>6 DEF c
<1>8. s \in [1 .. Cardinality(Chosen) -> NumberedOrder]
  BY <1>6, <1>7
<1>. QED BY <1>5, <1>8
-----------------------------------------------------------------------------
(* The steps of the specification.                                           *)

LEMMA InitHolds == Init => IInv
<1>. SUFFICES ASSUME Init PROVE IInv
  OBVIOUS
<1>. USE DEF Init
<1>1. /\ scenario.portFaults \in SUBSET PortFault /\ scenario.boundaries \in Seq(Boundary)
      /\ End \in Nat /\ OutputPeriod \in Nat /\ Period \in [Instance -> Nat]
  BY RunAssumption
<1>2. Carried(router, taken)
  BY <1>1, CarriedAtStart
<1>3. OnGrid(0)
  BY <1>1 DEF OnGrid
<1>4. SpanLoop
  BY <1>1, <1>3 DEF SpanLoop, Phases, Boundaries
<1>5. Schedule
  BY <1>1 DEF Schedule
<1>6. Commands
  BY DEF Commands, NewCell, FullScale, Unset
<1>7. Recorded
  BY DEF Recorded, Replaying
<1>8. Held /\ Applied
  BY DEF Held, Applied, AppliedOnEvidence
<1>. QED BY <1>2, <1>4, <1>5, <1>6, <1>7, <1>8 DEF IInv

LEMMA CarriedStep ==
  ASSUME IInv, Next
  PROVE  Carried(router, taken)'
<1>1. CASE PrepareCommands \/ SkipBoundary \/ CrossBoundary \/ EndLastSpan \/ Drain
  BY <1>1 DEF IInv, PrepareCommands, SkipBoundary, CrossBoundary, EndLastSpan, Drain, history
<1>2. CASE DispatchNext
  <2>1. Carried(router, taken) /\ \A i \in Instance : taken[i] = << >>
    BY <1>2 DEF IInv, Commands, DispatchNext
  <2>2. taken' = taken
    BY <1>2 DEF DispatchNext, history
  <2>. DEFINE c == orders[looped']
              sent == <<Frame("cmd_out", c.tai, looped')>>
              steps == [i \in Instance |-> 0]
  <2>3. CASE Dispatchable(c)
    <3>1. router' = Deliver(router, c.from, c.tai, steps, sent)
      BY <1>2, <2>3 DEF DispatchNext
    <3>2. looped' \in 1 .. Len(orders) /\ orders \in Seq(NumberedOrder)
      BY <1>2 DEF IInv, Commands, DispatchNext
    <3>3. c \in NumberedOrder /\ looped' \in Int
      BY <3>2
    <3>4. c.from \in Instance /\ c.tai \in Int
      BY <3>3 DEF NumberedOrder
    <3>5. Frame("cmd_out", c.tai, looped') \in PortFrame
      BY <3>3, <3>4 DEF Frame, PortFrame, PortName
    <3>6. sent \in Outbox
      BY <3>5 DEF Outbox
    <3>7. steps = [i \in Instance |-> Len(taken[i])]
      BY <2>1
    <3>. HIDE DEF c, sent, steps
    <3>8. Carried(Deliver(router, c.from, c.tai, steps, sent), taken)
      BY <2>1, <3>4, <3>6, <3>7, CarriedByDeliver
    <3>. QED BY <2>2, <3>1, <3>8
  <2>4. CASE ~Dispatchable(c)
    BY <1>2, <2>1, <2>2, <2>4 DEF DispatchNext
  <2>. QED BY <2>3, <2>4
<1>3. CASE StartSpan \/ Sample
  <2>1. taken' = taken /\ (router' = router \/ router' = BeginStep(router))
    BY <1>3 DEF StartSpan, Sample, history
  <2>. QED BY <2>1, CarriedByBeginStep DEF IInv
<1>4. ASSUME NEW i \in Instance, Step(i)
      PROVE  Carried(router, taken)'
  <2>. DEFINE inbox == Ready(router, i, due[i])
              u == [taken EXCEPT ![i] = Append(@, [at |-> due[i], inbox |-> inbox])]
              T == TakeInbox(router, i, due[i])
              steps == [j \in Instance |-> Len(u[j])]
  <2>1. PICK outbox \in Sends(i, inbox) : taken' = u /\ router' = Deliver(T, i, due[i], steps, outbox)
    BY <1>4 DEF Step
  <2>2. due[i] \in Nat /\ Carried(router, taken)
    BY DEF IInv, Schedule
  <2>. HIDE DEF inbox
  <2>3. outbox \in Outbox
    BY SendsTyped
  <2>4. Carried(T, u)
    BY <2>2, CarriedByTakeInbox DEF inbox
  <2>. HIDE DEF T, u
  <2>5. Carried(Deliver(T, i, due[i], steps, outbox), u)
    BY <2>2, <2>3, <2>4, CarriedByDeliver
  <2>. QED BY <2>1, <2>5
<1>5. ASSUME NEW i \in Instance, RefuseReplay(i)
      PROVE  Carried(router, taken)'
  BY <1>5 DEF IInv, RefuseReplay, history
<1>6. CASE StartReplay
  <2>1. router' = NewRouter(scenario.portFaults) /\ taken' = [i \in Instance |-> << >>]
    BY <1>6 DEF StartReplay, Fresh
  <2>2. scenario.portFaults \in SUBSET PortFault
    BY RunAssumption DEF IInv, SpanLoop
  <2>. QED BY <2>1, <2>2, CarriedAtStart
<1>. QED BY <1>1, <1>2, <1>3, <1>4, <1>5, <1>6 DEF Next

LEMMA ScheduleStep ==
  ASSUME IInv, Next
  PROVE  Schedule'
<1>. USE DEF Schedule
<1>1. Period \in [Instance -> Nat \ {0}] /\ Schedule /\ segStart \in Nat
  BY RunAssumption DEF IInv, SpanLoop
<1>2. CASE StartSpan
  BY <1>1, <1>2 DEF StartSpan
<1>3. ASSUME NEW i \in Instance, Step(i)
      PROVE  Schedule'
  BY <1>1, <1>3 DEF Step
<1>4. CASE StartReplay
  BY <1>1, <1>4 DEF StartReplay, Fresh
<1>5. CASE UNCHANGED scheduler
  BY <1>1, <1>5 DEF scheduler
<1>. QED BY <1>2, <1>3, <1>4, <1>5 DEF Next, PrepareCommands, DispatchNext, SkipBoundary, CrossBoundary,
                                        EndLastSpan, Sample, RefuseReplay, Drain

LEMMA RecordedStep ==
  ASSUME IInv, Next
  PROVE  Recorded'
<1>1. /\ Recorded /\ IsFiniteSet(router.traffic) /\ router.traffic \subseteq TrafficRecord
      /\ taken \in [Instance -> Seq(StepTaken)]
  BY DEF IInv, Carried, IsRouter
<1>2. ASSUME NEW i \in Instance, Step(i)
      PROVE  Recorded'
  <2>. DEFINE inbox == Ready(router, i, due[i])
              s == [at |-> due[i], inbox |-> inbox]
  <2>1. PICK outbox \in Sends(i, inbox) : /\ taken' = [taken EXCEPT ![i] = Append(@, s)]
                                          /\ emitted' = [emitted EXCEPT ![i] = Append(@, outbox)]
    BY <1>2 DEF Step
  <2>. HIDE DEF inbox
  <2>2. outbox \in Outbox
    BY SendsTyped
  <2>3. original' = original
    BY <1>2 DEF Step
  <2>4. taken[i] \in Seq(StepTaken) /\ emitted[i] \in Seq(Outbox)
    BY <1>1 DEF Recorded
  <2>. HIDE DEF s
  <2>5. Len(Append(taken[i], s)) = Len(taken[i]) + 1 /\ Len(Append(emitted[i], outbox)) = Len(emitted[i]) + 1
    BY <2>2, <2>4
  <2>6. \A j \in Instance : Len(taken'[j]) = Len(emitted'[j])
    BY <1>1, <2>1, <2>5 DEF Recorded
  <2>7. emitted' \in [Instance -> Seq(Outbox)]
    BY <1>1, <2>1, <2>2, <2>4 DEF Recorded
  <2>. QED BY <1>1, <2>3, <2>6, <2>7 DEF Recorded, Replaying
<1>3. CASE StartReplay
  <2>1. /\ taken' = [i \in Instance |-> << >>] /\ emitted' = [i \in Instance |-> << >>]
        /\ original'.traffic = router.traffic /\ original'.emitted = emitted
    BY <1>3 DEF StartReplay, Fresh
  <2>. QED BY <1>1, <2>1 DEF Recorded, Replaying
<1>4. CASE UNCHANGED <<taken, emitted, original>>
  BY <1>1, <1>4 DEF Recorded, Replaying
<1>. QED BY <1>2, <1>3, <1>4 DEF Next, PrepareCommands, DispatchNext, SkipBoundary, StartSpan, CrossBoundary,
                                  EndLastSpan, Sample, RefuseReplay, Drain, history

LEMMA CommandsStep ==
  ASSUME IInv, Next
  PROVE  Commands'
<1>1. Commands
  BY DEF IInv
<1>2. CASE PrepareCommands
  <2>1. orders' \in Seq(NumberedOrder)
    BY <1>2, OrdersTyped DEF PrepareCommands, IInv, SpanLoop
  <2>2. /\ UNCHANGED <<looped, cells, taken>> /\ looped = 0
        /\ phase' = IF orders' = << >> THEN "boundary" ELSE "dispatch"
        /\ \A i \in Instance : taken[i] = << >>
    BY <1>1, <1>2 DEF PrepareCommands, Commands, history
  <2>3. Len(orders') \in Nat /\ (orders' # << >> => 0 < Len(orders'))
    BY <2>1
  <2>. QED BY <1>1, <2>1, <2>2, <2>3 DEF Commands
<1>3. CASE DispatchNext
  <2>1. /\ looped' = looped + 1 /\ UNCHANGED <<orders, cells, taken>> /\ looped < Len(orders)
        /\ phase' = IF looped' = Len(orders) THEN "boundary" ELSE "dispatch"
        /\ \A i \in Instance : taken[i] = << >>
    BY <1>1, <1>3 DEF DispatchNext, Commands, history
  <2>2. Len(orders) \in Nat
    BY <1>1 DEF Commands
  <2>. QED BY <1>1, <2>1, <2>2 DEF Commands
<1>4. CASE SkipBoundary \/ StartSpan \/ EndLastSpan \/ Drain
  <2>1. UNCHANGED <<orders, looped, cells>> /\ phase' \notin {"poll", "dispatch"}
    BY <1>4 DEF SkipBoundary, StartSpan, EndLastSpan, Drain
  <2>. QED BY <1>1, <2>1 DEF Commands
<1>5. CASE CrossBoundary
  <2>1. /\ UNCHANGED <<orders, looped>> /\ phase' \notin {"poll", "dispatch"}
        /\ cells' = [i \in Instance |-> IF i \in Model THEN NewCell ELSE cells[i]]
    BY <1>5 DEF CrossBoundary
  <2>. QED BY <1>1, <2>1 DEF Commands, NewCell, FullScale, Unset
<1>6. CASE Sample
  <2>1. UNCHANGED <<orders, looped, cells>> /\ phase' \notin {"poll", "dispatch"}
    BY <1>6 DEF Sample
  <2>. QED BY <1>1, <2>1 DEF Commands
<1>7. ASSUME NEW i \in Instance, Step(i) \/ RefuseReplay(i)
      PROVE  Commands'
  <2>1. UNCHANGED <<orders, looped>> /\ phase' \notin {"poll", "dispatch"}
    BY <1>7 DEF Step, RefuseReplay, progress
  <2>2. cells' = cells \/ \E inbox : cells' = [cells EXCEPT ![i] = CellAfter(i, inbox)]
    BY <1>7 DEF Step, RefuseReplay
  <2>3. \A inbox : CellAfter(i, inbox) \in [value : Int, last : Int]
    BY <1>1, CommandedTyped
  <2>4. cells' \in [Instance -> [value : Int, last : Int]]
    BY <1>1, <2>2, <2>3 DEF Commands
  <2>. QED BY <1>1, <2>1, <2>4 DEF Commands
<1>8. CASE StartReplay
  <2>1. /\ orders' = << >> /\ looped' = 0 /\ cells' = [i \in Instance |-> NewCell] /\ phase' = "poll"
        /\ taken' = [i \in Instance |-> << >>]
    BY <1>8 DEF StartReplay, Fresh
  <2>. QED BY <2>1 DEF Commands, NewCell, FullScale, Unset
<1>. QED BY <1>2, <1>3, <1>4, <1>5, <1>6, <1>7, <1>8 DEF Next

LEMMA SpanLoopStep ==
  ASSUME IInv, Next
  PROVE  SpanLoop'
<1>1. SpanLoop
  BY DEF IInv
<1>2. /\ Boundaries \in Seq(Boundary) /\ End \in Nat /\ OutputPeriod \in Nat /\ OnGrid(End) /\ OnGrid(0)
      /\ \A k \in DOMAIN Boundaries : OnGrid(Boundaries[k].tai)
  <2>1. OutputPeriod \in Nat
    BY RunAssumption
  <2>2. OnGrid(0)
    BY <2>1 DEF OnGrid
  <2>. QED BY <1>1, <2>1, <2>2, RunAssumption DEF SpanLoop, Boundaries
<1>3. /\ DOMAIN Boundaries = 1 .. Len(Boundaries) /\ Len(Boundaries) \in Nat
      /\ \A k \in DOMAIN Boundaries : Boundaries[k].tai \in Nat
  <2>1. \A k \in DOMAIN Boundaries : Boundaries[k] \in Boundary
    BY <1>2
  <2>. QED BY <1>2, <2>1 DEF Boundary
<1>4. scenario' = scenario => Boundaries' = Boundaries
  BY DEF Boundaries
<1>5. (next \in DOMAIN Boundaries => InRun(Boundaries[next]))
        => segStart <= SpanEnd /\ SpanEnd \in 0 .. End /\ OnGrid(SpanEnd)
  BY <1>1, <1>2, <1>3 DEF SpanLoop, SpanEnd, InRun
<1>6. CASE PrepareCommands \/ DispatchNext \/ EndLastSpan \/ Drain
  <2>1. /\ UNCHANGED <<scenario, next, segStart, tick, crossed>>
        /\ phase' \in Phases \ {"advance"}
    BY <1>6 DEF PrepareCommands, DispatchNext, EndLastSpan, Drain, history, Phases
  <2>. QED BY <1>1, <1>4, <2>1 DEF SpanLoop
<1>7. CASE SkipBoundary
  <2>1. /\ UNCHANGED <<scenario, phase, segStart, tick, crossed>> /\ phase = "boundary"
        /\ next \in DOMAIN Boundaries /\ next' = next + 1
    BY <1>7 DEF SkipBoundary, history
  <2>. QED BY <1>1, <1>3, <1>4, <2>1 DEF SpanLoop
<1>8. CASE StartSpan
  <2>1. /\ UNCHANGED <<scenario, next, segStart, crossed>> /\ tick' = segStart /\ phase' = "advance"
        /\ next \in DOMAIN Boundaries => InRun(Boundaries[next])
    BY <1>8 DEF StartSpan, history
  <2>2. SpanEnd' = SpanEnd /\ (next \in DOMAIN Boundaries => InRun(Boundaries[next]))'
    BY <1>4, <2>1 DEF SpanEnd, InRun
  <2>. QED BY <1>1, <1>4, <1>5, <2>1, <2>2 DEF SpanLoop, Phases
<1>9. CASE CrossBoundary
  <2>1. /\ UNCHANGED <<scenario, tick>> /\ phase = "advance" /\ phase' = "boundary"
        /\ next \in DOMAIN Boundaries /\ next' = next + 1
        /\ segStart' = Boundaries[next].tai /\ crossed' = crossed \cup {next}
        /\ tick = SpanEnd
    BY <1>9 DEF CrossBoundary, SpanDone
  <2>2. SpanEnd = Boundaries[next].tai
    BY <2>1 DEF SpanEnd
  <2>. QED BY <1>1, <1>2, <1>3, <1>4, <2>1, <2>2 DEF SpanLoop, Phases
<1>10. CASE Sample
  <2>1. UNCHANGED <<scenario, next, segStart, crossed>> /\ phase = "advance"
    BY <1>10 DEF Sample, history
  <2>2. \/ phase' = "outOfRange" /\ tick' = tick
        \/ phase' = "advance" /\ tick < SpanEnd /\ tick' = tick + OutputPeriod
    BY <1>10, <2>1 DEF Sample
  <2>3. /\ next \in DOMAIN Boundaries => InRun(Boundaries[next])
        /\ tick \in Nat /\ OnGrid(tick) /\ SpanEnd \in Nat /\ SpanEnd <= End /\ OnGrid(SpanEnd)
    BY <1>1, <1>2, <1>5, <2>1 DEF SpanLoop
  <2>4. SpanEnd' = SpanEnd /\ (next \in DOMAIN Boundaries => InRun(Boundaries[next]))'
    BY <1>4, <2>1, <2>3 DEF SpanEnd, InRun
  <2>5. CASE phase' = "outOfRange" /\ tick' = tick
    BY <1>1, <1>4, <2>1, <2>5 DEF SpanLoop, Phases
  <2>6. CASE phase' = "advance" /\ tick < SpanEnd /\ tick' = tick + OutputPeriod
    <3>1. tick' <= SpanEnd /\ OnGrid(tick')
      BY <2>3, <2>6, NextInstant
    <3>. QED BY <1>1, <1>2, <1>4, <2>1, <2>3, <2>4, <2>6, <3>1 DEF SpanLoop, Phases
  <2>. QED BY <2>2, <2>5, <2>6
<1>11. ASSUME NEW i \in Instance, Step(i)
       PROVE  SpanLoop'
  <2>1. UNCHANGED <<scenario, phase, next, segStart, tick, crossed>>
    BY <1>11 DEF Step, progress
  <2>2. SpanEnd' = SpanEnd /\ (next \in DOMAIN Boundaries => InRun(Boundaries[next]))'
                             = (next \in DOMAIN Boundaries => InRun(Boundaries[next]))
    BY <1>4, <2>1 DEF SpanEnd, InRun
  <2>. QED BY <1>1, <1>4, <2>1, <2>2 DEF SpanLoop
<1>12. ASSUME NEW i \in Instance, RefuseReplay(i)
       PROVE  SpanLoop'
  <2>1. UNCHANGED <<scenario, next, segStart, tick, crossed>> /\ phase' \in Phases \ {"advance"}
    BY <1>12 DEF RefuseReplay, history, Phases
  <2>. QED BY <1>1, <1>4, <2>1 DEF SpanLoop
<1>13. CASE StartReplay
  <2>1. /\ scenario' = scenario /\ phase' = "poll" /\ next' = 1 /\ segStart' = 0 /\ tick' = 0 /\ crossed' = {}
    BY <1>13 DEF StartReplay, Fresh
  <2>. QED BY <1>1, <1>2, <1>3, <1>4, <2>1 DEF SpanLoop, Phases
<1>. QED BY <1>6, <1>7, <1>8, <1>9, <1>10, <1>11, <1>12, <1>13 DEF Next

(* A stateless instance is stepped no further than the output instant, one   *)
(* with a state only from before it.                                         *)
LEMMA HeldStep ==
  ASSUME IInv, Next
  PROVE  Held'
<1>1. /\ Held /\ tick \in Nat /\ segStart \in Nat /\ OutputPeriod \in Nat
      /\ curr \in [Instance -> Nat] /\ prev \in [Instance -> Int] /\ due \in [Instance -> Nat]
  BY RunAssumption DEF IInv, SpanLoop, Schedule
<1>2. CASE StartSpan
  <2>1. /\ curr' = [i \in Instance |-> segStart] /\ prev' = [i \in Instance |-> -1] /\ tick' = segStart
        /\ phase' = "advance"
    BY <1>2 DEF StartSpan
  <2>. QED BY <1>1, <2>1 DEF Held, Samplable
<1>3. CASE Sample
  <2>1. phase = "advance" /\ (\A i \in Instance : ~Eligible(i)) /\ UNCHANGED <<curr, prev>>
    BY <1>3 DEF Sample, scheduler
  <2>2. \A i \in Instance : InRange(i)
    BY <1>1, <2>1 DEF Held, Samplable, Eligible, InRange
  <2>3. tick' = tick + OutputPeriod /\ phase' = "advance"
    BY <1>3, <2>1, <2>2 DEF Sample
  <2>. QED BY <1>1, <2>1, <2>3 DEF Held, Samplable
<1>4. ASSUME NEW i \in Instance, Step(i)
      PROVE  Held'
  <2>1. /\ phase = "advance" /\ Eligible(i) /\ UNCHANGED <<phase, tick>>
        /\ prev' = [prev EXCEPT ![i] = curr[i]] /\ curr' = [curr EXCEPT ![i] = due[i]]
    BY <1>4 DEF Step, Turn, progress
  <2>2. Samplable(i)'
    BY <1>1, <2>1 DEF Samplable, Eligible
  <2>3. \A j \in Instance \ {i} : Samplable(j)'
    BY <1>1, <2>1 DEF Samplable, Held
  <2>. QED BY <1>1, <2>1, <2>2, <2>3 DEF Held
<1>5. CASE PrepareCommands \/ DispatchNext \/ SkipBoundary \/ CrossBoundary \/ EndLastSpan \/ Drain \/ StartReplay
  <2>1. phase' \notin {"advance", "outOfRange"}
    BY <1>1, <1>5 DEF PrepareCommands, DispatchNext, SkipBoundary, CrossBoundary, EndLastSpan, Drain, StartReplay,
                      Fresh
  <2>. QED BY <2>1 DEF Held
<1>6. ASSUME NEW i \in Instance, RefuseReplay(i)
      PROVE  Held'
  BY <1>6 DEF RefuseReplay, Held
<1>. QED BY <1>2, <1>3, <1>4, <1>5, <1>6 DEF Next

(* The frames of a port are in one order, so the last one is one frame.      *)
LEMMA LastIsOne ==
  ASSUME NEW i \in Instance, NEW inbox \in SUBSET Message, \A p, q \in inbox : p.key = q.key => p = q,
         NEW p \in LastCommand(i, inbox), NEW q \in LastCommand(i, inbox)
  PROVE  p = q
<1>. DEFINE a == InboxKey(p)
            b == InboxKey(q)
<1>1. /\ p \in Message /\ q \in Message /\ p \in inbox /\ q \in inbox /\ p.port = q.port
      /\ ~Precedes(a, b) /\ ~Precedes(b, a)
  BY DEF LastCommand, OnCommandPort
<1>2. /\ p.epoch \in Int /\ p.from \in Int /\ p.key \in PushKey
      /\ q.epoch \in Int /\ q.from \in Int /\ q.key \in PushKey
  <2>1. Instance \subseteq Nat
    BY RunAssumption
  <2>2. /\ p.epoch \in Int /\ p.from \in Instance /\ p.key \in PushKey
        /\ q.epoch \in Int /\ q.from \in Instance /\ q.key \in PushKey
    BY <1>1 DEF Message
  <2>3. p.from \in Nat /\ q.from \in Nat
    BY <2>1, <2>2
  <2>. QED BY <2>2, <2>3
<1>3. /\ a = <<PortPlace(p.port), p.epoch, p.from, p.key[1], p.key[2], p.key[3], p.key[4]>>
      /\ b = <<PortPlace(p.port), q.epoch, q.from, q.key[1], q.key[2], q.key[3], q.key[4]>>
  BY <1>1 DEF InboxKey
<1>4. /\ p.key = <<p.key[1], p.key[2], p.key[3], p.key[4]>> /\ q.key = <<q.key[1], q.key[2], q.key[3], q.key[4]>>
      /\ p.key[1] \in Int /\ p.key[2] \in Int /\ p.key[3] \in Int /\ p.key[4] \in Int
      /\ q.key[1] \in Int /\ q.key[2] \in Int /\ q.key[3] \in Int /\ q.key[4] \in Int
  BY <1>2 DEF PushKey
<1>. HIDE DEF a, b
<1>5. /\ DOMAIN a = 1 .. 7 /\ DOMAIN b = 1 .. 7 /\ a[1] = b[1]
      /\ a[2] = p.epoch /\ a[3] = p.from /\ b[2] = q.epoch /\ b[3] = q.from
      /\ a[4] = p.key[1] /\ a[5] = p.key[2] /\ a[6] = p.key[3] /\ a[7] = p.key[4]
      /\ b[4] = q.key[1] /\ b[5] = q.key[2] /\ b[6] = q.key[3] /\ b[7] = q.key[4]
  BY <1>3
<1>6. \A n \in 1 .. 7 : (\A m \in 1 .. n - 1 : a[m] = b[m]) => a[n] = b[n]
  <2>. SUFFICES ASSUME NEW n \in 2 .. 7, \A m \in 1 .. n - 1 : a[m] = b[m], a[n] # b[n]
                PROVE  FALSE
    BY <1>5
  <2>1. a[n] \in Int /\ b[n] \in Int
    <3>1. n = 2 \/ n = 3 \/ n = 4 \/ n = 5 \/ n = 6 \/ n = 7
      OBVIOUS
    <3>. QED BY <1>2, <1>4, <1>5, <3>1
  <2>2. n \in DOMAIN a /\ n \in DOMAIN b
    BY <1>5
  <2>3. a[n] < b[n] \/ b[n] < a[n]
    BY <2>1
  <2>. QED BY <1>1, <2>2, <2>3 DEF Precedes
<1>7. a[2] = b[2] /\ a[3] = b[3] /\ a[4] = b[4]
  BY <1>5, <1>6
<1>8. a[5] = b[5] /\ a[6] = b[6] /\ a[7] = b[7]
  BY <1>5, <1>6, <1>7
<1>. QED BY <1>1, <1>4, <1>5, <1>7, <1>8

(* What a step applies it has just taken, and acks.                          *)
LEMMA StepApplies ==
  ASSUME IInv, NEW i \in Instance, NEW inbox, inbox = Ready(router, i, due[i]),
         Live(i), NewlyApplied(i, inbox) # {}, NEW outbox \in Sends(i, inbox)
  PROVE  \E q \in inbox : /\ q.port = "cmd" /\ q.payload \in DOMAIN orders
                          /\ orders[q.payload].value = CellAfter(i, inbox).value
                          /\ \E n \in DOMAIN outbox : outbox[n] = Frame("ack", due[i], q.payload)
<1>1. PICK m \in NewlyApplied(i, inbox) : TRUE
  OBVIOUS
<1>2. PICK q \in LastCommand(i, inbox) : q.payload = m
  BY <1>1 DEF NewlyApplied, Commanded
<1>3. q \in inbox /\ i \in Consumer /\ q.port = "cmd" /\ m \in Commanded(i, inbox) /\ m \in DOMAIN orders
  BY <1>1, <1>2 DEF LastCommand, OnCommandPort, NewlyApplied, Commanded
<1>4. inbox \in SUBSET Message /\ \A x, y \in inbox : x.key = y.key => x = y
  <2>1. inbox \subseteq router.pending[i] /\ router.pending[i] \subseteq Message
    BY DEF Ready, IInv, Carried, IsRouter
  <2>2. \A x, y \in router.pending[i] : x.key = y.key => x = y
    BY DEF IInv, Carried, Conserved
  <2>. QED BY <2>1, <2>2
<1>5. Commanded(i, inbox) = {m}
  <2>1. \A p \in LastCommand(i, inbox) : p = q
    BY <1>2, <1>4, LastIsOne
  <2>. QED BY <1>2, <1>3, <2>1 DEF Commanded
<1>6. CellAfter(i, inbox).value = orders[m].value
  BY <1>5 DEF CellAfter
<1>7. Ack(i, inbox) = {Frame("ack", due[i], m)}
  <2>1. NewlyApplied(i, inbox) = {m}
    BY <1>1, <1>5 DEF NewlyApplied
  <2>. QED BY <2>1 DEF Ack
<1>8. outbox = <<Telemetry(i, inbox), Frame("ack", due[i], m)>>
  <2>1. outbox \in Outboxes(i, inbox)
    BY <1>3 DEF Sends
  <2>. QED BY <1>3, <1>7, <2>1 DEF Outboxes
<1>9. 2 \in DOMAIN outbox /\ outbox[2] = Frame("ack", due[i], m)
  BY <1>8
<1>. QED BY <1>2, <1>3, <1>6, <1>9

LEMMA AppliedStep ==
  ASSUME IInv, Next
  PROVE  Applied'
<1>1. Applied
  BY DEF IInv
<1>2. CASE PrepareCommands
  <2>1. applied' = applied /\ \A i \in Instance : applied[i] = << >>
    BY <1>1, <1>2 DEF PrepareCommands, Applied
  <2>. QED BY <1>1, <2>1 DEF Applied, AppliedOnEvidence
<1>3. CASE DispatchNext \/ SkipBoundary \/ StartSpan \/ CrossBoundary \/ EndLastSpan \/ Sample \/ Drain
  <2>1. UNCHANGED <<applied, taken, emitted, orders>> /\ phase' # "poll"
    BY <1>3 DEF DispatchNext, SkipBoundary, StartSpan, CrossBoundary, EndLastSpan, Sample, Drain, history
  <2>. QED BY <1>1, <2>1 DEF Applied, AppliedOnEvidence
<1>4. ASSUME NEW i \in Instance, RefuseReplay(i)
      PROVE  Applied'
  <2>1. UNCHANGED <<applied, taken, emitted, orders>> /\ phase' # "poll"
    BY <1>4 DEF RefuseReplay, history
  <2>. QED BY <1>1, <2>1 DEF Applied, AppliedOnEvidence
<1>5. ASSUME NEW i \in Instance, Step(i)
      PROVE  Applied'
  <2>. DEFINE inbox == Ready(router, i, due[i])
              s == [at |-> due[i], inbox |-> inbox]
              new == [value |-> CellAfter(i, inbox).value, at |-> curr[i]]
  <2>1. PICK outbox \in Sends(i, inbox) :
          /\ taken' = [taken EXCEPT ![i] = Append(@, s)]
          /\ emitted' = [emitted EXCEPT ![i] = Append(@, outbox)]
          /\ cells' = IF Live(i) THEN [cells EXCEPT ![i] = CellAfter(i, inbox)] ELSE cells
          /\ applied' = IF Live(i) /\ NewlyApplied(i, inbox) # {}
                        THEN [applied EXCEPT ![i] = Append(@, [value |-> cells'[i].value, at |-> curr[i]])]
                        ELSE applied
    BY <1>5 DEF Step
  <2>2. UNCHANGED orders /\ phase' # "poll"
    BY <1>5 DEF Step, progress
  <2>3. /\ taken \in [Instance -> Seq(StepTaken)] /\ emitted \in [Instance -> Seq(Outbox)]
        /\ applied \in [Instance -> Seq([value : Int, at : Nat])]
        /\ cells \in [Instance -> [value : Int, last : Int]]
        /\ curr[i] \in Nat /\ due[i] = curr[i] + Period[i] /\ Len(taken[i]) = Len(emitted[i])
    BY <1>1 DEF IInv, Carried, Recorded, Applied, Commands, Schedule
  <2>. HIDE DEF inbox, s
  <2>4. \A j \in Instance : \A m \in DOMAIN taken[j] :
          /\ m \in DOMAIN taken'[j] /\ taken'[j][m] = taken[j][m] /\ emitted'[j][m] = emitted[j][m]
    <3>1. \A m \in DOMAIN taken[i] : /\ m \in DOMAIN Append(taken[i], s) /\ Append(taken[i], s)[m] = taken[i][m]
                                     /\ Append(emitted[i], outbox)[m] = emitted[i][m]
      <4>1. taken[i] \in Seq(StepTaken) /\ emitted[i] \in Seq(Outbox)
        BY <2>3
      <4>. QED BY <2>3, <4>1
    <3>. QED BY <2>1, <2>3, <3>1
  <2>. DEFINE Evidence(j, a) ==
                \E m \in DOMAIN taken'[j] :
                  /\ taken'[j][m].at = a.at + Period[j]
                  /\ \E q \in taken'[j][m].inbox :
                       /\ q.port = "cmd" /\ q.payload \in DOMAIN orders
                       /\ orders[q.payload].value = a.value
                       /\ \E n \in DOMAIN emitted'[j][m] :
                            emitted'[j][m][n] = Frame("ack", taken'[j][m].at, q.payload)
  <2>5. \A j \in Instance : \A k \in DOMAIN applied[j] : Evidence(j, applied[j][k])
    <3>. SUFFICES ASSUME NEW j \in Instance, NEW k \in DOMAIN applied[j]
                  PROVE  Evidence(j, applied[j][k])
      OBVIOUS
    <3>1. PICK m \in DOMAIN taken[j] :
            /\ taken[j][m].at = applied[j][k].at + Period[j]
            /\ \E q \in taken[j][m].inbox :
                 /\ q.port = "cmd" /\ q.payload \in DOMAIN orders
                 /\ orders[q.payload].value = applied[j][k].value
                 /\ \E n \in DOMAIN emitted[j][m] :
                      emitted[j][m][n] = Frame("ack", taken[j][m].at, q.payload)
      BY <1>1 DEF Applied, AppliedOnEvidence
    <3>2. m \in DOMAIN taken'[j] /\ taken'[j][m] = taken[j][m] /\ emitted'[j][m] = emitted[j][m]
      BY <2>4
    <3>. QED BY <3>1, <3>2
  <2>6. CASE ~(Live(i) /\ NewlyApplied(i, inbox) # {})
    <3>1. applied' = applied
      BY <2>1, <2>6
    <3>. HIDE DEF Evidence
    <3>2. \A j \in Instance : \A k \in DOMAIN applied'[j] : Evidence(j, applied'[j][k])
      BY <2>5, <3>1
    <3>3. AppliedOnEvidence'
      BY <2>2, <3>2 DEF AppliedOnEvidence, Evidence
    <3>. QED BY <2>2, <2>3, <3>1, <3>3 DEF Applied
  <2>7. CASE Live(i) /\ NewlyApplied(i, inbox) # {}
    <3>1. CellAfter(i, inbox) \in [value : Int, last : Int]
      BY CommandedTyped DEF IInv
    <3>2. new \in [value : Int, at : Nat]
      BY <2>3, <3>1
    <3>3. applied' = [applied EXCEPT ![i] = Append(@, new)]
      <4>1. cells'[i] = CellAfter(i, inbox)
        BY <2>1, <2>3, <2>7
      <4>. QED BY <2>1, <2>7, <4>1
    <3>4. Evidence(i, new)
      <4>. DEFINE m == Len(taken[i]) + 1
      <4>1. taken[i] \in Seq(StepTaken) /\ emitted[i] \in Seq(Outbox)
        BY <2>3
      <4>2. /\ m \in DOMAIN Append(taken[i], s) /\ Append(taken[i], s)[m] = s
            /\ Append(emitted[i], outbox)[m] = outbox
        BY <2>3, <4>1
      <4>3. m \in DOMAIN taken'[i] /\ taken'[i][m] = s /\ emitted'[i][m] = outbox
        BY <2>1, <2>3, <4>2
      <4>4. s.at = due[i] /\ s.inbox = inbox
        BY DEF s
      <4>5. PICK q \in inbox : /\ q.port = "cmd" /\ q.payload \in DOMAIN orders
                               /\ orders[q.payload].value = CellAfter(i, inbox).value
                               /\ \E n \in DOMAIN outbox : outbox[n] = Frame("ack", due[i], q.payload)
        BY <2>7, StepApplies DEF inbox
      <4>. HIDE DEF m
      <4>. QED BY <2>3, <4>3, <4>4, <4>5
    <3>. HIDE DEF Evidence, new
    <3>5. applied'[i] = Append(applied[i], new) /\ \A j \in Instance \ {i} : applied'[j] = applied[j]
      BY <2>3, <3>3
    <3>6. \A k \in DOMAIN applied'[i] : Evidence(i, applied'[i][k])
      <4>1. applied[i] \in Seq([value : Int, at : Nat])
        BY <2>3
      <4>2. /\ DOMAIN Append(applied[i], new) = 1 .. Len(applied[i]) + 1
            /\ DOMAIN applied[i] = 1 .. Len(applied[i]) /\ Len(applied[i]) \in Nat
            /\ Append(applied[i], new)[Len(applied[i]) + 1] = new
            /\ \A k \in 1 .. Len(applied[i]) : Append(applied[i], new)[k] = applied[i][k]
        BY <3>2, <4>1
      <4>. QED BY <2>5, <3>4, <3>5, <4>2
    <3>7. \A j \in Instance : \A k \in DOMAIN applied'[j] : Evidence(j, applied'[j][k])
      BY <2>5, <3>5, <3>6
    <3>8. AppliedOnEvidence'
      BY <2>2, <3>7 DEF AppliedOnEvidence, Evidence
    <3>9. applied' \in [Instance -> Seq([value : Int, at : Nat])]
      BY <2>3, <3>2, <3>3
    <3>. QED BY <2>2, <3>8, <3>9 DEF Applied
  <2>. QED BY <2>6, <2>7
<1>6. CASE StartReplay
  <2>1. applied' = [i \in Instance |-> << >>]
    BY <1>6 DEF StartReplay, Fresh
  <2>. QED BY <2>1 DEF Applied, AppliedOnEvidence
<1>. QED BY <1>2, <1>3, <1>4, <1>5, <1>6 DEF Next

LEMMA StutterHolds ==
  ASSUME IInv, UNCHANGED vars
  PROVE  IInv'
<1>1. Carried(router, taken)'
  BY DEF IInv, vars, history
<1>2. Schedule'
  BY DEF IInv, Schedule, vars, scheduler
<1>3. SpanLoop'
  <2>1. UNCHANGED <<scenario, phase, next, segStart, tick, crossed>>
    BY DEF vars, progress, history
  <2>2. Boundaries' = Boundaries
    BY <2>1 DEF Boundaries
  <2>3. SpanEnd' = SpanEnd /\ (next \in DOMAIN Boundaries => InRun(Boundaries[next]))'
                             = (next \in DOMAIN Boundaries => InRun(Boundaries[next]))
    BY <2>1, <2>2 DEF SpanEnd, InRun
  <2>. QED BY <2>1, <2>2, <2>3 DEF IInv, SpanLoop
<1>4. Commands' /\ Recorded'
  BY DEF IInv, Commands, Recorded, Replaying, vars, progress, history
<1>5. Held' /\ Applied'
  BY DEF IInv, Held, Samplable, Applied, AppliedOnEvidence, vars, progress, scheduler, history
<1>. QED BY <1>1, <1>2, <1>3, <1>4, <1>5 DEF IInv
-----------------------------------------------------------------------------
(* The theorems.                                                             *)

(* The inductive invariant holds of every run and every replay of one: the   *)
(* router has carried the frames the instances took, every span lies between *)
(* two output instants, every instance is due one period after where it is,  *)
(* and every step's frames are on record (executor.rs run_shared_group).     *)
THEOREM InvariantHolds == Spec => []IInv
<1>1. Init => IInv
  BY InitHolds
<1>2. IInv /\ [Next]_vars => IInv'
  BY CarriedStep, SpanLoopStep, ScheduleStep, CommandsStep, RecordedStep, HeldStep, AppliedStep, StutterHolds
     DEF IInv
<1>. QED BY <1>1, <1>2, PTL DEF Spec

(* The variables of a run have their types: in particular a span never runs  *)
(* past the end of the run and a frame is queued for its receiver only, with *)
(* the receiver's steps so far (executor.rs run_shared_group, router.rs).    *)
THEOREM TypeCorrect == Spec => []TypeOK
<1>1. IInv => TypeOK
  <2>. SUFFICES ASSUME IInv PROVE TypeOK
    OBVIOUS
  <2>1. ASSUME NEW i \in Instance, NEW q \in router.pending[i]
        PROVE  q.to = i /\ q.from \in Instance /\ q.after \in 0 .. Len(taken[i])
    <3>1. /\ q \in Message /\ q.to = i /\ q.after <= Len(taken[i]) /\ taken[i] \in Seq(StepTaken)
      BY DEF IInv, Carried, IsRouter, OnTime
    <3>. QED BY <3>1 DEF Message
  <2>. QED BY <2>1 DEF IInv, SpanLoop, Schedule, Commands, Recorded, TypeOK
<1>. QED BY <1>1, InvariantHolds, PTL

(* Whatever the connections, the latencies, the port faults and the          *)
(* boundaries, what the log shows delivered to an instance is, frame for     *)
(* frame, what it took and what is still queued for it: no frame is lost or  *)
(* taken twice (router.rs deliver and take_inbox).                           *)
THEOREM NoFrameLost == Spec => []FramesConserved
<1>1. IInv => FramesConserved
  BY PerInstance DEF IInv, Carried
<1>. QED BY <1>1, InvariantHolds, PTL

(* A frame is taken by the first step of its receiver after it was queued    *)
(* whose epoch is its availability or later, never by an earlier one and     *)
(* never a step late (router.rs take_inbox, open question 110).              *)
THEOREM FramesOnTime == Spec => []DeliveredWhenDue
<1>1. IInv => DeliveredWhenDue
  BY PerInstance DEF IInv, Carried
<1>. QED BY <1>1, InvariantHolds, PTL

(* Whatever the periods, and wherever a boundary puts the instances back to, *)
(* each of them has a value to hold at every output instant: the output loop *)
(* is never stopped by HeteroScheduleError::OutOfRange (schedule.rs).        *)
THEOREM NeverOutOfRange == Spec => []EverySampleInRange
<1>1. IInv => EverySampleInRange
  BY DEF IInv, Held, EverySampleInRange
<1>. QED BY <1>1, InvariantHolds, PTL

(* A value is recorded as applied only by a step that took a command of that *)
(* value from its port and sent the ack of that command (binding.rs          *)
(* ConstantAccelModel::step_with_ports).                                     *)
THEOREM AppliedAreAcked == Spec => []AppliedOnEvidence
<1>1. IInv => AppliedOnEvidence
  BY DEF IInv, Applied
<1>. QED BY <1>1, InvariantHolds, PTL
-----------------------------------------------------------------------------
(* The commands, in their order: the sequence numbers.                      *)

LEMMA LeastOf ==
  ASSUME NEW T \in SUBSET Nat, T # {}
  PROVE  \E n \in T : \A m \in T : n <= m
<1>. DEFINE Less == OpToRel(<, Nat)
<1>1. PICK n \in T : \A m \in T : <<m, n>> \notin Less
  BY WFMin, NatLessThanWellFounded
<1>2. \A m, n_1 \in Nat : m < n_1 => <<m, n_1>> \in Less
  BY DEF OpToRel
<1>. HIDE DEF Less
<1>3. \A m \in T : m \in Nat /\ n \in Nat /\ ~(m < n)
  BY <1>1, <1>2
<1>. QED BY <1>3

LEMMA CommandsTyped ==
  ASSUME scenario \in Scenarios
  PROVE  /\ scenario.commands \in Seq(Command) /\ Len(scenario.commands) \in Nat
         /\ DOMAIN scenario.commands = 1 .. Len(scenario.commands)
         /\ \A k \in DOMAIN scenario.commands :
              /\ scenario.commands[k] \in Command /\ scenario.commands[k].id \in Nat
              /\ Epoch(scenario.commands[k]) \in Int
         /\ \A j, k \in DOMAIN scenario.commands : scenario.commands[j].id = scenario.commands[k].id => j = k
<1>1. scenario.commands \in Seq(Command)
  BY RunAssumption
<1>2. DOMAIN scenario.commands = 1 .. Len(scenario.commands) /\ Len(scenario.commands) \in Nat
  BY <1>1
<1>3. \A k \in DOMAIN scenario.commands : scenario.commands[k] \in Command
  BY <1>1
<1>4. \A c \in Command : c.id \in Nat /\ Epoch(c) \in Int
  BY DEF Command, Epoch
<1>5. \A j, k \in DOMAIN scenario.commands : scenario.commands[j].id = scenario.commands[k].id => j = k
  BY RunAssumption
<1>. QED BY <1>1, <1>2, <1>3, <1>4, <1>5

LEMMA PollPartition ==
  ASSUME scenario \in Scenarios
  PROVE  /\ Chosen \subseteq DOMAIN scenario.commands /\ Undispatched \subseteq DOMAIN scenario.commands
         /\ IsFiniteSet(Chosen) /\ IsFiniteSet(Undispatched)
         /\ Chosen \cup Undispatched = DOMAIN scenario.commands
         /\ Chosen \subseteq Nat /\ Undispatched \subseteq Nat
         /\ Chosen \cap Undispatched = {}
<1>1. IsFiniteSet(DOMAIN scenario.commands) /\ DOMAIN scenario.commands \subseteq Nat
  <2>1. IsFiniteSet(1 .. Len(scenario.commands))
    <3>1. 1 \in Int /\ Len(scenario.commands) \in Int
      BY CommandsTyped
    <3>. QED BY <3>1, FS_Interval
  <2>. QED BY <2>1, CommandsTyped
<1>2. /\ Chosen \subseteq DOMAIN scenario.commands /\ Undispatched \subseteq DOMAIN scenario.commands
      /\ Chosen \cup Undispatched = DOMAIN scenario.commands /\ Chosen \cap Undispatched = {}
  BY DEF Chosen, Undispatched
<1>. QED BY <1>1, <1>2, FS_Subset

LEMMA PairsPrecede ==
  ASSUME NEW a \in Int, NEW b \in Int, NEW c \in Int, NEW d \in Int
  PROVE  Precedes(<<a, b>>, <<c, d>>) <=> a < c \/ (a = c /\ b < d)
<1>. DEFINE x == <<a, b>>
            y == <<c, d>>
<1>1. DOMAIN x = 1 .. 2 /\ x[1] = a /\ x[2] = b /\ y[1] = c /\ y[2] = d
  OBVIOUS
<1>. HIDE DEF x, y
<1>2. Precedes(x, y) <=> x[1] < y[1] \/ (x[1] = y[1] /\ x[2] < y[2])
  <2>1. \A n \in 1 .. 2 : n = 1 \/ n = 2
    OBVIOUS
  <2>2. 1 .. 1 - 1 = {} /\ 1 .. 2 - 1 = {1}
    OBVIOUS
  <2>3. Precedes(x, y) => x[1] < y[1] \/ (x[1] = y[1] /\ x[2] < y[2])
    BY <1>1, <2>1 DEF Precedes
  <2>4. x[1] < y[1] => Precedes(x, y)
    BY <1>1, <2>2 DEF Precedes
  <2>5. x[1] = y[1] /\ x[2] < y[2] => Precedes(x, y)
    BY <1>1, <2>2 DEF Precedes
  <2>. QED BY <2>3, <2>4, <2>5
<1>. QED BY <1>1, <1>2 DEF x, y

(* One command goes before another: at an earlier epoch, or at one epoch with a smaller id. *)
Earlier(j, k) ==
  LET c == scenario.commands[j]
      d == scenario.commands[k]
  IN  Epoch(c) < Epoch(d) \/ (Epoch(c) = Epoch(d) /\ c.id < d.id)

\* f numbers the commands that will be dispatched.
Numbers(f) ==
  /\ f \in [1 .. Cardinality(Chosen) -> Chosen]
  /\ \A m, n \in DOMAIN f : m < n => Earlier(f[m], f[n])
  /\ \A m, n \in DOMAIN f : f[m] = f[n] => m = n
  /\ \A k \in Chosen : \E n \in DOMAIN f : f[n] = k

LEMMA SortedNumbers ==
  ASSUME scenario \in Scenarios, NEW f \in Sorted(Chosen, CommandKey)
  PROVE  Numbers(f)
<1>. DEFINE N == Cardinality(Chosen)
<1>1. N \in Nat /\ IsFiniteSet(Chosen) /\ Chosen \subseteq DOMAIN scenario.commands
  BY PollPartition, FS_CardinalityType
<1>2. f \in [1 .. N -> Chosen]
  BY DEF Sorted
<1>3. \A m, n \in DOMAIN f : m < n => Precedes(CommandKey(f[m]), CommandKey(f[n]))
  BY DEF Sorted
<1>. HIDE DEF N
<1>4. \A m, n \in DOMAIN f : m < n => Earlier(f[m], f[n])
  <2>. SUFFICES ASSUME NEW m \in DOMAIN f, NEW n \in DOMAIN f, m < n PROVE Earlier(f[m], f[n])
    OBVIOUS
  <2>1. f[m] \in DOMAIN scenario.commands /\ f[n] \in DOMAIN scenario.commands
    BY <1>1, <1>2
  <2>2. Precedes(CommandKey(f[m]), CommandKey(f[n]))
    BY <1>3
  <2>3. /\ Epoch(scenario.commands[f[m]]) \in Int /\ scenario.commands[f[m]].id \in Int
        /\ Epoch(scenario.commands[f[n]]) \in Int /\ scenario.commands[f[n]].id \in Int
    BY <2>1, CommandsTyped
  <2>. DEFINE a == Epoch(scenario.commands[f[m]])
              b == scenario.commands[f[m]].id
              c == Epoch(scenario.commands[f[n]])
              d == scenario.commands[f[n]].id
  <2>4. Precedes(<<a, b>>, <<c, d>>)
    BY <2>2 DEF CommandKey
  <2>5. a \in Int /\ b \in Int /\ c \in Int /\ d \in Int
    BY <2>3
  <2>. HIDE DEF a, b, c, d
  <2>6. a < c \/ (a = c /\ b < d)
    BY <2>4, <2>5, PairsPrecede
  <2>. QED BY <2>6 DEF Earlier, a, b, c, d
<1>5. \A m, n \in DOMAIN f : f[m] = f[n] => m = n
  <2>. SUFFICES ASSUME NEW m \in DOMAIN f, NEW n \in DOMAIN f, f[m] = f[n], m < n PROVE FALSE
    BY <1>1, <1>2
  <2>1. Earlier(f[m], f[m]) /\ f[m] \in DOMAIN scenario.commands
    BY <1>1, <1>2, <1>4
  <2>2. Epoch(scenario.commands[f[m]]) \in Int /\ scenario.commands[f[m]].id \in Int
    BY <2>1, CommandsTyped
  <2>. QED BY <2>1, <2>2 DEF Earlier
<1>6. \A k \in Chosen : \E n \in DOMAIN f : f[n] = k
  <2>1. f \in Injection(1 .. N, Chosen)
    BY <1>2, <1>5 DEF Injection, IsInjective
  <2>2. Cardinality(1 .. N) = N
    BY <1>1, FS_Interval
  <2>3. f \in Surjection(1 .. N, Chosen)
    BY <1>1, <2>1, <2>2, FS_Injection DEF N
  <2>. QED BY <1>2, <2>3 DEF Surjection
<1>. QED BY <1>2, <1>4, <1>5, <1>6 DEF Numbers, N

(* There is one numbering. *)
LEMMA NumbersUnique ==
  ASSUME scenario \in Scenarios, NEW f, NEW g, Numbers(f), Numbers(g)
  PROVE  f = g
<1>. DEFINE N == Cardinality(Chosen)
            D == {n \in 1 .. N : f[n] # g[n]}
<1>1. N \in Nat /\ Chosen \subseteq DOMAIN scenario.commands
  BY PollPartition, FS_CardinalityType
<1>2. f \in [1 .. N -> Chosen] /\ g \in [1 .. N -> Chosen]
  BY DEF Numbers
<1>3. \A j, k \in Chosen : ~ (Earlier(j, k) /\ Earlier(k, j))
  <2>. SUFFICES ASSUME NEW j \in Chosen, NEW k \in Chosen PROVE ~ (Earlier(j, k) /\ Earlier(k, j))
    OBVIOUS
  <2>1. /\ Epoch(scenario.commands[j]) \in Int /\ scenario.commands[j].id \in Int
        /\ Epoch(scenario.commands[k]) \in Int /\ scenario.commands[k].id \in Int
    BY <1>1, CommandsTyped
  <2>. QED BY <2>1 DEF Earlier
<1>. HIDE DEF N
\* Up to n the two agree; what one has at n the other has later.
<1>4. ASSUME NEW h, NEW e, Numbers(h), Numbers(e), NEW n \in 1 .. N, h[n] # e[n],
             \A m \in 1 .. N : m < n => h[m] = e[m]
      PROVE  Earlier(e[n], h[n])
  <2>1. h \in [1 .. N -> Chosen] /\ e \in [1 .. N -> Chosen]
    BY <1>4 DEF Numbers, N
  <2>2. PICK m \in 1 .. N : e[m] = h[n]
    BY <1>4, <2>1 DEF Numbers
  <2>3. ~ (m < n) /\ m # n
    <3>1. m < n => h[m] = h[n]
      BY <1>4, <2>2
    <3>2. h[m] = h[n] => m = n
      BY <1>4, <2>1, <2>2 DEF Numbers
    <3>. QED BY <1>1, <1>4, <2>2, <3>1, <3>2
  <2>4. n < m
    BY <1>1, <1>4, <2>2, <2>3
  <2>5. \A j, k \in 1 .. N : j < k => Earlier(e[j], e[k])
    BY <1>4, <2>1 DEF Numbers
  <2>. QED BY <1>4, <2>2, <2>4, <2>5
<1>. SUFFICES ASSUME D # {} PROVE FALSE
  <2>1. D = {} => \A n \in 1 .. N : f[n] = g[n]
    OBVIOUS
  <2>. HIDE DEF D
  <2>2. f = [n \in 1 .. N |-> f[n]] /\ g = [n \in 1 .. N |-> g[n]]
    BY <1>2
  <2>. QED BY <2>1, <2>2
<1>5. D \subseteq Nat
  BY <1>1
<1>6. PICK n \in D : \A m \in D : n <= m
  BY <1>5, LeastOf
<1>7. n \in 1 .. N /\ f[n] # g[n] /\ \A m \in 1 .. N : m < n => f[m] = g[m]
  BY <1>1, <1>6
<1>8. Earlier(g[n], f[n]) /\ Earlier(f[n], g[n])
  BY <1>4, <1>7
<1>9. f[n] \in Chosen /\ g[n] \in Chosen
  BY <1>2, <1>7
<1>. QED BY <1>3, <1>8, <1>9

(* What the sequence numbers say of the commands: each that is to be dispatched has one,   *)
(* they are in the order of the epochs, and no run has others.                             *)
OrderOf(k) == Order(scenario.commands[k])
LEMMA OrdersFacts ==
  ASSUME scenario \in Scenarios, NEW s \in Orders
  PROVE  /\ s \in Seq(NumberedOrder) /\ DOMAIN s = 1 .. Len(s) /\ Len(s) \in Nat
         /\ \A n \in DOMAIN s : \E k \in Chosen : s[n] = OrderOf(k)
         /\ \A k \in Chosen : \E n \in DOMAIN s : s[n] = OrderOf(k)
         /\ \A m, n \in DOMAIN s : s[m].id = s[n].id => m = n
         /\ \A m, n \in DOMAIN s : m < n => s[m].tai <= s[n].tai
         /\ \A n \in DOMAIN s : s[n] \in NumberedOrder /\ s[n].tai < End
<1>. DEFINE N == Cardinality(Chosen)
<1>1. N \in Nat /\ Chosen \subseteq DOMAIN scenario.commands
  BY PollPartition, FS_CardinalityType
<1>2. PICK f \in Sorted(Chosen, CommandKey) : s = [n \in DOMAIN f |-> OrderOf(f[n])]
  BY DEF Orders, Numbered, OrderOf
<1>3. Numbers(f)
  BY SortedNumbers
<1>4. s \in Seq(NumberedOrder)
  BY OrdersTyped
<1>5. DOMAIN s = 1 .. N /\ DOMAIN s = 1 .. Len(s) /\ Len(s) \in Nat
  <2>1. DOMAIN s = DOMAIN f
    BY <1>2
  <2>2. DOMAIN f = 1 .. N
    BY <1>3 DEF Numbers
  <2>3. DOMAIN s = 1 .. Len(s) /\ Len(s) \in Nat
    BY <1>4
  <2>. QED BY <2>1, <2>2, <2>3
<1>6. f \in [1 .. N -> Chosen] /\ \A n \in DOMAIN s : s[n] = OrderOf(f[n]) /\ f[n] \in Chosen
  BY <1>2, <1>3, <1>5 DEF Numbers
<1>. HIDE DEF N
<1>7. \A k \in Chosen : \E n \in DOMAIN s : s[n] = OrderOf(k)
  <2>1. \A k \in Chosen : \E n \in DOMAIN f : f[n] = k
    BY <1>3 DEF Numbers
  <2>. QED BY <1>5, <1>6, <2>1
<1>8. \A k \in Chosen : OrderOf(k).id = scenario.commands[k].id /\ OrderOf(k).tai = Epoch(scenario.commands[k])
  BY DEF OrderOf, Order
<1>9. \A m, n \in DOMAIN s : s[m].id = s[n].id => m = n
  <2>. SUFFICES ASSUME NEW m \in DOMAIN s, NEW n \in DOMAIN s, s[m].id = s[n].id PROVE m = n
    OBVIOUS
  <2>1. scenario.commands[f[m]].id = scenario.commands[f[n]].id
    BY <1>6, <1>8
  <2>2. f[m] = f[n]
    BY <1>1, <1>6, <2>1, CommandsTyped
  <2>. QED BY <1>3, <1>5, <1>6, <2>2 DEF Numbers
<1>10. \A m, n \in DOMAIN s : m < n => s[m].tai <= s[n].tai
  <2>. SUFFICES ASSUME NEW m \in DOMAIN s, NEW n \in DOMAIN s, m < n PROVE s[m].tai <= s[n].tai
    OBVIOUS
  <2>1. Earlier(f[m], f[n])
    BY <1>3, <1>5, <1>6 DEF Numbers
  <2>2. Epoch(scenario.commands[f[m]]) \in Int /\ Epoch(scenario.commands[f[n]]) \in Int
    BY <1>1, <1>6, CommandsTyped
  <2>. QED BY <1>6, <1>8, <2>1, <2>2 DEF Earlier
<1>11. \A n \in DOMAIN s : s[n] \in NumberedOrder /\ s[n].tai < End
  <2>. SUFFICES ASSUME NEW n \in DOMAIN s PROVE s[n] \in NumberedOrder /\ s[n].tai < End
    OBVIOUS
  <2>1. PollOutcome(f[n]) = "Dispatch" /\ Epoch(scenario.commands[f[n]]) \in Int /\ End \in Nat
    BY <1>1, <1>6, CommandsTyped, RunAssumption DEF Chosen
  <2>2. ~ (Epoch(scenario.commands[f[n]]) >= End)
    BY <2>1 DEF PollOutcome, Refusal, Disposition
  <2>. QED BY <1>4, <1>6, <1>8, <2>1, <2>2
<1>. QED BY <1>4, <1>5, <1>6, <1>7, <1>9, <1>10, <1>11

LEMMA OrdersUnique ==
  ASSUME scenario \in Scenarios, NEW s \in Orders, NEW r \in Orders
  PROVE  s = r
<1>1. PICK f \in Sorted(Chosen, CommandKey) : s = [n \in DOMAIN f |-> OrderOf(f[n])]
  BY DEF Orders, Numbered, OrderOf
<1>2. PICK g \in Sorted(Chosen, CommandKey) : r = [n \in DOMAIN g |-> OrderOf(g[n])]
  BY DEF Orders, Numbered, OrderOf
<1>3. f = g
  BY SortedNumbers, NumbersUnique
<1>. QED BY <1>1, <1>2, <1>3
-----------------------------------------------------------------------------
(* The schedule.  The epochs an instance has stepped at are settled by the   *)
(* starts of the spans, whatever else happens in the run.                    *)
Stepped(i) == {taken[i][k].at : k \in DOMAIN taken[i]}
OnGridOf(i, start, t) == \E n \in 1 .. t : t = start + n * Period[i]
Before(i, t) == \E s \in SpanStarts : s < segStart /\ StepIn(i, s, t)
SinceStart(i, t) == OnGridOf(i, segStart, t) /\ t <= curr[i]

(* In a span an instance has stepped at the epochs of the earlier spans, and *)
(* at those of this one up to where it is; between two spans at all of them. *)
Planned ==
  /\ segStart \in SpanStarts
  /\ \A k \in 1 .. next - 1 : Boundaries[k].tai <= segStart \/ End <= Boundaries[k].tai
  /\ phase = "advance" => \A i \in Instance : curr[i] = segStart \/ StepIn(i, segStart, curr[i])
  /\ \A i \in Instance : \A t \in Nat :
       /\ phase = "advance" => (t \in Stepped(i) <=> Before(i, t) \/ SinceStart(i, t))
       /\ phase \in {"poll", "dispatch", "boundary"} => (t \in Stepped(i) <=> Before(i, t))
       /\ phase \in {"drain", "done"} => (t \in Stepped(i) <=> StepEpoch(i, t))
  /\ \A i \in Instance : \A j, k \in DOMAIN taken[i] : j < k => taken[i][j].at < taken[i][k].at

LEMMA GridGaps ==
  ASSUME NEW P \in Nat \ {0}, NEW s \in Nat, NEW m \in Nat, NEW n \in Nat
  PROVE  /\ s + n * P <= s + m * P \/ s + m * P + P <= s + n * P
         /\ s + (m + 1) * P = s + m * P + P
         /\ s + n * P \in Nat /\ (n >= 1 => s + P <= s + n * P) /\ n <= n * P
<1>1. P >= 1
  OBVIOUS
<1>2. n * P \in Nat /\ m * P \in Nat /\ (m + 1) * P = m * P + P
  OBVIOUS
<1>3. n <= m => n * P <= m * P
  BY <1>1
<1>4. m + 1 <= n => (m + 1) * P <= n * P
  BY <1>1
<1>5. n <= n * P
  BY <1>1
<1>6. 1 <= n => P <= n * P
  BY <1>1
<1>. QED BY <1>1, <1>2, <1>3, <1>4, <1>5, <1>6

(* One instance after another start: where it steps after c. *)
LEMMA GridOf ==
  ASSUME NEW i \in Instance, NEW s \in Nat, NEW c \in Nat, c = s \/ OnGridOf(i, s, c)
  PROVE  /\ OnGridOf(i, s, c + Period[i])
         /\ \A t \in Nat : OnGridOf(i, s, t) => (t <= c \/ c + Period[i] <= t) /\ s + Period[i] <= t
<1>. DEFINE P == Period[i]
<1>1. P \in Nat \ {0}
  BY RunAssumption
<1>2. PICK m \in Nat : c = s + m * P
  <2>1. s = s + 0 * P
    BY <1>1
  <2>2. \A t \in Nat : \A n \in 1 .. t : n \in Nat
    OBVIOUS
  <2>. QED BY <2>1, <2>2 DEF OnGridOf
<1>. HIDE DEF P
<1>3. c + P = s + (m + 1) * P /\ m + 1 \in 1 .. c + P
  <2>1. s + (m + 1) * P = s + m * P + P /\ m <= m * P
    BY <1>1, GridGaps
  <2>. QED BY <1>1, <1>2, <2>1
<1>4. ASSUME NEW t \in Nat, NEW n \in 1 .. t, t = s + n * P
      PROVE  (t <= c \/ c + P <= t) /\ s + P <= t
  <2>1. n \in Nat /\ n >= 1
    OBVIOUS
  <2>2. (t <= s + m * P \/ s + m * P + P <= t) /\ s + P <= t
    BY <1>1, <1>4, <2>1, GridGaps
  <2>. QED BY <1>2, <2>2
<1>. QED BY <1>3, <1>4 DEF OnGridOf, P

LEMMA BoundariesTyped ==
  ASSUME scenario \in Scenarios
  PROVE  /\ DOMAIN Boundaries = 1 .. Len(Boundaries) /\ Len(Boundaries) \in Nat /\ End \in Nat
         /\ \A k \in DOMAIN Boundaries : Boundaries[k].tai \in Nat
         /\ \A j, k \in DOMAIN Boundaries : j < k => Boundaries[j].tai <= Boundaries[k].tai
         /\ SpanStarts \subseteq Nat /\ 0 \in SpanStarts
<1>1. Boundaries \in Seq(Boundary) /\ End \in Nat
  BY RunAssumption DEF Boundaries
<1>2. DOMAIN Boundaries = 1 .. Len(Boundaries) /\ Len(Boundaries) \in Nat
  BY <1>1
<1>3. \A k \in DOMAIN Boundaries : Boundaries[k].tai \in Nat
  <2>1. \A k \in DOMAIN Boundaries : Boundaries[k] \in Boundary
    BY <1>1
  <2>. QED BY <2>1 DEF Boundary
<1>4. \A j, k \in DOMAIN Boundaries : j < k => Boundaries[j].tai <= Boundaries[k].tai
  BY RunAssumption DEF Boundaries
<1>. QED BY <1>1, <1>2, <1>3, <1>4 DEF SpanStarts

(* The span that is run ends where the next one starts. *)
LEMMA SpanFacts ==
  ASSUME SpanLoop, Planned, phase = "advance"
  PROVE  /\ SpanEnd \in Nat /\ SpanEnd <= End /\ segStart \in Nat /\ segStart <= tick /\ tick <= SpanEnd /\ tick \in Nat
         /\ \A s \in SpanStarts : s \in Nat /\ (s <= segStart \/ SpanEnd <= s)
         /\ IF next \in DOMAIN Boundaries THEN SpanEnd \in SpanStarts /\ segStart < SpanEnd /\ SpanEnd < End
            ELSE SpanEnd = End /\ \A s \in SpanStarts : s <= segStart
<1>1. scenario \in Scenarios /\ segStart \in Nat /\ tick \in Nat /\ segStart <= tick /\ tick <= SpanEnd /\ next \in Nat
      /\ next >= 1
  BY BoundariesTyped DEF SpanLoop
<1>2. /\ DOMAIN Boundaries = 1 .. Len(Boundaries) /\ Len(Boundaries) \in Nat /\ End \in Nat
      /\ \A k \in DOMAIN Boundaries : Boundaries[k].tai \in Nat
      /\ \A j, k \in DOMAIN Boundaries : j < k => Boundaries[j].tai <= Boundaries[k].tai
      /\ SpanStarts \subseteq Nat
  BY <1>1, BoundariesTyped
<1>3. next \in DOMAIN Boundaries => SpanEnd = Boundaries[next].tai /\ segStart < SpanEnd /\ SpanEnd < End
  BY DEF SpanLoop, SpanEnd, InRun
<1>4. next \notin DOMAIN Boundaries => SpanEnd = End
  BY DEF SpanEnd
<1>5. next \in DOMAIN Boundaries => SpanEnd \in SpanStarts
  BY <1>1, <1>2, <1>3 DEF SpanStarts
<1>6. ASSUME NEW s \in SpanStarts
      PROVE  s <= segStart \/ (next \in DOMAIN Boundaries /\ SpanEnd <= s)
  <2>1. CASE s = 0
    BY <1>1, <2>1
  <2>2. ASSUME NEW k \in DOMAIN Boundaries, s = Boundaries[k].tai, s < End
        PROVE  s <= segStart \/ (next \in DOMAIN Boundaries /\ SpanEnd <= s)
    <3>1. CASE k < next
      <4>1. k \in 1 .. next - 1
        BY <1>1, <1>2, <3>1
      <4>2. Boundaries[k].tai <= segStart \/ End <= Boundaries[k].tai
        BY <4>1 DEF Planned
      <4>. QED BY <1>1, <1>2, <2>2, <4>2
    <3>2. CASE next <= k
      <4>1. next \in DOMAIN Boundaries
        BY <1>1, <1>2, <3>2
      <4>. QED BY <1>1, <1>2, <1>3, <2>2, <3>2, <4>1
    <3>. QED BY <1>1, <1>2, <3>1, <3>2
  <2>. QED BY <2>1, <2>2 DEF SpanStarts
<1>. QED BY <1>1, <1>2, <1>3, <1>4, <1>5, <1>6

(* What was stepped at in earlier spans is before the first step of this one. *)
LEMMA BeforeStart ==
  ASSUME SpanLoop, Planned, NEW i \in Instance, NEW t \in Nat, Before(i, t)
  PROVE  t < segStart + Period[i]
<1>1. PICK s \in SpanStarts : s < segStart /\ StepIn(i, s, t)
  BY DEF Before
<1>2. SpanStarts \subseteq Nat /\ segStart \in SpanStarts /\ Period[i] \in Nat \ {0}
  BY BoundariesTyped, RunAssumption DEF SpanLoop, Planned
<1>3. segStart \in Nat /\ s \in Nat /\ ~ (segStart <= s)
  BY <1>1, <1>2
<1>4. Fits(i, t, segStart)
  BY <1>1, <1>2, <1>3 DEF StepIn
<1>. QED BY <1>2, <1>3, <1>4 DEF Fits

LEMMA CurrTyped ==
  ASSUME Schedule
  PROVE  \A i \in Instance : curr[i] \in Nat /\ due[i] = curr[i] + Period[i] /\ due[i] \in Nat /\ Period[i] \in Nat \ {0}
BY RunAssumption DEF Schedule

(* Since the start of the span an instance stepped at epochs of that span. *)
LEMMA SinceIsStepIn ==
  ASSUME SpanLoop, Planned, Schedule, phase = "advance", NEW i \in Instance, NEW t \in Nat, SinceStart(i, t)
  PROVE  StepIn(i, segStart, t)
<1>1. /\ curr[i] \in Nat /\ Period[i] \in Nat \ {0} /\ segStart \in Nat
      /\ \A s \in SpanStarts : s \in Nat
      /\ End \in Nat
  BY CurrTyped, SpanFacts, RunAssumption
<1>2. OnGridOf(i, segStart, t) /\ t <= curr[i]
  BY DEF SinceStart
<1>3. segStart + Period[i] <= t
  BY <1>1, <1>2, GridOf
<1>4. StepIn(i, segStart, curr[i])
  BY <1>1, <1>2, <1>3 DEF Planned
<1>5. \A e \in Nat : Fits(i, curr[i], e) => Fits(i, t, e)
  BY <1>1, <1>2 DEF Fits
<1>. QED BY <1>1, <1>2, <1>4, <1>5 DEF StepIn, OnGridOf

(* When a span is over an instance has taken every step of it. *)
LEMMA SpanOver ==
  ASSUME SpanLoop, Planned, Schedule, SpanDone, NEW i \in Instance, NEW t \in Nat
  PROVE  t \in Stepped(i) <=> \E s \in SpanStarts : s <= segStart /\ StepIn(i, s, t)
<1>1. phase = "advance" /\ tick = SpanEnd /\ ~ Eligible(i)
  BY DEF SpanDone
<1>2. /\ SpanEnd \in Nat /\ SpanEnd <= End /\ segStart \in Nat /\ End \in Nat
      /\ \A s \in SpanStarts : s \in Nat /\ (s <= segStart \/ SpanEnd <= s)
      /\ SpanEnd = End \/ (SpanEnd \in SpanStarts /\ segStart < SpanEnd)
  BY <1>1, SpanFacts, RunAssumption
<1>3. curr[i] \in Nat /\ due[i] = curr[i] + Period[i] /\ Period[i] \in Nat \ {0}
  BY CurrTyped
<1>4. t \in Stepped(i) <=> Before(i, t) \/ SinceStart(i, t)
  BY <1>1 DEF Planned
<1>5. SinceStart(i, t) => StepIn(i, segStart, t)
  BY <1>1, SinceIsStepIn
<1>6. StepIn(i, segStart, t) => SinceStart(i, t)
  <2>. SUFFICES ASSUME StepIn(i, segStart, t) PROVE t <= curr[i]
    BY DEF StepIn, SinceStart, OnGridOf
  <2>1. Fits(i, t, SpanEnd)
    BY <1>2 DEF StepIn
  <2>2. OnGridOf(i, segStart, t) /\ (curr[i] = segStart \/ OnGridOf(i, segStart, curr[i]))
    BY <1>1 DEF StepIn, OnGridOf, Planned
  <2>3. t <= curr[i] \/ curr[i] + Period[i] <= t
    BY <1>2, <1>3, <2>2, GridOf
  <2>. QED BY <1>1, <1>2, <1>3, <2>1, <2>3 DEF Fits, Eligible
<1>7. \A s \in SpanStarts : s <= segStart <=> s < segStart \/ s = segStart
  BY <1>2
<1>8. segStart \in SpanStarts
  BY DEF Planned
<1>. QED BY <1>4, <1>5, <1>6, <1>7, <1>8 DEF Before

(* An instance that steps does so at the next epoch of the span. *)
LEMMA DueIsStepIn ==
  ASSUME SpanLoop, Planned, Schedule, phase = "advance", NEW i \in Instance, Eligible(i)
  PROVE  /\ StepIn(i, segStart, due[i])
         /\ \A t \in Nat : OnGridOf(i, segStart, t) => (t <= due[i] <=> t <= curr[i] \/ t = due[i])
<1>1. /\ SpanEnd \in Nat /\ SpanEnd <= End /\ segStart \in Nat /\ End \in Nat /\ tick <= SpanEnd /\ tick \in Nat
      /\ \A s \in SpanStarts : s \in Nat /\ (s <= segStart \/ SpanEnd <= s)
  BY SpanFacts, RunAssumption
<1>2. curr[i] \in Nat /\ due[i] = curr[i] + Period[i] /\ Period[i] \in Nat \ {0} /\ due[i] \in Nat
  BY CurrTyped
<1>3. curr[i] = segStart \/ OnGridOf(i, segStart, curr[i])
  BY DEF StepIn, OnGridOf, Planned
<1>4. OnGridOf(i, segStart, due[i])
  BY <1>1, <1>2, <1>3, GridOf
<1>5. \A e \in Nat : SpanEnd <= e => Fits(i, due[i], e)
  BY <1>1, <1>2 DEF Eligible, Fits
<1>6. StepIn(i, segStart, due[i])
  BY <1>1, <1>4, <1>5 DEF StepIn, OnGridOf
<1>7. ASSUME NEW t \in Nat, OnGridOf(i, segStart, t)
      PROVE  t <= due[i] <=> t <= curr[i] \/ t = due[i]
  <2>1. t <= curr[i] \/ curr[i] + Period[i] <= t
    BY <1>1, <1>2, <1>3, <1>7, GridOf
  <2>. QED BY <1>2, <2>1
<1>. QED BY <1>6, <1>7

(* The epochs an instance steps at before it is due are those it has stepped at. *)
LEMMA SteppedUpToDue ==
  ASSUME SpanLoop, Planned, Schedule, phase = "advance", NEW i \in Instance, Eligible(i)
  PROVE  /\ StepEpoch(i, due[i])
         /\ \A t \in Nat : t \in Stepped(i) => t < due[i]
         /\ \A t \in Nat : StepEpoch(i, t) /\ t < due[i] => t \in Stepped(i)
<1>1. /\ SpanEnd \in Nat /\ segStart \in Nat /\ tick <= SpanEnd /\ tick \in Nat
      /\ \A s \in SpanStarts : s \in Nat /\ (s <= segStart \/ SpanEnd <= s)
      /\ segStart \in SpanStarts
  BY SpanFacts DEF Planned
<1>2. curr[i] \in Nat /\ due[i] = curr[i] + Period[i] /\ Period[i] \in Nat \ {0} /\ due[i] \in Nat
  BY CurrTyped
<1>3. StepEpoch(i, due[i])
  BY <1>1, DueIsStepIn DEF StepEpoch
<1>4. \A t \in Nat : t \in Stepped(i) <=> Before(i, t) \/ SinceStart(i, t)
  BY DEF Planned
<1>5. ASSUME NEW t \in Nat, t \in Stepped(i)
      PROVE  t < due[i]
  <2>1. CASE Before(i, t)
    <3>1. t < segStart + Period[i]
      BY <2>1, BeforeStart
    <3>2. curr[i] = segStart \/ OnGridOf(i, segStart, curr[i])
      BY DEF StepIn, OnGridOf, Planned
    <3>3. segStart <= curr[i]
      BY <1>1, <1>2, <3>2, GridOf
    <3>. QED BY <1>1, <1>2, <3>1, <3>3
  <2>2. CASE SinceStart(i, t)
    BY <1>2, <2>2 DEF SinceStart
  <2>. QED BY <1>4, <1>5, <2>1, <2>2
<1>6. ASSUME NEW t \in Nat, StepEpoch(i, t), t < due[i]
      PROVE  t \in Stepped(i)
  <2>1. PICK s \in SpanStarts : StepIn(i, s, t)
    BY <1>6 DEF StepEpoch
  <2>2. OnGridOf(i, s, t)
    BY <2>1 DEF StepIn, OnGridOf
  <2>3. s <= segStart
    <3>. SUFFICES ASSUME SpanEnd <= s PROVE FALSE
      BY <1>1
    <3>1. s + Period[i] <= t
      BY <1>1, <2>2, GridOf
    <3>. QED BY <1>1, <1>2, <1>6, <3>1 DEF Eligible
  <2>4. CASE s < segStart
    BY <1>4, <2>1, <2>4 DEF Before
  <2>5. CASE s = segStart
    <3>1. t <= curr[i]
      BY <1>2, <1>6, <2>2, <2>5, DueIsStepIn
    <3>. QED BY <1>4, <2>2, <2>5, <3>1 DEF SinceStart
  <2>. QED BY <1>1, <2>3, <2>4, <2>5
<1>. QED BY <1>3, <1>5, <1>6

LEMMA PlannedAtStart ==
  ASSUME scenario \in Scenarios, segStart = 0, next = 1, phase = "poll", taken = [i \in Instance |-> << >>]
  PROVE  Planned
<1>1. SpanStarts \subseteq Nat /\ 0 \in SpanStarts
  BY BoundariesTyped
<1>2. \A i \in Instance : taken[i] = << >> /\ Stepped(i) = {}
  BY DEF Stepped
<1>3. \A i, t : ~ Before(i, t)
  BY <1>1 DEF Before
<1>. QED BY <1>1, <1>2, <1>3 DEF Planned

\* Nothing that the schedule is made of changes.
LEMMA PlannedStays ==
  ASSUME Planned, UNCHANGED <<scenario, next, segStart, curr, taken>>,
         \/ phase' = phase
         \/ {phase, phase'} \subseteq {"poll", "dispatch", "boundary"}
         \/ {phase, phase'} \subseteq {"drain", "done"}
         \/ phase' \in {"outOfRange", "missingFrame"}
  PROVE  Planned'
<1>1. Boundaries' = Boundaries
  BY DEF Boundaries
<1>2. SpanStarts' = SpanStarts
  BY <1>1 DEF SpanStarts
<1>3. \A i, s, t : StepIn(i, s, t)' <=> StepIn(i, s, t)
  BY <1>2 DEF StepIn
<1>4. \A i, t : /\ Stepped(i)' = Stepped(i) /\ Before(i, t)' = Before(i, t) /\ StepEpoch(i, t)' = StepEpoch(i, t)
                /\ SinceStart(i, t)' = SinceStart(i, t)
  BY <1>2, <1>3 DEF Stepped, Before, StepEpoch, SinceStart, OnGridOf
<1>. QED BY <1>1, <1>2, <1>3, <1>4 DEF Planned

LEMMA PlannedStep ==
  ASSUME IInv, Planned, Next
  PROVE  Planned'
<1>1. SpanLoop /\ Schedule /\ Held /\ Commands /\ taken \in [Instance -> Seq(StepTaken)]
  BY DEF IInv, Carried
<1>2. CASE PrepareCommands \/ DispatchNext \/ Sample \/ Drain
  <2>1. UNCHANGED <<scenario, next, segStart, curr, taken>>
    BY <1>2 DEF PrepareCommands, DispatchNext, Sample, Drain, scheduler, history
  <2>2. \/ phase' = phase
        \/ {phase, phase'} \subseteq {"poll", "dispatch", "boundary"}
        \/ {phase, phase'} \subseteq {"drain", "done"}
        \/ phase' \in {"outOfRange", "missingFrame"}
    BY <1>2 DEF PrepareCommands, DispatchNext, Sample, Drain
  <2>. QED BY <2>1, <2>2, PlannedStays
<1>3. ASSUME NEW i \in Instance, RefuseReplay(i)
      PROVE  Planned'
  <2>1. UNCHANGED <<scenario, next, segStart, curr, taken>> /\ phase' = "missingFrame"
    BY <1>3 DEF RefuseReplay, scheduler, history
  <2>. QED BY <2>1, PlannedStays
<1>4. CASE StartReplay
  <2>1. /\ scenario' = scenario /\ segStart' = 0 /\ next' = 1 /\ phase' = "poll"
        /\ taken' = [i \in Instance |-> << >>]
    BY <1>4 DEF StartReplay, Fresh
  <2>2. SpanStarts' = SpanStarts /\ SpanStarts \subseteq Nat /\ 0 \in SpanStarts
    BY <1>1, <2>1, BoundariesTyped DEF SpanLoop, SpanStarts, Boundaries
  <2>3. \A i \in Instance : taken'[i] = << >> /\ Stepped(i)' = {}
    BY <2>1 DEF Stepped
  <2>4. \A i, t : ~ Before(i, t)'
    BY <2>1, <2>2 DEF Before
  <2>. QED BY <2>1, <2>2, <2>3, <2>4 DEF Planned
<1>5. CASE SkipBoundary
  <2>1. /\ UNCHANGED <<scenario, segStart, curr, taken, phase>> /\ phase = "boundary"
        /\ next \in DOMAIN Boundaries /\ ~InRun(Boundaries[next]) /\ next' = next + 1
    BY <1>5 DEF SkipBoundary, scheduler, history
  <2>2. Boundaries' = Boundaries /\ SpanStarts' = SpanStarts
    BY <2>1 DEF Boundaries, SpanStarts
  <2>3. \A i, s, t : StepIn(i, s, t)' <=> StepIn(i, s, t)
    BY <2>2 DEF StepIn
  <2>4. \A i, t : Stepped(i)' = Stepped(i) /\ Before(i, t)' = Before(i, t)
    BY <2>1, <2>2, <2>3 DEF Stepped, Before
  <2>5. \A k \in 1 .. next' - 1 : Boundaries[k].tai <= segStart \/ End <= Boundaries[k].tai
    <3>1. next \in Nat /\ segStart \in Nat /\ End \in Nat /\ Boundaries[next].tai \in Nat
      BY <1>1, <2>1, BoundariesTyped DEF SpanLoop
    <3>2. \A k \in 1 .. next' - 1 : k \in 1 .. next - 1 \/ k = next
      BY <2>1, <3>1
    <3>3. Boundaries[next].tai <= segStart \/ End <= Boundaries[next].tai
      BY <2>1, <3>1 DEF InRun
    <3>. QED BY <3>2, <3>3 DEF Planned
  <2>. QED BY <2>1, <2>2, <2>4, <2>5 DEF Planned
<1>6. CASE StartSpan
  <2>1. /\ UNCHANGED <<scenario, next, segStart, taken>> /\ phase = "boundary" /\ phase' = "advance"
        /\ curr' = [i \in Instance |-> segStart]
    BY <1>6 DEF StartSpan, history
  <2>2. Boundaries' = Boundaries /\ SpanStarts' = SpanStarts
    BY <2>1 DEF Boundaries, SpanStarts
  <2>3. \A i, s, t : StepIn(i, s, t)' <=> StepIn(i, s, t)
    BY <2>2 DEF StepIn
  <2>4. \A i, t : Stepped(i)' = Stepped(i) /\ Before(i, t)' = Before(i, t)
    BY <2>1, <2>2, <2>3 DEF Stepped, Before
  <2>5. \A i \in Instance : \A t \in Nat : ~ SinceStart(i, t)'
    <3>. SUFFICES ASSUME NEW i \in Instance, NEW t \in Nat, OnGridOf(i, segStart, t), t <= segStart
                  PROVE  FALSE
      BY <2>1 DEF SinceStart, OnGridOf
    <3>1. segStart \in Nat /\ Period[i] \in Nat \ {0}
      BY <1>1, RunAssumption DEF SpanLoop
    <3>2. segStart + Period[i] <= t
      BY <3>1, GridOf
    <3>. QED BY <3>1, <3>2
  <2>. QED BY <2>1, <2>2, <2>4, <2>5 DEF Planned
<1>7. CASE CrossBoundary
  <2>1. /\ UNCHANGED <<scenario, curr, taken>> /\ phase = "advance" /\ phase' = "boundary" /\ SpanDone
        /\ next \in DOMAIN Boundaries /\ next' = next + 1 /\ segStart' = SpanEnd
    BY <1>7 DEF CrossBoundary, SpanDone, SpanEnd, scheduler
  <2>2. Boundaries' = Boundaries /\ SpanStarts' = SpanStarts
    BY <2>1 DEF Boundaries, SpanStarts
  <2>3. \A i, s, t : StepIn(i, s, t)' <=> StepIn(i, s, t)
    BY <2>2 DEF StepIn
  <2>4. /\ SpanEnd \in SpanStarts /\ segStart < SpanEnd /\ segStart \in Nat /\ SpanEnd \in Nat
        /\ \A s \in SpanStarts : s \in Nat /\ (s <= segStart \/ SpanEnd <= s)
    BY <1>1, <2>1, SpanFacts
  <2>5. \A i \in Instance : \A t \in Nat : t \in Stepped(i)' <=> Before(i, t)'
    <3>. SUFFICES ASSUME NEW i \in Instance, NEW t \in Nat PROVE t \in Stepped(i)' <=> Before(i, t)'
      OBVIOUS
    <3>1. t \in Stepped(i) <=> \E s \in SpanStarts : s <= segStart /\ StepIn(i, s, t)
      BY <1>1, <2>1, SpanOver
    <3>2. Stepped(i)' = Stepped(i)
      BY <2>1 DEF Stepped
    <3>3. Before(i, t)' <=> \E s \in SpanStarts : s < SpanEnd /\ StepIn(i, s, t)
      BY <2>1, <2>2, <2>3 DEF Before
    <3>4. \A s \in SpanStarts : s <= segStart <=> s < SpanEnd
      BY <2>4
    <3>. QED BY <3>1, <3>2, <3>3, <3>4
  <2>6. \A k \in 1 .. next' - 1 : Boundaries[k].tai <= SpanEnd \/ End <= Boundaries[k].tai
    <3>1. next \in Nat /\ SpanEnd = Boundaries[next].tai /\ End \in Nat /\ next \in DOMAIN Boundaries
          /\ DOMAIN Boundaries = 1 .. Len(Boundaries) /\ \A k \in DOMAIN Boundaries : Boundaries[k].tai \in Nat
      BY <1>1, <2>1, BoundariesTyped DEF SpanLoop, SpanEnd
    <3>2. \A k \in 1 .. next' - 1 : (k \in 1 .. next - 1 \/ k = next) /\ k \in DOMAIN Boundaries
      BY <2>1, <3>1, BoundariesTyped DEF SpanLoop
    <3>3. \A k \in 1 .. next - 1 : Boundaries[k].tai <= segStart \/ End <= Boundaries[k].tai
      BY DEF Planned
    <3>. QED BY <2>4, <3>1, <3>2, <3>3
  <2>7. \A i \in Instance : \A j, k \in DOMAIN taken[i] : j < k => taken[i][j].at < taken[i][k].at
    BY DEF Planned
  <2>8. phase' # "advance" /\ phase' \notin {"drain", "done"}
    BY <2>1
  <2>. QED BY <2>1, <2>2, <2>4, <2>5, <2>6, <2>7, <2>8 DEF Planned
<1>8. CASE EndLastSpan
  <2>1. /\ UNCHANGED <<scenario, next, segStart, curr, taken>> /\ phase = "advance" /\ phase' = "drain" /\ SpanDone
        /\ next \notin DOMAIN Boundaries
    BY <1>8 DEF EndLastSpan, SpanDone, scheduler, history
  <2>2. Boundaries' = Boundaries /\ SpanStarts' = SpanStarts
    BY <2>1 DEF Boundaries, SpanStarts
  <2>3. \A i, s, t : StepIn(i, s, t)' <=> StepIn(i, s, t)
    BY <2>2 DEF StepIn
  <2>4. \A s \in SpanStarts : s <= segStart
    BY <1>1, <2>1, SpanFacts
  <2>5. \A i \in Instance : \A t \in Nat : t \in Stepped(i)' <=> StepEpoch(i, t)'
    <3>. SUFFICES ASSUME NEW i \in Instance, NEW t \in Nat PROVE t \in Stepped(i)' <=> StepEpoch(i, t)'
      OBVIOUS
    <3>1. t \in Stepped(i) <=> \E s \in SpanStarts : s <= segStart /\ StepIn(i, s, t)
      BY <1>1, <2>1, SpanOver
    <3>2. Stepped(i)' = Stepped(i)
      BY <2>1 DEF Stepped
    <3>3. StepEpoch(i, t)' <=> \E s \in SpanStarts : StepIn(i, s, t)
      BY <2>2, <2>3 DEF StepEpoch
    <3>. QED BY <2>4, <3>1, <3>2, <3>3
  <2>. QED BY <2>1, <2>2, <2>5 DEF Planned
<1>9. ASSUME NEW i \in Instance, Step(i)
      PROVE  Planned'
  <2>. DEFINE s == [at |-> due[i], inbox |-> Ready(router, i, due[i])]
  <2>1. /\ UNCHANGED <<scenario, phase, next, segStart>> /\ phase = "advance" /\ Eligible(i)
        /\ curr' = [curr EXCEPT ![i] = due[i]] /\ taken' = [taken EXCEPT ![i] = Append(@, s)]
    BY <1>9 DEF Step, Turn, progress
  <2>2. Boundaries' = Boundaries /\ SpanStarts' = SpanStarts
    BY <2>1 DEF Boundaries, SpanStarts
  <2>3. \A j, r, t : StepIn(j, r, t)' <=> StepIn(j, r, t)
    BY <2>2 DEF StepIn
  <2>4. \A j, t : Before(j, t)' = Before(j, t)
    BY <2>1, <2>2, <2>3 DEF Before
  <2>5. /\ StepIn(i, segStart, due[i])
        /\ \A t \in Nat : OnGridOf(i, segStart, t) => (t <= due[i] <=> t <= curr[i] \/ t = due[i])
    BY <1>1, <2>1, DueIsStepIn
  <2>6. curr \in [Instance -> Nat] /\ due[i] \in Nat /\ curr'[i] = due[i]
        /\ \A j \in Instance \ {i} : curr'[j] = curr[j]
    BY <1>1, <2>1 DEF Schedule
  <2>7. \A t \in Nat : SinceStart(i, t)' <=> SinceStart(i, t) \/ t = due[i]
    BY <2>1, <2>5, <2>6 DEF SinceStart, StepIn, OnGridOf
  <2>8. \A j \in Instance \ {i} : \A t : SinceStart(j, t)' = SinceStart(j, t) /\ taken'[j] = taken[j]
    BY <1>1, <2>1, <2>6 DEF SinceStart, OnGridOf
  <2>9. taken[i] \in Seq(StepTaken) /\ taken'[i] = Append(taken[i], s) /\ s.at = due[i]
    BY <1>1, <2>1
  <2>. HIDE DEF s
  <2>10. /\ DOMAIN taken'[i] = 1 .. Len(taken[i]) + 1 /\ DOMAIN taken[i] = 1 .. Len(taken[i])
         /\ Len(taken[i]) \in Nat /\ taken'[i][Len(taken[i]) + 1] = s
         /\ \A k \in 1 .. Len(taken[i]) : taken'[i][k] = taken[i][k]
    BY <2>9
  <2>11. Stepped(i)' = Stepped(i) \cup {due[i]}
    <3>1. \A k \in DOMAIN taken'[i] : k \in DOMAIN taken[i] \/ k = Len(taken[i]) + 1
      BY <2>10
    <3>2. Len(taken[i]) + 1 \in DOMAIN taken'[i] /\ \A k \in DOMAIN taken[i] : k \in DOMAIN taken'[i]
      BY <2>10
    <3>. QED BY <2>9, <2>10, <3>1, <3>2 DEF Stepped
  <2>12. \A j \in Instance : \A t \in Nat : t \in Stepped(j)' <=> Before(j, t)' \/ SinceStart(j, t)'
    <3>. SUFFICES ASSUME NEW j \in Instance, NEW t \in Nat
                  PROVE  t \in Stepped(j)' <=> Before(j, t)' \/ SinceStart(j, t)'
      OBVIOUS
    <3>1. t \in Stepped(j) <=> Before(j, t) \/ SinceStart(j, t)
      BY <2>1 DEF Planned
    <3>2. CASE j = i
      BY <2>4, <2>7, <2>11, <3>1, <3>2
    <3>3. CASE j # i
      <4>1. Stepped(j)' = Stepped(j)
        BY <2>8, <3>3 DEF Stepped
      <4>. QED BY <2>4, <2>8, <3>1, <3>3, <4>1
    <3>. QED BY <3>2, <3>3
  <2>13. (\A j \in Instance : curr[j] = segStart \/ StepIn(j, segStart, curr[j]))'
    <3>1. StepIn(i, segStart, curr[i])'
      BY <2>1, <2>2, <2>5, <2>6 DEF StepIn, Fits
    <3>2. \A j \in Instance \ {i} : (curr[j] = segStart \/ StepIn(j, segStart, curr[j]))'
      BY <2>1, <2>2, <2>6 DEF Planned, StepIn, Fits
    <3>. QED BY <3>1, <3>2
  <2>14. \A k \in DOMAIN taken[i] : taken[i][k].at < due[i]
    <3>. SUFFICES ASSUME NEW k \in DOMAIN taken[i] PROVE taken[i][k].at < due[i]
      OBVIOUS
    <3>1. taken[i][k] \in StepTaken
      BY <2>9
    <3>2. taken[i][k].at \in Nat /\ taken[i][k].at \in Stepped(i)
      BY <3>1 DEF StepTaken, Stepped
    <3>. QED BY <1>1, <2>1, <3>2, SteppedUpToDue
  <2>15. \A j \in Instance : \A m, k \in DOMAIN taken'[j] : m < k => taken'[j][m].at < taken'[j][k].at
    <3>1. \A m, k \in DOMAIN taken'[i] : m < k => taken'[i][m].at < taken'[i][k].at
      <4>. SUFFICES ASSUME NEW m \in DOMAIN taken'[i], NEW k \in DOMAIN taken'[i], m < k
                    PROVE  taken'[i][m].at < taken'[i][k].at
        OBVIOUS
      <4>1. m \in DOMAIN taken[i] /\ taken'[i][m] = taken[i][m]
        BY <2>10
      <4>2. CASE k \in DOMAIN taken[i]
        BY <2>10, <4>1, <4>2 DEF Planned
      <4>3. CASE k = Len(taken[i]) + 1
        BY <2>9, <2>10, <2>14, <4>1, <4>3
      <4>. QED BY <2>10, <4>2, <4>3
    <3>2. \A j \in Instance \ {i} : \A m, k \in DOMAIN taken'[j] : m < k => taken'[j][m].at < taken'[j][k].at
      BY <2>8 DEF Planned
    <3>. QED BY <3>1, <3>2
  <2>. QED BY <2>1, <2>2, <2>12, <2>13, <2>15 DEF Planned
<1>. QED BY <1>2, <1>3, <1>4, <1>5, <1>6, <1>7, <1>8, <1>9 DEF Next

(* An instance steps at the epochs that its period and the boundaries        *)
(* inside the run settle beforehand, each once and in order, whatever the    *)
(* others, the frames, the faults and the output period, live or replayed    *)
(* (schedule.rs catch_up_eligible, executor.rs run_one_span).                *)
THEOREM StepsAsPlanned == Spec => []SteppedOnSchedule
<1>1. Init => Planned
  BY PlannedAtStart DEF Init
<1>2. IInv /\ Planned /\ [Next]_vars => Planned'
  <2>1. Planned /\ UNCHANGED vars => Planned'
    BY PlannedStays DEF vars, progress, scheduler, history
  <2>. QED BY <2>1, PlannedStep
<1>3. IInv /\ Planned => SteppedOnSchedule
  <2>. SUFFICES ASSUME IInv, Planned, NEW i \in Instance, phase \in {"drain", "done"}
                PROVE  Stepped(i) = {t \in 1 .. End + Period[i] : StepEpoch(i, t)}
    BY DEF Planned, SteppedOnSchedule, Stepped
  <2>1. taken[i] \in Seq(StepTaken) /\ End \in Nat /\ Period[i] \in Nat \ {0} /\ SpanStarts \subseteq Nat
    BY RunAssumption, BoundariesTyped DEF IInv, Carried, SpanLoop
  <2>2. \A k \in DOMAIN taken[i] : taken[i][k] \in StepTaken
    BY <2>1
  <2>3. Stepped(i) \subseteq Nat
    BY <2>2 DEF Stepped, StepTaken
  <2>4. \A t \in Nat : t \in Stepped(i) <=> StepEpoch(i, t)
    BY DEF Planned
  <2>5. \A t \in Nat : StepEpoch(i, t) => t \in 1 .. End + Period[i]
    <3>. SUFFICES ASSUME NEW t \in Nat, NEW s \in SpanStarts, StepIn(i, s, t) PROVE t \in 1 .. End + Period[i]
      BY DEF StepEpoch
    <3>1. OnGridOf(i, s, t) /\ Fits(i, t, End) /\ s \in Nat
      BY <2>1 DEF StepIn, OnGridOf
    <3>2. s + Period[i] <= t
      BY <3>1, GridOf
    <3>. QED BY <2>1, <3>1, <3>2 DEF Fits
  <2>6. \A t \in 1 .. End + Period[i] : t \in Nat
    OBVIOUS
  <2>. QED BY <2>3, <2>4, <2>5, <2>6
<1>. QED BY <1>1, <1>2, <1>3, InvariantHolds, PTL DEF Spec
-----------------------------------------------------------------------------
(* What deliver makes of the k-th message of an outbox: its epoch, the fault that draws *)
(* on it and hits, and each copy it queues over a connection.                            *)
Stamp(fallback, outbox, k) == IF outbox[k].tai = NoEpoch THEN fallback ELSE outbox[k].tai
Meets(f, from, fallback, outbox, k) ==
  f.from = from /\ f.port = outbox[k].port /\ InWindow(f, Stamp(fallback, outbox, k))
DrawsUpTo(f, from, fallback, outbox, k) == Cardinality({j \in 1 .. k : Meets(f, from, fallback, outbox, j)})
Struck(r, from, fallback, outbox, k) ==
  {f \in r.faults : Meets(f, from, fallback, outbox, k)
                    /\ r.drawn[f] + DrawsUpTo(f, from, fallback, outbox, k) \in f.hits}
EffectOf(hit) == IF hit = {} THEN [kind |-> "none"] ELSE CHOOSE f \in hit : TRUE
EffectOn(r, from, fallback, outbox, k) == EffectOf(Struck(r, from, fallback, outbox, k))
CopyOf(q, tai, payload, e, effect, c) ==
  /\ q.port = Edges[e].inPort
  /\ q.avail = tai + Edges[e].latency + Copies(effect)[c]
  /\ q.payload = (IF effect.kind = "corrupt" THEN Corrupted ELSE payload)

(* What one call of deliver did: the frames it queued, drew for and logged, no other. *)
Delivers(r, d, from, fallback, steps, outbox) ==
  /\ d.faults = r.faults
  /\ d.drawn = [f \in r.faults |-> r.drawn[f] + DrawsUpTo(f, from, fallback, outbox, Len(outbox))]
  /\ \A i \in Instance : r.pending[i] \subseteq d.pending[i]
  /\ \A i \in Instance : \A q \in d.pending[i] \ r.pending[i] :
       \E k \in DOMAIN outbox : \E e \in DOMAIN Edges :
       \E c \in DOMAIN Copies(EffectOn(r, from, fallback, outbox, k)) :
         /\ Edges[e].from = from /\ Edges[e].port = outbox[k].port /\ Edges[e].to = i
         /\ CopyOf(q, Stamp(fallback, outbox, k), outbox[k].payload, e,
                   EffectOn(r, from, fallback, outbox, k), c)
         /\ q.after = steps[i]
  /\ \A i \in Instance : \A k \in DOMAIN outbox : \A e \in DOMAIN Edges :
       Edges[e].from = from /\ Edges[e].port = outbox[k].port /\ Edges[e].to = i =>
         \A c \in DOMAIN Copies(EffectOn(r, from, fallback, outbox, k)) : \E q \in d.pending[i] :
           /\ CopyOf(q, Stamp(fallback, outbox, k), outbox[k].payload, e,
                     EffectOn(r, from, fallback, outbox, k), c)
           /\ q.after = steps[i]
  /\ \A x \in d.traffic \ r.traffic : x.dir = "out" =>
       \E k \in DOMAIN outbox :
         /\ x.instance = from /\ x.port = outbox[k].port /\ x.tai = Stamp(fallback, outbox, k)
         /\ x.payload = outbox[k].payload

LEMMA DeliverExact ==
  ASSUME NEW r, IsRouter(r), NEW from \in Instance, NEW fallback \in Int,
         NEW steps \in [Instance -> Nat], NEW outbox \in Outbox,
         NEW d, d = Deliver(r, from, fallback, steps, outbox)
  PROVE  Delivers(r, d, from, fallback, steps, outbox)
<1>. DEFINE Effect(k) == EffectOn(r, from, fallback, outbox, k)
            Payload(k) == IF Effect(k).kind = "corrupt" THEN Corrupted ELSE outbox[k].payload
            Epoch_(k) == Stamp(fallback, outbox, k)
            Key(k, t, c) == <<r.calls + 1, k, t, c>>
            Sent == {s \in (DOMAIN outbox) \X (DOMAIN Edges) \X {1, 2} :
                       /\ Edges[s[2]].from = from /\ Edges[s[2]].port = outbox[s[1]].port
                       /\ s[3] \in DOMAIN Copies(Effect(s[1]))}
            Out(k) == Record(Key(k, 0, 0), from, outbox[k].port, "out", Epoch_(k), outbox[k].payload, r.step)
            In(k, t, c) == Record(Key(k, t, c), Edges[t].to, Edges[t].inPort, "in", Epoch_(k), Payload(k), r.step)
            Queued(k, t, c) ==
              [key |-> Key(k, t, c), to |-> Edges[t].to, port |-> Edges[t].inPort, epoch |-> Epoch_(k),
               from |-> from, avail |-> Epoch_(k) + Edges[t].latency + Copies(Effect(k))[c],
               payload |-> Payload(k), after |-> steps[Edges[t].to]]
            Outs == {Out(k) : k \in DOMAIN outbox}
            Ins == {In(s[1], s[2], s[3]) : s \in Sent}
            New(i) == {Queued(s[1], s[2], s[3]) : s \in {x \in Sent : Edges[x[2]].to = i}}
            Drawn == [f \in r.faults |-> r.drawn[f] + DrawsUpTo(f, from, fallback, outbox, Len(outbox))]
<1>1. d = [r EXCEPT !.traffic = @ \cup Outs \cup Ins,
                    !.pending = [i \in Instance |-> @[i] \cup New(i)],
                    !.calls = @ + 1,
                    !.drawn = [f \in r.faults |-> @[f] + DrawsUpTo(f, from, fallback, outbox, Len(outbox))]]
  BY DEF Deliver, Stamp, Meets, DrawsUpTo, Struck, EffectOf, EffectOn
<1>2. d = [pending |-> [i \in Instance |-> r.pending[i] \cup New(i)],
           traffic |-> r.traffic \cup Outs \cup Ins, calls |-> r.calls + 1, step |-> r.step,
           faults |-> r.faults, drawn |-> Drawn]
  <2>. HIDE DEF New, Outs, Ins
  <2>. QED BY <1>1 DEF IsRouter
<1>3. /\ d.faults = r.faults /\ d.drawn = Drawn /\ d.traffic = r.traffic \cup Outs \cup Ins
      /\ \A i \in Instance : d.pending[i] = r.pending[i] \cup New(i)
  <2>. HIDE DEF New, Outs, Ins, Drawn
  <2>. QED BY <1>2
<1>4. \A x \in d.traffic \ r.traffic : x.dir = "out" =>
        \E k \in DOMAIN outbox : /\ x.instance = from /\ x.port = outbox[k].port /\ x.tai = Epoch_(k)
                                 /\ x.payload = outbox[k].payload
  <2>1. \A x \in Ins : x.dir = "in"
    BY DEF Record
  <2>2. \A x \in Outs : \E k \in DOMAIN outbox : /\ x.instance = from /\ x.port = outbox[k].port /\ x.tai = Epoch_(k)
                                                 /\ x.payload = outbox[k].payload
    BY DEF Record
  <2>. HIDE DEF Ins, Outs
  <2>. QED BY <1>3, <2>1, <2>2
<1>5. \A k \in DOMAIN outbox : DOMAIN Copies(Effect(k)) \subseteq {1, 2}
  <2>. SUFFICES ASSUME NEW k \in DOMAIN outbox PROVE DOMAIN Copies(Effect(k)) \subseteq {1, 2}
    OBVIOUS
  <2>1. Struck(r, from, fallback, outbox, k) \subseteq PortFault
    BY DEF Struck, IsRouter
  <2>2. Effect(k).kind = "none" \/ Effect(k) \in PortFault
    BY <2>1 DEF EffectOn, EffectOf
  <2>. QED BY <2>2, CopiesTyped
<1>6. ASSUME NEW i \in Instance, NEW q \in New(i)
      PROVE  \E k \in DOMAIN outbox : \E e \in DOMAIN Edges : \E c \in DOMAIN Copies(Effect(k)) :
                /\ Edges[e].from = from /\ Edges[e].port = outbox[k].port /\ Edges[e].to = i
                /\ CopyOf(q, Epoch_(k), outbox[k].payload, e, Effect(k), c)
                /\ q.after = steps[i]
  <2>1. PICK s \in Sent : Edges[s[2]].to = i /\ q = Queued(s[1], s[2], s[3])
    OBVIOUS
  <2>2. /\ s[1] \in DOMAIN outbox /\ s[2] \in DOMAIN Edges /\ s[3] \in DOMAIN Copies(Effect(s[1]))
        /\ Edges[s[2]].from = from /\ Edges[s[2]].port = outbox[s[1]].port
    OBVIOUS
  <2>3. q.port = Edges[s[2]].inPort /\ q.payload = Payload(s[1]) /\ q.after = steps[Edges[s[2]].to]
        /\ q.avail = Epoch_(s[1]) + Edges[s[2]].latency + Copies(Effect(s[1]))[s[3]]
    BY <2>1
  <2>4. CopyOf(q, Epoch_(s[1]), outbox[s[1]].payload, s[2], Effect(s[1]), s[3]) /\ q.after = steps[i]
    BY <2>1, <2>3 DEF CopyOf
  <2>. HIDE DEF Sent, New, Effect, Epoch_
  <2>. QED BY <2>1, <2>2, <2>4
<1>7. ASSUME NEW i \in Instance, NEW k \in DOMAIN outbox, NEW e \in DOMAIN Edges,
             Edges[e].from = from /\ Edges[e].port = outbox[k].port /\ Edges[e].to = i,
             NEW c \in DOMAIN Copies(Effect(k))
      PROVE  \E q \in New(i) : CopyOf(q, Epoch_(k), outbox[k].payload, e, Effect(k), c) /\ q.after = steps[i]
  <2>. DEFINE s == <<k, e, c>>
  <2>1. c \in {1, 2}
    BY <1>5
  <2>2. s \in (DOMAIN outbox) \X (DOMAIN Edges) \X {1, 2} /\ s[1] = k /\ s[2] = e /\ s[3] = c
    BY <2>1
  <2>. HIDE DEF s
  <2>3. s \in Sent
    BY <1>7, <2>2
  <2>4. Queued(s[1], s[2], s[3]) \in New(i)
    <3>. HIDE DEF Queued, Sent
    <3>. QED BY <1>7, <2>2, <2>3
  <2>5. CopyOf(Queued(k, e, c), Epoch_(k), outbox[k].payload, e, Effect(k), c) /\ Queued(k, e, c).after = steps[i]
    BY <1>7 DEF CopyOf
  <2>. HIDE DEF New, Queued
  <2>. QED BY <2>2, <2>4, <2>5
<1>. HIDE DEF New, Effect, Epoch_, Drawn
<1>8. \A i \in Instance : r.pending[i] \subseteq d.pending[i]
  BY <1>3
<1>9. \A i \in Instance : \A q \in d.pending[i] \ r.pending[i] : q \in New(i)
  BY <1>3
<1>10. \A i \in Instance : New(i) \subseteq d.pending[i]
  BY <1>3
<1>11. \A i \in Instance : \A k \in DOMAIN outbox : \A e \in DOMAIN Edges :
         Edges[e].from = from /\ Edges[e].port = outbox[k].port /\ Edges[e].to = i =>
           \A c \in DOMAIN Copies(Effect(k)) : \E q \in d.pending[i] :
             CopyOf(q, Epoch_(k), outbox[k].payload, e, Effect(k), c) /\ q.after = steps[i]
  BY <1>7, <1>10
<1>. QED BY <1>3, <1>4, <1>6, <1>8, <1>9, <1>11 DEF Effect, Epoch_, Drawn, Delivers
-----------------------------------------------------------------------------
(* The frames that a numbered command is to bring its target, if the n-th is dispatched: *)
(* the faults on the way draw on the commands before it, and on nothing else.            *)
Crossing(s, n, f) == f.from = s[n].from /\ f.port = "cmd_out" /\ InWindow(f, s[n].tai)
DrawnBy(s, n, f) == Cardinality({j \in 1 .. n : Dispatchable(s[j]) /\ Crossing(s, j, f)})
FaultOf(s, n) == EffectOf({f \in scenario.portFaults : Crossing(s, n, f) /\ DrawnBy(s, n, f) \in f.hits})
CommandFrame(s, i, n, a) ==
  /\ n \in DOMAIN s /\ Dispatchable(s[n]) /\ FaultOf(s, n).kind # "corrupt"
  /\ \E e \in DOMAIN Edges : \E c \in DOMAIN Copies(FaultOf(s, n)) :
       /\ Edges[e].from = s[n].from /\ Edges[e].port = "cmd_out"
       /\ Edges[e].to = i /\ Edges[e].inPort = "cmd"
       /\ a = s[n].tai + Edges[e].latency + Copies(FaultOf(s, n))[c]

LEMMA OrdersWired ==
  ASSUME Wired, scenario \in Scenarios, NEW s \in Orders, NEW n \in DOMAIN s
  PROVE  /\ n \in Nat /\ n >= 1 /\ s[n].from \in Instance /\ s[n].tai \in Int /\ s[n].target \in Consumer
         /\ \A e \in DOMAIN Edges :
              Edges[e].to \in Consumer /\ Edges[e].inPort = "cmd" /\ Edges[e].from = s[n].from
                => s[n].target = Edges[e].to
<1>1. /\ DOMAIN s = 1 .. Len(s) /\ Len(s) \in Nat /\ s[n] \in NumberedOrder
      /\ \E k \in Chosen : s[n] = OrderOf(k)
  BY OrdersFacts
<1>2. PICK k \in Chosen : s[n] = OrderOf(k)
  BY <1>1
<1>. DEFINE c == scenario.commands[k]
<1>3. s[n].from = c.from /\ s[n].target = c.target
  BY <1>2 DEF OrderOf, Order
<1>4. k \in DOMAIN scenario.commands /\ c.target \in Consumer
  <2>1. PollOutcome(k) = "Dispatch" /\ k \in DOMAIN scenario.commands
    BY DEF Chosen
  <2>2. Refusal(c) = "none"
    BY <2>1 DEF PollOutcome, Refusal
  <2>. QED BY <2>1, <2>2 DEF Refusal
<1>5. n \in Nat /\ n >= 1 /\ s[n].from \in Instance /\ s[n].tai \in Int
  BY <1>1 DEF NumberedOrder
<1>. HIDE DEF c
<1>6. \A e \in DOMAIN Edges :
        Edges[e].to \in Consumer /\ Edges[e].inPort = "cmd" /\ Edges[e].from = s[n].from
          => c.target = Edges[e].to
  BY <1>3, <1>4 DEF Wired, c
<1>. QED BY <1>3, <1>4, <1>5, <1>6

LEMMA OneDraw ==
  ASSUME NEW f, NEW from, NEW fallback, NEW x
  PROVE  DrawsUpTo(f, from, fallback, <<x>>, 1) = IF Meets(f, from, fallback, <<x>>, 1) THEN 1 ELSE 0
<1>. DEFINE S == {j \in 1 .. 1 : Meets(f, from, fallback, <<x>>, j)}
<1>1. \A j \in 1 .. 1 : j = 1
  OBVIOUS
<1>2. S = IF Meets(f, from, fallback, <<x>>, 1) THEN {1} ELSE {}
  <2>1. 1 \in 1 .. 1
    OBVIOUS
  <2>. QED BY <1>1, <2>1
<1>3. Cardinality({1}) = 1 /\ Cardinality({}) = 0
  BY FS_Singleton, FS_EmptySet
<1>. HIDE DEF S
<1>4. Cardinality(S) = IF Meets(f, from, fallback, <<x>>, 1) THEN 1 ELSE 0
  BY <1>2, <1>3
<1>. QED BY <1>4 DEF S, DrawsUpTo

LEMMA DrawnNext ==
  ASSUME NEW s, NEW f, NEW n \in Nat, n >= 1
  PROVE  /\ DrawnBy(s, n - 1, f) \in Nat /\ DrawnBy(s, 0, f) = 0
         /\ DrawnBy(s, n, f) = DrawnBy(s, n - 1, f) + (IF Dispatchable(s[n]) /\ Crossing(s, n, f) THEN 1 ELSE 0)
<1>. DEFINE S(m) == {j \in 1 .. m : Dispatchable(s[j]) /\ Crossing(s, j, f)}
<1>1. IsFiniteSet(S(n - 1))
  <2>1. 1 \in Int /\ n - 1 \in Int
    OBVIOUS
  <2>2. IsFiniteSet(1 .. n - 1)
    BY <2>1, FS_Interval
  <2>. QED BY <2>2, FS_Subset
<1>2. S(n) = IF Dispatchable(s[n]) /\ Crossing(s, n, f) THEN S(n - 1) \cup {n} ELSE S(n - 1)
  <2>1. 1 .. n = (1 .. n - 1) \cup {n}
    OBVIOUS
  <2>2. S(n) \subseteq S(n - 1) \cup {n} /\ S(n - 1) \subseteq S(n)
    BY <2>1
  <2>3. n \in S(n) <=> Dispatchable(s[n]) /\ Crossing(s, n, f)
    BY <2>1
  <2>. HIDE DEF S
  <2>. QED BY <2>2, <2>3
<1>3. n \notin S(n - 1)
  OBVIOUS
<1>4. S(0) = {}
  OBVIOUS
<1>. HIDE DEF S
<1>5. Cardinality(S(n - 1)) \in Nat /\ Cardinality(S(0)) = 0
  BY <1>1, <1>4, FS_CardinalityType, FS_EmptySet
<1>6. Cardinality(S(n - 1) \cup {n}) = Cardinality(S(n - 1)) + 1
  BY <1>1, <1>3, FS_AddElement
<1>7. Cardinality(S(n)) = Cardinality(S(n - 1)) + (IF Dispatchable(s[n]) /\ Crossing(s, n, f) THEN 1 ELSE 0)
  BY <1>2, <1>5, <1>6
<1>. QED BY <1>5, <1>7 DEF S, DrawnBy

LEMMA FrameFields ==
  ASSUME NEW p, NEW t, NEW v
  PROVE  Frame(p, t, v).port = p /\ Frame(p, t, v).tai = t /\ Frame(p, t, v).payload = v
BY DEF Frame

(* The frame is a copy of a message of the outbox, over a connection to the command port. *)
Brought(r, from, fallback, outbox, i, q) ==
  \E k \in DOMAIN outbox : \E e \in DOMAIN Edges : \E c \in DOMAIN Copies(EffectOn(r, from, fallback, outbox, k)) :
    /\ Edges[e].from = from /\ Edges[e].port = outbox[k].port /\ Edges[e].to = i
    /\ Edges[e].inPort = "cmd" /\ Edges[e].port = "cmd_out"
    /\ EffectOn(r, from, fallback, outbox, k).kind # "corrupt" /\ q.payload = outbox[k].payload
    /\ q.avail = Stamp(fallback, outbox, k) + Edges[e].latency + Copies(EffectOn(r, from, fallback, outbox, k))[c]

(* Nothing but a command comes to the command port of a consumer, whoever sends it. *)
LEMMA OnlyCommandsArrive ==
  ASSUME Wired, scenario \in Scenarios, NEW s \in Orders, NEW r, IsRouter(r), NEW from \in Instance, NEW fallback \in Int,
         NEW steps \in [Instance -> Nat], NEW outbox \in Outbox,
         \A k \in DOMAIN outbox : outbox[k].port = "cmd_out" =>
            outbox[k].payload \in DOMAIN s /\ Dispatchable(s[outbox[k].payload]) /\ s[outbox[k].payload].from = from,
         NEW d, d = Deliver(r, from, fallback, steps, outbox),
         NEW i \in Consumer, NEW q \in d.pending[i] \ r.pending[i],
         q.port = "cmd", q.payload \in DOMAIN s
  PROVE  /\ Dispatchable(s[q.payload]) /\ s[q.payload].target = i /\ q.after = steps[i]
         /\ Brought(r, from, fallback, outbox, i, q)
<1>. DEFINE Effect(k) == EffectOn(r, from, fallback, outbox, k)
<1>1. i \in Instance
  BY RunAssumption
<1>. HIDE DEF Effect
<1>01. Delivers(r, d, from, fallback, steps, outbox)
  BY DeliverExact
<1>2. \A j \in Instance : \A p \in d.pending[j] \ r.pending[j] :
        \E k \in DOMAIN outbox : \E e \in DOMAIN Edges : \E c \in DOMAIN Copies(Effect(k)) :
          /\ Edges[e].from = from /\ Edges[e].port = outbox[k].port /\ Edges[e].to = j
          /\ CopyOf(p, Stamp(fallback, outbox, k), outbox[k].payload, e, Effect(k), c)
          /\ p.after = steps[j]
  BY <1>01 DEF Effect, Delivers
<1>0. PICK k \in DOMAIN outbox : \E e \in DOMAIN Edges : \E c \in DOMAIN Copies(Effect(k)) :
        /\ Edges[e].from = from /\ Edges[e].port = outbox[k].port /\ Edges[e].to = i
        /\ CopyOf(q, Stamp(fallback, outbox, k), outbox[k].payload, e, Effect(k), c)
        /\ q.after = steps[i]
  BY <1>1, <1>2
<1>3. PICK e \in DOMAIN Edges, c \in DOMAIN Copies(Effect(k)) :
        /\ Edges[e].from = from /\ Edges[e].port = outbox[k].port /\ Edges[e].to = i
        /\ CopyOf(q, Stamp(fallback, outbox, k), outbox[k].payload, e, Effect(k), c)
        /\ q.after = steps[i]
  BY <1>0
<1>4. /\ Edges[e].inPort = "cmd" /\ q.avail = Stamp(fallback, outbox, k) + Edges[e].latency + Copies(Effect(k))[c]
      /\ q.payload = IF Effect(k).kind = "corrupt" THEN Corrupted ELSE outbox[k].payload
  BY <1>3 DEF CopyOf
<1>5. Corrupted \notin DOMAIN s
  <2>1. DOMAIN s = 1 .. Len(s)
    BY OrdersFacts
  <2>. QED BY <2>1 DEF Corrupted
<1>6. Effect(k).kind # "corrupt" /\ q.payload = outbox[k].payload
  BY <1>4, <1>5
<1>7. Edges[e].port = "cmd_out"
  BY <1>3, <1>4 DEF Wired
<1>8. Dispatchable(s[q.payload]) /\ s[q.payload].from = from
  BY <1>3, <1>6, <1>7
<1>9. s[q.payload].target = i
  BY <1>3, <1>4, <1>8, OrdersWired
<1>. QED BY <1>3, <1>4, <1>6, <1>7, <1>8, <1>9 DEF Effect, Brought

(* What the dispatch of one command queues, draws and logs. *)
LEMMA DispatchSends ==
  ASSUME Wired, scenario \in Scenarios, NEW s \in Orders, NEW n \in DOMAIN s, Dispatchable(s[n]),
         NEW r, IsRouter(r), r.faults = scenario.portFaults,
         \A f \in r.faults : r.drawn[f] = DrawnBy(s, n - 1, f),
         NEW d, d = Deliver(r, s[n].from, s[n].tai, [j \in Instance |-> 0], <<Frame("cmd_out", s[n].tai, n)>>)
  PROVE  /\ d.faults = r.faults /\ \A f \in r.faults : d.drawn[f] = DrawnBy(s, n, f)
         /\ \A i \in Instance : r.pending[i] \subseteq d.pending[i]
         /\ \A i \in Consumer : \A q \in d.pending[i] \ r.pending[i] : q.port = "cmd" /\ q.payload \in DOMAIN s =>
              q.payload = n /\ s[n].target = i /\ q.after = 0 /\ CommandFrame(s, i, n, q.avail)
         /\ \A i \in Consumer : \A a \in Int : CommandFrame(s, i, n, a) =>
              \E q \in d.pending[i] : q.port = "cmd" /\ q.payload = n /\ q.avail = a /\ q.after = 0
         /\ \A x \in d.traffic \ r.traffic : x.dir = "out" =>
              x.port = "cmd_out" /\ x.instance = s[n].from /\ x.payload = n
<1>. DEFINE from == s[n].from
            tai == s[n].tai
            x == Frame("cmd_out", tai, n)
            sent == <<x>>
            steps == [j \in Instance |-> 0]
<1>1. from \in Instance /\ tai \in Int /\ n \in Nat /\ n >= 1 /\ Consumer \subseteq Instance
  BY OrdersWired, RunAssumption
<1>2. x.port = "cmd_out" /\ x.tai = tai /\ x.payload = n /\ x \in PortFrame
  <2>1. "cmd_out" \in PortName /\ n \in Int
    BY <1>1 DEF PortName
  <2>. QED BY <1>1, <2>1 DEF Frame, PortFrame
<1>. HIDE DEF x
<1>3. sent \in Outbox /\ DOMAIN sent = {1} /\ sent[1] = x /\ Len(sent) = 1
  BY <1>2 DEF Outbox
<1>4. Stamp(tai, sent, 1) = tai
  BY <1>2, <1>3 DEF Stamp
<1>5. \A f : Meets(f, from, tai, sent, 1) <=> Crossing(s, n, f)
  BY <1>2, <1>3, <1>4 DEF Meets, Crossing
<1>6. \A f \in r.faults : r.drawn[f] + DrawsUpTo(f, from, tai, sent, 1) = DrawnBy(s, n, f)
  <2>. SUFFICES ASSUME NEW f \in r.faults
                PROVE  r.drawn[f] + DrawsUpTo(f, from, tai, sent, 1) = DrawnBy(s, n, f)
    OBVIOUS
  <2>1. DrawsUpTo(f, from, tai, sent, 1) = IF Crossing(s, n, f) THEN 1 ELSE 0
    BY <1>5, OneDraw
  <2>2. r.drawn[f] = DrawnBy(s, n - 1, f)
    OBVIOUS
  <2>3. DrawnBy(s, n, f) = DrawnBy(s, n - 1, f) + (IF Crossing(s, n, f) THEN 1 ELSE 0)
    BY <1>1, DrawnNext
  <2>. QED BY <2>1, <2>2, <2>3
<1>7. Struck(r, from, tai, sent, 1)
        = {f \in scenario.portFaults : Crossing(s, n, f) /\ DrawnBy(s, n, f) \in f.hits}
  <2>. HIDE DEF sent, from, tai
  <2>. QED BY <1>5, <1>6 DEF Struck
<1>8. EffectOn(r, from, tai, sent, 1) = FaultOf(s, n)
  BY <1>7 DEF FaultOf, EffectOn
<1>9. steps \in [Instance -> Nat] /\ \A i \in Instance : steps[i] = 0
  OBVIOUS
<1>0. d = Deliver(r, from, tai, steps, sent)
  BY DEF x
<1>. HIDE DEF sent, steps, from, tai
<1>01. Delivers(r, d, from, tai, steps, sent)
  BY <1>0, <1>1, <1>3, <1>9, DeliverExact
<1>10. /\ d.faults = r.faults
       /\ d.drawn = [f \in r.faults |-> r.drawn[f] + DrawsUpTo(f, from, tai, sent, Len(sent))]
       /\ \A i \in Instance : r.pending[i] \subseteq d.pending[i]
       /\ \A i \in Instance : \A k \in DOMAIN sent : \A e \in DOMAIN Edges :
            Edges[e].from = from /\ Edges[e].port = sent[k].port /\ Edges[e].to = i =>
              \A c \in DOMAIN Copies(EffectOn(r, from, tai, sent, k)) : \E q \in d.pending[i] :
                /\ CopyOf(q, Stamp(tai, sent, k), sent[k].payload, e, EffectOn(r, from, tai, sent, k), c)
                /\ q.after = steps[i]
       /\ \A y \in d.traffic \ r.traffic : y.dir = "out" =>
            \E k \in DOMAIN sent :
              /\ y.instance = from /\ y.port = sent[k].port /\ y.tai = Stamp(tai, sent, k)
              /\ y.payload = sent[k].payload
  BY <1>01 DEF Delivers
<1>11. \A f \in r.faults : d.drawn[f] = DrawnBy(s, n, f)
  BY <1>3, <1>6, <1>10
<1>12. \A y \in d.traffic \ r.traffic : y.dir = "out" => y.port = "cmd_out" /\ y.instance = from /\ y.payload = n
  <2>. QED BY <1>2, <1>3, <1>10
<1>13. \A k \in DOMAIN sent : sent[k].port = "cmd_out" =>
         sent[k].payload \in DOMAIN s /\ Dispatchable(s[sent[k].payload]) /\ s[sent[k].payload].from = from
  BY <1>2, <1>3 DEF from
<1>14. ASSUME NEW i \in Consumer, NEW q \in d.pending[i] \ r.pending[i], q.port = "cmd", q.payload \in DOMAIN s
       PROVE  q.payload = n /\ s[n].target = i /\ q.after = 0 /\ CommandFrame(s, i, n, q.avail)
  <2>1. /\ Dispatchable(s[q.payload]) /\ s[q.payload].target = i /\ q.after = steps[i]
        /\ Brought(r, from, tai, sent, i, q)
    BY <1>0, <1>1, <1>3, <1>9, <1>13, <1>14, OnlyCommandsArrive
  <2>2. PICK e \in DOMAIN Edges, c \in DOMAIN Copies(FaultOf(s, n)) :
          /\ Edges[e].from = from /\ Edges[e].to = i
          /\ Edges[e].inPort = "cmd" /\ Edges[e].port = "cmd_out"
          /\ FaultOf(s, n).kind # "corrupt" /\ q.payload = n
          /\ q.avail = tai + Edges[e].latency + Copies(FaultOf(s, n))[c]
    BY <1>2, <1>3, <1>4, <1>8, <2>1 DEF Brought
  <2>3. CommandFrame(s, i, n, q.avail)
    BY <2>2 DEF CommandFrame, from, tai
  <2>. QED BY <1>1, <1>9, <2>1, <2>2, <2>3
<1>15. ASSUME NEW i \in Consumer, NEW a \in Int, CommandFrame(s, i, n, a)
       PROVE  \E q \in d.pending[i] : q.port = "cmd" /\ q.payload = n /\ q.avail = a /\ q.after = 0
  <2>1. PICK e \in DOMAIN Edges, c \in DOMAIN Copies(FaultOf(s, n)) :
          /\ Edges[e].from = from /\ Edges[e].port = "cmd_out" /\ Edges[e].to = i /\ Edges[e].inPort = "cmd"
          /\ a = tai + Edges[e].latency + Copies(FaultOf(s, n))[c] /\ FaultOf(s, n).kind # "corrupt"
    BY <1>15 DEF CommandFrame, from, tai
  <2>2. i \in Instance /\ 1 \in DOMAIN sent /\ sent[1].port = "cmd_out" /\ sent[1].payload = n
    BY <1>1, <1>2, <1>3
  <2>3. PICK q \in d.pending[i] : CopyOf(q, tai, n, e, FaultOf(s, n), c) /\ q.after = steps[i]
    BY <1>4, <1>8, <1>10, <2>1, <2>2
  <2>. QED BY <1>9, <2>1, <2>2, <2>3 DEF CopyOf
<1>. QED BY <1>10, <1>11, <1>12, <1>14, <1>15 DEF from

(* An ack of the n-th command that instance i gives at its step at t: no earlier one of its *)
(* steps is at or after the instant at which a frame of the command is available to it.     *)
DueAt(s, i, n, t) ==
  /\ t \in Nat /\ StepEpoch(i, t)
  /\ \E a \in Int : /\ CommandFrame(s, i, n, a) /\ a <= t
                    /\ \A u \in Nat : StepEpoch(i, u) /\ a <= u => t <= u

CommandsOf(s, L) ==
  \A x \in L : x.dir = "out" /\ x.port = "cmd_out" =>
    x.payload \in DOMAIN s /\ Dispatchable(s[x.payload]) /\ s[x.payload].from = x.instance
AcksOf(s, L, S) ==
  \A x \in L : x.dir = "out" /\ x.port = "ack" /\ x.instance \in S => DueAt(s, x.instance, x.payload, x.tai)
SentNone(E) ==
  \A i \in Instance : \A k \in DOMAIN E[i] : \A n \in DOMAIN E[i][k] : E[i][k][n].port # "cmd_out"
IsCommand(q) == q.port = "cmd" /\ q.payload \in DOMAIN orders
Acking == IF Replaying THEN Replayed \cap Consumer ELSE Consumer

(* The commands on the way.  Till the dispatch is over the faults have drawn *)
(* on the commands alone; a command frame at a consumer is of one of its own *)
(* commands, and the frames its faults and connections leave a command are   *)
(* all there, queued or taken; nothing but the dispatch sends commands.      *)
Frames ==
  /\ phase = "poll" => router = NewRouter(scenario.portFaults)
  /\ router.faults = scenario.portFaults
  /\ phase # "poll" => orders \in Orders
  /\ phase = "dispatch" => \A f \in router.faults : router.drawn[f] = DrawnBy(orders, looped, f)
  /\ phase \notin {"poll", "dispatch"} => looped = Len(orders)
  /\ \A i \in Consumer : \A q \in Had(i) : IsCommand(q) =>
       /\ Dispatchable(orders[q.payload]) /\ orders[q.payload].target = i /\ q.payload <= looped
       /\ ~ Replaying => q.after = 0 /\ CommandFrame(orders, i, q.payload, q.avail)
  /\ \A i \in Consumer : \A n \in 1 .. looped : \A a \in Int : CommandFrame(orders, i, n, a) =>
       \E q \in Had(i) : q.port = "cmd" /\ q.payload = n /\ q.avail = a /\ q.after = 0
  /\ CommandsOf(orders, router.traffic)
  /\ ~ Replaying => SentNone(emitted)
  /\ Replaying => SentNone(original.emitted) /\ \A s \in Orders : CommandsOf(s, original.traffic)

(* An ack on record was sent at the step its command was due at.             *)
Acked ==
  /\ AcksOf(orders, router.traffic, Acking)
  /\ Replaying => \A s \in Orders : AcksOf(s, original.traffic, Consumer)

LEMMA HadIs == \A i : Had(i) = router.pending[i] \cup Took(taken[i])
BY DEF Had, Inboxes, Took

LEMMA PlaybackFrames ==
  ASSUME IInv, Replaying, NEW i \in Instance, NEW outbox \in Playback(i), NEW k \in DOMAIN outbox
  PROVE  \E x \in original.traffic :
           /\ x.instance = i /\ x.dir = "out"
           /\ outbox[k].port = x.port /\ outbox[k].tai = x.tai /\ outbox[k].payload = x.payload
<1>1. PICK f \in [1 .. Cardinality(Window(i)) -> Window(i)] :
        outbox = [n \in DOMAIN f |-> Frame(f[n].port, f[n].tai, f[n].payload)]
  BY DEF Playback, Sorted
<1>2. k \in DOMAIN f /\ outbox[k] = Frame(f[k].port, f[k].tai, f[k].payload)
  BY <1>1
<1>3. f[k] \in Window(i)
  <2>. HIDE DEF Window
  <2>. QED BY <1>1, <1>2
<1>4. f[k] \in original.traffic /\ f[k].instance = i /\ f[k].dir = "out"
  BY <1>3 DEF Window, Log
<1>. QED BY <1>2, <1>4, FrameFields

LEMMA OutboxFrames ==
  ASSUME NEW i \in Instance, NEW inbox, NEW outbox \in Outboxes(i, inbox), NEW k \in DOMAIN outbox
  PROVE  \/ outbox[k].port = "tlm"
         \/ i \in Consumer /\ \E n \in NewlyApplied(i, inbox) : outbox[k] = Frame("ack", due[i], n)
<1>1. CASE i \in Consumer
  <2>1. Telemetry(i, inbox).port = "tlm"
    BY FrameFields DEF Telemetry
  <2>2. \A ack \in Ack(i, inbox) : \E n \in NewlyApplied(i, inbox) : ack = Frame("ack", due[i], n)
    BY DEF Ack
  <2>3. outbox = <<Telemetry(i, inbox)>> \/ \E ack \in Ack(i, inbox) : outbox = <<Telemetry(i, inbox), ack>>
    BY <1>1 DEF Outboxes
  <2>4. CASE outbox = <<Telemetry(i, inbox)>>
    BY <2>1, <2>4
  <2>5. ASSUME NEW ack \in Ack(i, inbox), outbox = <<Telemetry(i, inbox), ack>>
        PROVE  outbox[k].port = "tlm" \/ \E n \in NewlyApplied(i, inbox) : outbox[k] = Frame("ack", due[i], n)
    <3>1. outbox[k] = Telemetry(i, inbox) \/ outbox[k] = ack
      <4>1. k = 1 \/ k = 2
        BY <2>5
      <4>. QED BY <2>5, <4>1
    <3>. QED BY <2>1, <2>2, <3>1
  <2>. QED BY <1>1, <2>3, <2>4, <2>5
<1>2. CASE i \notin Consumer
  <2>. DEFINE x == Frame("tlm", NoEpoch, 0)
              y == Frame("tlm", due[i] - 1, 0)
              z == Frame("tlm", due[i], 0)
  <2>1. x.port = "tlm" /\ y.port = "tlm" /\ z.port = "tlm"
    BY FrameFields
  <2>2. outbox \in {<< >>, <<x>>, <<y, z>>}
    BY <1>2 DEF Outboxes
  <2>. HIDE DEF x, y, z
  <2>3. CASE outbox = << >>
    BY <2>3
  <2>4. CASE outbox = <<x>>
    BY <2>1, <2>4
  <2>5. CASE outbox = <<y, z>>
    <3>1. k = 1 \/ k = 2
      BY <2>5
    <3>. QED BY <2>1, <2>5, <3>1
  <2>. QED BY <2>2, <2>3, <2>4, <2>5
<1>. QED BY <1>1, <1>2

(* Only a replay sends commands again, and only those that were sent. *)
LEMMA SendsCommands ==
  ASSUME IInv, Frames, orders \in Orders, NEW i \in Instance, NEW inbox, NEW outbox \in Sends(i, inbox),
         NEW k \in DOMAIN outbox, outbox[k].port = "cmd_out"
  PROVE  /\ Replaying /\ outbox[k].payload \in DOMAIN orders /\ Dispatchable(orders[outbox[k].payload])
         /\ orders[outbox[k].payload].from = i
<1>1. CASE ~ Live(i)
  <2>1. Replaying /\ outbox \in Playback(i)
    BY <1>1 DEF Live, Replayed, Sends
  <2>2. PICK x \in original.traffic :
           /\ x.instance = i /\ x.dir = "out"
           /\ outbox[k].port = x.port /\ outbox[k].tai = x.tai /\ outbox[k].payload = x.payload
    BY <2>1, PlaybackFrames
  <2>3. CommandsOf(orders, original.traffic)
    BY <2>1 DEF Frames
  <2>. QED BY <2>1, <2>2, <2>3 DEF CommandsOf
<1>2. CASE Live(i) /\ outbox \in Outboxes(i, inbox)
  <2>1. outbox[k].port = "tlm" \/ \E n \in NewlyApplied(i, inbox) : outbox[k] = Frame("ack", due[i], n)
    BY <1>2, OutboxFrames
  <2>. QED BY <2>1, FrameFields
<1>3. CASE Live(i) /\ outbox \notin Outboxes(i, inbox)
  <2>1. /\ Replaying /\ StepsTaken(i) < Len(original.emitted[i])
        /\ outbox = original.emitted[i][StepsTaken(i) + 1]
    BY <1>3 DEF Sends
  <2>2. original.emitted[i] \in Seq(Outbox) /\ emitted[i] \in Seq(Outbox) /\ SentNone(original.emitted)
    BY <2>1 DEF IInv, Recorded, Frames
  <2>3. StepsTaken(i) + 1 \in DOMAIN original.emitted[i]
    BY <2>1, <2>2 DEF StepsTaken
  <2>. QED BY <2>1, <2>2, <2>3 DEF SentNone
<1>. QED BY <1>1, <1>2, <1>3

(* A consumer acks a command at the first of its steps that a frame of it is available to. *)
LEMMA SendsAcks ==
  ASSUME IInv, Planned, Frames, Acked, phase = "advance", NEW i \in Acking, Eligible(i),
         NEW inbox, inbox = Ready(router, i, due[i]), NEW outbox \in Sends(i, inbox),
         NEW k \in DOMAIN outbox, outbox[k].port = "ack"
  PROVE  DueAt(orders, i, outbox[k].payload, Stamp(due[i], outbox, k))
<1>1. i \in Instance /\ i \in Consumer /\ orders \in Orders
  BY RunAssumption DEF Acking, Frames
<1>2. CASE Replaying
  <2>1. outbox \in Playback(i)
    BY <1>2 DEF Acking, Live, Sends
  <2>2. PICK x \in original.traffic :
           /\ x.instance = i /\ x.dir = "out"
           /\ outbox[k].port = x.port /\ outbox[k].tai = x.tai /\ outbox[k].payload = x.payload
    BY <1>1, <1>2, <2>1, PlaybackFrames
  <2>3. DueAt(orders, i, outbox[k].payload, outbox[k].tai)
    BY <1>1, <1>2, <2>2 DEF Acked, AcksOf
  <2>4. outbox[k].tai # NoEpoch
    BY <2>3 DEF DueAt, NoEpoch
  <2>. QED BY <2>3, <2>4 DEF Stamp
<1>3. CASE ~ Replaying
  <2>1. outbox \in Outboxes(i, inbox)
    BY <1>3 DEF Live, Replayed, Sends
  <2>2. PICK n \in NewlyApplied(i, inbox) : outbox[k] = Frame("ack", due[i], n)
    BY <1>1, <2>1, OutboxFrames
  <2>3. PICK q \in inbox : q.port = "cmd" /\ q.payload = n /\ n \in DOMAIN orders
    BY <2>2 DEF NewlyApplied, Commanded, LastCommand, OnCommandPort
  <2>4. /\ q \in router.pending[i] /\ q.avail <= due[i] /\ q \in Message
        /\ OnTime(router.pending[i], taken[i]) /\ taken[i] \in Seq(StepTaken) /\ due[i] \in Nat
    BY <1>1, <2>3 DEF Ready, IInv, Carried, IsRouter, Schedule
  <2>5. q.after = 0 /\ CommandFrame(orders, i, n, q.avail)
    <3>1. q \in Had(i)
      BY <2>4, HadIs
    <3>. QED BY <1>1, <1>3, <2>3, <3>1 DEF Frames, IsCommand
  <2>6. \A t \in Stepped(i) : t < q.avail
    BY <2>4, <2>5 DEF OnTime, Stepped
  <2>7. q.avail \in Int
    BY <2>4 DEF Message
  <2>8. StepEpoch(i, due[i]) /\ \A u \in Nat : StepEpoch(i, u) /\ u < due[i] => u \in Stepped(i)
    BY <1>1, SteppedUpToDue DEF IInv
  <2>9. \A u \in Nat : StepEpoch(i, u) /\ q.avail <= u => due[i] <= u
    BY <2>4, <2>6, <2>7, <2>8
  <2>10. DueAt(orders, i, n, due[i])
    BY <2>4, <2>5, <2>7, <2>8, <2>9 DEF DueAt
  <2>11. outbox[k].payload = n /\ Stamp(due[i], outbox, k) = due[i]
    BY <2>2, FrameFields DEF Stamp
  <2>. QED BY <2>10, <2>11
<1>. QED BY <1>2, <1>3

(* What a scenario settles does not change in a run.                         *)
LEMMA FrameStays ==
  ASSUME UNCHANGED scenario
  PROVE  /\ \A s, i, n, a : CommandFrame(s, i, n, a)' <=> CommandFrame(s, i, n, a)
         /\ \A s, i, n, t : DueAt(s, i, n, t)' <=> DueAt(s, i, n, t)
         /\ \A s, n, f : DrawnBy(s, n, f)' = DrawnBy(s, n, f)
         /\ Orders' = Orders
<1>1. \A s, n : FaultOf(s, n)' = FaultOf(s, n)
  BY DEF FaultOf, DrawnBy, Crossing
<1>2. \A s, i, n, a : CommandFrame(s, i, n, a)' <=> CommandFrame(s, i, n, a)
  BY <1>1 DEF CommandFrame
<1>3. \A i, t : StepEpoch(i, t)' <=> StepEpoch(i, t)
  BY DEF StepEpoch, StepIn, SpanStarts, Boundaries
<1>4. \A s, i, n, t : DueAt(s, i, n, t)' <=> DueAt(s, i, n, t)
  BY <1>2, <1>3 DEF DueAt
<1>5. Orders' = Orders
  <2>1. Chosen' = Chosen
    BY DEF Chosen, PollOutcome, Duplicate
  <2>. QED BY <2>1 DEF Orders, Numbered, Sorted, CommandKey
<1>. QED BY <1>2, <1>4, <1>5 DEF DrawnBy

(* Between the steps nothing is sent or taken. *)
LEMMA FramesStay ==
  ASSUME IInv, Frames, Acked, UNCHANGED <<scenario, orders, looped, taken, emitted, original>>,
         router' = router \/ router' = BeginStep(router),
         phase \notin {"poll", "dispatch"}, phase' \notin {"poll", "dispatch"}
  PROVE  Frames' /\ Acked'
<1>1. router'.pending = router.pending /\ router'.traffic = router.traffic /\ router'.faults = router.faults
  <2>1. IsRouter(router)
    BY DEF IInv, Carried
  <2>2. BeginStep(router).faults = router.faults
    BY <2>1 DEF BeginStep, IsRouter
  <2>. QED BY <2>1, <2>2, BeginStepKeeps
<1>2. \A i : Had(i)' = Had(i)
  BY <1>1 DEF Had, Inboxes
<1>3. Replaying' = Replaying /\ Acking' = Acking
  BY DEF Acking, Replayed, Replaying
<1>4. /\ \A s, i, n, a : CommandFrame(s, i, n, a)' <=> CommandFrame(s, i, n, a)
      /\ \A s, i, n, t : DueAt(s, i, n, t)' <=> DueAt(s, i, n, t)
      /\ Orders' = Orders
  BY FrameStays
<1>5. /\ \A i \in Consumer : \A q \in Had(i) : IsCommand(q) =>
           /\ Dispatchable(orders[q.payload]) /\ orders[q.payload].target = i /\ q.payload <= looped
           /\ ~ Replaying => q.after = 0 /\ CommandFrame(orders, i, q.payload, q.avail)
      /\ \A i \in Consumer : \A n \in 1 .. looped : \A a \in Int : CommandFrame(orders, i, n, a) =>
           \E q \in Had(i) : q.port = "cmd" /\ q.payload = n /\ q.avail = a /\ q.after = 0
  BY DEF Frames
<1>6. (\A i \in Consumer : \A q \in Had(i) : IsCommand(q) =>
           /\ Dispatchable(orders[q.payload]) /\ orders[q.payload].target = i /\ q.payload <= looped
           /\ ~ Replaying => q.after = 0 /\ CommandFrame(orders, i, q.payload, q.avail))'
  BY <1>2, <1>3, <1>4, <1>5 DEF IsCommand
<1>7. (\A i \in Consumer : \A n \in 1 .. looped : \A a \in Int : CommandFrame(orders, i, n, a) =>
           \E q \in Had(i) : q.port = "cmd" /\ q.payload = n /\ q.avail = a /\ q.after = 0)'
  BY <1>2, <1>4, <1>5
<1>8. CommandsOf(orders, router.traffic)' /\ \A s : CommandsOf(s, original.traffic)' <=> CommandsOf(s, original.traffic)
  BY <1>1 DEF CommandsOf, Frames
<1>9. Frames'
  BY <1>1, <1>3, <1>4, <1>6, <1>7, <1>8 DEF Frames, SentNone
<1>10. Acked'
  BY <1>1, <1>3, <1>4 DEF Acked, AcksOf
<1>. QED BY <1>9, <1>10

LEMMA FramesAtStart ==
  ASSUME scenario \in Scenarios, phase = "poll", router = NewRouter(scenario.portFaults), looped = 0,
         taken = [i \in Instance |-> << >>], emitted = [i \in Instance |-> << >>], ~ Replaying
  PROVE  Frames /\ Acked
<1>1. router.traffic = {} /\ router.faults = scenario.portFaults /\ \A i \in Instance : router.pending[i] = {}
  BY DEF NewRouter
<1>2. Consumer \subseteq Instance
  BY RunAssumption
<1>3. \A i \in Instance : Had(i) = {}
  BY <1>1, HadIs DEF Took
<1>4. SentNone(emitted)
  BY DEF SentNone
<1>5. CommandsOf(orders, router.traffic) /\ AcksOf(orders, router.traffic, Acking)
  BY <1>1 DEF CommandsOf, AcksOf
<1>6. 1 .. 0 = {}
  OBVIOUS
<1>. QED BY <1>1, <1>2, <1>3, <1>4, <1>5, <1>6 DEF Frames, Acked

LEMMA FramesPrepared ==
  ASSUME IInv, Frames, Acked, PrepareCommands
  PROVE  Frames' /\ Acked'
<1>1. /\ phase = "poll" /\ orders' \in Orders /\ looped = 0 /\ router = NewRouter(scenario.portFaults)
      /\ UNCHANGED <<scenario, router, looped, taken, emitted, original>>
      /\ phase' = IF orders' = << >> THEN "boundary" ELSE "dispatch"
      /\ \A i \in Instance : taken[i] = << >>
  BY DEF PrepareCommands, history, IInv, Commands, Frames
<1>2. /\ router.traffic = {} /\ router.faults = scenario.portFaults /\ \A i \in Instance : router.pending[i] = {}
      /\ \A f \in router.faults : router.drawn[f] = 0
  BY <1>1 DEF NewRouter
<1>3. Consumer \subseteq Instance
  BY RunAssumption
<1>4. \A i \in Instance : Had(i)' = {}
  <2>1. \A i \in Instance : Had(i) = {}
    BY <1>1, <1>2, HadIs DEF Took
  <2>2. \A i : Had(i)' = Had(i)
    BY <1>1 DEF Had, Inboxes
  <2>. QED BY <2>1, <2>2
<1>5. /\ Orders' = Orders /\ \A s, n, f : DrawnBy(s, n, f)' = DrawnBy(s, n, f)
      /\ \A s, i, n, t : DueAt(s, i, n, t)' <=> DueAt(s, i, n, t)
  BY <1>1, FrameStays
<1>6. CommandsOf(orders, router.traffic)' /\ \A s : CommandsOf(s, original.traffic)' <=> CommandsOf(s, original.traffic)
  BY <1>1, <1>2 DEF CommandsOf
<1>7. AcksOf(orders, router.traffic, Acking)' /\ \A s : AcksOf(s, original.traffic, Consumer)' <=> AcksOf(s, original.traffic, Consumer)
  BY <1>1, <1>2, <1>5 DEF AcksOf
<1>8. Replaying' = Replaying /\ (~ Replaying => SentNone(emitted)') /\ (Replaying => SentNone(original.emitted)')
  BY <1>1 DEF Replaying, Frames, SentNone
<1>9. (phase = "dispatch" => \A f \in router.faults : router.drawn[f] = DrawnBy(orders, looped, f))'
  <2>1. 1 \in Nat /\ \A s, f : DrawnBy(s, 0, f) = 0
    BY DrawnNext
  <2>2. \A f : DrawnBy(orders', looped', f) = 0
    BY <1>1, <2>1
  <2>3. \A f \in router'.faults : router'.drawn[f] = DrawnBy(orders', looped', f)
    BY <1>1, <1>2, <2>2
  <2>. QED BY <2>3 DEF DrawnBy, Crossing
<1>10. phase' # "poll" /\ (phase' # "dispatch" => looped' = Len(orders'))
  BY <1>1
<1>11. 1 .. looped' = {} /\ router'.faults = scenario'.portFaults
  BY <1>1, <1>2
<1>12. Frames'
  <2>1. (\A i \in Consumer : \A q \in Had(i) : IsCommand(q) =>
           /\ Dispatchable(orders[q.payload]) /\ orders[q.payload].target = i /\ q.payload <= looped
           /\ ~ Replaying => q.after = 0 /\ CommandFrame(orders, i, q.payload, q.avail))'
    BY <1>3, <1>4
  <2>2. (\A i \in Consumer : \A n \in 1 .. looped : \A a \in Int : CommandFrame(orders, i, n, a) =>
           \E q \in Had(i) : q.port = "cmd" /\ q.payload = n /\ q.avail = a /\ q.after = 0)'
    BY <1>11
  <2>3. Replaying => \A s \in Orders : CommandsOf(s, original.traffic)
    BY DEF Frames
  <2>4. (phase # "poll" => orders \in Orders)'
    BY <1>1, <1>5
  <2>5. (Replaying => SentNone(original.emitted) /\ \A s \in Orders : CommandsOf(s, original.traffic))'
    BY <1>5, <1>6, <1>8, <2>3
  <2>. QED BY <1>6, <1>8, <1>9, <1>10, <1>11, <2>1, <2>2, <2>4, <2>5 DEF Frames
<1>13. Acked'
  BY <1>5, <1>7, <1>8 DEF Acked
<1>. QED BY <1>12, <1>13

(* One command is dispatched, or the run is replayed.                        *)
LEMMA FramesDispatched ==
  ASSUME Wired, IInv, Frames, Acked, DispatchNext
  PROVE  Frames' /\ Acked'
<1>. DEFINE n == looped'
            c == orders[n]
<1>1. /\ phase = "dispatch" /\ n = looped + 1 /\ orders \in Orders /\ scenario \in Scenarios
      /\ UNCHANGED <<scenario, orders, taken, emitted, original>>
      /\ phase' = IF n = Len(orders) THEN "boundary" ELSE "dispatch"
      /\ IsRouter(router) /\ router.faults = scenario.portFaults
  BY DEF DispatchNext, history, IInv, SpanLoop, Carried, Frames
<1>2. n \in DOMAIN orders /\ n \in Nat /\ n >= 1 /\ looped = n - 1 /\ looped \in Nat
  BY <1>1 DEF IInv, Commands
<1>3. \A f \in router.faults : router.drawn[f] = DrawnBy(orders, n - 1, f)
  BY <1>1, <1>2 DEF Frames
<1>4. /\ IF Dispatchable(c)
         THEN router' = Deliver(router, c.from, c.tai, [j \in Instance |-> 0], <<Frame("cmd_out", c.tai, n)>>)
         ELSE router' = router
  BY DEF DispatchNext
<1>. HIDE DEF n
<1>5. /\ router'.faults = router.faults /\ \A f \in router.faults : router'.drawn[f] = DrawnBy(orders, n, f)
      /\ \A i \in Consumer : router.pending[i] \subseteq router'.pending[i]
      /\ \A i \in Consumer : \A q \in router'.pending[i] \ router.pending[i] : q.port = "cmd" /\ q.payload \in DOMAIN orders =>
           q.payload = n /\ Dispatchable(c) /\ c.target = i /\ q.after = 0 /\ CommandFrame(orders, i, n, q.avail)
      /\ \A i \in Consumer : \A a \in Int : CommandFrame(orders, i, n, a) =>
           \E q \in router'.pending[i] : q.port = "cmd" /\ q.payload = n /\ q.avail = a /\ q.after = 0
      /\ \A x \in router'.traffic \ router.traffic : x.dir = "out" =>
           Dispatchable(c) /\ x.port = "cmd_out" /\ x.instance = c.from /\ x.payload = n
  <2>1. CASE Dispatchable(c)
    <3>1. router' = Deliver(router, orders[n].from, orders[n].tai, [j \in Instance |-> 0],
                            <<Frame("cmd_out", orders[n].tai, n)>>)
      BY <1>4, <2>1
    <3>2. Consumer \subseteq Instance
      BY RunAssumption
    <3>. QED BY <1>1, <1>2, <1>3, <2>1, <3>1, <3>2, DispatchSends
  <2>2. CASE ~ Dispatchable(c)
    <3>1. router' = router
      BY <1>4, <2>2
    <3>2. \A f : DrawnBy(orders, n, f) = DrawnBy(orders, n - 1, f) + 0 /\ DrawnBy(orders, n - 1, f) \in Nat
      BY <1>2, <2>2, DrawnNext
    <3>3. \A f \in router.faults : router.drawn[f] = DrawnBy(orders, n, f)
      BY <1>3, <3>2
    <3>4. \A i, a : ~ CommandFrame(orders, i, n, a)
      BY <2>2 DEF CommandFrame
    <3>. QED BY <3>1, <3>3, <3>4
  <2>. QED BY <2>1, <2>2
<1>. HIDE DEF c
<1>6. /\ \A s, i, m, a : CommandFrame(s, i, m, a)' <=> CommandFrame(s, i, m, a)
      /\ \A s, i, m, t : DueAt(s, i, m, t)' <=> DueAt(s, i, m, t)
      /\ Orders' = Orders
  BY <1>1, FrameStays
<1>7. \A i \in Consumer : \A q : q \in Had(i)' <=> q \in Had(i) \/ q \in router'.pending[i] \ router.pending[i]
  <2>1. \A i : Had(i)' = router'.pending[i] \cup Took(taken[i])
    BY <1>1 DEF Had, Inboxes, Took
  <2>. QED BY <1>5, <2>1, HadIs
<1>8. Replaying' = Replaying /\ Acking' = Acking
  BY <1>1 DEF Acking, Replayed, Replaying
<1>9. (\A i \in Consumer : \A q \in Had(i) : IsCommand(q) =>
           /\ Dispatchable(orders[q.payload]) /\ orders[q.payload].target = i /\ q.payload <= looped
           /\ ~ Replaying => q.after = 0 /\ CommandFrame(orders, i, q.payload, q.avail))'
  <2>. SUFFICES ASSUME NEW i \in Consumer, NEW q, q \in Had(i)', q.port = "cmd", q.payload \in DOMAIN orders
                PROVE  /\ Dispatchable(orders[q.payload]) /\ orders[q.payload].target = i /\ q.payload <= n
                       /\ ~ Replaying => q.after = 0 /\ CommandFrame(orders, i, q.payload, q.avail)
    BY <1>1, <1>6, <1>8 DEF IsCommand, n
  <2>1. CASE q \in Had(i)
    <3>1. /\ Dispatchable(orders[q.payload]) /\ orders[q.payload].target = i /\ q.payload <= looped
          /\ ~ Replaying => q.after = 0 /\ CommandFrame(orders, i, q.payload, q.avail)
      BY <2>1 DEF Frames, IsCommand
    <3>2. q.payload \in Nat
      <4>1. DOMAIN orders = 1 .. Len(orders)
        BY <1>1, OrdersFacts
      <4>. QED BY <4>1
    <3>. QED BY <1>2, <3>1, <3>2
  <2>2. CASE q \in router'.pending[i] \ router.pending[i]
    BY <1>2, <1>5, <2>2 DEF c
  <2>. QED BY <1>7, <2>1, <2>2
<1>10. (\A i \in Consumer : \A m \in 1 .. looped : \A a \in Int : CommandFrame(orders, i, m, a) =>
           \E q \in Had(i) : q.port = "cmd" /\ q.payload = m /\ q.avail = a /\ q.after = 0)'
  <2>. SUFFICES ASSUME NEW i \in Consumer, NEW m \in 1 .. n, NEW a \in Int, CommandFrame(orders, i, m, a)
                PROVE  \E q \in Had(i)' : q.port = "cmd" /\ q.payload = m /\ q.avail = a /\ q.after = 0
    BY <1>1, <1>6 DEF n
  <2>1. CASE m = n
    <3>1. PICK q \in router'.pending[i] : q.port = "cmd" /\ q.payload = m /\ q.avail = a /\ q.after = 0
      BY <1>5, <2>1
    <3>2. q \in router.pending[i] => q \in Had(i)
      BY HadIs
    <3>. QED BY <1>7, <3>1, <3>2
  <2>2. CASE m # n
    <3>1. m \in 1 .. looped
      BY <1>2, <2>2
    <3>. QED BY <1>7, <3>1 DEF Frames
  <2>. QED BY <2>1, <2>2
<1>11. CommandsOf(orders, router.traffic)'
  <2>1. \A x \in router'.traffic : x.dir = "out" /\ x.port = "cmd_out" =>
          x.payload \in DOMAIN orders /\ Dispatchable(orders[x.payload]) /\ orders[x.payload].from = x.instance
    BY <1>2, <1>5 DEF Frames, CommandsOf, c
  <2>. QED BY <1>1, <2>1 DEF CommandsOf
<1>12. AcksOf(orders, router.traffic, Acking)'
  <2>1. \A x \in router'.traffic : x.dir = "out" /\ x.port = "ack" /\ x.instance \in Acking =>
          DueAt(orders, x.instance, x.payload, x.tai)
    BY <1>5 DEF Acked, AcksOf
  <2>. QED BY <1>1, <1>6, <1>8, <2>1 DEF AcksOf
<1>13. (Replaying => SentNone(original.emitted) /\ \A s \in Orders : CommandsOf(s, original.traffic))'
       /\ (~ Replaying => SentNone(emitted))'
  BY <1>1, <1>6, <1>8 DEF Frames, SentNone, CommandsOf
<1>14. (Replaying => \A s \in Orders : AcksOf(s, original.traffic, Consumer))'
  BY <1>1, <1>6, <1>8 DEF Acked, AcksOf
<1>15. (phase = "dispatch" => \A f \in router.faults : router.drawn[f] = DrawnBy(orders, looped, f))'
  <2>1. \A f \in router'.faults : router'.drawn[f] = DrawnBy(orders', looped', f)
    BY <1>1, <1>5 DEF n
  <2>. QED BY <2>1 DEF DrawnBy, Crossing
<1>16. /\ phase' # "poll" /\ (phase' # "dispatch" => looped' = Len(orders')) /\ router'.faults = scenario'.portFaults
       /\ (phase # "poll" => orders \in Orders)'
  BY <1>1, <1>5, <1>6 DEF n
<1>17. Frames'
  BY <1>9, <1>10, <1>11, <1>13, <1>15, <1>16 DEF Frames
<1>18. Acked'
  BY <1>12, <1>14 DEF Acked
<1>. QED BY <1>17, <1>18

LEMMA FramesReplayed ==
  ASSUME IInv, Frames, Acked, StartReplay
  PROVE  Frames' /\ Acked'
<1>1. /\ phase = "done" /\ ~ Replaying /\ scenario \in Scenarios /\ scenario' = scenario /\ orders \in Orders
      /\ original' = [traffic |-> router.traffic, taken |-> taken, emitted |-> emitted, reports |-> reports]
      /\ phase' = "poll" /\ router' = NewRouter(scenario.portFaults) /\ looped' = 0 /\ orders' = << >>
      /\ taken' = [i \in Instance |-> << >>] /\ emitted' = [i \in Instance |-> << >>]
  BY DEF StartReplay, Fresh, IInv, SpanLoop, Frames
<1>2. original'.traffic = router.traffic /\ original'.emitted = emitted /\ Replaying'
  BY <1>1 DEF Replaying
<1>3. /\ Orders' = Orders /\ \A s \in Orders : s = orders
      /\ \A s, i, n, t : DueAt(s, i, n, t)' <=> DueAt(s, i, n, t)
  BY <1>1, FrameStays, OrdersUnique
<1>4. /\ router'.traffic = {} /\ router'.faults = scenario'.portFaults
      /\ \A i \in Instance : router'.pending[i] = {}
  BY <1>1 DEF NewRouter
<1>5. Consumer \subseteq Instance
  BY RunAssumption
<1>6. \A i \in Instance : Had(i)' = {}
  BY <1>1, <1>4 DEF Had, Inboxes
<1>7. CommandsOf(orders, router.traffic)' /\ AcksOf(orders, router.traffic, Acking)'
  BY <1>4 DEF CommandsOf, AcksOf
<1>8. SentNone(original.emitted)' /\ (\A s \in Orders : CommandsOf(s, original.traffic))'
  BY <1>1, <1>2, <1>3 DEF Frames, SentNone, CommandsOf
<1>9. (\A s \in Orders : AcksOf(s, original.traffic, Consumer))'
  <2>1. AcksOf(orders, router.traffic, Consumer)
    BY <1>1 DEF Acked, Acking
  <2>. QED BY <1>2, <1>3, <2>1 DEF AcksOf
<1>10. 1 .. looped' = {}
  BY <1>1
<1>11. Frames'
  BY <1>1, <1>2, <1>4, <1>5, <1>6, <1>7, <1>8, <1>10 DEF Frames
<1>. QED BY <1>7, <1>9, <1>11 DEF Acked

(* An instance steps: it takes what is due, and sends no new command.        *)
LEMMA FramesStepped ==
  ASSUME Wired, IInv, Planned, Frames, Acked, NEW i \in Instance, Step(i)
  PROVE  Frames' /\ Acked'
<1>. DEFINE inbox == Ready(router, i, due[i])
            T == TakeInbox(router, i, due[i])
            s == [at |-> due[i], inbox |-> inbox]
            steps == [j \in Instance |-> Len(taken'[j])]
<1>1. PICK outbox \in Sends(i, inbox) :
        taken' = [taken EXCEPT ![i] = Append(@, s)] /\ router' = Deliver(T, i, due[i], steps, outbox)
        /\ emitted' = [emitted EXCEPT ![i] = Append(@, outbox)]
  BY DEF Step
<1>2. /\ UNCHANGED <<scenario, phase, orders, looped, original>> /\ phase = "advance" /\ Eligible(i)
      /\ scenario \in Scenarios /\ orders \in Orders /\ IsRouter(router) /\ due[i] \in Nat
      /\ taken \in [Instance -> Seq(StepTaken)] /\ emitted \in [Instance -> Seq(Outbox)]
  BY DEF Step, Turn, progress, IInv, SpanLoop, Carried, Schedule, Recorded, Frames
<1>3. /\ IsRouter(T) /\ T.traffic = router.traffic /\ T.faults = router.faults
      /\ T.pending = [router.pending EXCEPT ![i] = {q \in @ : q.avail > due[i]}]
      /\ router.pending[i] = T.pending[i] \cup inbox
  <2>1. due[i] \in Int
    BY <1>2
  <2>2. T.faults = router.faults
    BY <1>2 DEF TakeInbox, IsRouter
  <2>3. /\ IsRouter(T) /\ T.traffic = router.traffic
        /\ T.pending = [router.pending EXCEPT ![i] = {q \in @ : q.avail > due[i]}]
        /\ router.pending[i] = T.pending[i] \cup inbox
    BY <1>2, <2>1, TakeInboxKeeps
  <2>. HIDE DEF T, inbox
  <2>. QED BY <2>2, <2>3
<1>4. \A j \in Instance \ {i} : T.pending[j] = router.pending[j]
  BY <1>2, <1>3 DEF IsRouter
<1>5. outbox \in Outbox
  <2>. HIDE DEF inbox
  <2>. QED BY SendsTyped
<1>6. \A k \in DOMAIN outbox : outbox[k].port = "cmd_out" =>
        /\ Replaying /\ outbox[k].payload \in DOMAIN orders /\ Dispatchable(orders[outbox[k].payload])
        /\ orders[outbox[k].payload].from = i
  <2>. HIDE DEF inbox
  <2>. QED BY <1>2, SendsCommands
<1>7. i \in Acking => \A k \in DOMAIN outbox : outbox[k].port = "ack" =>
        DueAt(orders, i, outbox[k].payload, Stamp(due[i], outbox, k))
  BY <1>2, SendsAcks
<1>8. Took(taken'[i]) = Took(taken[i]) \cup inbox /\ \A j \in Instance \ {i} : taken'[j] = taken[j]
  <2>1. s.inbox = inbox
    OBVIOUS
  <2>2. taken[i] \in Seq(StepTaken)
    BY <1>2
  <2>. HIDE DEF s, inbox
  <2>3. taken'[i] = Append(taken[i], s) /\ \A j \in Instance \ {i} : taken'[j] = taken[j]
    BY <1>1, <1>2
  <2>4. /\ DOMAIN taken'[i] = 1 .. Len(taken[i]) + 1 /\ DOMAIN taken[i] = 1 .. Len(taken[i]) /\ Len(taken[i]) \in Nat
        /\ taken'[i][Len(taken[i]) + 1] = s /\ \A k \in 1 .. Len(taken[i]) : taken'[i][k] = taken[i][k]
    BY <2>2, <2>3
  <2>5. \A k : k \in DOMAIN taken'[i] <=> k \in DOMAIN taken[i] \/ k = Len(taken[i]) + 1
    BY <2>4
  <2>. QED BY <2>1, <2>3, <2>4, <2>5 DEF Took
<1>9. steps \in [Instance -> Nat]
  <2>1. \A j \in Instance : Len(taken'[j]) \in Nat
    <3>1. taken' \in [Instance -> Seq(StepTaken)]
      BY CarriedStep DEF Carried, Next
    <3>. QED BY <3>1
  <2>. QED BY <2>1
<1>. HIDE DEF inbox, T, s, steps
<1>10. Delivers(T, router', i, due[i], steps, outbox)
  <2>1. due[i] \in Int
    BY <1>2
  <2>. QED BY <1>1, <1>3, <1>5, <1>9, <2>1, DeliverExact
<1>11. router'.faults = router.faults /\ \A j \in Instance : T.pending[j] \subseteq router'.pending[j]
  BY <1>3, <1>10 DEF Delivers
<1>12. \A j \in Consumer : \A q : q \in Had(j)' <=> q \in Had(j) \/ q \in router'.pending[j] \ T.pending[j]
  <2>. SUFFICES ASSUME NEW j \in Consumer, NEW q
                PROVE  q \in Had(j)' <=> q \in Had(j) \/ q \in router'.pending[j] \ T.pending[j]
    OBVIOUS
  <2>1. Had(j)' = router'.pending[j] \cup Took(taken'[j]) /\ Had(j) = router.pending[j] \cup Took(taken[j])
    BY DEF Had, Inboxes, Took
  <2>2. j \in Instance
    BY RunAssumption
  <2>3. CASE j = i
    BY <1>3, <1>8, <1>11, <2>1, <2>2, <2>3
  <2>4. CASE j # i
    BY <1>4, <1>8, <1>11, <2>1, <2>2, <2>4
  <2>. QED BY <2>3, <2>4
<1>13. ASSUME NEW j \in Consumer, NEW q \in router'.pending[j] \ T.pending[j], q.port = "cmd", q.payload \in DOMAIN orders
       PROVE  Dispatchable(orders[q.payload]) /\ orders[q.payload].target = j /\ Replaying
  <2>1. \A k \in DOMAIN outbox : outbox[k].port = "cmd_out" =>
          outbox[k].payload \in DOMAIN orders /\ Dispatchable(orders[outbox[k].payload])
          /\ orders[outbox[k].payload].from = i
    BY <1>6
  <2>2. due[i] \in Int
    BY <1>2
  <2>3. /\ Dispatchable(orders[q.payload]) /\ orders[q.payload].target = j /\ q.after = steps[j]
        /\ Brought(T, i, due[i], outbox, j, q)
    BY <1>1, <1>2, <1>3, <1>5, <1>9, <1>13, <2>1, <2>2, OnlyCommandsArrive
  <2>. QED BY <1>6, <2>3 DEF Brought
<1>14. /\ \A r, j, m, a : CommandFrame(r, j, m, a)' <=> CommandFrame(r, j, m, a)
       /\ \A r, j, m, t : DueAt(r, j, m, t)' <=> DueAt(r, j, m, t)
       /\ Orders' = Orders
  BY <1>2, FrameStays
<1>15. Replaying' = Replaying /\ Acking' = Acking
  BY <1>2 DEF Acking, Replayed, Replaying
<1>16. (\A j \in Consumer : \A q \in Had(j) : IsCommand(q) =>
           /\ Dispatchable(orders[q.payload]) /\ orders[q.payload].target = j /\ q.payload <= looped
           /\ ~ Replaying => q.after = 0 /\ CommandFrame(orders, j, q.payload, q.avail))'
  <2>. SUFFICES ASSUME NEW j \in Consumer, NEW q, q \in Had(j)', q.port = "cmd", q.payload \in DOMAIN orders
                PROVE  /\ Dispatchable(orders[q.payload]) /\ orders[q.payload].target = j /\ q.payload <= looped
                       /\ ~ Replaying => q.after = 0 /\ CommandFrame(orders, j, q.payload, q.avail)
    BY <1>2, <1>14, <1>15 DEF IsCommand
  <2>1. CASE q \in Had(j)
    BY <2>1 DEF Frames, IsCommand
  <2>2. CASE q \in router'.pending[j] \ T.pending[j]
    <3>1. q.payload <= looped
      <4>1. DOMAIN orders = 1 .. Len(orders) /\ looped = Len(orders)
        BY <1>2, OrdersFacts DEF Frames
      <4>. QED BY <4>1
    <3>. QED BY <1>13, <2>2, <3>1
  <2>. QED BY <1>12, <2>1, <2>2
<1>17. (\A j \in Consumer : \A m \in 1 .. looped : \A a \in Int : CommandFrame(orders, j, m, a) =>
           \E q \in Had(j) : q.port = "cmd" /\ q.payload = m /\ q.avail = a /\ q.after = 0)'
  <2>. SUFFICES ASSUME NEW j \in Consumer, NEW m \in 1 .. looped, NEW a \in Int, CommandFrame(orders, j, m, a)
                PROVE  \E q \in Had(j)' : q.port = "cmd" /\ q.payload = m /\ q.avail = a /\ q.after = 0
    BY <1>2, <1>14
  <2>. QED BY <1>12 DEF Frames
<1>18. \A x \in router'.traffic \ router.traffic : x.dir = "out" =>
         \E k \in DOMAIN outbox : /\ x.instance = i /\ x.port = outbox[k].port /\ x.tai = Stamp(due[i], outbox, k)
                                  /\ x.payload = outbox[k].payload
  BY <1>3, <1>10 DEF Delivers
<1>19. CommandsOf(orders, router.traffic)'
  <2>1. \A x \in router'.traffic : x.dir = "out" /\ x.port = "cmd_out" =>
          x.payload \in DOMAIN orders /\ Dispatchable(orders[x.payload]) /\ orders[x.payload].from = x.instance
    BY <1>6, <1>18 DEF Frames, CommandsOf
  <2>. QED BY <1>2, <2>1 DEF CommandsOf
<1>20. AcksOf(orders, router.traffic, Acking)'
  <2>1. \A x \in router'.traffic : x.dir = "out" /\ x.port = "ack" /\ x.instance \in Acking =>
          DueAt(orders, x.instance, x.payload, x.tai)
    BY <1>7, <1>18 DEF Acked, AcksOf
  <2>. QED BY <1>2, <1>14, <1>15, <2>1 DEF AcksOf
<1>21. (~ Replaying => SentNone(emitted))'
  <2>. SUFFICES ASSUME ~ Replaying, NEW j \in Instance, NEW k \in DOMAIN emitted'[j], NEW m \in DOMAIN emitted'[j][k]
                PROVE  emitted'[j][k][m].port # "cmd_out"
    BY <1>15 DEF SentNone
  <2>1. SentNone(emitted)
    BY DEF Frames
  <2>2. CASE j = i
    <3>1. emitted[i] \in Seq(Outbox) /\ emitted'[i] = Append(emitted[i], outbox)
      BY <1>1, <1>2
    <3>2. (k \in DOMAIN emitted[i] /\ emitted'[i][k] = emitted[i][k]) \/ emitted'[i][k] = outbox
      BY <1>5, <2>2, <3>1
    <3>. QED BY <1>6, <2>1, <2>2, <3>2 DEF SentNone
  <2>3. CASE j # i
    <3>1. emitted'[j] = emitted[j]
      BY <1>1, <1>2, <2>3
    <3>. QED BY <2>1, <3>1 DEF SentNone
  <2>. QED BY <2>2, <2>3
<1>22. (Replaying => SentNone(original.emitted) /\ \A r \in Orders : CommandsOf(r, original.traffic))'
  BY <1>2, <1>14, <1>15 DEF Frames, SentNone, CommandsOf
<1>23. (Replaying => \A r \in Orders : AcksOf(r, original.traffic, Consumer))'
  BY <1>2, <1>14, <1>15 DEF Acked, AcksOf
<1>24. /\ phase' \notin {"poll", "dispatch"} /\ looped' = Len(orders') /\ router'.faults = scenario'.portFaults
       /\ orders' \in Orders'
  BY <1>2, <1>11, <1>14 DEF Frames
<1>25. Frames'
  BY <1>16, <1>17, <1>19, <1>21, <1>22, <1>24 DEF Frames
<1>. QED BY <1>20, <1>23, <1>25 DEF Acked

LEMMA FramesStep ==
  ASSUME Wired, IInv, Planned, Frames, Acked, Next
  PROVE  Frames' /\ Acked'
<1>1. CASE PrepareCommands
  BY <1>1, FramesPrepared
<1>2. CASE DispatchNext
  BY <1>2, FramesDispatched
<1>3. CASE SkipBoundary \/ StartSpan \/ CrossBoundary \/ EndLastSpan \/ Sample \/ Drain
  <2>1. UNCHANGED <<scenario, orders, looped, taken, emitted, original>>
    BY <1>3 DEF SkipBoundary, StartSpan, CrossBoundary, EndLastSpan, Sample, Drain, history
  <2>2. router' = router \/ router' = BeginStep(router)
    BY <1>3 DEF SkipBoundary, StartSpan, CrossBoundary, EndLastSpan, Sample, Drain, history
  <2>3. phase \in {"boundary", "advance", "drain"} /\ phase' \in {"boundary", "advance", "drain", "done", "outOfRange"}
    BY <1>3 DEF SkipBoundary, StartSpan, CrossBoundary, EndLastSpan, Sample, Drain, SpanDone
  <2>4. phase \notin {"poll", "dispatch"} /\ phase' \notin {"poll", "dispatch"}
    BY <2>3
  <2>. QED BY <2>1, <2>2, <2>4, FramesStay
<1>4. ASSUME NEW i \in Instance, Step(i)
      PROVE  Frames' /\ Acked'
  BY <1>4, FramesStepped
<1>5. ASSUME NEW i \in Instance, RefuseReplay(i)
      PROVE  Frames' /\ Acked'
  <2>1. /\ UNCHANGED <<scenario, orders, looped, taken, emitted, original, router>>
        /\ phase \notin {"poll", "dispatch"} /\ phase' \notin {"poll", "dispatch"}
    BY <1>5 DEF RefuseReplay, history
  <2>. QED BY <2>1, FramesStay
<1>6. CASE StartReplay
  BY <1>6, FramesReplayed
<1>. QED BY <1>1, <1>2, <1>3, <1>4, <1>5, <1>6 DEF Next
-----------------------------------------------------------------------------
(* What a sequence of reports says of one id. *)
Refusals == {"DuplicateIdempotencyKey", "UnknownSender", "UnknownTarget", "TargetNotFramedConsumer",
             "MalformedPayload", "Expired", "NotDispatchedRunEnded"}
ReportRecord == [id : Nat, outcome : Refusals \cup SentOutcomes, tai : Int]
ToldIn(rs, id) == {n \in DOMAIN rs : rs[n].id = id}
AwayIn(rs, id) ==
  /\ \A m, n \in ToldIn(rs, id) : m = n
  /\ \A n \in ToldIn(rs, id) : rs[n].outcome \notin SentOutcomes
OnceIn(rs, id, epoch) ==
  \E n \in ToldIn(rs, id) :
    /\ rs[n] = Report(id, "Dispatched", epoch)
    /\ n + 1 \in ToldIn(rs, id) /\ rs[n + 1] = Report(id, "AckedEdge", epoch)
    /\ \A m \in ToldIn(rs, id) \ {n, n + 1} : m > n + 1 /\ rs[m].outcome = "AckedExecuted"

LEMMA ReportFields ==
  ASSUME NEW id, NEW outcome, NEW tai
  PROVE  /\ Report(id, outcome, tai).id = id /\ Report(id, outcome, tai).outcome = outcome
         /\ Report(id, outcome, tai).tai = tai
         /\ (id \in Nat /\ outcome \in Refusals \cup SentOutcomes /\ tai \in Int => Report(id, outcome, tai) \in ReportRecord)
BY DEF Report, ReportRecord

LEMMA Appending ==
  ASSUME NEW rs \in Seq(ReportRecord), NEW ts \in Seq(ReportRecord), NEW us, us = rs \o ts
  PROVE  /\ us \in Seq(ReportRecord) /\ Len(rs) \in Nat /\ Len(ts) \in Nat
         /\ DOMAIN rs = 1 .. Len(rs) /\ DOMAIN ts = 1 .. Len(ts) /\ DOMAIN us = 1 .. Len(rs) + Len(ts)
         /\ \A n \in DOMAIN rs : n \in DOMAIN us /\ us[n] = rs[n]
         /\ \A m \in DOMAIN ts : Len(rs) + m \in DOMAIN us /\ us[Len(rs) + m] = ts[m]
         /\ \A n \in DOMAIN us : n \in DOMAIN rs \/ (\E m \in DOMAIN ts : n = Len(rs) + m)
<1>1. us \in Seq(ReportRecord) /\ Len(rs) \in Nat /\ Len(ts) \in Nat
      /\ DOMAIN rs = 1 .. Len(rs) /\ DOMAIN ts = 1 .. Len(ts) /\ DOMAIN us = 1 .. Len(rs) + Len(ts)
  OBVIOUS
<1>2. \A n \in DOMAIN rs : n \in DOMAIN us /\ us[n] = rs[n]
  OBVIOUS
<1>3. \A m \in DOMAIN ts : Len(rs) + m \in DOMAIN us /\ us[Len(rs) + m] = ts[m]
  OBVIOUS
<1>4. ASSUME NEW n \in DOMAIN us, n \notin DOMAIN rs
      PROVE  \E m \in DOMAIN ts : n = Len(rs) + m
  <2>1. n - Len(rs) \in DOMAIN ts /\ n = Len(rs) + (n - Len(rs))
    BY <1>1, <1>4
  <2>. QED BY <2>1
<1>. QED BY <1>1, <1>2, <1>3, <1>4

(* What is said of an id is not changed by reports of others. *)
LEMMA AppendingOthers ==
  ASSUME NEW rs \in Seq(ReportRecord), NEW ts \in Seq(ReportRecord), NEW us, us = rs \o ts,
         NEW id, \A m \in DOMAIN ts : ts[m].id # id
  PROVE  /\ ToldIn(us, id) = ToldIn(rs, id)
         /\ AwayIn(rs, id) => AwayIn(us, id)
         /\ \A epoch : OnceIn(rs, id, epoch) => OnceIn(us, id, epoch)
<1>1. \A n \in DOMAIN rs : n \in DOMAIN us /\ us[n] = rs[n]
  BY Appending
<1>2. \A n \in DOMAIN us : n \in DOMAIN rs \/ us[n].id # id
  BY Appending
<1>3. ToldIn(us, id) = ToldIn(rs, id)
  BY <1>1, <1>2 DEF ToldIn
<1>4. \A n \in ToldIn(rs, id) : us[n] = rs[n]
  BY <1>1 DEF ToldIn
<1>5. AwayIn(rs, id) => AwayIn(us, id)
  BY <1>3, <1>4 DEF AwayIn
<1>6. ASSUME NEW epoch, OnceIn(rs, id, epoch)
      PROVE  OnceIn(us, id, epoch)
  <2>1. PICK n \in ToldIn(rs, id) :
          /\ rs[n] = Report(id, "Dispatched", epoch)
          /\ n + 1 \in ToldIn(rs, id) /\ rs[n + 1] = Report(id, "AckedEdge", epoch)
          /\ \A m \in ToldIn(rs, id) \ {n, n + 1} : m > n + 1 /\ rs[m].outcome = "AckedExecuted"
    BY <1>6 DEF OnceIn
  <2>2. n \in ToldIn(us, id) /\ n + 1 \in ToldIn(us, id)
    BY <1>3, <2>1
  <2>3. us[n] = rs[n] /\ us[n + 1] = rs[n + 1]
    BY <1>4, <2>1
  <2>4. \A m \in ToldIn(us, id) \ {n, n + 1} : m > n + 1 /\ us[m].outcome = "AckedExecuted"
    <3>. SUFFICES ASSUME NEW m \in ToldIn(us, id) \ {n, n + 1}
                  PROVE  m > n + 1 /\ us[m].outcome = "AckedExecuted"
      OBVIOUS
    <3>1. m \in ToldIn(rs, id) \ {n, n + 1} /\ us[m] = rs[m]
      BY <1>3, <1>4
    <3>. QED BY <2>1, <3>1
  <2>. QED BY <2>1, <2>2, <2>3, <2>4 DEF OnceIn
<1>. QED BY <1>3, <1>5, <1>6

(* A command that is dispatched now has one story, *)
LEMMA AppendingDispatch ==
  ASSUME NEW rs \in Seq(ReportRecord), NEW id \in Nat, NEW epoch \in Int, ToldIn(rs, id) = {},
         NEW us, us = rs \o <<Report(id, "Dispatched", epoch), Report(id, "AckedEdge", epoch)>>
  PROVE  OnceIn(us, id, epoch) /\ us \in Seq(ReportRecord)
<1>. DEFINE a == Report(id, "Dispatched", epoch)
            b == Report(id, "AckedEdge", epoch)
            ts == <<a, b>>
            n == Len(rs) + 1
<1>0. {"Dispatched", "AckedEdge"} \subseteq Refusals \cup SentOutcomes
  BY DEF SentOutcomes
<1>1. a \in ReportRecord /\ b \in ReportRecord /\ a.id = id /\ b.id = id
  BY <1>0 DEF Report, ReportRecord
<1>. HIDE DEF a, b
<1>2. ts \in Seq(ReportRecord) /\ DOMAIN ts = {1, 2} /\ ts[1] = a /\ ts[2] = b
  BY <1>1
<1>3. us = rs \o ts
  BY DEF a, b
<1>. HIDE DEF ts
<1>4. /\ us \in Seq(ReportRecord) /\ Len(rs) \in Nat
      /\ \A m \in DOMAIN rs : us[m] = rs[m]
      /\ \A m \in DOMAIN ts : Len(rs) + m \in DOMAIN us /\ us[Len(rs) + m] = ts[m]
      /\ \A m \in DOMAIN us : m \in DOMAIN rs \/ \E k \in DOMAIN ts : m = Len(rs) + k
  BY <1>2, <1>3, Appending
<1>5. n \in DOMAIN us /\ us[n] = a /\ n + 1 \in DOMAIN us /\ us[n + 1] = b
  <2>1. Len(rs) + 1 \in DOMAIN us /\ us[Len(rs) + 1] = a
    BY <1>2, <1>4
  <2>2. Len(rs) + 2 \in DOMAIN us /\ us[Len(rs) + 2] = b /\ Len(rs) + 2 = n + 1
    BY <1>2, <1>4
  <2>. QED BY <2>1, <2>2
<1>6. \A m \in ToldIn(us, id) : m = n \/ m = n + 1
  <2>1. \A m \in DOMAIN rs : us[m].id # id
    BY <1>4 DEF ToldIn
  <2>2. \A k \in DOMAIN ts : Len(rs) + k = n \/ Len(rs) + k = n + 1
    BY <1>2, <1>4
  <2>. QED BY <1>4, <2>1, <2>2 DEF ToldIn
<1>7. n \in ToldIn(us, id) /\ n + 1 \in ToldIn(us, id)
  BY <1>1, <1>5 DEF ToldIn
<1>. HIDE DEF n
<1>. QED BY <1>4, <1>5, <1>6, <1>7 DEF OnceIn, a, b

(* and keeps it when it is reported executed. *)
LEMMA AppendingAcks ==
  ASSUME NEW rs \in Seq(ReportRecord), NEW ts \in Seq(ReportRecord), NEW us, us = rs \o ts, NEW id, NEW epoch,
         OnceIn(rs, id, epoch), \A m \in DOMAIN ts : ts[m].outcome = "AckedExecuted"
  PROVE  OnceIn(us, id, epoch)
<1>b. \A n \in DOMAIN rs : n \in DOMAIN us /\ us[n] = rs[n]
  BY Appending
<1>c. \A m \in DOMAIN ts : Len(rs) + m \in DOMAIN us /\ us[Len(rs) + m] = ts[m]
  BY Appending
<1>d. \A n \in DOMAIN us : n \in DOMAIN rs \/ (\E m \in DOMAIN ts : n = Len(rs) + m)
  BY Appending
<1>a. Len(rs) \in Nat /\ DOMAIN rs = 1 .. Len(rs) /\ DOMAIN ts = 1 .. Len(ts)
  OBVIOUS
<1>1. /\ Len(rs) \in Nat /\ DOMAIN rs = 1 .. Len(rs) /\ DOMAIN ts = 1 .. Len(ts)
      /\ \A n \in DOMAIN rs : n \in DOMAIN us /\ us[n] = rs[n]
      /\ \A m \in DOMAIN ts : Len(rs) + m \in DOMAIN us /\ us[Len(rs) + m] = ts[m]
      /\ \A n \in DOMAIN us : n \in DOMAIN rs \/ (\E m \in DOMAIN ts : n = Len(rs) + m)
  BY <1>a, <1>b, <1>c, <1>d
<1>2. PICK n \in ToldIn(rs, id) :
        /\ rs[n] = Report(id, "Dispatched", epoch)
        /\ n + 1 \in ToldIn(rs, id) /\ rs[n + 1] = Report(id, "AckedEdge", epoch)
        /\ \A m \in ToldIn(rs, id) \ {n, n + 1} : m > n + 1 /\ rs[m].outcome = "AckedExecuted"
  BY DEF OnceIn
<1>3. n \in DOMAIN rs /\ n + 1 \in DOMAIN rs /\ n \in Nat
  BY <1>1, <1>2 DEF ToldIn
<1>4. n \in ToldIn(us, id) /\ n + 1 \in ToldIn(us, id) /\ us[n] = rs[n] /\ us[n + 1] = rs[n + 1]
  BY <1>1, <1>2, <1>3 DEF ToldIn
<1>5. ASSUME NEW m \in ToldIn(us, id) \ {n, n + 1}
      PROVE  m > n + 1 /\ us[m].outcome = "AckedExecuted"
  <2>1. CASE m \in DOMAIN rs
    <3>1. m \in ToldIn(rs, id)
      BY <1>1, <1>5, <2>1 DEF ToldIn
    <3>. QED BY <1>1, <1>2, <1>5, <2>1, <3>1
  <2>2. CASE m \notin DOMAIN rs
    <3>1. PICK k \in DOMAIN ts : m = Len(rs) + k
      BY <1>1, <1>5, <2>2 DEF ToldIn
    <3>. QED BY <1>1, <1>3, <3>1
  <2>. QED BY <2>1, <2>2
<1>. QED BY <1>2, <1>4, <1>5 DEF OnceIn

(* SetToSeq of a finite set lists it. *)
LEMMA SetAsSeq ==
  ASSUME NEW S, IsFiniteSet(S), NEW R, S \subseteq R
  PROVE  SetToSeq(S) \in Seq(R) /\ \A n \in DOMAIN SetToSeq(S) : SetToSeq(S)[n] \in S
<1>. DEFINE N == Cardinality(S)
<1>1. N \in Nat /\ ExistsBijection(1 .. N, S)
  BY FS_CardinalityType
<1>. HIDE DEF N
<1>2. PICK f \in Bijection(1 .. N, S) : TRUE
  BY <1>1 DEF ExistsBijection
<1>3. f \in [1 .. N -> S] /\ IsInjective(f)
  BY <1>2 DEF Bijection, Injection
<1>4. SetToSeq(S) \in [1 .. N -> S]
  BY <1>3 DEF SetToSeq, N
<1>. QED BY <1>1, <1>4

(* The commands that are not dispatched are reported one by one, in their order. *)
Rank(k) == Cardinality({j \in Undispatched : j <= k})
LEMMA Ranks ==
  ASSUME scenario \in Scenarios
  PROVE  LET N == Cardinality(Undispatched) IN
         /\ N \in Nat
         /\ \A n \in 1 .. N : NthUndispatched(n) \in Undispatched /\ Rank(NthUndispatched(n)) = n
         /\ \A k \in Undispatched : Rank(k) \in 1 .. N /\ NthUndispatched(Rank(k)) = k
<1>. DEFINE N == Cardinality(Undispatched)
            UpTo(k) == {j \in Undispatched : j <= k}
            f == [k \in Undispatched |-> Rank(k)]
<1>1. IsFiniteSet(Undispatched) /\ Undispatched \subseteq Nat
  BY PollPartition
<1>2. N \in Nat
  BY <1>1, FS_CardinalityType
<1>3. \A k \in Undispatched : IsFiniteSet(UpTo(k)) /\ Cardinality(UpTo(k)) <= N /\ Cardinality(UpTo(k)) \in Nat
  BY <1>1, FS_Subset, FS_CardinalityType
<1>4. \A k \in Undispatched : k \in UpTo(k)
  BY <1>1
<1>5. \A k \in Undispatched : Rank(k) \in 1 .. N
  <2>. SUFFICES ASSUME NEW k \in Undispatched PROVE Rank(k) \in 1 .. N
    OBVIOUS
  <2>. HIDE DEF UpTo, N
  <2>1. Cardinality(UpTo(k)) # 0
    BY <1>3, <1>4, FS_EmptySet
  <2>2. Cardinality(UpTo(k)) \in 1 .. N
    BY <1>2, <1>3, <2>1
  <2>. QED BY <2>2 DEF Rank, UpTo
<1>6. \A j, k \in Undispatched : j < k => Rank(j) # Rank(k)
  <2>. SUFFICES ASSUME NEW j \in Undispatched, NEW k \in Undispatched, j < k PROVE Rank(j) # Rank(k)
    OBVIOUS
  <2>a. j \in Nat /\ k \in Nat /\ \A m \in Undispatched : m \in Nat
    BY <1>1
  <2>b. \A m \in UpTo(j) : m \in UpTo(k)
    BY <2>a
  <2>c. k \notin UpTo(j)
    BY <2>a
  <2>1. UpTo(j) \in SUBSET UpTo(k) /\ k \notin UpTo(j)
    BY <2>b, <2>c
  <2>. HIDE DEF UpTo
  <2>2. UpTo(j) # UpTo(k)
    BY <1>4, <2>1
  <2>3. Cardinality(UpTo(k)) # Cardinality(UpTo(j))
    BY <1>3, <2>1, <2>2, FS_Subset
  <2>. QED BY <2>3 DEF Rank, UpTo
<1>7. \A j, k \in Undispatched : Rank(j) = Rank(k) => j = k
  BY <1>1, <1>6
<1>8. \A n \in 1 .. N : \E k \in Undispatched : Rank(k) = n
  <2>1. f \in Injection(Undispatched, 1 .. N)
    BY <1>5, <1>7 DEF Injection, IsInjective
  <2>2. IsFiniteSet(1 .. N) /\ Cardinality(1 .. N) = N
    BY <1>2, FS_Interval
  <2>3. f \in Surjection(Undispatched, 1 .. N)
    BY <2>1, <2>2, FS_Injection
  <2>. QED BY <2>3 DEF Surjection
<1>. HIDE DEF N, f, UpTo
<1>9. \A n \in 1 .. N : NthUndispatched(n) \in Undispatched /\ Rank(NthUndispatched(n)) = n
  BY <1>8 DEF NthUndispatched, Rank
<1>10. \A k \in Undispatched : NthUndispatched(Rank(k)) = k
  BY <1>5, <1>7, <1>9
<1>. QED BY <1>2, <1>5, <1>9, <1>10 DEF N

LEMMA OutcomesTyped ==
  ASSUME NEW k
  PROVE  PollOutcome(k) # "Dispatch" => PollOutcome(k) \in Refusals \ SentOutcomes
<1>. DEFINE c == scenario.commands[k]
<1>1. Refusal(c) \in {"UnknownSender", "UnknownTarget", "TargetNotFramedConsumer", "MalformedPayload", "none"}
  BY DEF Refusal
<1>2. Disposition(c) \in {"Expired", "NotDispatchedRunEnded", "Dispatch"}
  BY DEF Disposition
<1>3. PollOutcome(k) \in {"DuplicateIdempotencyKey"} \cup ({Refusal(c)} \ {"none"}) \cup {Disposition(c)}
  BY DEF PollOutcome
<1>4. PollOutcome(k) \in {"DuplicateIdempotencyKey", "UnknownSender", "UnknownTarget", "TargetNotFramedConsumer",
                         "MalformedPayload", "Expired", "NotDispatchedRunEnded", "Dispatch"}
  BY <1>1, <1>2, <1>3
<1>. QED BY <1>4 DEF SentOutcomes, Refusals

LEMMA PollReportsFacts ==
  ASSUME scenario \in Scenarios
  PROVE  /\ PollReports \in Seq(ReportRecord)
         /\ \A n \in DOMAIN PollReports : PollReports[n].outcome \notin SentOutcomes
         /\ \A k \in Undispatched :
              LET id == scenario.commands[k].id IN AwayIn(PollReports, id) /\ ToldIn(PollReports, id) # {}
         /\ \A k \in Chosen : ToldIn(PollReports, scenario.commands[k].id) = {}
<1>. DEFINE N == Cardinality(Undispatched)
            R == PollReports
            Id(k) == scenario.commands[k].id
<1>1. /\ N \in Nat
      /\ \A n \in 1 .. N : NthUndispatched(n) \in Undispatched /\ Rank(NthUndispatched(n)) = n
      /\ \A k \in Undispatched : Rank(k) \in 1 .. N /\ NthUndispatched(Rank(k)) = k
  BY Ranks
<1>2. R = [n \in 1 .. N |-> Report(Id(NthUndispatched(n)), PollOutcome(NthUndispatched(n)), 0)]
  BY DEF PollReports
<1>3. /\ Undispatched \subseteq DOMAIN scenario.commands /\ Chosen \subseteq DOMAIN scenario.commands
      /\ Chosen \cap Undispatched = {}
      /\ \A k \in DOMAIN scenario.commands : Id(k) \in Nat
      /\ \A j, k \in DOMAIN scenario.commands : Id(j) = Id(k) => j = k
  BY CommandsTyped, PollPartition
<1>. HIDE DEF R, N, Id
<1>4. \A n \in 1 .. N : R[n].id = Id(NthUndispatched(n)) /\ R[n].outcome \notin SentOutcomes /\ R[n] \in ReportRecord
  <2>. SUFFICES ASSUME NEW n \in 1 .. N
                PROVE  R[n].id = Id(NthUndispatched(n)) /\ R[n].outcome \notin SentOutcomes /\ R[n] \in ReportRecord
    OBVIOUS
  <2>. DEFINE k == NthUndispatched(n)
  <2>1. k \in Undispatched /\ Id(k) \in Nat
    BY <1>1, <1>3
  <2>2. PollOutcome(k) # "Dispatch"
    BY <2>1 DEF Undispatched
  <2>3. PollOutcome(k) \in Refusals \cup SentOutcomes /\ PollOutcome(k) \notin SentOutcomes
    BY <2>2, OutcomesTyped
  <2>4. R[n] = Report(Id(k), PollOutcome(k), 0)
    BY <1>2
  <2>. HIDE DEF k
  <2>5. 0 \in Int
    OBVIOUS
  <2>6. R[n].id = Id(k) /\ R[n].outcome = PollOutcome(k) /\ R[n] \in ReportRecord
    BY <2>1, <2>3, <2>4, <2>5, ReportFields
  <2>. QED BY <2>3, <2>6 DEF k
<1>5. DOMAIN R = 1 .. N
  BY <1>2
<1>6. R \in Seq(ReportRecord)
  <2>1. R \in [1 .. N -> ReportRecord]
    BY <1>2, <1>4
  <2>. QED BY <1>1, <2>1
<1>7. \A k \in Undispatched : ToldIn(R, Id(k)) = {Rank(k)}
  <2>. SUFFICES ASSUME NEW k \in Undispatched, NEW n \in 1 .. N
                PROVE  R[n].id = Id(k) <=> n = Rank(k)
    BY <1>1, <1>5 DEF ToldIn
  <2>1. Id(NthUndispatched(n)) = Id(k) <=> NthUndispatched(n) = k
    BY <1>1, <1>3
  <2>. QED BY <1>1, <1>4, <2>1
<1>8. \A k \in Chosen : ToldIn(R, Id(k)) = {}
  <2>. SUFFICES ASSUME NEW k \in Chosen, NEW n \in 1 .. N, R[n].id = Id(k) PROVE FALSE
    BY <1>5 DEF ToldIn
  <2>1. NthUndispatched(n) = k
    BY <1>1, <1>3, <1>4
  <2>. QED BY <1>1, <1>3, <2>1
<1>9. \A k \in Undispatched : AwayIn(R, Id(k)) /\ ToldIn(R, Id(k)) # {}
  <2>. SUFFICES ASSUME NEW k \in Undispatched PROVE AwayIn(R, Id(k)) /\ ToldIn(R, Id(k)) # {}
    OBVIOUS
  <2>1. ToldIn(R, Id(k)) = {Rank(k)} /\ Rank(k) \in 1 .. N
    BY <1>1, <1>7
  <2>. QED BY <1>4, <2>1 DEF AwayIn
<1>. QED BY <1>4, <1>5, <1>6, <1>8, <1>9 DEF R, Id
-----------------------------------------------------------------------------
LEMMA ElementOf ==
  ASSUME NEW S, NEW s \in Seq(S), NEW k \in DOMAIN s
  PROVE  s[k] \in S
OBVIOUS

(* What is reported executed is finite. *)
LEMMA ExecutedFinite ==
  ASSUME IInv
  PROVE  IsFiniteSet(ExecutedReports) /\ ExecutedReports \subseteq ReportRecord
         /\ \A r \in ExecutedReports : r.outcome = "AckedExecuted"
<1>1. /\ orders \in Seq(NumberedOrder) /\ applied \in [Instance -> Seq([value : Int, at : Nat])]
      /\ router.traffic \subseteq TrafficRecord /\ IsFiniteSet(router.traffic)
  BY DEF IInv, Commands, Applied, Carried, IsRouter
<1>2. Consumer \subseteq Instance /\ IsFiniteSet(Instance) /\ \A i \in Instance : Period[i] \in Nat \ {0}
  BY RunAssumption
<1>3. /\ DOMAIN orders = 1 .. Len(orders) /\ Len(orders) \in Nat
      /\ \A n \in DOMAIN orders : orders[n] \in NumberedOrder
  BY <1>1
<1>4. \A n \in DOMAIN orders : orders[n].id \in Nat
  BY <1>3 DEF NumberedOrder
<1>5. IsFiniteSet(DOMAIN orders)
  BY <1>3, FS_Interval
<1>. DEFINE Good(r) == r \in ReportRecord /\ r.outcome = "AckedExecuted"
            Executed(n, t) == Report(orders[n].id, "AckedExecuted", t)
<1>6. \A n \in DOMAIN orders : \A t \in Int : Good(Executed(n, t))
  <2>. SUFFICES ASSUME NEW n \in DOMAIN orders, NEW t \in Int PROVE Good(Executed(n, t))
    OBVIOUS
  <2>1. orders[n].id \in Nat /\ "AckedExecuted" \in Refusals \cup SentOutcomes
    BY <1>4 DEF SentOutcomes
  <2>. QED BY <2>1 DEF Report, ReportRecord
<1>. HIDE DEF Good, Executed
<1>7. ASSUME NEW i \in Consumer
      PROVE  IsFiniteSet(AppliedReports(i)) /\ \A r \in AppliedReports(i) : Good(r)
  <2>1. /\ applied[i] \in Seq([value : Int, at : Nat])
        /\ Len(applied[i]) \in Nat /\ DOMAIN applied[i] = 1 .. Len(applied[i])
        /\ \A k \in DOMAIN applied[i] : applied[i][k].at \in Int
    <3>1. applied[i] \in Seq([value : Int, at : Nat])
      BY <1>1, <1>2
    <3>2. Len(applied[i]) \in Nat /\ DOMAIN applied[i] = 1 .. Len(applied[i])
      BY <3>1
    <3>3. \A k \in DOMAIN applied[i] : applied[i][k] \in [value : Int, at : Nat]
      BY <3>1, ElementOf
    <3>. QED BY <3>1, <3>2, <3>3
  <2>2. LastOrder(i) \subseteq DOMAIN orders
    BY DEF LastOrder
  <2>. DEFINE D == LastOrder(i) \X DOMAIN applied[i]
              f == [p \in D |-> Executed(p[1], applied[i][p[2]].at)]
  <2>3. IsFiniteSet(LastOrder(i)) /\ IsFiniteSet(DOMAIN applied[i])
    BY <1>5, <2>1, <2>2, FS_Subset, FS_Interval
  <2>4. IsFiniteSet(D)
    BY <2>3, FS_Product
  <2>5. IsFiniteSet({f[p] : p \in DOMAIN f})
    <3>1. DOMAIN f = D
      OBVIOUS
    <3>. HIDE DEF f, D
    <3>. QED BY <2>4, <3>1, ImageFinite
  <2>6. AppliedReports(i) = {f[p] : p \in DOMAIN f}
    <3>1. \A n \in LastOrder(i) : \A k \in DOMAIN applied[i] :
            <<n, k>> \in D /\ f[<<n, k>>] = Executed(n, applied[i][k].at)
      OBVIOUS
    <3>2. \A p \in D : /\ p[1] \in LastOrder(i) /\ p[2] \in DOMAIN applied[i]
                       /\ f[p] = Executed(p[1], applied[i][p[2]].at)
      OBVIOUS
    <3>3. AppliedReports(i) = {Executed(n, applied[i][k].at) : n \in LastOrder(i), k \in DOMAIN applied[i]}
      BY DEF AppliedReports, Executed
    <3>4. DOMAIN f = D
      OBVIOUS
    <3>. HIDE DEF f, D
    <3>5. ASSUME NEW r \in AppliedReports(i)
          PROVE  r \in {f[p] : p \in DOMAIN f}
      <4>1. PICK n \in LastOrder(i), k \in DOMAIN applied[i] : r = Executed(n, applied[i][k].at)
        BY <3>3
      <4>2. <<n, k>> \in DOMAIN f /\ r = f[<<n, k>>]
        BY <3>1, <3>4, <4>1
      <4>. QED BY <4>2
    <3>6. ASSUME NEW r \in {f[p] : p \in DOMAIN f}
          PROVE  r \in AppliedReports(i)
      <4>1. PICK p \in DOMAIN f : r = f[p]
        OBVIOUS
      <4>2. p[1] \in LastOrder(i) /\ p[2] \in DOMAIN applied[i] /\ r = Executed(p[1], applied[i][p[2]].at)
        BY <3>2, <3>4, <4>1
      <4>. QED BY <3>3, <4>2
    <3>. QED BY <3>5, <3>6
  <2>7. \A r \in AppliedReports(i) : Good(r)
    BY <1>6, <2>1, <2>2 DEF AppliedReports, Executed
  <2>. QED BY <2>5, <2>6, <2>7
<1>8. ASSUME NEW i \in Consumer
      PROVE  IsFiniteSet(ReplayedReports(i)) /\ \A r \in ReplayedReports(i) : Good(r)
  <2>. DEFINE D == {m \in DOMAIN orders : orders[m].target = i}
              Of(n) == {Report(orders[n].id, "AckedExecuted", x.tai - Period[i]) : x \in LastAck(i, n)}
              g == [n \in D |-> Of(n)]
  <2>1. \A n : IsFiniteSet(LastAck(i, n)) /\ LastAck(i, n) \subseteq router.traffic
    <3>1. \A n : LastAck(i, n) \subseteq router.traffic
      BY DEF LastAck, Acks
    <3>. QED BY <1>1, <3>1, FS_Subset
  <2>2. \A n \in D : IsFiniteSet(Of(n)) /\ \A r \in Of(n) : Good(r)
    <3>. SUFFICES ASSUME NEW n \in D PROVE IsFiniteSet(Of(n)) /\ \A r \in Of(n) : Good(r)
      OBVIOUS
    <3>. DEFINE h == [x \in LastAck(i, n) |-> Executed(n, x.tai - Period[i])]
    <3>1. IsFiniteSet({h[x] : x \in DOMAIN h})
      <4>1. DOMAIN h = LastAck(i, n)
        OBVIOUS
      <4>. HIDE DEF h
      <4>. QED BY <2>1, <4>1, ImageFinite
    <3>2. Of(n) = {h[x] : x \in DOMAIN h}
      BY DEF Executed
    <3>3. \A x \in LastAck(i, n) : x.tai - Period[i] \in Int
      <4>1. \A x \in LastAck(i, n) : x \in TrafficRecord
        BY <1>1, <2>1
      <4>2. \A x \in LastAck(i, n) : x.tai \in Int
        BY <4>1 DEF TrafficRecord
      <4>3. Period[i] \in Int
        BY <1>2
      <4>. QED BY <4>2, <4>3
    <3>4. \A r \in Of(n) : Good(r)
      BY <1>6, <3>3 DEF Executed
    <3>. QED BY <3>1, <3>2, <3>4
  <2>. HIDE DEF Of
  <2>3. IsFiniteSet(D)
    BY <1>5, FS_Subset
  <2>4. IsFiniteSet({g[n] : n \in DOMAIN g}) /\ DOMAIN g = D
    <3>1. DOMAIN g = D
      OBVIOUS
    <3>. HIDE DEF g, D
    <3>. QED BY <2>3, <3>1, ImageFinite
  <2>5. \A T \in {g[n] : n \in DOMAIN g} : IsFiniteSet(T) /\ \A r \in T : Good(r)
    BY <2>2
  <2>6. ReplayedReports(i) = UNION {g[n] : n \in DOMAIN g}
    <3>1. {g[n] : n \in DOMAIN g} = {Of(n) : n \in D}
      OBVIOUS
    <3>. QED BY <3>1 DEF ReplayedReports, Of
  <2>. QED BY <2>4, <2>5, <2>6, FS_UNION
<1>. DEFINE Mine(i) == IF i \in Replayed THEN ReplayedReports(i) ELSE AppliedReports(i)
            g == [i \in Consumer |-> Mine(i)]
<1>9. \A i \in Consumer : IsFiniteSet(Mine(i)) /\ \A r \in Mine(i) : Good(r)
  BY <1>7, <1>8
<1>10. IsFiniteSet(Consumer)
  BY <1>2, FS_Subset
<1>11. ExecutedReports = UNION {g[i] : i \in DOMAIN g}
  <2>1. {g[i] : i \in DOMAIN g} = {Mine(i) : i \in Consumer}
    OBVIOUS
  <2>. QED BY <2>1 DEF ExecutedReports
<1>. HIDE DEF Mine
<1>12. IsFiniteSet({g[i] : i \in DOMAIN g}) /\ DOMAIN g = Consumer
  <2>1. DOMAIN g = Consumer
    OBVIOUS
  <2>. HIDE DEF g
  <2>. QED BY <1>10, <2>1, ImageFinite
<1>13. \A T \in {g[i] : i \in DOMAIN g} : IsFiniteSet(T) /\ \A r \in T : Good(r)
  BY <1>9
<1>. HIDE DEF g
<1>14. IsFiniteSet(ExecutedReports)
  BY <1>11, <1>12, <1>13, FS_UNION
<1>15. \A r \in ExecutedReports : Good(r)
  BY <1>11, <1>13
<1>. QED BY <1>14, <1>15 DEF Good

(* What has been told stays told. *)
LEMMA MoreTold ==
  ASSUME NEW rs \in Seq(ReportRecord), NEW ts \in Seq(ReportRecord)
  PROVE  /\ rs \o ts \in Seq(ReportRecord)
         /\ \A id : ToldIn(rs, id) # {} => ToldIn(rs \o ts, id) # {}
         /\ \A m \in DOMAIN ts : ToldIn(rs \o ts, ts[m].id) # {}
<1>. DEFINE us == rs \o ts
<1>1. us \in Seq(ReportRecord)
  OBVIOUS
<1>2. \A n \in DOMAIN rs : n \in DOMAIN us /\ us[n] = rs[n]
  OBVIOUS
<1>4. \A m \in DOMAIN ts : Len(rs) + m \in DOMAIN us /\ us[Len(rs) + m] = ts[m]
  OBVIOUS
<1>. HIDE DEF us
<1>5. \A m \in DOMAIN ts : ToldIn(us, ts[m].id) # {}
  BY <1>4 DEF ToldIn
<1>3. \A id : ToldIn(rs, id) # {} => ToldIn(us, id) # {}
  BY <1>2 DEF ToldIn
<1>. QED BY <1>1, <1>3, <1>5 DEF us

(* The invariant of the silence: every command that was turned away is reported, and every *)
(* one that the dispatch loop has been over unless it passed it over.                      *)
Heard ==
  /\ reports \in Seq(ReportRecord)
  /\ phase = "poll" => reports = << >>
  /\ phase # "poll" =>
       /\ orders \in Orders
       /\ \A k \in Undispatched : ToldIn(reports, scenario.commands[k].id) # {}
       /\ \A n \in 1 .. looped : Dispatchable(orders[n]) => ToldIn(reports, orders[n].id) # {}
  /\ phase \notin {"poll", "dispatch"} => looped = Len(orders)

LEMMA PollStays ==
  ASSUME UNCHANGED scenario
  PROVE  Orders' = Orders /\ Undispatched' = Undispatched /\ Chosen' = Chosen /\ PollReports' = PollReports
<1>1. \A k : PollOutcome(k)' = PollOutcome(k)
  BY DEF PollOutcome, Duplicate
<1>2. Chosen' = Chosen /\ Undispatched' = Undispatched
  BY <1>1 DEF Chosen, Undispatched
<1>3. \A n : NthUndispatched(n)' = NthUndispatched(n)
  BY <1>2 DEF NthUndispatched
<1>. QED BY <1>1, <1>2, <1>3, FrameStays DEF PollReports

LEMMA HeardStep ==
  ASSUME IInv, Heard, Next
  PROVE  Heard'
<1>1. CASE PrepareCommands
  <2>1. /\ phase = "poll" /\ orders' \in Orders /\ reports' = PollReports
        /\ phase' = IF orders' = << >> THEN "boundary" ELSE "dispatch"
        /\ UNCHANGED scenario /\ looped' = 0
    BY <1>1 DEF PrepareCommands, IInv, Commands
  <2>2. scenario \in Scenarios
    BY DEF IInv, SpanLoop
  <2>3. /\ PollReports \in Seq(ReportRecord)
        /\ \A k \in Undispatched : ToldIn(PollReports, scenario.commands[k].id) # {}
    BY <2>2, PollReportsFacts
  <2>4. Orders' = Orders /\ Undispatched' = Undispatched
    BY <2>1, PollStays
  <2>5. /\ reports' \in Seq(ReportRecord) /\ orders' \in Orders'
        /\ \A k \in Undispatched' : ToldIn(reports', scenario'.commands[k].id) # {}
    BY <2>1, <2>3, <2>4
  <2>6. 1 .. looped' = {} /\ phase' # "poll" /\ (phase' # "dispatch" => looped' = Len(orders'))
    BY <2>1
  <2>. QED BY <2>5, <2>6 DEF Heard
<1>2. CASE DispatchNext
  <2>. DEFINE c == orders[looped + 1]
              ts == <<Report(c.id, "Dispatched", c.tai), Report(c.id, "AckedEdge", c.tai)>>
  <2>1. /\ phase = "dispatch" /\ looped' = looped + 1 /\ UNCHANGED <<scenario, orders>>
        /\ phase' = IF looped' = Len(orders) THEN "boundary" ELSE "dispatch"
        /\ IF Dispatchable(c) THEN reports' = reports \o ts ELSE reports' = reports
    BY <1>2 DEF DispatchNext
  <2>2. /\ looped \in Nat /\ looped < Len(orders) /\ orders \in Seq(NumberedOrder) /\ Len(orders) \in Nat
    BY <2>1 DEF IInv, Commands
  <2>3. /\ reports \in Seq(ReportRecord) /\ orders \in Orders
        /\ \A k \in Undispatched : ToldIn(reports, scenario.commands[k].id) # {}
        /\ \A n \in 1 .. looped : Dispatchable(orders[n]) => ToldIn(reports, orders[n].id) # {}
    BY <2>1 DEF Heard
  <2>4. c \in NumberedOrder
    BY <2>2
  <2>5. c.id \in Nat /\ c.tai \in Int
    BY <2>4 DEF NumberedOrder
  <2>. HIDE DEF c
  <2>6. ts \in Seq(ReportRecord) /\ DOMAIN ts = {1, 2} /\ ts[1].id = c.id
    <3>0. {"Dispatched", "AckedEdge"} \subseteq Refusals \cup SentOutcomes
      BY DEF SentOutcomes
    <3>1. Report(c.id, "Dispatched", c.tai) \in ReportRecord /\ Report(c.id, "AckedEdge", c.tai) \in ReportRecord
      BY <2>5, <3>0, ReportFields
    <3>2. Report(c.id, "Dispatched", c.tai).id = c.id
      BY ReportFields
    <3>. QED BY <3>1, <3>2
  <2>. HIDE DEF ts
  <2>7. /\ reports' \in Seq(ReportRecord)
        /\ \A id : ToldIn(reports, id) # {} => ToldIn(reports', id) # {}
    BY <2>1, <2>3, <2>6, MoreTold
  <2>8. Dispatchable(c) => ToldIn(reports', c.id) # {}
    <3>1. SUFFICES ASSUME Dispatchable(c) PROVE ToldIn(reports', c.id) # {}
      OBVIOUS
    <3>2. reports' = reports \o ts /\ 1 \in DOMAIN ts
      BY <2>1, <2>6, <3>1
    <3>. QED BY <2>3, <2>6, <3>2, MoreTold
  <2>9. Orders' = Orders /\ Undispatched' = Undispatched
    BY <2>1, PollStays
  <2>10. \A n \in 1 .. looped' : Dispatchable(orders'[n]) => ToldIn(reports', orders'[n].id) # {}
    <3>. SUFFICES ASSUME NEW n \in 1 .. looped', Dispatchable(orders[n])
                  PROVE  ToldIn(reports', orders[n].id) # {}
      BY <2>1
    <3>1. n \in 1 .. looped \/ n = looped + 1
      BY <2>1, <2>2
    <3>. QED BY <2>3, <2>7, <2>8, <3>1 DEF c
  <2>11. phase' # "poll" /\ (phase' # "dispatch" => looped' = Len(orders'))
    BY <2>1
  <2>12. orders' \in Orders' /\ \A k \in Undispatched' : ToldIn(reports', scenario'.commands[k].id) # {}
    BY <2>1, <2>3, <2>7, <2>9
  <2>13. (\A n \in 1 .. looped : Dispatchable(orders[n]) => ToldIn(reports, orders[n].id) # {})'
    BY <2>10 DEF Dispatchable
  <2>. QED BY <2>7, <2>11, <2>12, <2>13 DEF Heard
<1>3. CASE /\ phase \notin {"poll", "dispatch"} /\ phase' \notin {"poll", "dispatch"}
           /\ UNCHANGED <<scenario, orders, looped>>
           /\ reports' = reports \/ reports' = reports \o SetToSeq(ExecutedReports)
  <2>1. /\ reports \in Seq(ReportRecord) /\ orders \in Orders /\ looped = Len(orders)
        /\ \A k \in Undispatched : ToldIn(reports, scenario.commands[k].id) # {}
        /\ \A n \in 1 .. looped : Dispatchable(orders[n]) => ToldIn(reports, orders[n].id) # {}
    BY <1>3 DEF Heard
  <2>2. SetToSeq(ExecutedReports) \in Seq(ReportRecord)
    BY ExecutedFinite, SetAsSeq
  <2>3. /\ reports' \in Seq(ReportRecord)
        /\ \A id : ToldIn(reports, id) # {} => ToldIn(reports', id) # {}
    BY <1>3, <2>1, <2>2, MoreTold
  <2>4. Orders' = Orders /\ Undispatched' = Undispatched
    BY <1>3, PollStays
  <2>5. orders' \in Orders' /\ \A k \in Undispatched' : ToldIn(reports', scenario'.commands[k].id) # {}
    BY <1>3, <2>1, <2>3, <2>4
  <2>6. (\A n \in 1 .. looped : Dispatchable(orders[n]) => ToldIn(reports, orders[n].id) # {})'
    <3>1. \A n \in 1 .. looped : Dispatchable(orders[n]) => ToldIn(reports', orders[n].id) # {}
      BY <2>1, <2>3
    <3>. QED BY <1>3, <3>1 DEF Dispatchable
  <2>7. phase' # "poll" /\ looped' = Len(orders')
    BY <1>3, <2>1
  <2>. QED BY <2>3, <2>5, <2>6, <2>7 DEF Heard
<1>4. CASE SkipBoundary \/ StartSpan \/ CrossBoundary \/ EndLastSpan \/ Sample \/ Drain
  <2>1. phase \in {"boundary", "advance", "drain"} /\ phase' \in {"boundary", "advance", "drain", "done", "outOfRange"}
    BY <1>4 DEF SkipBoundary, StartSpan, CrossBoundary, EndLastSpan, Sample, Drain, SpanDone
  <2>2. phase \notin {"poll", "dispatch"} /\ phase' \notin {"poll", "dispatch"}
    BY <2>1
  <2>3. /\ UNCHANGED <<scenario, orders, looped>>
        /\ reports' = reports \/ reports' = reports \o SetToSeq(ExecutedReports)
    BY <1>4 DEF SkipBoundary, StartSpan, CrossBoundary, EndLastSpan, Sample, Drain
  <2>. QED BY <1>3, <2>2, <2>3
<1>5. ASSUME NEW i \in Instance, Step(i) \/ RefuseReplay(i)
      PROVE  Heard'
  <2>1. phase \notin {"poll", "dispatch"} /\ phase' \notin {"poll", "dispatch"}
    BY <1>5 DEF Step, RefuseReplay, progress
  <2>2. UNCHANGED <<scenario, orders, looped, reports>>
    BY <1>5 DEF Step, RefuseReplay
  <2>. QED BY <1>3, <2>1, <2>2
<1>6. CASE StartReplay
  BY <1>6 DEF StartReplay, Fresh, Heard
<1>. QED BY <1>1, <1>2, <1>4, <1>5, <1>6 DEF Next

LEMMA HeardStutters ==
  ASSUME Heard, UNCHANGED vars
  PROVE  Heard'
<1>1. UNCHANGED <<scenario, phase, orders, looped, reports>>
  BY DEF vars, progress
<1>2. Orders' = Orders /\ Undispatched' = Undispatched
  BY <1>1, PollStays
<1>3. \A n : Dispatchable(orders[n])' = Dispatchable(orders[n])
  BY <1>1 DEF Dispatchable
<1>. QED BY <1>1, <1>2, <1>3 DEF Heard

LEMMA ToldIs == \A c : Told(c) = ToldIn(reports, c.id)
BY DEF Told, ToldIn

(* Of the commands an external source gave the executor only one whose epoch is not after   *)
(* the start of the run is never spoken of: whatever the commands, their times, the faults   *)
(* and the boundaries, "every refusal is reported, never a silent drop"                      *)
(* (command_source.rs:59) fails for no other (executor.rs run_shared_group, the poll and the *)
(* dispatch loop).                                                                           *)
THEOREM SilentOnlyAtStart == Spec => []OnlyStartIsSilent
<1>1. Init => Heard
  BY DEF Init, Heard
<1>2. IInv /\ Heard /\ [Next]_vars => Heard'
  BY HeardStep, HeardStutters
<1>3. IInv /\ Heard => OnlyStartIsSilent
  <2>. SUFFICES ASSUME IInv, Heard, phase = "done", NEW k \in DOMAIN scenario.commands,
                       Told(scenario.commands[k]) = {}
                PROVE  PollOutcome(k) = "Dispatch" /\ Epoch(scenario.commands[k]) <= 0
    BY DEF OnlyStartIsSilent
  <2>1. /\ orders \in Orders /\ looped = Len(orders) /\ scenario \in Scenarios
        /\ \A m \in Undispatched : ToldIn(reports, scenario.commands[m].id) # {}
        /\ \A n \in 1 .. looped : Dispatchable(orders[n]) => ToldIn(reports, orders[n].id) # {}
    BY DEF Heard, IInv, SpanLoop
  <2>2. ToldIn(reports, scenario.commands[k].id) = {}
    BY ToldIs
  <2>3. PollOutcome(k) = "Dispatch" /\ k \in Chosen
    BY <2>1, <2>2 DEF Undispatched, Chosen
  <2>4. PICK n \in DOMAIN orders : orders[n] = OrderOf(k)
    BY <2>1, <2>3, OrdersFacts
  <2>5. /\ DOMAIN orders = 1 .. Len(orders) /\ orders[n].tai < End
    BY <2>1, OrdersFacts
  <2>6. orders[n].id = scenario.commands[k].id /\ orders[n].tai = Epoch(scenario.commands[k])
    BY <2>4 DEF OrderOf, Order
  <2>7. ~ Dispatchable(orders[n])
    BY <2>1, <2>2, <2>5, <2>6
  <2>8. Epoch(scenario.commands[k]) \in Int
    BY <2>1, CommandsTyped
  <2>. QED BY <2>3, <2>5, <2>6, <2>7, <2>8 DEF Dispatchable
<1>. QED BY <1>1, <1>2, <1>3, InvariantHolds, PTL DEF Spec
-----------------------------------------------------------------------------
LEMMA FramesStutter ==
  ASSUME Frames, Acked, UNCHANGED vars
  PROVE  Frames' /\ Acked'
<1>1. UNCHANGED <<scenario, phase, router, orders, looped, taken, emitted, original>>
  BY DEF vars, progress, history
<1>2. \A i : Had(i)' = Had(i)
  BY <1>1 DEF Had, Inboxes
<1>3. Replaying' = Replaying /\ Acking' = Acking
  BY <1>1 DEF Acking, Replayed, Replaying
<1>4. /\ \A s, i, n, a : CommandFrame(s, i, n, a)' <=> CommandFrame(s, i, n, a)
      /\ \A s, i, n, t : DueAt(s, i, n, t)' <=> DueAt(s, i, n, t)
      /\ \A s, n, f : DrawnBy(s, n, f)' = DrawnBy(s, n, f)
      /\ Orders' = Orders
  BY <1>1, FrameStays
<1>5. (phase = "dispatch" => \A f \in router.faults : router.drawn[f] = DrawnBy(orders, looped, f))'
  <2>1. \A s, n, f : DrawnBy(s, n, f)' = DrawnBy(s, n, f)
    BY <1>4
  <2>2. phase' = "dispatch" => \A f \in router'.faults : router'.drawn[f] = DrawnBy(orders', looped', f)
    BY <1>1 DEF Frames
  <2>. QED BY <1>1, <2>2 DEF DrawnBy, Crossing
<1>6. (\A i \in Consumer : \A q \in Had(i) : IsCommand(q) =>
           /\ Dispatchable(orders[q.payload]) /\ orders[q.payload].target = i /\ q.payload <= looped
           /\ ~ Replaying => q.after = 0 /\ CommandFrame(orders, i, q.payload, q.avail))'
  BY <1>1, <1>2, <1>3, <1>4 DEF IsCommand, Frames
<1>7. (\A i \in Consumer : \A n \in 1 .. looped : \A a \in Int : CommandFrame(orders, i, n, a) =>
           \E q \in Had(i) : q.port = "cmd" /\ q.payload = n /\ q.avail = a /\ q.after = 0)'
  BY <1>1, <1>2, <1>4 DEF Frames
<1>8. CommandsOf(orders, router.traffic)' /\ \A s : CommandsOf(s, original.traffic)' <=> CommandsOf(s, original.traffic)
  BY <1>1 DEF CommandsOf, Frames
<1>9. Frames'
  BY <1>1, <1>3, <1>4, <1>5, <1>6, <1>7, <1>8 DEF Frames, SentNone
<1>10. Acked'
  BY <1>1, <1>3, <1>4 DEF Acked, AcksOf
<1>. QED BY <1>9, <1>10

(* What the drain reports executed: a dispatched command, and a frame of it that its target *)
(* took in that very step if the target has no other.                                       *)
ExecutedOf(r, n) ==
  /\ r = Report(orders[n].id, "AckedExecuted", r.tai)
  /\ Dispatchable(orders[n])
  /\ AloneAtTarget(n) => TookFrame(n, r.tai)

LEMMA TookIt ==
  ASSUME NEW n \in DOMAIN orders, NEW k \in DOMAIN taken[orders[n].target], NEW start,
         taken[orders[n].target][k].at - Period[orders[n].target] = start,
         NEW q \in taken[orders[n].target][k].inbox, q.port = "cmd", q.payload = n
  PROVE  TookFrame(n, start)
BY DEF TookFrame

(* An instance that ran: the last of its commands, at a step at which it applied one. *)
LEMMA ExecutedLive ==
  ASSUME IInv, Frames, phase = "drain", NEW i \in Consumer, NEW r \in AppliedReports(i)
  PROVE  \E n \in DOMAIN orders : ExecutedOf(r, n)
<1>1. PICK n \in LastOrder(i), k \in DOMAIN applied[i] : r = Report(orders[n].id, "AckedExecuted", applied[i][k].at)
  BY DEF AppliedReports
<1>2. i \in Instance /\ Period[i] \in Nat
  BY RunAssumption
<1>3. /\ orders \in Orders /\ scenario \in Scenarios /\ AppliedOnEvidence
      /\ applied \in [Instance -> Seq([value : Int, at : Nat])]
  BY DEF Frames, IInv, SpanLoop, Applied
<1>4. /\ DOMAIN orders = 1 .. Len(orders) /\ Len(orders) \in Nat
      /\ \A m \in DOMAIN orders : orders[m] \in NumberedOrder /\ orders[m].tai < End
      /\ \A j, m \in DOMAIN orders : j < m => orders[j].tai <= orders[m].tai
  BY <1>3, OrdersFacts
<1>5. PICK m \in DOMAIN taken[i] :
        /\ taken[i][m].at = applied[i][k].at + Period[i]
        /\ \E q \in taken[i][m].inbox : q.port = "cmd" /\ q.payload \in DOMAIN orders
  BY <1>2, <1>3 DEF AppliedOnEvidence
<1>6. PICK q \in taken[i][m].inbox : q.port = "cmd" /\ q.payload \in DOMAIN orders
  BY <1>5
<1>7. q \in Had(i) /\ IsCommand(q)
  BY <1>6, HadIs DEF Took, IsCommand
<1>8. Dispatchable(orders[q.payload]) /\ orders[q.payload].target = i
  BY <1>7 DEF Frames
<1>9. n \in DOMAIN orders /\ orders[n].target = i /\ \A j \in n + 1 .. Len(orders) : orders[j].target # i
  BY DEF LastOrder
<1>10. q.payload <= n /\ n \in Nat /\ q.payload \in Nat
  BY <1>4, <1>6, <1>8, <1>9
<1>11. orders[q.payload].tai <= orders[n].tai
  <2>1. orders[n].tai \in Int
    BY <1>4, <1>9 DEF NumberedOrder
  <2>. QED BY <1>4, <1>6, <1>9, <1>10, <2>1
<1>12. Dispatchable(orders[n])
  <2>1. orders[n].tai \in Int /\ orders[q.payload].tai \in Int
    BY <1>4, <1>6, <1>9 DEF NumberedOrder
  <2>2. 0 < orders[q.payload].tai /\ orders[n].tai < End
    BY <1>4, <1>8, <1>9 DEF Dispatchable
  <2>. QED BY <1>11, <2>1, <2>2 DEF Dispatchable
<1>13. applied[i][k].at \in Nat
  <2>1. applied[i] \in Seq([value : Int, at : Nat])
    BY <1>2, <1>3
  <2>2. applied[i][k] \in [value : Int, at : Nat]
    BY <2>1, ElementOf
  <2>. QED BY <2>2
<1>14. r = Report(orders[n].id, "AckedExecuted", r.tai) /\ r.tai = applied[i][k].at
  BY <1>1, ReportFields
<1>15. ASSUME AloneAtTarget(n)
       PROVE  TookFrame(n, r.tai)
  <2>1. q.payload = n
    BY <1>6, <1>8, <1>9, <1>15 DEF AloneAtTarget
  <2>2. taken[i][m].at - Period[i] = r.tai
    BY <1>2, <1>5, <1>13, <1>14
  <2>. QED BY <1>6, <1>9, <2>1, <2>2, TookIt
<1>. QED BY <1>9, <1>12, <1>14, <1>15 DEF ExecutedOf

(* A replayed one: its log has the ack at the step that the frame is due at, and by the end *)
(* of the run it has taken that step, and the frame in it.                                  *)
LEMMA ExecutedReplayed ==
  ASSUME IInv, Planned, Frames, Acked, phase = "drain", NEW i \in Consumer, i \in Replayed,
         NEW r \in ReplayedReports(i)
  PROVE  \E n \in DOMAIN orders : ExecutedOf(r, n)
<1>1. PICK n \in DOMAIN orders : /\ orders[n].target = i
                                 /\ \E x \in LastAck(i, n) : r = Report(orders[n].id, "AckedExecuted", x.tai - Period[i])
  BY DEF ReplayedReports
<1>2. PICK x \in LastAck(i, n) : r = Report(orders[n].id, "AckedExecuted", x.tai - Period[i])
  BY <1>1
<1>3. x \in router.traffic /\ x.instance = i /\ x.dir = "out" /\ x.port = "ack" /\ x.payload = n
  BY DEF LastAck, Acks
<1>4. Replaying /\ i \in Acking
  BY DEF Replayed, Acking
<1>5. DueAt(orders, i, n, x.tai)
  BY <1>3, <1>4 DEF Acked, AcksOf
<1>. DEFINE t == x.tai
            K == taken[i]
<1>6. t \in Nat /\ StepEpoch(i, t)
  BY <1>5 DEF DueAt
<1>7. PICK a \in Int : /\ CommandFrame(orders, i, n, a) /\ a <= t
                       /\ \A u \in Nat : StepEpoch(i, u) /\ a <= u => t <= u
  BY <1>5 DEF DueAt
<1>8. Dispatchable(orders[n])
  BY <1>7 DEF CommandFrame
<1>9. i \in Instance /\ looped = Len(orders) /\ n \in 1 .. looped
  <2>1. orders \in Orders /\ looped = Len(orders) /\ scenario \in Scenarios
    BY DEF Frames, IInv, SpanLoop
  <2>2. DOMAIN orders = 1 .. Len(orders)
    BY <2>1, OrdersFacts
  <2>. QED BY <2>1, <2>2, RunAssumption
<1>10. PICK q \in Had(i) : q.port = "cmd" /\ q.payload = n /\ q.avail = a /\ q.after = 0
  BY <1>7, <1>9 DEF Frames
<1>11. /\ K \in Seq(StepTaken) /\ OnTime(router.pending[i], K) /\ TakenWhenDue(K)
  BY <1>9 DEF IInv, Carried
<1>12. /\ DOMAIN K = 1 .. Len(K) /\ Len(K) \in Nat /\ \A k \in DOMAIN K : K[k].at \in Nat
  <2>1. \A k \in DOMAIN K : K[k] \in StepTaken
    BY <1>11, ElementOf
  <2>. QED BY <1>11, <2>1 DEF StepTaken
<1>13. /\ \A u \in Nat : u \in Stepped(i) <=> StepEpoch(i, u)
       /\ \A j, k \in DOMAIN K : j < k => K[j].at < K[k].at
  BY <1>9 DEF Planned
<1>14. PICK k \in DOMAIN K : K[k].at = t
  <2>1. t \in Stepped(i)
    BY <1>6, <1>13
  <2>. QED BY <2>1 DEF Stepped
<1>. HIDE DEF t, K
<1>15. q \notin router.pending[i]
  <2>. SUFFICES ASSUME q \in router.pending[i] PROVE FALSE
    OBVIOUS
  <2>1. \A e \in q.after + 1 .. Len(K) : K[e].at < q.avail
    BY <1>11 DEF OnTime
  <2>2. k \in q.after + 1 .. Len(K)
    BY <1>10, <1>12
  <2>3. K[k].at < a
    BY <1>10, <2>1, <2>2
  <2>. QED BY <1>6, <1>7, <1>14, <2>3
<1>16. PICK m \in DOMAIN K : q \in K[m].inbox
  BY <1>10, <1>15, HadIs DEF Took, K
<1>17. a <= K[m].at /\ \A e \in 1 .. m - 1 : K[e].at < a
  <2>1. q.avail <= K[m].at /\ \A e \in q.after + 1 .. m - 1 : K[e].at < q.avail
    BY <1>11, <1>16 DEF TakenWhenDue
  <2>. QED BY <1>10, <2>1
<1>18. t <= K[m].at
  <2>1. K[m].at \in Stepped(i) /\ K[m].at \in Nat
    BY <1>12 DEF Stepped, K
  <2>. QED BY <1>7, <1>13, <1>17, <2>1 DEF t
<1>19. m = k
  <2>1. ~ k < m
    <3>. SUFFICES ASSUME k < m PROVE FALSE
      OBVIOUS
    <3>1. K[k].at < a
      BY <1>12, <1>17
    <3>. QED BY <1>6, <1>7, <1>14, <3>1 DEF t
  <2>2. ~ m < k
    <3>. SUFFICES ASSUME m < k PROVE FALSE
      OBVIOUS
    <3>1. K[m].at < K[k].at
      BY <1>13
    <3>. QED BY <1>6, <1>12, <1>14, <1>18, <3>1
  <2>. QED BY <1>12, <2>1, <2>2
<1>20. r = Report(orders[n].id, "AckedExecuted", r.tai) /\ r.tai = t - Period[i]
  BY <1>2, ReportFields DEF t
<1>21. TookFrame(n, r.tai)
  <2>1. K[m].at - Period[i] = r.tai
    BY <1>14, <1>19, <1>20
  <2>2. m \in DOMAIN taken[i] /\ taken[i][m].at - Period[i] = r.tai /\ q \in taken[i][m].inbox
    BY <1>16, <2>1 DEF K
  <2>. QED BY <1>1, <1>10, <2>2, TookIt
<1>. QED BY <1>8, <1>20, <1>21 DEF ExecutedOf

LEMMA ExecutedFacts ==
  ASSUME IInv, Planned, Frames, Acked, phase = "drain", NEW r \in ExecutedReports
  PROVE  \E n \in DOMAIN orders : ExecutedOf(r, n)
<1>1. PICK i \in Consumer : r \in (IF i \in Replayed THEN ReplayedReports(i) ELSE AppliedReports(i))
  BY DEF ExecutedReports
<1>. QED BY <1>1, ExecutedLive, ExecutedReplayed

(* The invariant of the stories: a command that was turned away is told of   *)
(* once, one that was dispatched has one story, one that was not yet none;   *)
(* and what is reported executed was taken by its target in that step.       *)
Reported ==
  /\ phase # "poll" =>
       /\ \A k \in Undispatched : AwayIn(reports, scenario.commands[k].id)
       /\ \A n \in DOMAIN orders :
            IF n <= looped /\ Dispatchable(orders[n]) THEN OnceIn(reports, orders[n].id, orders[n].tai)
            ELSE ToldIn(reports, orders[n].id) = {}
  /\ \A m \in DOMAIN reports : reports[m].outcome = "AckedExecuted" =>
       /\ phase = "done"
       /\ \E n \in DOMAIN orders : /\ orders[n].id = reports[m].id
                                   /\ AloneAtTarget(n) => TookFrame(n, reports[m].tai)

(* No command that is turned away has a number. *)
LEMMA IdsApart ==
  ASSUME scenario \in Scenarios, orders \in Orders
  PROVE  /\ \A m, n \in DOMAIN orders : orders[m].id = orders[n].id => m = n
         /\ \A k \in Undispatched : \A n \in DOMAIN orders : orders[n].id # scenario.commands[k].id
<1>1. \A m, n \in DOMAIN orders : orders[m].id = orders[n].id => m = n
  BY OrdersFacts
<1>2. ASSUME NEW k \in Undispatched, NEW n \in DOMAIN orders, orders[n].id = scenario.commands[k].id
      PROVE  FALSE
  <2>1. PICK j \in Chosen : orders[n] = OrderOf(j)
    BY OrdersFacts
  <2>2. scenario.commands[j].id = scenario.commands[k].id
    BY <1>2, <2>1 DEF OrderOf, Order
  <2>3. j \in DOMAIN scenario.commands /\ k \in DOMAIN scenario.commands
    BY PollPartition
  <2>4. j = k
    BY <2>2, <2>3, CommandsTyped
  <2>. QED BY <2>4, PollPartition
<1>. QED BY <1>1, <1>2

LEMMA ReportedPrepared ==
  ASSUME IInv, PrepareCommands
  PROVE  Reported'
<1>1. /\ phase = "poll" /\ orders' \in Orders /\ reports' = PollReports /\ UNCHANGED <<scenario, looped>> /\ looped = 0
  BY DEF PrepareCommands, IInv, Commands
<1>2. scenario \in Scenarios
  BY DEF IInv, SpanLoop
<1>3. /\ \A m \in DOMAIN PollReports : PollReports[m].outcome \notin SentOutcomes
      /\ \A k \in Undispatched : AwayIn(PollReports, scenario.commands[k].id)
      /\ \A k \in Chosen : ToldIn(PollReports, scenario.commands[k].id) = {}
  BY <1>2, PollReportsFacts
<1>4. Undispatched' = Undispatched
  BY <1>1, PollStays
<1>5. \A k \in Undispatched' : AwayIn(reports', scenario'.commands[k].id)
  BY <1>1, <1>3, <1>4
<1>6. \A n \in DOMAIN orders' : n >= 1 /\ ToldIn(reports', orders'[n].id) = {}
  <2>. SUFFICES ASSUME NEW n \in DOMAIN orders' PROVE n >= 1 /\ ToldIn(reports', orders'[n].id) = {}
    OBVIOUS
  <2>1. PICK k \in Chosen : orders'[n] = OrderOf(k)
    BY <1>1, <1>2, OrdersFacts
  <2>2. orders'[n].id = scenario.commands[k].id
    BY <2>1 DEF OrderOf, Order
  <2>3. DOMAIN orders' = 1 .. Len(orders') /\ Len(orders') \in Nat
    BY <1>1, <1>2, OrdersFacts
  <2>. QED BY <1>1, <1>3, <2>2, <2>3
<1>7. \A n \in DOMAIN orders' : ~ n <= looped'
  <2>1. \A s \in Orders : DOMAIN s = 1 .. Len(s) /\ Len(s) \in Nat
    BY <1>2, OrdersFacts
  <2>. QED BY <1>1, <2>1
<1>8. \A m \in DOMAIN reports' : reports'[m].outcome # "AckedExecuted"
  BY <1>1, <1>3 DEF SentOutcomes
<1>. QED BY <1>5, <1>6, <1>7, <1>8 DEF Reported

(* A command that is dispatched is told of for the first time. *)
LEMMA ReportedDispatched ==
  ASSUME IInv, Heard, Reported, DispatchNext
  PROVE  Reported'
<1>. DEFINE n == looped + 1
            c == orders[n]
            ts == <<Report(c.id, "Dispatched", c.tai), Report(c.id, "AckedEdge", c.tai)>>
<1>1. /\ phase = "dispatch" /\ looped' = n /\ UNCHANGED <<scenario, orders, taken>>
      /\ IF Dispatchable(c) THEN reports' = reports \o ts ELSE reports' = reports
  BY DEF DispatchNext, history
<1>2. /\ looped \in Nat /\ looped < Len(orders) /\ orders \in Orders /\ scenario \in Scenarios
      /\ reports \in Seq(ReportRecord)
  BY <1>1 DEF IInv, Commands, SpanLoop, Heard
<1>3. DOMAIN orders = 1 .. Len(orders) /\ Len(orders) \in Nat /\ \A m \in DOMAIN orders : orders[m] \in NumberedOrder
  BY <1>2, OrdersFacts
<1>4. n \in DOMAIN orders /\ n \in Nat /\ ~ n <= looped
  BY <1>2, <1>3
<1>5. c.id \in Nat /\ c.tai \in Int
  BY <1>3, <1>4 DEF NumberedOrder
<1>6. /\ \A m, j \in DOMAIN orders : orders[m].id = orders[j].id => m = j
      /\ \A k \in Undispatched : \A j \in DOMAIN orders : orders[j].id # scenario.commands[k].id
  BY <1>2, IdsApart
<1>7. /\ \A k \in Undispatched : AwayIn(reports, scenario.commands[k].id)
      /\ \A j \in DOMAIN orders :
           IF j <= looped /\ Dispatchable(orders[j]) THEN OnceIn(reports, orders[j].id, orders[j].tai)
           ELSE ToldIn(reports, orders[j].id) = {}
      /\ \A m \in DOMAIN reports : reports[m].outcome # "AckedExecuted"
  BY <1>1 DEF Reported
<1>8. ToldIn(reports, c.id) = {}
  BY <1>4, <1>7
<1>9. Undispatched' = Undispatched
  BY <1>1, PollStays
<1>10. \A j \in DOMAIN orders : j <= looped' <=> j <= looped \/ j = n
  BY <1>1, <1>2, <1>3
<1>. HIDE DEF c, n
<1>11. ts \in Seq(ReportRecord) /\ \A m \in DOMAIN ts : ts[m].id = c.id /\ ts[m].outcome # "AckedExecuted"
  <2>0. {"Dispatched", "AckedEdge"} \subseteq Refusals \cup SentOutcomes
    BY DEF SentOutcomes
  <2>. DEFINE a == Report(c.id, "Dispatched", c.tai)
              b == Report(c.id, "AckedEdge", c.tai)
  <2>1. a \in ReportRecord /\ b \in ReportRecord
    BY <1>5, <2>0, ReportFields
  <2>2. a.id = c.id /\ b.id = c.id /\ a.outcome = "Dispatched" /\ b.outcome = "AckedEdge"
    BY ReportFields
  <2>. HIDE DEF a, b
  <2>3. <<a, b>> \in Seq(ReportRecord) /\ \A m \in DOMAIN <<a, b>> : <<a, b>>[m] = a \/ <<a, b>>[m] = b
    BY <2>1
  <2>4. \A m \in DOMAIN <<a, b>> : <<a, b>>[m].id = c.id /\ <<a, b>>[m].outcome # "AckedExecuted"
    BY <2>2, <2>3
  <2>. QED BY <2>3, <2>4 DEF a, b
<1>. HIDE DEF ts
\* Others are not concerned,
<1>12. ASSUME NEW id, id # c.id
       PROVE  /\ ToldIn(reports', id) = ToldIn(reports, id)
              /\ AwayIn(reports, id) => AwayIn(reports', id)
              /\ \A epoch : OnceIn(reports, id, epoch) => OnceIn(reports', id, epoch)
  <2>1. CASE Dispatchable(c)
    <3>1. reports' = reports \o ts /\ \A m \in DOMAIN ts : ts[m].id # id
      BY <1>1, <1>11, <1>12, <2>1 DEF ts
    <3>. QED BY <1>2, <1>11, <3>1, AppendingOthers
  <2>2. CASE ~ Dispatchable(c)
    <3>1. reports' = reports
      BY <1>1, <2>2
    <3>. QED BY <3>1
  <2>. QED BY <2>1, <2>2
\* and this one is dispatched once, or passed over.
<1>13. IF Dispatchable(c) THEN OnceIn(reports', c.id, c.tai) ELSE ToldIn(reports', c.id) = {}
  <2>1. CASE Dispatchable(c)
    <3>1. reports' = reports \o <<Report(c.id, "Dispatched", c.tai), Report(c.id, "AckedEdge", c.tai)>>
      BY <1>1, <2>1 DEF ts
    <3>. QED BY <1>2, <1>5, <1>8, <2>1, <3>1, AppendingDispatch
  <2>2. CASE ~ Dispatchable(c)
    BY <1>1, <1>8, <2>2
  <2>. QED BY <2>1, <2>2
<1>14. \A k \in Undispatched : AwayIn(reports', scenario.commands[k].id)
  <2>. SUFFICES ASSUME NEW k \in Undispatched PROVE AwayIn(reports', scenario.commands[k].id)
    OBVIOUS
  <2>1. scenario.commands[k].id # c.id
    BY <1>4, <1>6 DEF c
  <2>. QED BY <1>7, <1>12, <2>1
<1>15. ASSUME NEW j \in DOMAIN orders
       PROVE  IF j <= looped' /\ Dispatchable(orders[j]) THEN OnceIn(reports', orders[j].id, orders[j].tai)
              ELSE ToldIn(reports', orders[j].id) = {}
  <2>1. CASE j = n
    BY <1>10, <1>13, <2>1 DEF c
  <2>2. CASE j # n
    <3>1. orders[j].id # c.id /\ (j <= looped' <=> j <= looped)
      BY <1>4, <1>6, <1>10, <2>2 DEF c
    <3>2. IF j <= looped /\ Dispatchable(orders[j]) THEN OnceIn(reports, orders[j].id, orders[j].tai)
          ELSE ToldIn(reports, orders[j].id) = {}
      BY <1>7
    <3>. QED BY <1>12, <3>1, <3>2
  <2>. QED BY <2>1, <2>2
<1>16. \A m \in DOMAIN reports' : reports'[m].outcome # "AckedExecuted"
  <2>1. CASE reports' = reports
    BY <1>7, <2>1
  <2>2. CASE reports' = reports \o ts
    <3>1. \A m \in DOMAIN reports : reports'[m] = reports[m]
      BY <1>2, <1>11, <2>2, Appending
    <3>2. \A m \in DOMAIN ts : reports'[Len(reports) + m] = ts[m]
      BY <1>2, <1>11, <2>2, Appending
    <3>3. \A m \in DOMAIN reports' : m \in DOMAIN reports \/ (\E k \in DOMAIN ts : m = Len(reports) + k)
      BY <1>2, <1>11, <2>2, Appending
    <3>. QED BY <1>7, <1>11, <3>1, <3>2, <3>3
  <2>. QED BY <1>1, <2>1, <2>2 DEF ts
<1>17. (\A j \in DOMAIN orders :
          IF j <= looped /\ Dispatchable(orders[j]) THEN OnceIn(reports, orders[j].id, orders[j].tai)
          ELSE ToldIn(reports, orders[j].id) = {})'
  BY <1>1, <1>15 DEF OnceIn, ToldIn, Dispatchable
<1>18. \A k \in Undispatched' : AwayIn(reports', scenario'.commands[k].id)
  BY <1>1, <1>9, <1>14
<1>. QED BY <1>16, <1>17, <1>18 DEF Reported

(* What is told at the end is of commands that were dispatched. *)
LEMMA ReportedDrained ==
  ASSUME IInv, Planned, Frames, Acked, Heard, Reported, Drain
  PROVE  Reported'
<1>. DEFINE ts == SetToSeq(ExecutedReports)
<1>1. /\ phase = "drain" /\ phase' = "done" /\ reports' = reports \o ts
      /\ UNCHANGED <<scenario, orders, looped, taken>>
  BY DEF Drain, history
<1>2. /\ orders \in Orders /\ scenario \in Scenarios /\ reports \in Seq(ReportRecord) /\ looped = Len(orders)
  BY <1>1 DEF IInv, SpanLoop, Heard
<1>3. /\ \A k \in Undispatched : AwayIn(reports, scenario.commands[k].id)
      /\ \A j \in DOMAIN orders :
           IF j <= looped /\ Dispatchable(orders[j]) THEN OnceIn(reports, orders[j].id, orders[j].tai)
           ELSE ToldIn(reports, orders[j].id) = {}
      /\ \A m \in DOMAIN reports : reports[m].outcome # "AckedExecuted"
  BY <1>1 DEF Reported
<1>4. ts \in Seq(ReportRecord) /\ \A m \in DOMAIN ts : ts[m] \in ExecutedReports
  BY ExecutedFinite, SetAsSeq
<1>5. \A m \in DOMAIN ts : ts[m].outcome = "AckedExecuted" /\ \E n \in DOMAIN orders : ExecutedOf(ts[m], n)
  BY <1>1, <1>4, ExecutedFinite, ExecutedFacts
<1>. HIDE DEF ts
<1>6. \A m \in DOMAIN ts : \E n \in DOMAIN orders :
        ts[m].id = orders[n].id /\ Dispatchable(orders[n]) /\ (AloneAtTarget(n) => TookFrame(n, ts[m].tai))
  <2>. SUFFICES ASSUME NEW m \in DOMAIN ts
                PROVE  \E n \in DOMAIN orders : /\ ts[m].id = orders[n].id /\ Dispatchable(orders[n])
                                                /\ AloneAtTarget(n) => TookFrame(n, ts[m].tai)
    OBVIOUS
  <2>1. PICK n \in DOMAIN orders : ExecutedOf(ts[m], n)
    BY <1>5
  <2>2. ts[m].id = orders[n].id
    BY <2>1, ReportFields DEF ExecutedOf
  <2>. QED BY <2>1, <2>2 DEF ExecutedOf
<1>15. ts \in Seq(ReportRecord) /\ reports \in Seq(ReportRecord) /\ reports' = reports \o ts
  BY <1>1, <1>2, <1>4
<1>16. ASSUME NEW id, \A m \in DOMAIN ts : ts[m].id # id
       PROVE  /\ ToldIn(reports', id) = ToldIn(reports, id)
              /\ AwayIn(reports, id) => AwayIn(reports', id)
  BY <1>15, <1>16, AppendingOthers
<1>7. /\ \A m, j \in DOMAIN orders : orders[m].id = orders[j].id => m = j
      /\ \A k \in Undispatched : \A j \in DOMAIN orders : orders[j].id # scenario.commands[k].id
  BY <1>2, IdsApart
<1>8. Undispatched' = Undispatched
  BY <1>1, PollStays
<1>9. \A k \in Undispatched : AwayIn(reports', scenario.commands[k].id)
  <2>. SUFFICES ASSUME NEW k \in Undispatched PROVE AwayIn(reports', scenario.commands[k].id)
    OBVIOUS
  <2>1. \A m \in DOMAIN ts : ts[m].id # scenario.commands[k].id
    BY <1>6, <1>7
  <2>. QED BY <1>3, <1>16, <2>1
<1>10. ASSUME NEW j \in DOMAIN orders
       PROVE  IF j <= looped /\ Dispatchable(orders[j]) THEN OnceIn(reports', orders[j].id, orders[j].tai)
              ELSE ToldIn(reports', orders[j].id) = {}
  <2>0. j <= looped
    <3>1. DOMAIN orders = 1 .. Len(orders) /\ Len(orders) \in Nat
      BY <1>2, OrdersFacts
    <3>. QED BY <1>2, <3>1
  <2>1. CASE Dispatchable(orders[j])
    <3>1. OnceIn(reports, orders[j].id, orders[j].tai)
      BY <1>3, <2>0, <2>1
    <3>2. OnceIn(reports', orders[j].id, orders[j].tai)
      BY <1>1, <1>2, <1>4, <1>5, <3>1, AppendingAcks
    <3>. QED BY <2>0, <2>1, <3>2
  <2>2. CASE ~ Dispatchable(orders[j])
    <3>1. \A m \in DOMAIN ts : ts[m].id # orders[j].id
      BY <1>6, <1>7, <2>2
    <3>2. ToldIn(reports', orders[j].id) = ToldIn(reports, orders[j].id)
      BY <1>16, <3>1
    <3>. QED BY <1>3, <2>2, <3>2
  <2>. QED BY <2>1, <2>2
<1>11. ASSUME NEW m \in DOMAIN reports', reports'[m].outcome = "AckedExecuted"
       PROVE  \E n \in DOMAIN orders : /\ orders[n].id = reports'[m].id
                                       /\ AloneAtTarget(n) => TookFrame(n, reports'[m].tai)
  <2>1. \A l \in DOMAIN reports : reports'[l] = reports[l]
    BY <1>1, <1>2, <1>4, Appending
  <2>2. \A l \in DOMAIN ts : reports'[Len(reports) + l] = ts[l]
    BY <1>1, <1>2, <1>4, Appending
  <2>3. m \in DOMAIN reports \/ (\E l \in DOMAIN ts : m = Len(reports) + l)
    <3>1. \A n \in DOMAIN reports' : n \in DOMAIN reports \/ (\E l \in DOMAIN ts : n = Len(reports) + l)
      BY <1>15, Appending
    <3>. QED BY <3>1
  <2>4. m \notin DOMAIN reports
    BY <1>3, <1>11, <2>1
  <2>5. PICK l \in DOMAIN ts : reports'[m] = ts[l]
    BY <2>2, <2>3, <2>4
  <2>. QED BY <1>6, <2>5
<1>12. (\A j \in DOMAIN orders :
          IF j <= looped /\ Dispatchable(orders[j]) THEN OnceIn(reports, orders[j].id, orders[j].tai)
          ELSE ToldIn(reports, orders[j].id) = {})'
  BY <1>1, <1>10 DEF OnceIn, ToldIn, Dispatchable
<1>13. \A k \in Undispatched' : AwayIn(reports', scenario'.commands[k].id)
  BY <1>1, <1>8, <1>9
<1>14. (\A m \in DOMAIN reports : reports[m].outcome = "AckedExecuted" =>
          /\ phase = "done"
          /\ \E n \in DOMAIN orders : /\ orders[n].id = reports[m].id
                                      /\ AloneAtTarget(n) => TookFrame(n, reports[m].tai))'
  BY <1>1, <1>11 DEF AloneAtTarget, TookFrame
<1>. QED BY <1>12, <1>13, <1>14 DEF Reported

(* Nothing is told between. *)
LEMMA ReportedStays ==
  ASSUME Reported, UNCHANGED <<scenario, orders, looped, reports>>,
         \/ phase' = phase /\ UNCHANGED taken
         \/ phase # "done" /\ phase # "poll"
  PROVE  Reported'
<1>1. Undispatched' = Undispatched
  BY PollStays
<1>2. phase' # "poll" => phase # "poll" \/ phase' = phase
  OBVIOUS
<1>3. (phase # "poll" =>
        /\ \A k \in Undispatched : AwayIn(reports, scenario.commands[k].id)
        /\ \A n \in DOMAIN orders :
             IF n <= looped /\ Dispatchable(orders[n]) THEN OnceIn(reports, orders[n].id, orders[n].tai)
             ELSE ToldIn(reports, orders[n].id) = {})'
  BY <1>1, <1>2 DEF Reported, OnceIn, ToldIn, AwayIn, Dispatchable
<1>4. (\A m \in DOMAIN reports : reports[m].outcome = "AckedExecuted" =>
         /\ phase = "done"
         /\ \E n \in DOMAIN orders : /\ orders[n].id = reports[m].id
                                     /\ AloneAtTarget(n) => TookFrame(n, reports[m].tai))'
  BY DEF Reported, AloneAtTarget, TookFrame
<1>. QED BY <1>3, <1>4 DEF Reported

LEMMA ReportedStep ==
  ASSUME IInv, Planned, Frames, Acked, Heard, Reported, Next
  PROVE  Reported'
<1>1. CASE PrepareCommands
  BY <1>1, ReportedPrepared
<1>2. CASE DispatchNext
  BY <1>2, ReportedDispatched
<1>3. CASE SkipBoundary \/ StartSpan \/ CrossBoundary \/ EndLastSpan \/ Sample
  <2>1. phase \in {"boundary", "advance"}
    BY <1>3 DEF SkipBoundary, StartSpan, CrossBoundary, EndLastSpan, Sample, SpanDone
  <2>2. UNCHANGED <<scenario, orders, looped, reports>>
    BY <1>3 DEF SkipBoundary, StartSpan, CrossBoundary, EndLastSpan, Sample
  <2>. QED BY <2>1, <2>2, ReportedStays
<1>4. ASSUME NEW i \in Instance, Step(i) \/ RefuseReplay(i)
      PROVE  Reported'
  <2>1. phase = "advance" /\ UNCHANGED <<scenario, orders, looped, reports>>
    BY <1>4 DEF Step, RefuseReplay
  <2>. QED BY <2>1, ReportedStays
<1>5. CASE Drain
  BY <1>5, ReportedDrained
<1>6. CASE StartReplay
  BY <1>6 DEF StartReplay, Fresh, Reported
<1>. QED BY <1>1, <1>2, <1>3, <1>4, <1>5, <1>6 DEF Next

LEMMA ReportedStutters ==
  ASSUME Reported, UNCHANGED vars
  PROVE  Reported'
<1>1. UNCHANGED <<scenario, phase, orders, looped, reports, taken>>
  BY DEF vars, progress, history
<1>. QED BY <1>1, ReportedStays

(* The stories that the invariant tells are legal. *)
LEMMA StoriesLegal ==
  ASSUME IInv, Heard, Reported
  PROVE  OutcomesLegal
<1>1. scenario \in Scenarios /\ (phase # "poll" => orders \in Orders) /\ (phase = "poll" => reports = << >>)
  BY DEF IInv, SpanLoop, Heard
<1>2. ASSUME NEW k \in DOMAIN scenario.commands
      PROVE  LET c == scenario.commands[k] IN TurnedAway(c) \/ SentOnce(c, Epoch(c))
  <2>. DEFINE c == scenario.commands[k]
  <2>1. Told(c) = ToldIn(reports, c.id)
    BY ToldIs
  <2>2. ToldIn(reports, c.id) = {} => TurnedAway(c)
    BY <2>1 DEF TurnedAway
  <2>3. AwayIn(reports, c.id) => TurnedAway(c)
    BY <2>1 DEF TurnedAway, AwayIn
  <2>4. OnceIn(reports, c.id, Epoch(c)) => SentOnce(c, Epoch(c))
    BY <2>1 DEF SentOnce, OnceIn
  <2>5. CASE phase = "poll"
    BY <1>1, <2>2, <2>5 DEF ToldIn
  <2>6. CASE phase # "poll" /\ k \in Undispatched
    BY <2>3, <2>6 DEF Reported
  <2>7. CASE phase # "poll" /\ k \in Chosen
    <3>1. PICK n \in DOMAIN orders : orders[n] = OrderOf(k)
      BY <1>1, <2>7, OrdersFacts
    <3>2. orders[n].id = c.id /\ orders[n].tai = Epoch(c)
      BY <3>1 DEF OrderOf, Order
    <3>3. OnceIn(reports, orders[n].id, orders[n].tai) \/ ToldIn(reports, orders[n].id) = {}
      BY <2>7 DEF Reported
    <3>. QED BY <2>2, <2>4, <3>2, <3>3
  <2>8. k \in Undispatched \/ k \in Chosen
    BY <1>1, PollPartition
  <2>. QED BY <2>5, <2>6, <2>7, <2>8
<1>3. ASSUME NEW n \in DOMAIN orders, AloneAtTarget(n), NEW r \in Got(orders[n], "AckedExecuted")
      PROVE  TookFrame(n, r.tai)
  <2>1. PICK m \in DOMAIN reports : r = reports[m] /\ reports[m].id = orders[n].id /\ reports[m].outcome = "AckedExecuted"
    BY DEF Got, Told
  <2>2. PICK l \in DOMAIN orders : /\ orders[l].id = reports[m].id
                                   /\ AloneAtTarget(l) => TookFrame(l, reports[m].tai)
    BY <2>1 DEF Reported
  <2>3. phase = "done"
    BY <2>1 DEF Reported
  <2>4. l = n
    BY <1>1, <2>1, <2>2, <2>3, IdsApart
  <2>. QED BY <1>3, <2>1, <2>2, <2>4
<1>. QED BY <1>2, <1>3 DEF OutcomesLegal

(* A command has one story: it is turned away once, with nothing after it,   *)
(* or it is dispatched once, at its epoch, and it is reported executed only  *)
(* when its target took its frame in that very step, whatever dropped,       *)
(* delayed or doubled the frame and whether the target ran or was replayed,  *)
(* if the command ports are wired for commands (executor.rs                  *)
(* run_shared_group: poll, dispatch, applied commands, replayed acks).       *)
THEOREM OneStoryEach ==
  ASSUME Wired
  PROVE  Spec => []OutcomesLegal
<1>. DEFINE Inv == Planned /\ Frames /\ Acked /\ Heard /\ Reported
<1>1. Init => Inv
  <2>. SUFFICES ASSUME Init PROVE Inv
    OBVIOUS
  <2>1. Planned
    BY PlannedAtStart DEF Init
  <2>2. Frames /\ Acked
    BY FramesAtStart DEF Init, Replaying
  <2>3. Heard /\ Reported
    BY DEF Init, Heard, Reported
  <2>. QED BY <2>1, <2>2, <2>3
<1>2. IInv /\ Inv /\ [Next]_vars => Inv'
  <2>. SUFFICES ASSUME IInv, Inv, [Next]_vars PROVE Inv'
    OBVIOUS
  <2>1. CASE Next
    BY <2>1, PlannedStep, FramesStep, HeardStep, ReportedStep
  <2>2. CASE UNCHANGED vars
    <3>1. Planned'
      <4>1. UNCHANGED <<scenario, next, segStart, curr, taken, phase>>
        BY <2>2 DEF vars, progress, scheduler, history
      <4>. QED BY <4>1, PlannedStays
    <3>. QED BY <2>2, <3>1, FramesStutter, HeardStutters, ReportedStutters
  <2>. QED BY <2>1, <2>2
<1>3. IInv /\ Inv => OutcomesLegal
  BY StoriesLegal
<1>. HIDE DEF Inv
<1>. QED BY <1>1, <1>2, <1>3, InvariantHolds, PTL DEF Spec
=============================================================================
