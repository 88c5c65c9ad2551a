---------------------------- MODULE EdgeUplink ----------------------------
(***************************************************************************)
(* One edge producer and its ingest: the store-and-forward uplink of       *)
(* crates/av-edge/src/buffer.rs (EdgeBuffer, UplinkDriver), run the way    *)
(* the av-edge-plugin binary runs it (crates/av-ingest-client), against    *)
(* the accept pipeline of crates/av-ingest/src/ingest.rs.                  *)
(*                                                                         *)
(* A run of the plugin replays the same signed batches 1..Batches from the *)
(* first; it may be killed anywhere and run again on the same buffer.      *)
(* Each submission to the ingest is a step: the link, the ingest and the   *)
(* age of the batches may change between two of them.  An outage reaches   *)
(* the driver either as LinkDown (the sinks of the ingest's own tests) or  *)
(* as an error (the plugin's sink, whose RPC fails); both are modelled.    *)
(***************************************************************************)
EXTENDS ChainVerifier, Sequences

CONSTANTS
  Batches,            \* batches of a run
  MaxRuns,            \* bound: runs of the plugin
  MaxCuts,            \* bound: link outages
  MaxAged,            \* bound: the first batches that may come to exceed max_age
  MaxAppendFailures,  \* bound: partition appends that fail
  MaxIngestLives      \* bound: lives of the ingest process

ASSUME UplinkAssumption ==
  /\ Batches \in Nat \ {0} /\ MaxRuns \in Nat /\ MaxCuts \in Nat
  /\ MaxAged \in 0..Batches /\ MaxAppendFailures \in Nat /\ MaxIngestLives \in Nat \ {0}

VARIABLES
  driver,    \* the plugin process: UplinkDriver and where its step is (volatile)
  buffer,    \* EdgeBuffer's file: batches in append order
  mark,      \* the watermark file (0 also when it does not read as 8 bytes)
  linkUp,    \* does the link work?
  chain,     \* the ingest's ProducerState (volatile)
  announced, \* has the plugin announced itself to this ingest process? (volatile)
  log,       \* the partition log: accepted batches, with the ingest life that took them
  life,      \* the ingest process's life
  aged,      \* batches 1..aged are older than max_age by now
  excused,   \* history: batches refused as stale, or lost to a failed append
  bound      \* what is left of the bounds

edge == <<driver, buffer, mark>>
ingest == <<chain, announced, log, life, excused>>
vars == <<edge, linkUp, ingest, aged, bound>>

Batch == 1..Batches
Stopped == [pc |-> "stopped", next |-> 1, wasDown |-> FALSE, backlog |-> {}, newest |-> 0, ack |-> 0]

\* EdgeBuffer::replay_from: where the buffered batches above the watermark stand,
\* which is their order.
ReplayFrom(w) == {i \in DOMAIN buffer : buffer[i] > w}
First(positions) == CHOOSE i \in positions : \A j \in positions : i <= j
Last(positions) == CHOOSE i \in positions : \A j \in positions : j <= i

Logged(s, n) == \E i \in DOMAIN log : log[i] = [life |-> n, seq |-> s]
Durable(s) == \E i \in DOMAIN log : log[i].seq = s
-----------------------------------------------------------------------------
Init ==
  /\ driver = Stopped /\ buffer = << >> /\ mark = 0
  /\ linkUp = TRUE
  /\ chain = FreshChain /\ announced = FALSE /\ log = << >> /\ life = 1 /\ excused = {}
  /\ aged = 0
  /\ bound = [runs |-> MaxRuns, cuts |-> MaxCuts, failures |-> MaxAppendFailures]

(***************************************************************************)
(* The ingest: Ingest::submit of one batch.                                *)
(***************************************************************************)
Judge(s) == Verdict(chain, s, s <= aged)

Accept(s) ==
  /\ Judge(s) = "accepted"
  /\ chain' = AfterAccept(chain, s)
  /\ log' = Append(log, [life |-> life, seq |-> s])
  /\ UNCHANGED <<excused, bound>>

Reject(s) ==
  /\ Judge(s) # "accepted"
  /\ excused' = IF Judge(s) = "stale" THEN excused \cup {s} ELSE excused
  /\ UNCHANGED <<chain, log, bound>>

\* The chain has moved when the append fails; the error ends the stream.
AppendFails(s) ==
  /\ bound.failures > 0
  /\ Judge(s) = "accepted"
  /\ chain' = AfterAccept(chain, s)
  /\ excused' = excused \cup {s}
  /\ bound' = [bound EXCEPT !.failures = @ - 1]
  /\ UNCHANGED log

\* BatchSink::submit, by what it reports to the driver.  An error may come
\* before the ingest saw the batch, from the ingest, or after its answer.
Delivered(s) ==
  /\ linkUp /\ announced
  /\ Accept(s) \/ Reject(s)
  /\ UNCHANGED <<announced, life>>
LinkDown == ~linkUp /\ UNCHANGED <<ingest, bound>>
SinkError(s) ==
  /\ \/ UNCHANGED <<chain, log, excused, bound>>
     \/ linkUp /\ announced /\ (Accept(s) \/ Reject(s) \/ AppendFails(s))
  /\ UNCHANGED <<announced, life>>

(***************************************************************************)
(* The driver.                                                             *)
(***************************************************************************)
At(pc) == driver.pc = pc
Ended == At("stopped") \/ At("cut_off")

\* step returns the sink's error and the run ends with it; a run that ends for
\* an outage is told apart.
RunFails == driver' = [Stopped EXCEPT !.pc = IF linkUp THEN "stopped" ELSE "cut_off"]

\* A run connects, announces, opens the buffer and builds the driver.
StartRun ==
  /\ Ended /\ linkUp /\ bound.runs > 0
  /\ bound' = [bound EXCEPT !.runs = @ - 1]
  /\ announced' = TRUE
  /\ driver' = [Stopped EXCEPT !.pc = "step", !.ack = mark]
  /\ UNCHANGED <<buffer, mark, linkUp, chain, log, life, excused, aged>>

BeginStepPastEnd ==   \* bug: one step beyond the last batch
  /\ At("step") /\ driver.next <= Batches + 1
  /\ driver' = [driver EXCEPT !.pc = "send"]
  /\ UNCHANGED <<buffer, mark, linkUp, ingest, aged, bound>>

\* UplinkDriver::step is given the next batch; after an outage it first reads
\* the backlog.
BeginStep ==
  /\ At("step") /\ driver.next <= Batches
  /\ driver' =
       IF driver.wasDown
       THEN LET backlog == ReplayFrom(driver.ack)
            IN [driver EXCEPT !.pc = "drain", !.backlog = backlog,
                  !.newest = IF backlog = {} THEN 0 ELSE buffer[Last(backlog)]]
       ELSE [driver EXCEPT !.pc = "send"]
  /\ UNCHANGED <<buffer, mark, linkUp, ingest, aged, bound>>

\* The batch of this step is buffered and the step returns.
BufferBatchForgotten ==   \* bug: nothing is appended
  /\ driver' = [driver EXCEPT !.pc = "step", !.wasDown = TRUE, !.next = @ + 1, !.backlog = {}]
  /\ UNCHANGED buffer

BufferBatch ==
  /\ buffer' = Append(buffer, driver.next)
  /\ driver' = [driver EXCEPT !.pc = "step", !.wasDown = TRUE, !.next = @ + 1, !.backlog = {}]

ReplayOne ==
  /\ At("drain") /\ driver.backlog # {}
  /\ LET s == buffer[First(driver.backlog)]
     IN \/ Delivered(s) /\ driver' = [driver EXCEPT !.backlog = @ \ {First(@)}] /\ UNCHANGED buffer
        \/ LinkDown /\ BufferBatch
        \/ SinkError(s) /\ RunFails /\ UNCHANGED buffer
  /\ UNCHANGED <<mark, linkUp, aged>>

\* The whole backlog came back delivered: commit the watermark, once.  The
\* file is first truncated, then written.
CommitMarkEarly ==   \* bug: committed before the backlog is delivered
  /\ At("drain") /\ driver.newest # 0
  /\ mark' = 0
  /\ driver' = [driver EXCEPT !.pc = "mark"]
  /\ UNCHANGED <<buffer, linkUp, ingest, aged, bound>>

CommitMark ==
  /\ At("drain") /\ driver.backlog = {} /\ driver.newest # 0
  /\ mark' = 0
  /\ driver' = [driver EXCEPT !.pc = "mark"]
  /\ UNCHANGED <<buffer, linkUp, ingest, aged, bound>>

WriteMark ==
  /\ At("mark")
  /\ mark' = driver.newest
  /\ driver' = [driver EXCEPT !.pc = "send", !.wasDown = FALSE, !.ack = driver.newest]
  /\ UNCHANGED <<buffer, linkUp, ingest, aged, bound>>

NothingToDrain ==
  /\ At("drain") /\ driver.newest = 0
  /\ driver' = [driver EXCEPT !.pc = "send", !.wasDown = FALSE]
  /\ UNCHANGED <<buffer, mark, linkUp, ingest, aged, bound>>

SendNew ==
  /\ At("send")
  /\ LET s == driver.next
     IN \/ Delivered(s) /\ driver' = [driver EXCEPT !.pc = "step", !.next = @ + 1] /\ UNCHANGED buffer
        \/ LinkDown /\ BufferBatch
        \/ SinkError(s) /\ RunFails /\ UNCHANGED buffer
  /\ UNCHANGED <<mark, linkUp, aged>>

\* The run is over, or the process is killed: only the two files stay.
StopRun ==
  /\ ~Ended
  /\ driver' = Stopped
  /\ UNCHANGED <<buffer, mark, linkUp, ingest, aged, bound>>

(***************************************************************************)
(* The surroundings.                                                       *)
(***************************************************************************)
CutLink ==
  /\ linkUp /\ bound.cuts > 0
  /\ linkUp' = FALSE /\ bound' = [bound EXCEPT !.cuts = @ - 1]
  /\ UNCHANGED <<edge, ingest, aged>>
RestoreLink == ~linkUp /\ linkUp' = TRUE /\ UNCHANGED <<edge, ingest, aged, bound>>
Age == aged < MaxAged /\ aged' = aged + 1 /\ UNCHANGED <<edge, linkUp, ingest, bound>>

\* A new ingest process keeps the partition log and nothing else: its chain
\* state is fresh and nobody has announced to it.
RestartIngest ==
  /\ life < MaxIngestLives
  /\ life' = life + 1 /\ chain' = FreshChain /\ announced' = FALSE
  /\ UNCHANGED <<edge, linkUp, log, excused, aged, bound>>

Over == Ended /\ UNCHANGED vars

Next ==
  \/ StartRun \/ BeginStep \/ ReplayOne \/ CommitMark \/ WriteMark \/ NothingToDrain \/ SendNew
  \/ StopRun \/ CutLink \/ RestoreLink \/ Age \/ RestartIngest \/ Over

Spec == Init /\ [][Next]_vars
-----------------------------------------------------------------------------
(* Properties.                                                             *)

TypeOK ==
  /\ driver \in [pc : {"stopped", "cut_off", "step", "drain", "mark", "send"}, next : 1..(Batches + 1),
                 wasDown : BOOLEAN, backlog : SUBSET Nat, newest : 0..Batches, ack : 0..Batches]
  /\ driver.backlog \subseteq DOMAIN buffer
  /\ buffer \in Seq(Batch) /\ mark \in 0..Batches
  /\ linkUp \in BOOLEAN /\ announced \in BOOLEAN
  /\ chain \in [last : 0..Batches, seen : SUBSET Batch, head : 0..Batches]
  /\ log \in Seq([life : 1..MaxIngestLives, seq : Batch])
  /\ life \in 1..MaxIngestLives /\ aged \in 0..MaxAged /\ excused \subseteq Batch

\* One ingest process never takes a batch twice or out of order, and leaves no
\* hole but one a failed append made: a replayed backlog is absorbed.
LogInOrder ==
  \A j \in DOMAIN log :
    /\ \A i \in 1..(j - 1) : log[i].life = log[j].life => log[i].seq < log[j].seq
    /\ \A s \in 1..(log[j].seq - 1) : Logged(s, log[j].life) \/ s \in excused

\* A batch the driver has been given and has not to worry about any more.
Answered(s) == Durable(s) \/ \E r \in excused : r <= s
Pending(s) == driver.wasDown /\ s > driver.ack /\ \E i \in DOMAIN buffer : buffer[i] = s

\* While the ingest lives, a batch the driver took is in its log or will be
\* replayed; the only ways to lose one are its age, or a failed append, or
\* those of a batch before it.
NothingLost ==
  life = 1 /\ ~Ended => \A s \in 1..(driver.next - 1) : Answered(s) \/ Pending(s)

\* The watermark on disk is never ahead of what the ingest has: it may be
\* understated (a kill between truncating and writing it), never overstated.
WatermarkNeverOverstated == life = 1 => \A s \in 1..mark : Answered(s)

-----------------------------------------------------------------------------
(* What the documentation says cannot happen, and a failing append (README, *)
(* known divergences) or the plugin's own sink makes happen.                *)

\* ingest.rs: the chain state in memory is never ahead of the durable log.
ChainNeverAheadOfLog == \A s \in chain.seen : Logged(s, life)

\* buffer.rs, BatchSink::submit: a down link is never an error, so that an
\* outage is buffered and never ends a run.
OutageSurvived == ~At("cut_off")
=============================================================================
