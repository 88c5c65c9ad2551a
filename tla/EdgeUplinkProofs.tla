-------------------------- MODULE EdgeUplinkProofs --------------------------
(***************************************************************************)
(* What the store-and-forward uplink loses, for any number of batches,     *)
(* runs, outages, stale batches and failed appends: while one ingest       *)
(* process lives, nothing that was not too old, or behind such a batch or  *)
(* a failed append; and across its lives the log stays in order.           *)
(***************************************************************************)
EXTENDS EdgeUplink, WellFoundedInduction, TLAPS

\* The chain state is a prefix of the batches.
ChainIsPrefix ==
  /\ chain.last \in 0..Batches /\ chain.head = chain.last
  /\ chain.seen = 1..chain.last

\* The log holds the batches of each life in order, the present one's up to the
\* chain state; a hole is excused.
LogFollows ==
  /\ \A i \in DOMAIN log : log[i].life <= life /\ (log[i].life = life => log[i].seq <= chain.last)
  /\ \A s \in 1..chain.last : Logged(s, life) \/ s \in excused

\* Every buffered batch above the watermark is still to be replayed, or has
\* been answered.
Drained ==
  \A i \in DOMAIN buffer : buffer[i] > driver.ack => i \in driver.backlog \/ Answered(buffer[i])

\* What stands before a batch in the stream is behind it in neither place.
BufferOrder ==
  \A i \in DOMAIN buffer : \A s \in 1..(buffer[i] - 1) :
    Answered(s) \/ \E j \in 1..(i - 1) : buffer[j] = s

\* The driver's step: a backlog is read after an outage only, and the newest of
\* it stands in the buffer.
StepFollows ==
  /\ driver.pc \in {"send", "drain", "mark"} => driver.next <= Batches
  /\ driver.pc \in {"drain", "mark"} => driver.wasDown
  /\ driver.pc = "drain" /\ driver.newest = 0 => driver.backlog = {}
  /\ driver.pc \in {"drain", "mark"} /\ driver.newest # 0 =>
       \E i \in DOMAIN buffer : buffer[i] = driver.newest
  /\ driver.pc = "mark" => driver.backlog = {} /\ driver.newest # 0
  /\ driver.pc = "send" => ~driver.wasDown

\* What holds while the first ingest process lives.
FirstLife ==
  life = 1 =>
    /\ NothingLost /\ BufferOrder
    /\ \A s \in 1..mark : Answered(s)
    /\ ~Ended => \A s \in 1..driver.ack : Answered(s)
    /\ driver.pc \in {"drain", "mark"} => Drained

IInv == TypeOK /\ ChainIsPrefix /\ LogFollows /\ LogInOrder /\ StepFollows /\ FirstLife
-----------------------------------------------------------------------------
(* One batch at the ingest.                                                  *)

\* The order of the verifier's checks leaves three cases.
LEMMA Judged ==
  ASSUME TypeOK, ChainIsPrefix, NEW s \in Batch
  PROVE  /\ s <= chain.last => Judge(s) = "duplicate"
         /\ s = chain.last + 1 => Judge(s) = IF s <= aged THEN "stale" ELSE "accepted"
         /\ s > chain.last + 1 => Judge(s) \in {"chain_gap", "chain_break"}
<1>1. s \in Nat /\ chain.last \in Nat /\ (s \in chain.seen <=> s <= chain.last)
  BY UplinkAssumption DEF ChainIsPrefix, Batch
<1>2. CASE s <= chain.last
  BY <1>1, <1>2 DEF Judge, Verdict
<1>3. CASE s = chain.last + 1
  BY <1>1, <1>3 DEF Judge, Verdict, PrevHash, ChainIsPrefix
<1>4. CASE s > chain.last + 1
  <2>1. s \notin chain.seen /\ PrevHash(s) # chain.head
    BY <1>1, <1>4 DEF PrevHash, ChainIsPrefix
  <2>. QED BY <1>1, <1>4, <2>1 DEF Judge, Verdict
<1>. QED BY <1>1, <1>2, <1>3, <1>4

IngestTypes ==
  /\ chain \in [last : 0..Batches, seen : SUBSET Batch, head : 0..Batches]
  /\ log \in Seq([life : 1..MaxIngestLives, seq : Batch])
  /\ life \in 1..MaxIngestLives /\ excused \subseteq Batch

IngestHolds == IngestTypes /\ ChainIsPrefix /\ LogFollows /\ LogInOrder

\* What is accepted is the next batch.
LEMMA AcceptedIsNext ==
  ASSUME TypeOK, ChainIsPrefix, NEW s \in Batch, Judge(s) = "accepted"
  PROVE  s = chain.last + 1
<1>1. s \in Nat /\ chain.last \in Nat
  BY UplinkAssumption DEF ChainIsPrefix, Batch
<1>2. ~(s <= chain.last) /\ ~(s > chain.last + 1)
  BY Judged
<1>. QED BY <1>1, <1>2

\* What has been answered stays so, while the log and the excuses only grow.
LEMMA AnsweredStays ==
  ASSUME log \in Seq([life : 1..MaxIngestLives, seq : Batch]),
         log' = log \/ \E e \in [life : 1..MaxIngestLives, seq : Batch] : log' = Append(log, e),
         excused \subseteq excused'
  PROVE  /\ \A s, n : Logged(s, n) => Logged(s, n)'
         /\ \A s : Answered(s) => Answered(s)'
<1>1. \A i \in DOMAIN log : i \in DOMAIN log' /\ log'[i] = log[i]
  OBVIOUS
<1>2. \A s, n : Logged(s, n) => Logged(s, n)'
  BY <1>1 DEF Logged
<1>3. \A s : Durable(s) => Durable(s)'
  BY <1>1 DEF Durable
<1>. QED BY <1>2, <1>3 DEF Answered

\* An entry of a sequence has the sequence's type.
LEMMA EntryType ==
  ASSUME NEW S, NEW q \in Seq(S), NEW i \in DOMAIN q
  PROVE  q[i] \in S
OBVIOUS

\* An ingest that takes a batch keeps its log in order.  While it lives, a batch
\* is answered when all before it are.
LEMMA IngestTakes ==
  ASSUME IngestHolds, TypeOK, NEW s \in Batch, Accept(s) \/ Reject(s) \/ AppendFails(s), life' = life
  PROVE  /\ IngestHolds'
         /\ \A r : Answered(r) => Answered(r)'
         /\ life = 1 /\ (\A r \in 1..(s - 1) : Answered(r)) => Answered(s)'
<1>. USE UplinkAssumption DEF IngestHolds, IngestTypes
<1>0. s \in Nat /\ s >= 1 /\ chain.last \in Nat /\ Batches \in Nat
  BY DEF Batch
<1>n. PICK n, l, c : n = Len(log) /\ l = life /\ c = chain.last
  OBVIOUS
<1>t. \A i \in DOMAIN log :
        /\ log[i].life \in Nat /\ log[i].life >= 1 /\ log[i].life <= l
        /\ log[i].seq \in Nat /\ (log[i].life = l => log[i].seq <= c)
  <2>. SUFFICES ASSUME NEW i \in DOMAIN log
       PROVE  /\ log[i].life \in Nat /\ log[i].life >= 1 /\ log[i].life <= l
              /\ log[i].seq \in Nat /\ (log[i].life = l => log[i].seq <= c)
    OBVIOUS
  <2>0. log \in Seq([life : 1..MaxIngestLives, seq : Batch])
    OBVIOUS
  <2>1. log[i] \in [life : 1..MaxIngestLives, seq : Batch]
    BY <2>0, EntryType
  <2>2. log[i].life <= l /\ (log[i].life = l => log[i].seq <= c)
    BY <1>n DEF LogFollows
  <2>. QED BY <1>0, <2>1, <2>2 DEF Batch
<1>1. CASE Accept(s)
  <2>1. /\ s = c + 1 /\ chain' = [last |-> s, seen |-> chain.seen \cup {s}, head |-> s]
        /\ log' = Append(log, [life |-> l, seq |-> s]) /\ excused' = excused
    <3>1. /\ Judge(s) = "accepted" /\ chain' = AfterAccept(chain, s)
          /\ log' = Append(log, [life |-> life, seq |-> s]) /\ excused' = excused
      BY <1>1 DEF Accept
    <3>2. s = chain.last + 1
      BY <3>1, AcceptedIsNext
    <3>. QED BY <1>n, <3>1, <3>2 DEF AfterAccept
  <2>2. /\ [life |-> l, seq |-> s] \in [life : 1..MaxIngestLives, seq : Batch]
        /\ n \in Nat /\ DOMAIN log = 1..n /\ DOMAIN log' = 1..(n + 1)
        /\ log' \in Seq([life : 1..MaxIngestLives, seq : Batch])
        /\ log'[n + 1] = [life |-> l, seq |-> s]
        /\ \A i \in 1..n : log'[i] = log[i]
    BY <1>n, <2>1
  <2>3. /\ \A r, k : Logged(r, k) => Logged(r, k)'
        /\ \A r : Answered(r) => Answered(r)'
    <3>1. log' = log \/ \E e \in [life : 1..MaxIngestLives, seq : Batch] : log' = Append(log, e)
      BY <2>1, <2>2
    <3>. QED BY <2>1, <3>1, AnsweredStays
  <2>4. Logged(s, l)' /\ Durable(s)'
    <3>1. n + 1 \in DOMAIN log' /\ log'[n + 1] = [life |-> l, seq |-> s] /\ log'[n + 1].seq = s
      BY <2>2
    <3>2. Logged(s, l)'
      BY <3>1 DEF Logged
    <3>3. Durable(s)'
      BY <3>1 DEF Durable
    <3>. QED BY <3>2, <3>3
  <2>5. IngestTypes' /\ ChainIsPrefix'
    BY <1>0, <1>n, <2>1, <2>2 DEF ChainIsPrefix, Batch
  <2>6. LogFollows'
    <3>1. \A i \in DOMAIN log' : log'[i].life <= l /\ (log'[i].life = l => log'[i].seq <= s)
      <4>1. ASSUME NEW i \in 1..n PROVE log'[i].life <= l /\ (log'[i].life = l => log'[i].seq <= s)
        <5>1. i \in DOMAIN log /\ log'[i] = log[i]
          BY <2>2
        <5>2. log[i].life <= l /\ log[i].seq \in Nat /\ (log[i].life = l => log[i].seq <= c)
          BY <1>t, <5>1
        <5>3. c \in Nat /\ s = c + 1
          BY <1>0, <1>n, <2>1
        <5>. QED BY <5>1, <5>2, <5>3
      <4>2. log'[n + 1].life = l /\ log'[n + 1].seq = s /\ l \in Nat
        BY <1>n, <2>2
      <4>. QED BY <1>0, <2>2, <4>1, <4>2
    <3>2. \A r \in 1..s : Logged(r, l)' \/ r \in excused
      BY <1>0, <1>n, <2>1, <2>3, <2>4 DEF LogFollows
    <3>3. life' = l /\ (chain.last)' = s
      BY <1>n, <2>1
    <3>. QED BY <2>1, <3>1, <3>2, <3>3 DEF LogFollows
  <2>7. LogInOrder'
    <3>. SUFFICES ASSUME NEW j \in DOMAIN log', NEW k, k = log'[j].life
         PROVE /\ \A i \in 1..(j - 1) : log'[i].life = k => log'[i].seq < log'[j].seq
               /\ \A r \in 1..(log'[j].seq - 1) : Logged(r, k)' \/ r \in excused'
      BY DEF LogInOrder
    <3>1. CASE j \in 1..n
      <4>1. \A i \in 1..(j - 1) : i \in 1..n
        BY <2>2, <3>1
      <4>2. log'[j] = log[j] /\ j \in DOMAIN log /\ k = log[j].life
        BY <2>2, <3>1
      <4>3. \A i \in 1..(j - 1) : log'[i].life = k => log'[i].seq < log'[j].seq
        BY <2>2, <4>1, <4>2 DEF LogInOrder
      <4>4. \A r \in 1..(log[j].seq - 1) : Logged(r, k) \/ r \in excused
        BY <4>2 DEF LogInOrder
      <4>. QED BY <2>1, <2>3, <4>2, <4>3, <4>4
    <3>2. CASE j = n + 1
      <4>1. k = l /\ log'[j].seq = s
        BY <2>2, <3>2
      <4>2. \A i \in 1..(j - 1) : log'[i].life = k => log'[i].seq < s
        <5>. SUFFICES ASSUME NEW i \in 1..(j - 1), log'[i].life = l PROVE log'[i].seq < s
          BY <4>1
        <5>1. i \in DOMAIN log /\ log'[i] = log[i]
          BY <2>2, <3>2
        <5>. QED BY SMTT(60), <1>0, <1>n, <1>t, <2>1, <5>1
      <4>3. \A r \in 1..(s - 1) : Logged(r, l)' \/ r \in excused'
        BY <1>0, <1>n, <2>1, <2>3 DEF LogFollows
      <4>. QED BY <4>1, <4>2, <4>3
    <3>. QED BY <2>2, <3>1, <3>2
  <2>8. Answered(s)'
    BY <2>4 DEF Answered
  <2>. QED BY <2>3, <2>5, <2>6, <2>7, <2>8
<1>2. CASE Reject(s)
  <2>1. /\ chain' = chain /\ log' = log /\ Judge(s) # "accepted"
        /\ excused' = (IF Judge(s) = "stale" THEN excused \cup {s} ELSE excused)
        /\ excused \subseteq excused'
    BY <1>2 DEF Reject
  <2>2. /\ \A r, k : Logged(r, k) => Logged(r, k)'
        /\ \A r : Answered(r) => Answered(r)'
    BY <2>1, AnsweredStays
  <2>3. IngestTypes' /\ ChainIsPrefix'
    BY <2>1 DEF ChainIsPrefix
  <2>4. LogFollows'
    BY <2>1, <2>2 DEF LogFollows
  <2>5. LogInOrder'
    BY <2>1, <2>2 DEF LogInOrder
  <2>6. ASSUME life = 1, \A r \in 1..(s - 1) : Answered(r) PROVE Answered(s)'
    <3>1. CASE s <= c
      <4>1. Logged(s, life) \/ s \in excused
        BY <1>0, <1>n, <3>1 DEF LogFollows
      <4>2. Answered(s)
        BY <1>0, <4>1 DEF Answered, Logged, Durable
      <4>. QED BY <2>2, <4>2
    <3>2. CASE s = c + 1
      <4>1. s \in excused'
        BY <1>0, <1>n, <2>1, <3>2, Judged
      <4>. QED BY <1>0, <4>1 DEF Answered
    <3>3. CASE s > c + 1
      <4>1. c \in Nat /\ Answered(c + 1)
        BY <1>0, <1>n, <2>6, <3>3
      <4>2. ~Durable(c + 1)
        <5>. SUFFICES ASSUME NEW i \in DOMAIN log, log[i].seq = c + 1 PROVE FALSE
          BY DEF Durable
        <5>1. log[i].life = l
          BY <1>n, <1>t, <2>6
        <5>. QED BY <1>t, <4>1, <5>1
      <4>3. PICK r \in excused : r <= c + 1
        BY <4>1, <4>2 DEF Answered
      <4>4. r <= s /\ r \in excused'
        BY <1>0, <2>1, <3>3, <4>1, <4>3 DEF Batch
      <4>. QED BY <4>4 DEF Answered
    <3>. QED BY <1>0, <1>n, <3>1, <3>2, <3>3
  <2>. QED BY <2>2, <2>3, <2>4, <2>5, <2>6
<1>3. CASE AppendFails(s)
  <2>1. /\ s = c + 1 /\ chain' = [last |-> s, seen |-> chain.seen \cup {s}, head |-> s]
        /\ log' = log /\ excused' = excused \cup {s}
    <3>1. Judge(s) = "accepted" /\ chain' = AfterAccept(chain, s) /\ log' = log /\ excused' = excused \cup {s}
      BY <1>3 DEF AppendFails
    <3>2. s = chain.last + 1
      BY <3>1, AcceptedIsNext
    <3>. QED BY <1>n, <3>1, <3>2 DEF AfterAccept
  <2>2. /\ \A r, k : Logged(r, k) => Logged(r, k)'
        /\ \A r : Answered(r) => Answered(r)'
    BY <2>1, AnsweredStays
  <2>3. IngestTypes' /\ ChainIsPrefix'
    <3>1. chain.seen \cup {s} = 1..s
      BY <1>0, <1>n, <2>1 DEF ChainIsPrefix
    <3>2. chain' \in [last : 0..Batches, seen : SUBSET Batch, head : 0..Batches]
      BY <1>0, <1>n, <2>1, <3>1 DEF Batch
    <3>3. ChainIsPrefix'
      BY <1>0, <2>1, <3>1 DEF ChainIsPrefix, Batch
    <3>. QED BY <2>1, <3>2, <3>3
  <2>4. LogFollows'
    <3>1. \A i \in DOMAIN log : log[i].life <= life /\ (log[i].life = life => log[i].seq <= s)
      <4>. SUFFICES ASSUME NEW i \in DOMAIN log
           PROVE log[i].life <= life /\ (log[i].life = life => log[i].seq <= s)
        OBVIOUS
      <4>. QED BY <1>0, <1>n, <1>t, <2>1
    <3>2. \A r \in 1..s : Logged(r, l)' \/ r \in excused'
      BY <1>0, <1>n, <2>1, <2>2 DEF LogFollows
    <3>3. life' = l /\ l = life /\ (chain.last)' = s
      BY <1>n, <2>1
    <3>. QED BY <2>1, <3>1, <3>2, <3>3 DEF LogFollows
  <2>5. LogInOrder'
    BY <2>1, <2>2 DEF LogInOrder
  <2>6. Answered(s)'
    BY <1>0, <2>1 DEF Answered
  <2>. QED BY <2>2, <2>3, <2>4, <2>5, <2>6
<1>. QED BY <1>1, <1>2, <1>3

\* And one that is not reached, or only ages, stays as it is.
LEMMA IngestRests ==
  ASSUME IngestHolds, UNCHANGED <<chain, log, excused, life>>
  PROVE  IngestHolds' /\ \A r : Answered(r)' <=> Answered(r)
<1>1. \A r, n : Logged(r, n)' <=> Logged(r, n)
  BY DEF Logged
<1>2. \A r : Answered(r)' <=> Answered(r)
  BY DEF Answered, Durable
<1>. QED BY <1>1, <1>2 DEF IngestHolds, IngestTypes, ChainIsPrefix, LogFollows, LogInOrder
-----------------------------------------------------------------------------
(* The driver's steps.                                                       *)

DriverRecord == [pc : {"stopped", "cut_off", "step", "drain", "mark", "send"}, next : 1..(Batches + 1),
                 wasDown : BOOLEAN, backlog : SUBSET Nat, newest : 0..Batches, ack : 0..Batches]

DriverTypes ==
  /\ driver \in DriverRecord /\ driver.backlog \subseteq DOMAIN buffer
  /\ buffer \in Seq(Batch) /\ mark \in 0..Batches

DriverHolds == DriverTypes /\ StepFollows /\ FirstLife

\* What a step at the driver leaves of the ingest and of what it has answered.
IngestKept == IngestHolds' /\ life' = life /\ \A r : Answered(r) => Answered(r)'

LEMMA Parts == IInv <=> /\ IngestHolds /\ DriverHolds
                        /\ linkUp \in BOOLEAN /\ announced \in BOOLEAN /\ aged \in 0..MaxAged
<1>1. TypeOK <=> /\ IngestTypes /\ DriverTypes
                 /\ linkUp \in BOOLEAN /\ announced \in BOOLEAN /\ aged \in 0..MaxAged
  BY DEF TypeOK, IngestTypes, DriverTypes, DriverRecord
<1>. QED BY <1>1 DEF IInv, IngestHolds, DriverHolds

LEMMA PartsNext == IInv' <=> (/\ IngestHolds /\ DriverHolds
                             /\ linkUp \in BOOLEAN /\ announced \in BOOLEAN /\ aged \in 0..MaxAged)'
BY Parts, PTL

\* One submission, by what it reports.
LEMMA Submitted ==
  ASSUME IInv, NEW s \in Batch, Delivered(s) \/ LinkDown \/ SinkError(s)
  PROVE  /\ IngestKept /\ announced' \in BOOLEAN
         /\ Delivered(s) /\ life = 1 /\ (\A r \in 1..(s - 1) : Answered(r)) => Answered(s)'
<1>. USE Parts
<1>0. IngestHolds /\ TypeOK /\ announced \in BOOLEAN
  BY DEF IInv
<1>1. life' = life /\ announced' = announced
  BY DEF Delivered, LinkDown, SinkError, ingest
<1>2. CASE Accept(s) \/ Reject(s) \/ AppendFails(s)
  BY <1>0, <1>1, <1>2, IngestTakes DEF IngestKept
<1>3. CASE UNCHANGED <<chain, log, excused>> /\ ~Delivered(s)
  BY <1>0, <1>1, <1>3, IngestRests DEF IngestKept
<1>4. Delivered(s) => Accept(s) \/ Reject(s)
  BY DEF Delivered
<1>. QED BY <1>2, <1>3, <1>4 DEF LinkDown, SinkError, ingest

\* A batch that met the link down joins the buffer.
LEMMA Buffered ==
  ASSUME IInv, IngestKept, BufferBatch, mark' = mark, driver.pc \in {"drain", "send"}
  PROVE  DriverHolds'
<1>. USE UplinkAssumption
<1>n. PICK n, m : n = driver.next /\ m = Len(buffer)
  OBVIOUS
<1>0. /\ driver \in DriverRecord /\ buffer \in Seq(Batch) /\ mark \in 0..Batches
      /\ n \in Batch /\ m \in Nat /\ DOMAIN buffer = 1..m
  BY <1>n, Parts DEF DriverHolds, DriverTypes, DriverRecord, StepFollows, Batch, IInv
<1>1. /\ buffer' = Append(buffer, n) /\ buffer' \in Seq(Batch)
      /\ DOMAIN buffer' = 1..(m + 1) /\ buffer'[m + 1] = n
      /\ \A i \in 1..m : buffer'[i] = buffer[i]
  BY <1>0, <1>n DEF BufferBatch
<1>2. /\ driver'.pc = "step" /\ driver'.wasDown = TRUE /\ driver'.next = n + 1 /\ driver'.backlog = {}
      /\ driver'.ack = driver.ack /\ driver' \in DriverRecord
  <2>1. driver' = [pc |-> "step", next |-> n + 1, wasDown |-> TRUE, backlog |-> {},
                   newest |-> driver.newest, ack |-> driver.ack]
    BY <1>0, <1>n DEF BufferBatch, DriverRecord
  <2>2. driver.newest \in 0..Batches /\ driver.ack \in 0..Batches /\ n + 1 \in 1..(Batches + 1)
    BY <1>0 DEF DriverRecord, Batch
  <2>. QED BY <2>1, <2>2 DEF DriverRecord
<1>3. DriverTypes'
  BY <1>0, <1>1, <1>2 DEF DriverTypes
<1>4. StepFollows'
  BY <1>2 DEF StepFollows
<1>5. ASSUME life = 1 PROVE FirstLife'
  <2>0. /\ ~Ended /\ BufferOrder /\ \A r \in 1..(n - 1) : Answered(r) \/ Pending(r)
        /\ \A r \in 1..mark : Answered(r)
        /\ \A r \in 1..driver.ack : Answered(r)
    BY <1>5, <1>n DEF IInv, FirstLife, Ended, At, NothingLost
  <2>1. \A r : Answered(r) => Answered(r)'
    BY DEF IngestKept
  <2>2. \A r : Pending(r) => Pending(r)'
    BY <1>0, <1>1, <1>2 DEF Pending
  <2>3. Answered(n)' \/ Pending(n)'
    <3>1. CASE n <= driver.ack
      BY <1>0, <2>0, <2>1, <3>1 DEF Batch
    <3>2. CASE n > driver.ack
      BY <1>0, <1>1, <1>2, <3>2 DEF Pending
    <3>. QED BY <1>0, <3>1, <3>2 DEF DriverRecord, Batch
  <2>4. NothingLost'
    <3>1. \A r \in 1..n : Answered(r)' \/ Pending(r)'
      BY <1>0, <2>0, <2>1, <2>2, <2>3 DEF Batch
    <3>2. (driver.next - 1)' = n
      BY <1>0, <1>2 DEF Batch
    <3>. QED BY <3>1, <3>2 DEF NothingLost
  <2>5. BufferOrder'
    <3>. SUFFICES ASSUME NEW i \in DOMAIN buffer', NEW r \in 1..(buffer'[i] - 1)
         PROVE Answered(r)' \/ \E j \in 1..(i - 1) : buffer'[j] = r
      BY DEF BufferOrder
    <3>1. CASE i \in 1..m
      <4>1. Answered(r) \/ \E j \in 1..(i - 1) : buffer[j] = r
        BY <1>0, <1>1, <2>0, <3>1 DEF BufferOrder
      <4>2. \A j \in 1..(i - 1) : buffer'[j] = buffer[j]
        BY <1>0, <1>1, <3>1
      <4>. QED BY <2>1, <4>1, <4>2
    <3>2. CASE i = m + 1
      <4>1. Answered(r) \/ Pending(r)
        BY <1>1, <2>0, <3>2
      <4>2. CASE Pending(r)
        <5>1. PICK j \in 1..m : buffer[j] = r
          BY <1>0, <4>2 DEF Pending
        <5>2. j \in 1..(i - 1) /\ buffer'[j] = r
          BY <1>0, <1>1, <3>2, <5>1
        <5>. QED BY <5>2
      <4>. QED BY <2>1, <4>1, <4>2
    <3>. QED BY <1>0, <1>1, <3>1, <3>2
  <2>6. /\ \A r \in 1..mark' : Answered(r)'
        /\ \A r \in 1..driver'.ack : Answered(r)'
    BY <1>2, <2>0, <2>1
  <2>. QED BY <1>2, <2>4, <2>5, <2>6 DEF FirstLife
<1>6. life # 1 => FirstLife'
  BY DEF IngestKept, FirstLife
<1>. QED BY <1>3, <1>4, <1>5, <1>6 DEF DriverHolds

\* Where the two files stay and the driver starts over, or ends.
LEMMA StartedOver ==
  ASSUME IInv, IngestKept, UNCHANGED <<buffer, mark>>,
         NEW p \in {"stopped", "cut_off", "step"}, NEW a \in {0, mark},
         driver' = [pc |-> p, next |-> 1, wasDown |-> FALSE, backlog |-> {}, newest |-> 0, ack |-> a]
  PROVE  DriverHolds'
<1>. USE UplinkAssumption
<1>0. DriverHolds
  BY Parts
<1>1. driver' = [pc |-> p, next |-> 1, wasDown |-> FALSE, backlog |-> {}, newest |-> 0, ack |-> a]
  OBVIOUS
<1>2. DriverTypes'
  <2>1. buffer \in Seq(Batch) /\ mark \in 0..Batches /\ a \in 0..Batches /\ 1 \in 1..(Batches + 1)
    BY <1>0 DEF DriverHolds, DriverTypes
  <2>2. driver' \in DriverRecord
    <3>1. p \in {"stopped", "cut_off", "step", "drain", "mark", "send"} /\ FALSE \in BOOLEAN
          /\ {} \in SUBSET Nat /\ 0 \in 0..Batches
      OBVIOUS
    <3>. QED BY <1>1, <2>1, <3>1 DEF DriverRecord
  <2>. QED BY <1>1, <2>1, <2>2 DEF DriverTypes
<1>3. StepFollows'
  BY <1>1 DEF StepFollows
<1>4. \A r : Answered(r) => Answered(r)'
  BY DEF IngestKept
<1>5. FirstLife'
  <2>. SUFFICES ASSUME life = 1 PROVE FirstLife'
    BY DEF FirstLife, IngestKept
  <2>1. BufferOrder /\ \A r \in 1..mark : Answered(r)
    BY <1>0 DEF DriverHolds, FirstLife
  <2>2. BufferOrder'
    BY <1>4, <2>1 DEF BufferOrder
  <2>3. NothingLost'
    <3>1. driver'.next = 1
      BY <1>1
    <3>2. \A r \in 1..(1 - 1) : FALSE
      OBVIOUS
    <3>. QED BY <3>1, <3>2 DEF NothingLost
  <2>4. \A r \in 1..mark' : Answered(r)'
    BY <1>4, <2>1
  <2>5. \A r \in 1..(driver.ack)' : Answered(r)'
    BY <1>0, <1>1, <1>4, <2>1 DEF DriverHolds, DriverTypes
  <2>. QED BY <1>1, <2>2, <2>3, <2>4, <2>5 DEF FirstLife
<1>. QED BY <1>2, <1>3, <1>5 DEF DriverHolds

\* Where the driver goes on, with the buffer as it was.
LEMMA GoesOn ==
  ASSUME IInv, IngestKept, UNCHANGED <<buffer, mark>>, ~Ended
  PROVE  /\ life = 1 => BufferOrder' /\ \A r \in 1..mark' : Answered(r)'
         /\ life = 1 => \A r \in 1..driver.ack : Answered(r)'
         /\ life = 1 /\ driver'.wasDown = driver.wasDown /\ driver'.ack = driver.ack =>
              \A r \in 1..(driver.next - 1) : Answered(r)' \/ Pending(r)'
<1>1. \A r : Answered(r) => Answered(r)'
  BY DEF IngestKept
<1>2. life = 1 => /\ BufferOrder /\ \A r \in 1..mark : Answered(r)
                  /\ \A r \in 1..driver.ack : Answered(r)
                  /\ \A r \in 1..(driver.next - 1) : Answered(r) \/ Pending(r)
  BY DEF IInv, FirstLife, Ended, At, NothingLost
<1>3. life = 1 => BufferOrder'
  BY <1>1, <1>2 DEF BufferOrder
<1>4. driver'.wasDown = driver.wasDown /\ driver'.ack = driver.ack => \A r : Pending(r) => Pending(r)'
  BY DEF Pending
<1>. QED BY <1>1, <1>2, <1>3, <1>4

\* Where every buffered batch has been answered, so has every batch before the
\* next one.
LEMMA DrainedMeansAnswered ==
  ASSUME IInv, life = 1, driver.pc \in {"drain", "mark"}, driver.backlog = {}
  PROVE  /\ \A i \in DOMAIN buffer : Answered(buffer[i])
         /\ \A r \in 1..(driver.next - 1) : Answered(r)
<1>1. ~Ended /\ Drained
  BY DEF Ended, At, IInv, FirstLife
<1>2. \A i \in DOMAIN buffer : Answered(buffer[i])
  <2>. SUFFICES ASSUME NEW i \in DOMAIN buffer PROVE Answered(buffer[i])
    OBVIOUS
  <2>1. buffer[i] \in Batch /\ driver.ack \in 0..Batches
    BY EntryType DEF IInv, TypeOK
  <2>2. CASE buffer[i] > driver.ack
    BY <1>1, <2>2 DEF Drained
  <2>3. CASE ~(buffer[i] > driver.ack)
    <3>1. buffer[i] \in 1..driver.ack
      BY <2>1, <2>3, UplinkAssumption DEF Batch
    <3>. QED BY <1>1, <3>1 DEF IInv, FirstLife
  <2>. QED BY <2>2, <2>3
<1>3. \A r \in 1..(driver.next - 1) : Answered(r) \/ Pending(r)
  BY <1>1 DEF IInv, FirstLife, NothingLost
<1>. QED BY <1>2, <1>3 DEF Pending

(* A set of sequence numbers has a first and, if bounded, a last.            *)
LEMMA LeastExists ==
  ASSUME NEW S \in SUBSET Nat, S # {}
  PROVE  \E m \in S : \A i \in S : m <= i
<1>. DEFINE Less == OpToRel(<, Nat)
<1>1. PICK m \in S : \A i \in S : <<i, m>> \notin Less
  BY WFMin, NatLessThanWellFounded
<1>2. \A i, n \in Nat : i < n => <<i, n>> \in Less
  BY DEF OpToRel
<1>. HIDE DEF Less
<1>3. \A i \in S : i \in Nat /\ m \in Nat /\ ~(i < m)
  BY <1>1, <1>2
<1>. QED BY <1>3

LEMMA GreatestExists ==
  ASSUME NEW n \in Nat, NEW S \in SUBSET (0..n), S # {}
  PROVE  \E m \in S : \A i \in S : i <= m
<1>. DEFINE T == {k \in 0..n : n - k \in S}
<1>1. PICK s \in S : TRUE
  OBVIOUS
<1>2. n - s \in T
  BY <1>1
<1>3. T \in SUBSET Nat /\ T # {}
  BY <1>2
<1>4. \A i \in S : n - i \in T
  OBVIOUS
<1>5. \A k \in T : n - k \in S /\ k \in 0..n
  OBVIOUS
<1>. HIDE DEF T
<1>6. PICK t \in T : \A k \in T : t <= k
  BY <1>3, LeastExists
<1>7. \A i \in S : i <= n - t
  BY <1>4, <1>5, <1>6
<1>. QED BY <1>5, <1>6, <1>7

LEMMA FirstIsLeast ==
  ASSUME NEW S \in SUBSET Nat, S # {}
  PROVE  First(S) \in S /\ \A i \in S : First(S) <= i
BY LeastExists DEF First

LEMMA LastIsIn ==
  ASSUME NEW n \in Nat, NEW S \in SUBSET (0..n), S # {}
  PROVE  Last(S) \in S
BY GreatestExists DEF Last

\* One batch of the backlog.  All before it have been answered, or it would not
\* be the first.
LEMMA ReplayOneHolds ==
  ASSUME IInv, ReplayOne
  PROVE  IInv'
<1>. USE UplinkAssumption
<1>0. DriverTypes /\ ~Ended /\ driver.pc = "drain" /\ driver.backlog \in SUBSET Nat
  BY Parts DEF ReplayOne, At, Ended, DriverHolds, DriverTypes, DriverRecord
<1>n. PICK f, s : f = First(driver.backlog) /\ s = buffer[f]
  OBVIOUS
<1>1. /\ f \in driver.backlog /\ f \in DOMAIN buffer /\ s \in Batch
      /\ \A i \in driver.backlog : f <= i
  BY <1>0, <1>n, FirstIsLeast, EntryType DEF ReplayOne, DriverTypes
<1>2. /\ Delivered(s) \/ LinkDown \/ SinkError(s)
      /\ UNCHANGED <<mark, linkUp, aged>>
  BY <1>n DEF ReplayOne
<1>3. /\ IngestKept /\ announced' \in BOOLEAN
      /\ Delivered(s) /\ life = 1 /\ (\A r \in 1..(s - 1) : Answered(r)) => Answered(s)'
  BY <1>1, <1>2, Submitted
<1>4. CASE Delivered(s) /\ driver' = [driver EXCEPT !.backlog = @ \ {f}] /\ UNCHANGED buffer
  <2>1. driver' = [pc |-> "drain", next |-> driver.next, wasDown |-> driver.wasDown,
                   backlog |-> driver.backlog \ {f}, newest |-> driver.newest, ack |-> driver.ack]
    BY <1>0, <1>4 DEF DriverTypes, DriverRecord
  <2>2. driver' \in DriverRecord
    BY <1>0, <1>4 DEF DriverTypes, DriverRecord
  <2>3. DriverTypes'
    BY <1>0, <1>2, <1>4, <2>1, <2>2 DEF DriverTypes
  <2>4. StepFollows'
    BY <1>0, <1>4, <2>1 DEF IInv, StepFollows
  <2>5. ASSUME life = 1 PROVE FirstLife'
    <3>1. BufferOrder /\ Drained /\ \A r \in 1..driver.ack : Answered(r)
      BY <1>0, <2>5 DEF IInv, FirstLife
    <3>2. \A r \in 1..(s - 1) : Answered(r)
      <4>. SUFFICES ASSUME NEW r \in 1..(s - 1), ~Answered(r) PROVE FALSE
        OBVIOUS
      <4>1. PICK j \in 1..(f - 1) : buffer[j] = r
        BY <1>1, <1>n, <3>1 DEF BufferOrder
      <4>2. j \in DOMAIN buffer /\ ~(f <= j)
        BY <1>0, <1>1 DEF DriverTypes
      <4>3. r > driver.ack
        BY <1>0, <1>1, <3>1 DEF DriverTypes, DriverRecord, Batch
      <4>. QED BY <1>1, <3>1, <4>1, <4>2, <4>3 DEF Drained
    <3>3. Answered(s)'
      BY <1>3, <1>4, <2>5, <3>2
    <3>4. Drained'
      <4>. SUFFICES ASSUME NEW i \in DOMAIN buffer, NEW q, q = buffer[i], q > driver.ack
           PROVE i \in driver.backlog \ {f} \/ Answered(q)'
        BY <1>4, <2>1 DEF Drained
      <4>1. i \in driver.backlog \/ Answered(q)
        BY <3>1 DEF Drained
      <4>2. \A r : Answered(r) => Answered(r)'
        BY <1>3 DEF IngestKept
      <4>. QED BY <1>4, <1>n, <3>3, <4>1, <4>2
    <3>. QED BY <1>0, <1>2, <1>3, <1>4, <2>1, <2>5, <3>4, GoesOn DEF FirstLife, NothingLost
  <2>6. life # 1 => FirstLife'
    BY <1>3 DEF IngestKept, FirstLife
  <2>. QED BY <1>2, <1>3, <2>3, <2>4, <2>5, <2>6, Parts, PartsNext DEF IngestKept, DriverHolds
<1>5. CASE BufferBatch
  <2>1. DriverHolds'
    BY <1>0, <1>2, <1>3, <1>5, Buffered
  <2>. QED BY <1>2, <1>3, <2>1, Parts, PartsNext DEF IngestKept
<1>6. CASE RunFails /\ UNCHANGED buffer
  <2>1. DriverHolds'
    <3>1. PICK q : q = IF linkUp THEN "stopped" ELSE "cut_off"
      OBVIOUS
    <3>2. driver' = [pc |-> q, next |-> 1, wasDown |-> FALSE, backlog |-> {}, newest |-> 0, ack |-> 0]
      BY <1>6, <3>1 DEF RunFails, Stopped
    <3>. QED BY <1>2, <1>3, <1>6, <3>1, <3>2, StartedOver
  <2>. QED BY <1>2, <1>3, <2>1, Parts, PartsNext DEF IngestKept
<1>. QED BY <1>4, <1>5, <1>6, <1>n DEF ReplayOne

\* The batch of the step itself, which is sent when none before it is pending.
LEMMA SendNewHolds ==
  ASSUME IInv, SendNew
  PROVE  IInv'
<1>. USE UplinkAssumption
<1>n. PICK s : s = driver.next
  OBVIOUS
<1>0. DriverTypes /\ ~Ended /\ driver.pc = "send" /\ ~driver.wasDown /\ s \in Batch
  BY <1>n, Parts DEF SendNew, At, Ended, DriverHolds, DriverTypes, DriverRecord, StepFollows, Batch
<1>2. /\ Delivered(s) \/ LinkDown \/ SinkError(s)
      /\ UNCHANGED <<mark, linkUp, aged>>
  BY <1>n DEF SendNew
<1>3. /\ IngestKept /\ announced' \in BOOLEAN
      /\ Delivered(s) /\ life = 1 /\ (\A r \in 1..(s - 1) : Answered(r)) => Answered(s)'
  BY <1>0, <1>2, Submitted
<1>4. CASE Delivered(s) /\ driver' = [driver EXCEPT !.pc = "step", !.next = @ + 1] /\ UNCHANGED buffer
  <2>1. driver' = [pc |-> "step", next |-> s + 1, wasDown |-> driver.wasDown,
                   backlog |-> driver.backlog, newest |-> driver.newest, ack |-> driver.ack]
    BY <1>0, <1>n, <1>4 DEF DriverTypes, DriverRecord
  <2>2. driver' \in DriverRecord
    <3>1. /\ s + 1 \in 1..(Batches + 1) /\ driver.wasDown \in BOOLEAN /\ driver.backlog \in SUBSET Nat
          /\ driver.newest \in 0..Batches /\ driver.ack \in 0..Batches
      BY <1>0 DEF Batch, DriverTypes, DriverRecord
    <3>. QED BY <2>1, <3>1 DEF DriverRecord
  <2>3. DriverTypes'
    BY <1>0, <1>2, <1>4, <2>1, <2>2 DEF DriverTypes
  <2>4. StepFollows'
    BY <1>0, <1>4, <2>1 DEF StepFollows
  <2>5. ASSUME life = 1 PROVE FirstLife'
    <3>1. \A r \in 1..(s - 1) : Answered(r)
      BY <1>0, <1>n, <2>5 DEF IInv, FirstLife, NothingLost, Pending
    <3>2. \A r \in 1..s : Answered(r)'
      BY <1>0, <1>3, <1>4, <2>5, <3>1 DEF Batch, IngestKept
    <3>3. NothingLost'
      <4>1. driver'.next - 1 = s
        BY <1>0, <2>1 DEF Batch
      <4>. QED BY <3>2, <4>1 DEF NothingLost
    <3>. QED BY <1>0, <1>2, <1>3, <1>4, <2>1, <2>5, <3>3, GoesOn DEF FirstLife
  <2>6. life # 1 => FirstLife'
    BY <1>3 DEF IngestKept, FirstLife
  <2>. QED BY <1>2, <1>3, <2>3, <2>4, <2>5, <2>6, Parts, PartsNext DEF IngestKept, DriverHolds
<1>5. CASE BufferBatch
  <2>1. DriverHolds'
    BY <1>0, <1>2, <1>3, <1>5, Buffered
  <2>. QED BY <1>2, <1>3, <2>1, Parts, PartsNext DEF IngestKept
<1>6. CASE RunFails /\ UNCHANGED buffer
  <2>1. DriverHolds'
    <3>1. PICK q : q = IF linkUp THEN "stopped" ELSE "cut_off"
      OBVIOUS
    <3>2. driver' = [pc |-> q, next |-> 1, wasDown |-> FALSE, backlog |-> {}, newest |-> 0, ack |-> 0]
      BY <1>6, <3>1 DEF RunFails, Stopped
    <3>. QED BY <1>2, <1>3, <1>6, <3>1, <3>2, StartedOver
  <2>. QED BY <1>2, <1>3, <2>1, Parts, PartsNext DEF IngestKept
<1>. QED BY <1>4, <1>5, <1>6, <1>n DEF SendNew

\* A step in which nothing is submitted leaves the ingest as it is.
LEMMA Untouched ==
  ASSUME IInv, UNCHANGED ingest
  PROVE  IngestKept /\ announced' = announced
<1>1. UNCHANGED <<chain, log, excused, life>> /\ announced' = announced
  BY DEF ingest
<1>2. IngestHolds
  BY Parts
<1>. QED BY <1>1, <1>2, IngestRests DEF IngestKept

LEMMA BeginStepHolds ==
  ASSUME IInv, BeginStep
  PROVE  IInv'
<1>. USE UplinkAssumption
<1>0. DriverTypes /\ ~Ended /\ driver.pc = "step" /\ driver.next \in Batch
  BY Parts DEF BeginStep, At, Ended, DriverHolds, DriverTypes, DriverRecord, Batch
<1>1. IngestKept /\ announced' = announced /\ UNCHANGED <<buffer, mark, linkUp, aged>>
  BY Untouched DEF BeginStep
<1>2. CASE ~driver.wasDown
  <2>1. driver' = [driver EXCEPT !.pc = "send"]
    BY <1>2 DEF BeginStep
  <2>2. DriverTypes' /\ StepFollows'
    <3>1. driver' = [pc |-> "send", next |-> driver.next, wasDown |-> driver.wasDown,
                     backlog |-> driver.backlog, newest |-> driver.newest, ack |-> driver.ack]
      BY <1>0, <2>1 DEF DriverTypes, DriverRecord
    <3>2. driver' \in DriverRecord
      BY <1>0, <2>1 DEF DriverTypes, DriverRecord
    <3>3. DriverTypes'
      BY <1>0, <1>1, <3>1, <3>2 DEF DriverTypes
    <3>. QED BY <1>0, <1>1, <1>2, <3>1, <3>3 DEF StepFollows, Batch
  <2>3. FirstLife'
    BY <1>0, <1>1, <2>1, GoesOn DEF FirstLife, NothingLost, DriverTypes, DriverRecord, IngestKept
  <2>. QED BY <1>1, <2>2, <2>3, Parts, PartsNext DEF IngestKept, DriverHolds
<1>3. CASE driver.wasDown
  <2>n. PICK b, w : /\ b = ReplayFrom(driver.ack)
                    /\ w = IF b = {} THEN 0 ELSE buffer[Last(b)]
    OBVIOUS
  <2>1. driver' = [driver EXCEPT !.pc = "drain", !.backlog = b, !.newest = w]
    BY <1>3, <2>n DEF BeginStep
  <2>2. b \subseteq DOMAIN buffer /\ b \in SUBSET Nat
    BY <1>0, <2>n DEF ReplayFrom, DriverTypes
  <2>3. b # {} => w \in Batch /\ \E i \in DOMAIN buffer : buffer[i] = w
    <3>. SUFFICES ASSUME b # {} PROVE w \in Batch /\ \E i \in DOMAIN buffer : buffer[i] = w
      OBVIOUS
    <3>1. Len(buffer) \in Nat /\ b \in SUBSET (0..Len(buffer))
      BY <1>0, <2>2 DEF DriverTypes
    <3>2. Last(b) \in b
      BY <3>1, LastIsIn
    <3>. QED BY <1>0, <2>2, <2>n, <3>2, EntryType DEF DriverTypes
  <2>4. w \in 0..Batches /\ (w = 0 <=> b = {})
    BY <2>n, <2>3 DEF Batch
  <2>5. driver' = [pc |-> "drain", next |-> driver.next, wasDown |-> driver.wasDown,
                   backlog |-> b, newest |-> w, ack |-> driver.ack]
    BY <1>0, <2>1 DEF DriverTypes, DriverRecord
  <2>6. DriverTypes'
    <3>1. driver' \in DriverRecord
      BY <1>0, <2>1, <2>2, <2>4 DEF DriverTypes, DriverRecord
    <3>. QED BY <1>0, <1>1, <2>2, <2>5, <3>1 DEF DriverTypes
  <2>7. StepFollows'
    BY <1>0, <1>1, <1>3, <2>3, <2>4, <2>5 DEF StepFollows, Batch
  <2>8. Drained'
    BY <1>1, <2>5, <2>n DEF Drained, ReplayFrom
  <2>9. FirstLife'
    BY <1>0, <1>1, <2>5, <2>8, GoesOn DEF FirstLife, NothingLost, IngestKept
  <2>. QED BY <1>1, <2>6, <2>7, <2>9, Parts, PartsNext DEF IngestKept, DriverHolds
<1>4. driver.wasDown \in BOOLEAN
  BY <1>0 DEF DriverTypes, DriverRecord
<1>. QED BY <1>2, <1>3, <1>4

\* The watermark goes to disk when the backlog has come back delivered.
LEMMA MarkHolds ==
  ASSUME IInv, CommitMark \/ WriteMark \/ NothingToDrain
  PROVE  IInv'
<1>. USE UplinkAssumption
<1>0. /\ DriverTypes /\ StepFollows /\ ~Ended /\ driver.pc \in {"drain", "mark"}
      /\ driver.backlog = {} /\ driver.next <= Batches
  BY Parts DEF CommitMark, WriteMark, NothingToDrain, At, Ended, DriverHolds, StepFollows
<1>1. IngestKept /\ announced' = announced /\ UNCHANGED <<buffer, linkUp, aged>>
  BY Untouched DEF CommitMark, WriteMark, NothingToDrain
<1>2. life = 1 => /\ \A i \in DOMAIN buffer : Answered(buffer[i])
                  /\ \A r \in 1..(driver.next - 1) : Answered(r)
  BY <1>0, DrainedMeansAnswered
<1>3. /\ \A r : Answered(r) => Answered(r)'
      /\ life = 1 => /\ BufferOrder /\ \A r \in 1..driver.ack : Answered(r)
                     /\ \A r \in 1..mark : Answered(r)
  BY <1>0, <1>1 DEF IngestKept, IInv, FirstLife
<1>4. BufferOrder => BufferOrder'
  BY <1>1, <1>3 DEF BufferOrder
<1>5. life # 1 => FirstLife'
  BY <1>1 DEF IngestKept, FirstLife
<1>6. CASE CommitMark
  <2>1. driver' = [driver EXCEPT !.pc = "mark"] /\ mark' = 0 /\ driver.newest # 0
    BY <1>6 DEF CommitMark
  <2>2. driver' = [pc |-> "mark", next |-> driver.next, wasDown |-> driver.wasDown,
                   backlog |-> {}, newest |-> driver.newest, ack |-> driver.ack]
    BY <1>0, <2>1 DEF DriverTypes, DriverRecord
  <2>3. DriverTypes' /\ StepFollows'
    BY SMTT(60), <1>0, <1>1, <2>1, <2>2 DEF DriverTypes, DriverRecord, StepFollows
  <2>4. ASSUME life = 1 PROVE FirstLife'
    <3>1. NothingLost'
      BY <1>2, <1>3, <2>2, <2>4 DEF NothingLost
    <3>2. Drained'
      BY <1>1, <1>2, <1>3, <2>4 DEF Drained
    <3>3. \A r \in 1..mark' : Answered(r)'
      BY <2>1
    <3>. QED BY <1>3, <1>4, <2>2, <2>4, <3>1, <3>2, <3>3 DEF FirstLife
  <2>. QED BY <1>1, <1>5, <2>3, <2>4, Parts, PartsNext DEF IngestKept, DriverHolds
<1>7. CASE WriteMark
  <2>1. /\ driver' = [driver EXCEPT !.pc = "send", !.wasDown = FALSE, !.ack = driver.newest]
        /\ mark' = driver.newest /\ driver.pc = "mark"
    BY <1>7 DEF WriteMark, At
  <2>2. driver' = [pc |-> "send", next |-> driver.next, wasDown |-> FALSE,
                   backlog |-> {}, newest |-> driver.newest, ack |-> driver.newest]
    BY <1>0, <2>1 DEF DriverTypes, DriverRecord
  <2>3. DriverTypes' /\ StepFollows'
    BY <1>0, <1>1, <2>1, <2>2 DEF DriverTypes, DriverRecord, StepFollows
  <2>4. ASSUME life = 1 PROVE FirstLife'
    <3>1. NothingLost'
      BY <1>2, <1>3, <2>2, <2>4 DEF NothingLost
    <3>2. \A r \in 1..driver.newest : Answered(r)'
      <4>1. PICK i \in DOMAIN buffer : buffer[i] = driver.newest
        BY <1>0, <2>1 DEF StepFollows
      <4>2. Answered(buffer[i]) /\ buffer[i] \in Nat
        BY <1>0, <1>2, <2>4, EntryType DEF DriverTypes, Batch
      <4>3. \A r \in 1..(buffer[i] - 1) : Answered(r)
        <5>. SUFFICES ASSUME NEW r \in 1..(buffer[i] - 1), NEW j \in 1..(i - 1), buffer[j] = r
             PROVE Answered(r)
          BY <1>3, <2>4 DEF BufferOrder
        <5>1. j \in DOMAIN buffer
          BY <1>0 DEF DriverTypes
        <5>. QED BY <1>2, <2>4, <5>1
      <4>4. \A r \in 1..driver.newest : r \in 1..(buffer[i] - 1) \/ r = buffer[i]
        BY <4>1, <4>2
      <4>. QED BY <1>3, <4>2, <4>3, <4>4
    <3>. QED BY <1>3, <1>4, <2>1, <2>2, <2>4, <3>1, <3>2 DEF FirstLife
  <2>. QED BY <1>1, <1>5, <2>3, <2>4, Parts, PartsNext DEF IngestKept, DriverHolds
<1>8. CASE NothingToDrain
  <2>1. driver' = [driver EXCEPT !.pc = "send", !.wasDown = FALSE] /\ mark' = mark
    BY <1>8 DEF NothingToDrain
  <2>2. driver' = [pc |-> "send", next |-> driver.next, wasDown |-> FALSE,
                   backlog |-> {}, newest |-> driver.newest, ack |-> driver.ack]
    BY <1>0, <2>1 DEF DriverTypes, DriverRecord
  <2>3. DriverTypes' /\ StepFollows'
    BY <1>0, <1>1, <2>1, <2>2 DEF DriverTypes, DriverRecord, StepFollows
  <2>4. ASSUME life = 1 PROVE FirstLife'
    <3>1. NothingLost'
      BY <1>2, <1>3, <2>2, <2>4 DEF NothingLost
    <3>. QED BY <1>3, <1>4, <2>1, <2>2, <2>4, <3>1 DEF FirstLife
  <2>. QED BY <1>1, <1>5, <2>3, <2>4, Parts, PartsNext DEF IngestKept, DriverHolds
<1>. QED BY <1>6, <1>7, <1>8

LEMMA StartOrStopHolds ==
  ASSUME IInv, StartRun \/ StopRun
  PROVE  IInv'
<1>1. CASE StartRun
  <2>1. IngestHolds /\ UNCHANGED <<chain, log, excused, life>>
    BY <1>1, Parts DEF StartRun
  <2>2. IngestKept
    BY <2>1, IngestRests DEF IngestKept
  <2>3. /\ driver' = [pc |-> "step", next |-> 1, wasDown |-> FALSE, backlog |-> {}, newest |-> 0, ack |-> mark]
        /\ UNCHANGED <<buffer, mark, linkUp, aged>> /\ announced' = TRUE
    BY <1>1 DEF StartRun, Stopped
  <2>4. DriverHolds'
    <3>1. PICK a \in {0, mark} : a = mark
      OBVIOUS
    <3>. QED BY <2>2, <2>3, <3>1, StartedOver
  <2>. QED BY <2>2, <2>3, <2>4, Parts, PartsNext DEF IngestKept
<1>2. CASE StopRun
  <2>1. IngestKept /\ announced' = announced
    BY <1>2, Untouched DEF StopRun
  <2>2. /\ driver' = [pc |-> "stopped", next |-> 1, wasDown |-> FALSE, backlog |-> {}, newest |-> 0, ack |-> 0]
        /\ UNCHANGED <<buffer, mark, linkUp, aged>>
    BY <1>2 DEF StopRun, Stopped
  <2>3. DriverHolds'
    BY <2>1, <2>2, StartedOver
  <2>. QED BY <2>1, <2>2, <2>3, Parts, PartsNext DEF IngestKept
<1>. QED BY <1>1, <1>2

\* The driver and its files do not see the surroundings change.
LEMMA DriverRests ==
  ASSUME IInv, UNCHANGED edge, IngestKept
  PROVE  DriverHolds'
<1>1. /\ \A r : Answered(r) => Answered(r)'
      /\ driver' = driver /\ buffer' = buffer /\ mark' = mark /\ life' = life
  BY DEF IngestKept, edge
<1>2. DriverTypes' /\ StepFollows'
  BY <1>1, Parts DEF DriverHolds, DriverTypes, StepFollows
<1>3. \A r : Pending(r) => Pending(r)'
  BY <1>1 DEF Pending
<1>4. NothingLost => NothingLost'
  BY <1>1, <1>3 DEF NothingLost, Ended, At
<1>5. BufferOrder => BufferOrder'
  BY <1>1 DEF BufferOrder
<1>6. Drained => Drained'
  BY <1>1 DEF Drained
<1>7. FirstLife'
  BY <1>1, <1>4, <1>5, <1>6 DEF IInv, FirstLife, Ended, At
<1>. QED BY <1>2, <1>7 DEF DriverHolds

LEMMA SurroundingsHold ==
  ASSUME IInv, CutLink \/ RestoreLink \/ Age \/ UNCHANGED vars
  PROVE  IInv'
<1>1. UNCHANGED <<edge, ingest>> /\ linkUp' \in BOOLEAN /\ aged' \in 0..MaxAged
  <2>1. linkUp \in BOOLEAN /\ aged \in 0..MaxAged
    BY Parts
  <2>2. UNCHANGED <<edge, ingest>>
    BY DEF CutLink, RestoreLink, Age, vars
  <2>3. linkUp' \in BOOLEAN
    BY <2>1 DEF CutLink, RestoreLink, Age, vars
  <2>4. aged' \in 0..MaxAged
    <3>1. MaxAged \in Nat
      BY UplinkAssumption
    <3>. QED BY <2>1, <3>1 DEF CutLink, RestoreLink, Age, vars
  <2>. QED BY <2>2, <2>3, <2>4
<1>2. IngestKept /\ announced' \in BOOLEAN
  BY <1>1, Untouched, Parts
<1>3. DriverHolds'
  BY <1>1, <1>2, DriverRests
<1>. QED BY <1>1, <1>2, <1>3, PartsNext DEF IngestKept

\* A later life of the ingest has an empty chain, and leaves the first behind.
LEMMA RestartHolds ==
  ASSUME IInv, RestartIngest
  PROVE  IInv'
<1>. USE UplinkAssumption
<1>1. /\ life' = life + 1 /\ chain' = [last |-> 0, seen |-> {}, head |-> 0] /\ announced' = FALSE
      /\ log' = log /\ excused' = excused /\ linkUp' = linkUp /\ aged' = aged
      /\ driver' = driver /\ buffer' = buffer /\ mark' = mark
      /\ life \in 1..MaxIngestLives /\ life < MaxIngestLives
  BY Parts DEF RestartIngest, FreshChain, edge, IngestHolds, IngestTypes
<1>2. IngestHolds
  BY Parts
<1>3. IngestTypes' /\ ChainIsPrefix'
  BY <1>1, <1>2 DEF IngestHolds, IngestTypes, ChainIsPrefix, Batch
<1>4. LogFollows'
  <2>1. \A i \in DOMAIN log : log[i].life \in 1..MaxIngestLives /\ log[i].life <= life
    <3>. SUFFICES ASSUME NEW i \in DOMAIN log
         PROVE log[i].life \in 1..MaxIngestLives /\ log[i].life <= life
      OBVIOUS
    <3>1. log[i] \in [life : 1..MaxIngestLives, seq : Batch]
      BY <1>2, EntryType DEF IngestHolds, IngestTypes
    <3>. QED BY <1>2, <3>1 DEF IngestHolds, LogFollows
  <2>2. \A i \in DOMAIN log' : log'[i].life <= life' /\ log'[i].life # life'
    BY <1>1, <2>1
  <2>. QED BY <1>1, <2>2 DEF LogFollows
<1>5. LogInOrder'
  <2>1. \A r, k : Logged(r, k) => Logged(r, k)'
    BY <1>1 DEF Logged
  <2>. QED BY <1>1, <1>2, <2>1 DEF IngestHolds, LogInOrder
<1>6. DriverTypes' /\ StepFollows'
  BY <1>1, Parts DEF DriverHolds, DriverTypes, StepFollows
<1>7. FirstLife'
  BY <1>1 DEF FirstLife
<1>. QED BY <1>1, <1>3, <1>4, <1>5, <1>6, <1>7, Parts, PartsNext DEF IngestHolds, DriverHolds
-----------------------------------------------------------------------------
(* The theorems.                                                             *)

LEMMA InitHolds == Init => IInv
<1>. SUFFICES ASSUME Init PROVE IInv
  OBVIOUS
<1>. USE UplinkAssumption
<1>1. /\ driver = [pc |-> "stopped", next |-> 1, wasDown |-> FALSE, backlog |-> {}, newest |-> 0, ack |-> 0]
      /\ buffer = << >> /\ mark = 0 /\ linkUp = TRUE /\ announced = FALSE /\ aged = 0
      /\ chain = [last |-> 0, seen |-> {}, head |-> 0] /\ log = << >> /\ life = 1 /\ excused = {}
  BY DEF Init, Stopped, FreshChain
<1>2. IngestTypes /\ ChainIsPrefix /\ LogFollows /\ LogInOrder
  BY <1>1 DEF IngestTypes, ChainIsPrefix, LogFollows, LogInOrder, Batch
<1>3. DriverTypes
  <2>1. 1 \in 1..(Batches + 1) /\ {} \in SUBSET Nat /\ 0 \in 0..Batches
    OBVIOUS
  <2>2. driver \in DriverRecord
    BY <1>1, <2>1 DEF DriverRecord
  <2>. QED BY <1>1, <2>1, <2>2 DEF DriverTypes
<1>4. StepFollows /\ FirstLife
  BY <1>1 DEF StepFollows, FirstLife, NothingLost, BufferOrder
<1>5. linkUp \in BOOLEAN /\ announced \in BOOLEAN /\ aged \in 0..MaxAged
  <2>1. aged \in 0..MaxAged
    BY <1>1
  <2>2. linkUp \in BOOLEAN /\ announced \in BOOLEAN
    BY <1>1
  <2>. QED BY <2>1, <2>2
<1>. QED BY <1>2, <1>3, <1>4, <1>5, Parts DEF IngestHolds, DriverHolds

LEMMA NextHolds == IInv /\ [Next]_vars => IInv'
<1>. SUFFICES ASSUME IInv, [Next]_vars PROVE IInv'
  OBVIOUS
<1>1. CASE StartRun \/ StopRun
  BY <1>1, StartOrStopHolds
<1>2. CASE BeginStep
  BY <1>2, BeginStepHolds
<1>3. CASE ReplayOne
  BY <1>3, ReplayOneHolds
<1>4. CASE CommitMark \/ WriteMark \/ NothingToDrain
  BY <1>4, MarkHolds
<1>5. CASE SendNew
  BY <1>5, SendNewHolds
<1>6. CASE CutLink \/ RestoreLink \/ Age \/ UNCHANGED vars
  BY <1>6, SurroundingsHold
<1>7. CASE RestartIngest
  BY <1>7, RestartHolds
<1>. QED BY <1>1, <1>2, <1>3, <1>4, <1>5, <1>6, <1>7 DEF Next, Over

LEMMA InvariantHolds == Spec => []IInv
BY InitHolds, NextHolds, PTL DEF Spec

\* The state is well typed: a step of the driver stays within its buffer.
THEOREM TypeCorrect == Spec => []TypeOK
<1>1. IInv => TypeOK
  BY DEF IInv
<1>. QED BY <1>1, InvariantHolds, PTL

\* However often a backlog is replayed, no ingest process takes a batch twice or
\* out of order, and the only holes in its log are excused.
THEOREM LogStaysInOrder == Spec => []LogInOrder
<1>1. IInv => LogInOrder
  BY DEF IInv
<1>. QED BY <1>1, InvariantHolds, PTL

\* While the ingest lives, outages, kills and failed submissions lose no batch
\* the driver took.
THEOREM NothingIsLost == Spec => []NothingLost
<1>1. IInv => NothingLost
  BY DEF IInv, FirstLife, NothingLost
<1>. QED BY <1>1, InvariantHolds, PTL

\* The watermark on disk never passes what the ingest has answered, although it
\* is committed once for a whole backlog and a kill may tear it.
THEOREM WatermarkHonest == Spec => []WatermarkNeverOverstated
<1>1. IInv => WatermarkNeverOverstated
  BY DEF IInv, FirstLife, WatermarkNeverOverstated
<1>. QED BY <1>1, InvariantHolds, PTL
=============================================================================
