--------------------------- MODULE JobQueueProofs ---------------------------
(***************************************************************************)
(* What the durable job queue keeps, for any number of jobs, submitting    *)
(* threads, kills and I/O failures: a job is submitted once, a completed   *)
(* one is not run again, nothing acknowledged before the first failure is  *)
(* cut off, and without a failure the log stays readable.                  *)
(***************************************************************************)
EXTENDS JobQueue, WellFoundedInduction, TLAPS

\* submit_guard is held through a submission, the lock on the tip through the
\* two steps of an append, and a process that is gone holds nothing.
Locks ==
  /\ ~up => todo = {} /\ \A a \in Actors : AtStep(a, "idle")
  /\ \A s \in Submitters : ~AtStep(s, "idle") => guard = s
  /\ \A a \in Actors : writer = a <=> AtStep(a, "write") \/ AtStep(a, "sync")

\* The frame an append is writing is the last one.
FrameUnderWay ==
  \A a \in Actors :
    /\ AtStep(a, "write") => file # << >> /\ file[Len(file)] = Torn
    /\ AtStep(a, "sync") => /\ file # << >> /\ file[Len(file)] # Torn
                            /\ file[Len(file)].payload = PayloadOf(a)

\* The duplicate check of a submission holds until its frame is written.
CheckHolds ==
  \A s \in Submitters : AtStep(s, "append") \/ AtStep(s, "write") =>
    ~OnFile("submitted", actor[s].job)

\* What run_pending read: submissions, none of them completed but for the one
\* whose completion is being logged.
RunHolds ==
  /\ ~AtStep(Runner, "idle") =>
       todo # {} /\ actor[Runner].job = file[First(todo)].payload.job
  /\ \A i \in todo : /\ file[i] # Torn /\ file[i].payload \in Payload
                     /\ file[i].payload.event = "submitted"
  /\ \A i \in todo : OnFile("completed", file[i].payload.job) =>
       i = First(todo) /\ AtStep(Runner, "sync")

\* Frames 1 to i can be read, and each chains from the one before it.
ChainedTo(i) == \A k \in 1..i : file[k] # Torn /\ Chained(k)

\* Before the first failure the file is one chain, but for a last frame that an
\* append is writing or a kill cut short; and the tip is its end.
OneChain ==
  ~failed =>
    /\ ChainedTo(Len(file) - 1)
    /\ file # << >> => \/ Chained(Len(file)) /\ file[Len(file)] # Torn
                       \/ file[Len(file)] = Torn /\ (~up \/ \E a \in Actors : AtStep(a, "write"))
    /\ up => tip = IF writer = Nobody THEN ChainHash(Len(file)) ELSE ChainHash(Len(file) - 1)

\* An acknowledged frame stands in a chain of readable frames.
AckedChained ==
  \A k \in 1..Len(acked) : \E i \in 1..Len(file) : file[i] = acked[k] /\ ChainedTo(i)

IInv ==
  /\ TypeOK /\ Locks /\ FrameUnderWay /\ CheckHolds /\ SubmittedOnce /\ RunHolds
  /\ OneChain /\ AckedChained
-----------------------------------------------------------------------------
(* What opening leaves of a file.                                            *)

\* The frames up to some n, all whole, and behind them at most one of garbage.
\* No readable chain is cut, and of a file that is one chain only a torn last
\* frame is.
Leaves(f, n) ==
  /\ f \in Seq(Frame) /\ n \in 0..Len(file) /\ Len(f) \in {n, n + 1}
  /\ \A i \in 1..n : f[i] = file[i]
  /\ Len(f) = n + 1 => f[n + 1].payload = Garbage
  /\ \A i \in 1..Len(file) : ChainedTo(i) => i <= n
  /\ ChainedTo(Len(file) - 1) => Len(f) = n /\ ChainedTo(n)

LEMMA FirstIsLeast ==
  ASSUME NEW S \in SUBSET Nat, S # {}
  PROVE  First(S) \in S /\ \A j \in S : First(S) <= j
<1>. DEFINE Less == OpToRel(<, Nat)
<1>1. PICK m \in S : \A i \in S : <<i, m>> \notin Less
  BY WFMin, NatLessThanWellFounded
<1>2. \A i, n \in Nat : i < n => <<i, n>> \in Less
  BY DEF OpToRel
<1>. HIDE DEF Less
<1>3. \A i \in S : i \in Nat /\ m \in Nat /\ ~(i < m)
  BY <1>1, <1>2
<1>4. \A i \in S : m <= i
  BY <1>3
<1>. QED BY <1>4 DEF First

LEMMA KeptLeaves ==
  ASSUME TypeOK, NEW f \in Kept
  PROVE  \E n \in Nat : Leaves(f, n)
<1>. USE QueueAssumption
<1>0. file \in Seq(Frame \cup {Torn}) /\ Len(file) \in Nat
  BY DEF TypeOK
<1>1. CASE TornAt = {} /\ f = file /\ (file = << >> \/ Chained(Len(file)))
  <2>1. \A i \in 1..Len(file) : file[i] \in Frame
    BY <1>0, <1>1 DEF TornAt
  <2>2. ChainedTo(Len(file) - 1) => ChainedTo(Len(file))
    BY <1>0, <1>1, <2>1 DEF ChainedTo
  <2>3. file \in Seq(Frame)
    BY <1>0, <2>1
  <2>4. Leaves(f, Len(file))
    BY <1>0, <1>1, <2>2, <2>3 DEF Leaves
  <2>. QED BY <1>0, <2>4
<1>2. CASE TornAt = {} /\ f = SubSeq(file, 1, Len(file) - 1) /\ file # << >> /\ ~Chained(Len(file))
  <2>. DEFINE n == Len(file) - 1
  <2>1. n \in Nat /\ n \in 0..Len(file)
    BY <1>0, <1>2
  <2>2. \A i \in 1..Len(file) : file[i] \in Frame
    BY <1>0, <1>2 DEF TornAt
  <2>3. Len(f) = n /\ f \in Seq(Frame) /\ \A i \in 1..n : f[i] = file[i]
    <3>1. file \in Seq(Frame)
      BY <1>0, <2>2
    <3>2. Len(f) = n /\ \A i \in 1..n : f[i] = file[i]
      <4>1. f = SubSeq(file, 1, n) /\ n <= Len(file) /\ 1 <= 1 /\ 1 <= n + 1
        BY <1>2, <2>1
      <4>. HIDE DEF n
      <4>. QED BY <1>0, <2>1, <3>1, <4>1
    <3>3. f \in Seq(Frame)
      BY <1>2, <2>1, <3>1
    <3>. QED BY <3>2, <3>3
  <2>4. \A i \in 1..Len(file) : ChainedTo(i) => i <= n
    BY <1>0, <1>2 DEF ChainedTo
  <2>5. Leaves(f, n)
    BY <2>1, <2>3, <2>4 DEF Leaves
  <2>. QED BY <2>1, <2>5
<1>3. CASE TornAt # {}
  <2>. DEFINE t == FirstTorn
              n == t - 1
              whole == SubSeq(file, 1, n)
  <2>1. TornAt \in SUBSET Nat
    BY <1>0 DEF TornAt
  <2>2. t \in TornAt /\ \A j \in TornAt : t <= j
    BY <1>3, <2>1, FirstIsLeast DEF FirstTorn
  <2>3. t \in 1..Len(file) /\ file[t] = Torn /\ \A i \in 1..n : file[i] \in Frame
    BY <1>0, <2>2 DEF TornAt
  <2>4. \/ f = whole
        \/ t < Len(file) /\ f = Append(whole, [hash |-> <<Garbage>>, payload |-> Garbage])
    BY <1>3 DEF Kept
  <2>. HIDE DEF t
  <2>5. n \in 0..Len(file) /\ whole \in Seq(Frame) /\ Len(whole) = n
        /\ \A i \in 1..n : whole[i] = file[i]
    BY <1>0, <2>3
  <2>6. [hash |-> <<Garbage>>, payload |-> Garbage] \in Frame
    BY DEF Frame
  <2>7. \A i \in 1..Len(file) : ChainedTo(i) => i <= n
    BY <2>3 DEF ChainedTo
  <2>8. ChainedTo(Len(file) - 1) => t = Len(file) /\ ChainedTo(n)
    BY <1>0, <2>3 DEF ChainedTo
  <2>. HIDE DEF n, whole
  <2>9. Leaves(f, n)
    <3>1. CASE f = whole
      BY <2>5, <2>7, <2>8, <3>1 DEF Leaves
    <3>2. CASE t < Len(file) /\ f = Append(whole, [hash |-> <<Garbage>>, payload |-> Garbage])
      <4>1. /\ f \in Seq(Frame) /\ Len(f) = n + 1 /\ f[n + 1].payload = Garbage
            /\ \A i \in 1..n : f[i] = file[i]
        BY <2>5, <2>6, <3>2
      <4>2. ~ChainedTo(Len(file) - 1)
        BY <2>3, <2>8, <3>2
      <4>. QED BY <2>5, <2>7, <4>1, <4>2 DEF Leaves
    <3>. QED BY <2>4, <3>1, <3>2
  <2>. QED BY <2>5, <2>9
<1>. QED BY <1>1, <1>2, <1>3 DEF Kept
-----------------------------------------------------------------------------
(* Every step keeps the invariant.                                           *)

\* Steps that leave the file alone keep what is said of the file alone.
LEMMA FileAlone ==
  ASSUME UNCHANGED file
  PROVE  /\ \A e, j : OnFile(e, j)' <=> OnFile(e, j)
         /\ \A i : ChainedTo(i)' <=> ChainedTo(i)
         /\ \A i : Chained(i)' <=> Chained(i)
         /\ \A i : ChainHash(i)' = ChainHash(i)
         /\ SubmittedOnce => SubmittedOnce'
         /\ AckedChained /\ UNCHANGED acked => AckedChained'
<1>1. \A e, j : OnFile(e, j)' <=> OnFile(e, j)
  BY DEF OnFile
<1>2. \A i : ChainHash(i)' = ChainHash(i)
  BY DEF ChainHash
<1>3. \A i : Chained(i)' <=> Chained(i)
  BY <1>2 DEF Chained
<1>4. \A i : ChainedTo(i)' <=> ChainedTo(i)
  BY <1>3 DEF ChainedTo
<1>5. SubmittedOnce => SubmittedOnce'
  BY DEF SubmittedOnce
<1>6. AckedChained /\ UNCHANGED acked => AckedChained'
  BY <1>4 DEF AckedChained
<1>. QED BY <1>1, <1>2, <1>3, <1>4, <1>5, <1>6

\* A longer file keeps the chains of its frames.
LEMMA ChainsKept ==
  ASSUME NEW n \in Nat, \A i \in 1..n : file'[i] = file[i]
  PROVE  \A i \in 0..n : ChainedTo(i)' <=> ChainedTo(i)
<1>1. \A i \in 0..n : ChainHash(i)' = ChainHash(i)
  BY DEF ChainHash
<1>2. \A i \in 1..n : Chained(i)' <=> Chained(i)
  <2>1. \A i \in 1..n : i - 1 \in 0..n
    OBVIOUS
  <2>. QED BY <1>1, <2>1 DEF Chained
<1>. QED BY <1>2 DEF ChainedTo

LEMMA Opens == IInv /\ Open => IInv'
<1>. SUFFICES ASSUME IInv, Open PROVE IInv'
  OBVIOUS
<1>. USE QueueAssumption DEF IInv
<1>1. PICK n \in Nat : Leaves(file', n)
  BY KeptLeaves DEF Open
<1>2. /\ ~up /\ up' = TRUE /\ tip' = TipOf(file') /\ lives' \in Nat
      /\ UNCHANGED <<guard, writer, actor, todo, acked, failed>>
  BY DEF Open, locks, TypeOK
<1>3. /\ file' \in Seq(Frame) /\ n <= Len(file) /\ Len(file) \in Nat /\ Len(file') \in {n, n + 1}
      /\ \A i \in 1..n : file'[i] = file[i]
      /\ Len(file') = n + 1 => file'[n + 1].payload = Garbage
  BY <1>1 DEF Leaves, TypeOK
<1>4. \A i \in 1..Len(file') : file'[i] \in Frame /\ file'[i] # Torn
  BY <1>3
<1>5. todo = {} /\ \A a \in Actors : AtStep(a, "idle") /\ AtStep(a, "idle")'
  BY <1>2 DEF Locks, AtStep
<1>6. TypeOK'
  <2>1. tip' \in Seq(Payload \cup {Garbage})
    BY <1>2, <1>3, <1>4 DEF TipOf, Frame
  <2>2. file' \in Seq(Frame \cup {Torn})
    BY <1>3
  <2>. QED BY <1>2, <1>5, <2>1, <2>2 DEF TypeOK, AtStep
<1>7. Locks' /\ FrameUnderWay' /\ CheckHolds' /\ RunHolds'
  BY <1>2, <1>5 DEF Locks, FrameUnderWay, CheckHolds, RunHolds, AtStep, Actors
<1>8. SubmittedOnce'
  <2>1. \A i \in 1..Len(file') : file'[i].payload # Garbage =>
          i \in 1..Len(file) /\ file'[i] = file[i]
    BY <1>3
  <2>. QED BY <1>3, <1>4, <2>1 DEF SubmittedOnce, TypeOK
<1>9. \A i \in 0..n : ChainedTo(i)' <=> ChainedTo(i)
  BY <1>3, ChainsKept
<1>10. OneChain'
  <2>. SUFFICES ASSUME ~failed
       PROVE /\ ChainedTo(Len(file) - 1)'
             /\ file' # << >> => (Chained(Len(file)) /\ file[Len(file)] # Torn)'
             /\ tip' = ChainHash(Len(file))'
    <3>1. writer' = Nobody
      BY <1>2, <1>5 DEF Locks, TypeOK, AtStep
    <3>. QED BY <1>2, <3>1 DEF OneChain
  <2>1. ChainedTo(Len(file) - 1)
    BY DEF OneChain
  <2>2. Len(file') = n /\ ChainedTo(n)
    BY <1>1, <2>1 DEF Leaves
  <2>3. ChainedTo(n)'
    BY <1>9, <2>2
  <2>4. tip' = ChainHash(Len(file))'
    BY <1>2, <1>3, <1>4, <2>2 DEF TipOf, ChainHash
  <2>. QED BY <1>3, <2>2, <2>3, <2>4 DEF ChainedTo
<1>11. AckedChained'
  <2>. SUFFICES ASSUME NEW k \in 1..Len(acked)
       PROVE \E i \in 1..Len(file') : file'[i] = acked[k] /\ ChainedTo(i)'
    BY <1>2 DEF AckedChained
  <2>1. PICK i \in 1..Len(file) : file[i] = acked[k] /\ ChainedTo(i)
    BY DEF AckedChained
  <2>2. i \in 1..n
    BY <1>1, <2>1 DEF Leaves
  <2>. QED BY <1>3, <1>9, <2>1, <2>2
<1>. QED BY <1>6, <1>7, <1>8, <1>10, <1>11

\* Writing a frame over the torn one puts one more event on file.
LEMMA Writes ==
  ASSUME IInv, NEW a \in Actors, WriteFrame(a), NEW n, n = Len(file),
         NEW frame, frame = [hash |-> Append(tip, PayloadOf(a)), payload |-> PayloadOf(a)]
  PROVE  IInv'
<1>. USE QueueAssumption DEF IInv
<1>1. AtStep(a, "write") /\ writer = a /\ up /\ actor[a].job \in Jobs
  BY DEF WriteFrame, Locks, AtStep, TypeOK, Idle
<1>2. PayloadOf(a) \in Payload /\ frame \in Frame
  BY <1>1 DEF PayloadOf, Payload, Frame, TypeOK
<1>3. n \in Nat \ {0} /\ file[n] = Torn /\ frame # Torn
  <2>1. file \in Seq(Frame \cup {Torn}) /\ file # << >> /\ file[n] = Torn
    BY <1>1 DEF FrameUnderWay, TypeOK
  <2>2. n \in Nat \ {0}
    BY <2>1
  <2>. QED BY <1>2, <2>1, <2>2
<1>4. /\ file' \in Seq(Frame \cup {Torn}) /\ Len(file') = n /\ file'[n] = frame
      /\ \A i \in 1..(n - 1) : file'[i] = file[i]
  BY <1>2, <1>3 DEF WriteFrame, TypeOK
<1>5. /\ actor' = [actor EXCEPT ![a] = [pc |-> "sync", job |-> actor[a].job]]
      /\ UNCHANGED <<tip, guard, writer, todo, acked, failed, up, lives>>
  <2>1. actor[a] \in [pc : {"run", "append", "write", "sync"}, job : Jobs]
    BY <1>1 DEF TypeOK, AtStep, Idle
  <2>2. [actor[a] EXCEPT !.pc = "sync"] = [pc |-> "sync", job |-> actor[a].job]
    BY <2>1
  <2>3. actor' = [actor EXCEPT ![a] = [actor[a] EXCEPT !.pc = "sync"]]
    BY DEF WriteFrame
  <2>. QED BY <2>2, <2>3 DEF WriteFrame, locks, process
<1>6. TypeOK'
  BY <1>1, <1>3, <1>4, <1>5 DEF TypeOK, AtStep, Actors
<1>7. Locks'
  BY <1>1, <1>5 DEF Locks, AtStep, TypeOK
<1>8. FrameUnderWay'
  BY <1>1, <1>3, <1>4, <1>5 DEF FrameUnderWay, Locks, AtStep, TypeOK, PayloadOf
<1>9. \A e, j : OnFile(e, j)' <=> OnFile(e, j) \/ [event |-> e, job |-> j] = PayloadOf(a)
  <2>1. DOMAIN file = 1..n /\ DOMAIN file' = 1..n /\ n \in 1..n
    BY <1>3, <1>4 DEF TypeOK
  <2>2. \A i \in 1..n : i # n => file'[i] = file[i]
    BY <1>3, <1>4
  <2>3. file'[n] # Torn /\ file'[n].payload = PayloadOf(a)
    BY <1>3, <1>4
  <2>. QED BY <1>3, <2>1, <2>2, <2>3 DEF OnFile
<1>10. CheckHolds'
  BY <1>1, <1>5, <1>9 DEF CheckHolds, Locks, AtStep, TypeOK, PayloadOf, Actors
<1>11. SubmittedOnce'
  <2>1. PayloadOf(a).event = "submitted" =>
          \A i \in 1..(n - 1) : file[i] # Torn => file[i].payload # PayloadOf(a)
    <3>. SUFFICES ASSUME PayloadOf(a).event = "submitted"
         PROVE \A i \in 1..(n - 1) : file[i] # Torn => file[i].payload # PayloadOf(a)
      OBVIOUS
    <3>1. a # Runner /\ PayloadOf(a) = [event |-> "submitted", job |-> actor[a].job]
      BY DEF PayloadOf
    <3>2. ~OnFile("submitted", actor[a].job)
      BY <1>1, <3>1 DEF CheckHolds, Actors
    <3>3. \A i \in 1..(n - 1) : i \in DOMAIN file
      BY <1>3 DEF TypeOK
    <3>. QED BY <3>1, <3>2, <3>3 DEF OnFile
  <2>2. DOMAIN file = 1..n /\ DOMAIN file' = 1..n
    BY <1>3, <1>4 DEF TypeOK
  <2>3. \A i \in 1..n : i # n => i \in 1..(n - 1) /\ file'[i] = file[i]
    BY <1>3, <1>4
  <2>4. file'[n].payload = PayloadOf(a)
    BY <1>4
  <2>. QED BY <2>1, <2>2, <2>3, <2>4 DEF SubmittedOnce
<1>12. RunHolds'
  <2>0. \A i \in todo : i \in 1..(n - 1) /\ file'[i] = file[i]
    BY <1>3, <1>4 DEF RunHolds, TypeOK
  <2>1. todo \in SUBSET Nat
    BY DEF TypeOK
  <2>2. ~AtStep(Runner, "idle") => First(todo) \in todo
    BY <2>1, FirstIsLeast DEF RunHolds
  <2>3. CASE a = Runner
    <3>1. actor[a].job = file[First(todo)].payload.job /\ First(todo) \in todo
      BY <1>1, <2>2, <2>3 DEF RunHolds, AtStep
    <3>2. \A i \in todo : file[i].payload.job = actor[a].job => i = First(todo)
      <4>1. \A i \in todo : file[i].payload = [event |-> "submitted", job |-> file[i].payload.job]
        BY DEF RunHolds, Payload
      <4>2. \A i \in todo : file[i] # Torn /\ file[i].payload # Garbage /\ i \in DOMAIN file
        BY DEF RunHolds, TypeOK
      <4>. SUFFICES ASSUME NEW i \in todo, file[i].payload.job = actor[a].job
           PROVE i = First(todo)
        OBVIOUS
      <4>3. file[i].payload = file[First(todo)].payload
        BY <3>1, <4>1
      <4>. QED BY <3>1, <4>2, <4>3 DEF SubmittedOnce, RunHolds
    <3>3. \A i \in todo : ~OnFile("completed", file[i].payload.job)
      BY <1>1, <2>3 DEF RunHolds, AtStep
    <3>4. \A j : OnFile("completed", j)' => OnFile("completed", j) \/ j = actor[a].job
      BY <1>9 DEF PayloadOf
    <3>5. AtStep(Runner, "sync")' /\ actor'[Runner].job = actor[Runner].job
      BY <1>5, <2>3 DEF AtStep, TypeOK, Actors
    <3>. QED BY <1>5, <2>0, <2>3, <3>1, <3>2, <3>3, <3>4, <3>5 DEF RunHolds
  <2>4. CASE a # Runner
    <3>1. \A j : OnFile("completed", j)' <=> OnFile("completed", j)
      BY <1>9, <2>4 DEF PayloadOf
    <3>2. actor'[Runner] = actor[Runner]
      BY <1>5, <2>4 DEF TypeOK, Actors
    <3>. QED BY <1>5, <2>0, <2>2, <3>1, <3>2 DEF RunHolds, AtStep
  <2>. QED BY <2>3, <2>4
<1>13. \A i \in 0..(n - 1) : ChainedTo(i)' <=> ChainedTo(i)
  <2>1. n - 1 \in Nat
    BY <1>3
  <2>. QED BY <1>4, <2>1, ChainsKept
<1>14. OneChain'
  <2>. SUFFICES ASSUME ~failed
       PROVE /\ ChainedTo(n - 1)' /\ Chained(n)' /\ file'[n] # Torn
             /\ tip' = ChainHash(n - 1)'
    BY <1>1, <1>4, <1>5 DEF OneChain
  <2>1. ChainedTo(n - 1) /\ tip = ChainHash(n - 1)
    BY <1>1 DEF OneChain
  <2>2. ChainHash(n - 1)' = ChainHash(n - 1)
    BY <1>3, <1>4 DEF ChainHash
  <2>3. Chained(n)'
    BY <1>2, <1>4, <2>1, <2>2 DEF Chained
  <2>. QED BY <1>3, <1>4, <1>5, <1>13, <2>1, <2>2, <2>3
<1>15. AckedChained'
  <2>. SUFFICES ASSUME NEW k \in 1..Len(acked)
       PROVE \E i \in 1..n : file'[i] = acked[k] /\ ChainedTo(i)'
    BY <1>4, <1>5 DEF AckedChained
  <2>1. PICK i \in 1..n : file[i] = acked[k] /\ ChainedTo(i)
    BY DEF AckedChained
  <2>2. i \in 1..(n - 1)
    BY <1>3, <2>1 DEF ChainedTo
  <2>3. i \in 1..n /\ file'[i] = acked[k] /\ ChainedTo(i)'
    BY <1>4, <1>13, <2>1, <2>2
  <2>. QED BY <2>3
<1>. QED BY <1>6, <1>7, <1>8, <1>10, <1>11, <1>12, <1>14, <1>15

\* A frame is begun behind a chain, or after a failure.
LEMMA Begins == ASSUME IInv, NEW a \in Actors, BeginAppend(a), NEW n, n = Len(file) PROVE IInv'
<1>. USE QueueAssumption DEF IInv
<1>1. AtStep(a, "append") /\ writer = Nobody /\ up /\ actor[a].job \in Jobs
  BY DEF BeginAppend, Locks, AtStep, TypeOK, Idle
<1>2. /\ n \in Nat /\ file' \in Seq(Frame \cup {Torn}) /\ Len(file') = n + 1
      /\ file'[n + 1] = Torn /\ \A i \in 1..n : file'[i] = file[i]
  BY DEF BeginAppend, TypeOK
<1>3. /\ actor' = [actor EXCEPT ![a] = [pc |-> "write", job |-> actor[a].job]]
      /\ writer' = a /\ UNCHANGED <<tip, guard, todo, acked, failed, up, lives>>
  <2>1. actor[a] \in [pc : {"run", "append", "write", "sync"}, job : Jobs]
    BY <1>1 DEF TypeOK, AtStep, Idle
  <2>2. [actor[a] EXCEPT !.pc = "write"] = [pc |-> "write", job |-> actor[a].job]
    BY <2>1
  <2>3. actor' = [actor EXCEPT ![a] = [actor[a] EXCEPT !.pc = "write"]]
    BY DEF BeginAppend
  <2>. QED BY <2>2, <2>3 DEF BeginAppend, process
<1>4. TypeOK'
  <2>1. todo \subseteq DOMAIN file'
    BY <1>2 DEF TypeOK
  <2>. QED BY <1>1, <1>2, <1>3, <2>1 DEF TypeOK, AtStep, Actors
<1>5. Locks' /\ FrameUnderWay'
  BY <1>1, <1>2, <1>3 DEF Locks, FrameUnderWay, AtStep, TypeOK
<1>6. \A e, j : OnFile(e, j)' <=> OnFile(e, j)
  <2>1. DOMAIN file = 1..n /\ DOMAIN file' = 1..(n + 1)
    BY <1>2 DEF TypeOK
  <2>2. \A i \in 1..(n + 1) : file'[i] # Torn => i \in 1..n
    BY <1>2
  <2>3. \A i \in 1..n : i \in 1..(n + 1)
    BY <1>2
  <2>. QED BY <1>2, <2>1, <2>2, <2>3 DEF OnFile
<1>7. CheckHolds'
  BY <1>1, <1>3, <1>6 DEF CheckHolds, AtStep, TypeOK, Actors
<1>8. SubmittedOnce'
  <2>1. DOMAIN file = 1..n /\ DOMAIN file' = 1..(n + 1)
    BY <1>2 DEF TypeOK
  <2>2. \A i \in 1..(n + 1) : file'[i] # Torn => i \in 1..n
    BY <1>2
  <2>. QED BY <1>2, <2>1, <2>2 DEF SubmittedOnce
<1>9. RunHolds'
  <2>1. \A i \in todo : i \in 1..n /\ file'[i] = file[i]
    BY <1>2 DEF TypeOK
  <2>2. ~AtStep(Runner, "idle") => First(todo) \in todo
    <3>1. todo \in SUBSET Nat
      BY DEF TypeOK
    <3>. QED BY <3>1, FirstIsLeast DEF RunHolds
  <2>3. /\ AtStep(Runner, "idle")' <=> AtStep(Runner, "idle")
        /\ AtStep(Runner, "sync")' <=> AtStep(Runner, "sync")
        /\ ~AtStep(Runner, "idle") => actor'[Runner].job = actor[Runner].job
    BY <1>1, <1>3 DEF AtStep, TypeOK, Actors
  <2>. QED BY <1>3, <1>6, <2>1, <2>2, <2>3 DEF RunHolds
<1>10. \A i \in 0..n : ChainedTo(i)' <=> ChainedTo(i)
  BY <1>2, ChainsKept
<1>11. OneChain'
  <2>. SUFFICES ASSUME ~failed
       PROVE ChainedTo(n)' /\ file'[n + 1] = Torn /\ AtStep(a, "write")' /\ tip' = ChainHash(n)'
    BY <1>1, <1>2, <1>3 DEF OneChain
  <2>1. ChainedTo(n) /\ tip = ChainHash(n)
    <3>1. \A b \in Actors : ~AtStep(b, "write")
      BY <1>1 DEF Locks
    <3>2. file # << >> => Chained(n) /\ file[n] # Torn
      BY <1>1, <3>1 DEF OneChain
    <3>3. n # 0 => file # << >>
      OBVIOUS
    <3>. QED BY <1>1, <1>2, <3>2, <3>3 DEF OneChain, ChainedTo
  <2>2. ChainHash(n)' = ChainHash(n)
    BY <1>2 DEF ChainHash
  <2>. QED BY <1>1, <1>2, <1>3, <1>10, <2>1, <2>2 DEF AtStep, TypeOK
<1>12. AckedChained'
  <2>. SUFFICES ASSUME NEW k \in 1..Len(acked)
       PROVE \E i \in 1..(n + 1) : file'[i] = acked[k] /\ ChainedTo(i)'
    BY <1>2, <1>3 DEF AckedChained
  <2>1. PICK i \in 1..n : file[i] = acked[k] /\ ChainedTo(i)
    BY DEF AckedChained
  <2>2. i \in 1..(n + 1) /\ file'[i] = acked[k] /\ ChainedTo(i)'
    BY <1>2, <1>10, <2>1
  <2>. QED BY <2>2
<1>. QED BY <1>4, <1>5, <1>7, <1>8, <1>9, <1>11, <1>12

\* A synced frame is acknowledged and the tip moves to it; the runner goes on.
LEMMA Returns == ASSUME IInv, NEW a \in Actors, SyncAndReturn(a), NEW n, n = Len(file) PROVE IInv'
<1>. USE QueueAssumption DEF IInv
<1>1. AtStep(a, "sync") /\ writer = a /\ up
  BY DEF SyncAndReturn, Locks, AtStep
<1>2. n \in Nat \ {0} /\ file[n] \in Frame
  <2>1. file \in Seq(Frame \cup {Torn}) /\ file # << >> /\ file[n] # Torn
    BY <1>1 DEF FrameUnderWay, TypeOK
  <2>. QED BY <2>1
<1>3. /\ UNCHANGED <<file, failed, up, lives>> /\ tip' = file[n].hash
      /\ acked' = (IF failed THEN acked ELSE Append(acked, file[n]))
      /\ writer' = Nobody /\ guard' = (IF guard = a THEN Nobody ELSE guard)
  BY <1>1 DEF SyncAndReturn, Release, process
<1>4. /\ \A e, j : OnFile(e, j)' <=> OnFile(e, j)
      /\ \A i : ChainedTo(i)' <=> ChainedTo(i)
      /\ \A i : ChainHash(i)' = ChainHash(i)
      /\ \A i : Chained(i)' <=> Chained(i)
      /\ SubmittedOnce'
  BY <1>3, FileAlone
<1>. DEFINE rest == todo \ {First(todo)}
<1>5. \/ /\ a = Runner /\ rest # {} /\ todo' = rest
         /\ actor' = [actor EXCEPT ![a] = [pc |-> "run", job |-> file[First(rest)].payload.job]]
      \/ /\ actor' = [actor EXCEPT ![a] = Idle] /\ todo' = IF a = Runner THEN {} ELSE todo
  BY DEF SyncAndReturn, NextCall, Busy
<1>6. rest # {} => First(rest) \in rest /\ file[First(rest)].payload.job \in Jobs
  <2>1. rest \in SUBSET Nat
    BY DEF TypeOK
  <2>2. rest # {} => First(rest) \in rest
    BY <2>1, FirstIsLeast
  <2>. QED BY <2>2 DEF RunHolds, Payload
<1>. HIDE DEF rest
<1>7. TypeOK'
  <2>1. acked' \in Seq(Frame) /\ tip' \in Seq(Payload \cup {Garbage})
    <3>1. file[n].hash \in Seq(Payload \cup {Garbage})
      BY <1>2 DEF Frame
    <3>2. acked' \in Seq(Frame)
      BY <1>2, <1>3 DEF TypeOK
    <3>. QED BY <1>3, <3>1, <3>2
  <2>2. todo' \subseteq DOMAIN file
    BY <1>5 DEF TypeOK, rest
  <2>3. actor' \in [Actors -> {Idle} \cup [pc : {"run", "append", "write", "sync"}, job : Jobs]]
    BY <1>5, <1>6 DEF TypeOK
  <2>4. \A s \in Submitters : ~AtStep(s, "run")'
    BY SMTT(60), <1>5 DEF TypeOK, AtStep, Idle, Actors
  <2>. QED BY <1>3, <2>1, <2>2, <2>3, <2>4 DEF TypeOK
<1>8. Locks'
  BY <1>1, <1>3, <1>5 DEF Locks, AtStep, TypeOK, Idle, Actors
<1>9. FrameUnderWay' /\ CheckHolds'
  <2>1. \A b \in Actors \ {a} : actor'[b] = actor[b]
    BY <1>5 DEF TypeOK
  <2>2. \A b \in Actors : ~AtStep(b, "write")' /\ ~AtStep(b, "sync")'
    BY <1>3, <1>8 DEF Locks
  <2>3. \A s \in Submitters : AtStep(s, "append")' => s # a /\ AtStep(s, "append")
    BY <1>5, <2>1 DEF AtStep, Idle, TypeOK, Actors
  <2>. QED BY <1>4, <2>1, <2>2, <2>3 DEF FrameUnderWay, CheckHolds, Actors
<1>10. RunHolds'
  <2>1. CASE a = Runner /\ rest # {} /\ todo' = rest
             /\ actor' = [actor EXCEPT ![a] = [pc |-> "run", job |-> file[First(rest)].payload.job]]
    <3>1. \A i \in rest : i \in todo /\ ~OnFile("completed", file[i].payload.job)
      BY DEF RunHolds, rest
    <3>2. actor'[Runner].job = file[First(rest)].payload.job
      BY <2>1 DEF TypeOK, Actors
    <3>. QED BY <1>3, <1>4, <2>1, <3>1, <3>2 DEF RunHolds
  <2>2. CASE a = Runner /\ actor' = [actor EXCEPT ![a] = Idle] /\ todo' = {}
    BY <2>2 DEF RunHolds, AtStep, Idle, TypeOK, Actors
  <2>3. CASE a # Runner /\ actor' = [actor EXCEPT ![a] = Idle] /\ todo' = todo
    <3>1. actor'[Runner] = actor[Runner]
      BY <2>3 DEF TypeOK, Actors
    <3>. QED BY <1>3, <1>4, <2>3, <3>1 DEF RunHolds, AtStep
  <2>. QED BY <1>5, <2>1, <2>2, <2>3
<1>11. ~failed => ChainedTo(n)
  <2>1. ~failed => ChainedTo(n - 1) /\ Chained(n) /\ file[n] # Torn
    BY <1>2 DEF OneChain, FrameUnderWay
  <2>. QED BY <1>2, <2>1 DEF ChainedTo
<1>12. OneChain'
  <2>. SUFFICES ASSUME ~failed
       PROVE ChainedTo(n - 1)' /\ Chained(n)' /\ file[n] # Torn /\ tip' = ChainHash(n)'
    BY <1>3 DEF OneChain
  <2>1. ChainedTo(n - 1) /\ Chained(n) /\ file[n] # Torn
    BY <1>2, <1>11 DEF ChainedTo
  <2>. QED BY <1>2, <1>3, <1>4, <2>1 DEF ChainHash
<1>13. AckedChained'
  <2>. SUFFICES ASSUME NEW k \in 1..Len(acked')
       PROVE \E i \in 1..n : file[i] = acked'[k] /\ ChainedTo(i)
    BY <1>3, <1>4 DEF AckedChained
  <2>1. CASE k \in 1..Len(acked)
    BY <1>3, <2>1 DEF AckedChained, TypeOK
  <2>2. CASE k \notin 1..Len(acked)
    <3>1. ~failed /\ acked'[k] = file[n]
      BY <1>3, <2>2 DEF TypeOK
    <3>. QED BY <1>2, <1>11, <3>1
  <2>. QED BY <2>1, <2>2
<1>. QED BY <1>4, <1>7, <1>8, <1>9, <1>10, <1>12, <1>13

\* A failed append ends its call, and its frame may stay torn.
LEMMA Fails == ASSUME IInv, NEW a \in Actors, AppendFails(a) PROVE IInv'
<1>. USE QueueAssumption DEF IInv
<1>1. ~AtStep(a, "idle") /\ up
  BY DEF AppendFails, Locks, AtStep
<1>2. /\ UNCHANGED <<file, tip, acked, up, lives>> /\ actor' = [actor EXCEPT ![a] = Idle]
      /\ todo' = (IF a = Runner THEN {} ELSE todo)
      /\ \/ failed' = TRUE
         \/ failed' = failed /\ writer = Nobody /\ writer' = Nobody
  BY DEF AppendFails, Release, process
<1>3. /\ writer' = (IF writer = a THEN Nobody ELSE writer)
      /\ guard' = (IF guard = a THEN Nobody ELSE guard)
  BY DEF AppendFails, Release
<1>4. /\ \A e, j : OnFile(e, j)' <=> OnFile(e, j)
      /\ \A i : ChainedTo(i)' <=> ChainedTo(i)
      /\ \A i : ChainHash(i)' = ChainHash(i)
      /\ \A i : Chained(i)' <=> Chained(i)
      /\ SubmittedOnce' /\ AckedChained'
  BY <1>2, FileAlone
<1>5. \A b \in Actors : IF b = a THEN actor'[b].pc = "idle" ELSE actor'[b] = actor[b]
  BY <1>2 DEF TypeOK, Idle
<1>6. TypeOK'
  <2>1. \A s \in Submitters : ~AtStep(s, "run")'
    BY <1>5 DEF TypeOK, AtStep, Actors
  <2>2. actor' \in [Actors -> {Idle} \cup [pc : {"run", "append", "write", "sync"}, job : Jobs]]
    BY <1>2 DEF TypeOK
  <2>. QED BY <1>2, <1>3, <2>1, <2>2 DEF TypeOK
<1>7. Locks'
  BY <1>1, <1>2, <1>3, <1>5 DEF Locks, AtStep, TypeOK, Actors
<1>8. FrameUnderWay' /\ CheckHolds'
  BY <1>2, <1>4, <1>5 DEF FrameUnderWay, CheckHolds, AtStep, PayloadOf, Actors
<1>9. RunHolds'
  <2>1. CASE a = Runner
    BY <1>2, <1>5, <2>1 DEF RunHolds, AtStep, Actors
  <2>2. CASE a # Runner
    BY <1>2, <1>4, <1>5, <2>2 DEF RunHolds, AtStep, Actors
  <2>. QED BY <2>1, <2>2
<1>10. OneChain'
  <2>. SUFFICES ASSUME ~failed, writer = Nobody, writer' = Nobody PROVE OneChain'
    BY <1>2 DEF OneChain
  <2>1. \A b \in Actors : ~AtStep(b, "write")
    BY DEF Locks
  <2>. QED BY <1>1, <1>2, <1>4, <2>1 DEF OneChain
<1>. QED BY <1>4, <1>6, <1>7, <1>8, <1>9, <1>10

\* A job id is found missing under the guard, which no one else holds.
LEMMA Submits == ASSUME IInv, NEW s \in Submitters, Submit(s) PROVE IInv'
<1>. USE QueueAssumption DEF IInv
<1>1. PICK j \in Jobs : /\ ~OnFile("submitted", j)
                        /\ actor' = [actor EXCEPT ![s] = [pc |-> "append", job |-> j]]
  BY DEF Submit, Busy
<1>2. /\ up /\ AtStep(s, "idle") /\ guard = Nobody /\ guard' = s
      /\ UNCHANGED <<file, tip, writer, todo, acked, failed, up, lives>>
  BY DEF Submit, process
<1>3. /\ \A e, i : OnFile(e, i)' <=> OnFile(e, i)
      /\ \A i : ChainedTo(i)' <=> ChainedTo(i)
      /\ \A i : ChainHash(i)' = ChainHash(i)
      /\ \A i : Chained(i)' <=> Chained(i)
      /\ SubmittedOnce' /\ AckedChained'
  BY <1>2, FileAlone
<1>4. \A b \in Actors :
        IF b = s THEN actor'[b] = [pc |-> "append", job |-> j] ELSE actor'[b] = actor[b]
  BY <1>1 DEF TypeOK
<1>5. TypeOK'
  <2>1. \A b \in Submitters : ~AtStep(b, "run")'
    BY <1>4 DEF TypeOK, AtStep, Actors
  <2>2. actor' \in [Actors -> {Idle} \cup [pc : {"run", "append", "write", "sync"}, job : Jobs]]
    BY <1>1 DEF TypeOK
  <2>. QED BY <1>2, <2>1, <2>2 DEF TypeOK
<1>6. Locks'
  BY <1>2, <1>4 DEF Locks, AtStep, Actors
<1>7. FrameUnderWay' /\ CheckHolds'
  BY <1>1, <1>2, <1>3, <1>4 DEF FrameUnderWay, CheckHolds, AtStep, PayloadOf, Actors
<1>8. RunHolds'
  BY <1>2, <1>3, <1>4 DEF RunHolds, AtStep, Actors
<1>9. OneChain'
  <2>1. \A b \in Actors : AtStep(b, "write")' <=> AtStep(b, "write")
    BY <1>2, <1>4 DEF AtStep
  <2>. QED BY <1>2, <1>3, <2>1 DEF OneChain
<1>. QED BY <1>3, <1>5, <1>6, <1>7, <1>8, <1>9

\* run_pending reads submissions without completions.
LEMMA ReadsPending == ASSUME IInv, RunPending PROVE IInv'
<1>. USE QueueAssumption DEF IInv
<1>1. /\ up /\ AtStep(Runner, "idle") /\ Pending # {} /\ todo' = Pending
      /\ actor' = [actor EXCEPT ![Runner] = [pc |-> "run", job |-> file[First(Pending)].payload.job]]
      /\ UNCHANGED <<file, tip, guard, writer, acked, failed, up, lives>>
  BY DEF RunPending, Busy, locks, process
<1>2. /\ \A e, i : OnFile(e, i)' <=> OnFile(e, i)
      /\ \A i : ChainedTo(i)' <=> ChainedTo(i)
      /\ \A i : ChainHash(i)' = ChainHash(i)
      /\ \A i : Chained(i)' <=> Chained(i)
      /\ SubmittedOnce' /\ AckedChained'
  BY <1>1, FileAlone
<1>3. \A i \in Pending : /\ i \in DOMAIN file /\ file[i] # Torn /\ file[i].payload \in Payload
                         /\ file[i].payload.event = "submitted"
                         /\ ~OnFile("completed", file[i].payload.job)
  <2>1. \A i \in DOMAIN file : file[i] # Torn /\ file[i].payload \in Payload
    BY DEF RunPending, Decodes, TypeOK, Frame
  <2>. QED BY <2>1 DEF Pending
<1>4. First(Pending) \in Pending
  <2>1. Pending \in SUBSET Nat
    BY DEF Pending, TypeOK
  <2>. QED BY <1>1, <2>1, FirstIsLeast
<1>5. \A b \in Actors : IF b = Runner
        THEN actor'[b] = [pc |-> "run", job |-> file[First(Pending)].payload.job]
        ELSE actor'[b] = actor[b]
  BY <1>1 DEF TypeOK
<1>6. TypeOK'
  <2>1. file[First(Pending)].payload.job \in Jobs
    BY <1>3, <1>4 DEF Payload
  <2>2. actor' \in [Actors -> {Idle} \cup [pc : {"run", "append", "write", "sync"}, job : Jobs]]
    BY <1>1, <2>1 DEF TypeOK
  <2>3. \A b \in Submitters : ~AtStep(b, "run")'
    BY <1>5 DEF TypeOK, AtStep, Actors
  <2>. QED BY <1>1, <1>3, <2>2, <2>3 DEF TypeOK
<1>7. Locks'
  BY <1>1, <1>5 DEF Locks, AtStep, Actors
<1>8. FrameUnderWay' /\ CheckHolds'
  BY <1>1, <1>2, <1>5 DEF FrameUnderWay, CheckHolds, AtStep, PayloadOf, Actors
<1>9. RunHolds'
  BY <1>1, <1>2, <1>3, <1>4, <1>5 DEF RunHolds, AtStep, Actors
<1>10. OneChain'
  <2>1. \A b \in Actors : AtStep(b, "write")' <=> AtStep(b, "write")
    BY <1>1, <1>5 DEF AtStep
  <2>. QED BY <1>1, <1>2, <2>1 DEF OneChain
<1>. QED BY <1>2, <1>6, <1>7, <1>8, <1>9, <1>10

LEMMA Executes == ASSUME IInv, Execute PROVE IInv'
<1>. USE QueueAssumption DEF IInv
<1>1. /\ AtStep(Runner, "run") /\ actor[Runner].job \in Jobs
      /\ UNCHANGED <<file, tip, guard, writer, todo, acked, failed, up, lives>>
  BY DEF Execute, locks, process, AtStep, TypeOK, Idle, Actors
<1>2. actor' = [actor EXCEPT ![Runner] = [pc |-> "append", job |-> actor[Runner].job]]
  <2>1. actor[Runner] \in [pc : {"run", "append", "write", "sync"}, job : Jobs]
    BY <1>1 DEF TypeOK, AtStep, Idle, Actors
  <2>2. [actor[Runner] EXCEPT !.pc = "append"] = [pc |-> "append", job |-> actor[Runner].job]
    BY <2>1
  <2>3. actor' = [actor EXCEPT ![Runner] = [actor[Runner] EXCEPT !.pc = "append"]]
    BY DEF Execute
  <2>. QED BY <2>2, <2>3
<1>3. /\ \A e, i : OnFile(e, i)' <=> OnFile(e, i)
      /\ \A i : ChainedTo(i)' <=> ChainedTo(i)
      /\ \A i : ChainHash(i)' = ChainHash(i)
      /\ \A i : Chained(i)' <=> Chained(i)
      /\ SubmittedOnce' /\ AckedChained'
  BY <1>1, FileAlone
<1>4. \A b \in Actors : IF b = Runner
        THEN actor'[b] = [pc |-> "append", job |-> actor[Runner].job]
        ELSE actor'[b] = actor[b]
  BY <1>2 DEF TypeOK
<1>5. TypeOK'
  <2>1. actor' \in [Actors -> {Idle} \cup [pc : {"run", "append", "write", "sync"}, job : Jobs]]
    BY <1>1, <1>2 DEF TypeOK
  <2>2. \A b \in Submitters : ~AtStep(b, "run")'
    BY <1>4 DEF TypeOK, AtStep, Actors
  <2>. QED BY <1>1, <2>1, <2>2 DEF TypeOK
<1>6. Locks'
  BY <1>1, <1>4 DEF Locks, AtStep, Actors
<1>7. FrameUnderWay' /\ CheckHolds'
  BY <1>1, <1>3, <1>4 DEF FrameUnderWay, CheckHolds, AtStep, PayloadOf, Actors
<1>8. RunHolds'
  BY <1>1, <1>3, <1>4 DEF RunHolds, AtStep, Actors
<1>9. OneChain'
  <2>1. \A b \in Actors : AtStep(b, "write")' <=> AtStep(b, "write")
    BY <1>1, <1>4 DEF AtStep
  <2>. QED BY <1>1, <1>3, <2>1 DEF OneChain
<1>. QED BY <1>3, <1>5, <1>6, <1>7, <1>8, <1>9

\* A kill takes everything but the file; an unreadable file is a failure.
LEMMA Restarts == ASSUME IInv, Kill \/ OpenUnread PROVE IInv'
<1>. USE QueueAssumption DEF IInv
<1>1. UNCHANGED <<file, acked>>
  BY DEF Kill, OpenUnread
<1>2. /\ \A e, i : OnFile(e, i)' <=> OnFile(e, i)
      /\ \A i : ChainedTo(i)' <=> ChainedTo(i)
      /\ \A i : Chained(i)' <=> Chained(i)
      /\ SubmittedOnce' /\ AckedChained'
  BY <1>1, FileAlone
<1>3. /\ tip' = << >> /\ todo' = {} /\ lives' \in Nat /\ up' \in BOOLEAN
      /\ actor' = [b \in Actors |-> Idle] /\ guard' \in Submitters \cup {Nobody} /\ writer' = Nobody
      /\ (failed' = failed /\ up' = FALSE) \/ failed' = TRUE
  <2>1. CASE Kill
    BY <2>1 DEF Kill, TypeOK
  <2>2. CASE OpenUnread
    <3>1. ~up /\ UNCHANGED <<guard, writer, actor, todo>> /\ tip' = << >> /\ failed' = TRUE
      BY <2>2 DEF OpenUnread, locks
    <3>2. todo = {} /\ actor = [b \in Actors |-> Idle] /\ writer = Nobody
      BY <3>1 DEF Locks, TypeOK, AtStep
    <3>. QED BY <2>2, <3>1, <3>2 DEF OpenUnread, TypeOK
  <2>. QED BY <2>1, <2>2
<1>4. \A b \in Actors : actor'[b].pc = "idle"
  BY <1>3 DEF Idle
<1>5. TypeOK'
  <2>1. actor' \in [Actors -> {Idle} \cup [pc : {"run", "append", "write", "sync"}, job : Jobs]]
    BY <1>3
  <2>2. \A s \in Submitters : ~AtStep(s, "run")'
    BY <1>4 DEF AtStep, Actors
  <2>3. tip' \in Seq(Payload \cup {Garbage})
    BY <1>3
  <2>4. failed' \in BOOLEAN
    BY <1>3 DEF TypeOK
  <2>. QED BY <1>1, <1>3, <2>1, <2>2, <2>3, <2>4 DEF TypeOK
<1>6. Locks' /\ FrameUnderWay' /\ CheckHolds' /\ RunHolds'
  BY <1>3, <1>4 DEF Locks, FrameUnderWay, CheckHolds, RunHolds, AtStep, Actors
<1>7. OneChain'
  BY <1>1, <1>2, <1>3 DEF OneChain
<1>. QED BY <1>2, <1>5, <1>6, <1>7

LEMMA Inductive == IInv /\ [Next]_vars => IInv'
<1>. SUFFICES ASSUME IInv, [Next]_vars PROVE IInv'
  OBVIOUS
<1>1. CASE UNCHANGED vars
  <2>1. UNCHANGED <<file, tip, guard, writer, actor, todo, acked, failed, up, lives>>
    BY <1>1 DEF vars, locks, process
  <2>2. /\ \A e, i : OnFile(e, i)' <=> OnFile(e, i)
        /\ \A i : ChainedTo(i)' <=> ChainedTo(i)
        /\ \A i : ChainHash(i)' = ChainHash(i)
        /\ \A i : Chained(i)' <=> Chained(i)
    BY <2>1, FileAlone
  <2>3. TypeOK' /\ SubmittedOnce' /\ AckedChained'
    BY <2>1, FileAlone DEF IInv, TypeOK, AtStep
  <2>4. \A a : \A pc : AtStep(a, pc)' <=> AtStep(a, pc)
    BY <2>1 DEF AtStep
  <2>5. Locks' /\ FrameUnderWay' /\ CheckHolds'
    BY <2>1, <2>2, <2>4 DEF IInv, Locks, FrameUnderWay, CheckHolds, PayloadOf
  <2>6. RunHolds' /\ OneChain'
    BY <2>1, <2>2, <2>4 DEF IInv, RunHolds, OneChain
  <2>. QED BY <2>3, <2>5, <2>6 DEF IInv
<1>2. ASSUME NEW a \in Actors, BeginAppend(a) \/ WriteFrame(a) \/ SyncAndReturn(a) \/ AppendFails(a)
      PROVE IInv'
  BY <1>2, Begins, Writes, Returns, Fails
<1>. QED BY <1>1, <1>2, Opens, Restarts, ReadsPending, Executes, Submits DEF Next, Quiet

LEMMA InvariantHolds == Spec => []IInv
<1>1. Init => IInv
  <2>. SUFFICES ASSUME Init PROVE IInv
    OBVIOUS
  <2>1. file = << >> /\ Len(file) = 0 /\ acked = << >> /\ Len(acked) = 0
    BY DEF Init
  <2>2. TypeOK
    <3>1. actor \in [Actors -> {Idle} \cup [pc : {"run", "append", "write", "sync"}, job : Jobs]]
      BY DEF Init
    <3>2. \A s \in Submitters : ~AtStep(s, "run")
      BY DEF Init, AtStep, Idle, Actors
    <3>3. file \in Seq(Frame \cup {Torn}) /\ tip \in Seq(Payload \cup {Garbage}) /\ acked \in Seq(Frame)
      BY DEF Init
    <3>. QED BY <3>1, <3>2, <3>3 DEF Init, TypeOK
  <2>3. Locks /\ FrameUnderWay /\ CheckHolds /\ RunHolds
    BY QueueAssumption DEF Init, Locks, FrameUnderWay, CheckHolds, RunHolds, AtStep, Idle, Actors
  <2>4. SubmittedOnce /\ OneChain /\ AckedChained
    BY <2>1 DEF Init, SubmittedOnce, OneChain, AckedChained, ChainedTo
  <2>. QED BY <2>2, <2>3, <2>4 DEF IInv
<1>. QED BY <1>1, Inductive, PTL DEF Spec
-----------------------------------------------------------------------------
(* What it implies.                                                          *)

\* Every state of the queue, of its log and of the calls under way is well typed.
THEOREM TypeCorrect == Spec => []TypeOK
<1>1. IInv => TypeOK
  BY DEF IInv
<1>. QED BY <1>1, InvariantHolds, PTL

\* However many threads race to submit a job id, and whatever is killed, torn
\* off or failed in between, it stands on file at most once.
THEOREM NoJobTwice == Spec => []SubmittedOnce
<1>1. IInv => SubmittedOnce
  BY DEF IInv
<1>. QED BY <1>1, InvariantHolds, PTL

\* No job runs whose completion is on file, although run_pending reads the
\* pending jobs once and runs them one after the other.
THEOREM CompletedStaysDone == Spec => []DoneNotRerun
<1>1. IInv => DoneNotRerun
  <2>. SUFFICES ASSUME IInv, AtStep(Runner, "run")
       PROVE ~OnFile("completed", actor[Runner].job)
    BY DEF DoneNotRerun
  <2>1. ~AtStep(Runner, "idle") /\ ~AtStep(Runner, "sync")
    BY DEF AtStep
  <2>2. First(todo) \in todo
    <3>1. todo \in SUBSET Nat
      BY DEF IInv, TypeOK
    <3>. QED BY <2>1, <3>1, FirstIsLeast DEF IInv, RunHolds
  <2>. QED BY <2>1, <2>2 DEF IInv, RunHolds
<1>. QED BY <1>1, InvariantHolds, PTL

\* Opening the log never cuts off what append acknowledged before the first
\* failure, although it truncates a torn tail with all that follows.
THEOREM AcknowledgedSurvives == Spec => []AckedSurvives
<1>1. IInv => AckedSurvives
  BY DEF IInv, AckedChained, AckedSurvives, TypeOK
<1>. QED BY <1>1, InvariantHolds, PTL

\* Without a failure, a running queue whose log nobody is appending to decodes,
\* whatever was killed in the middle of a write before.
THEOREM ReadableWhenQuiet == Spec => []QuietReadable
<1>1. IInv => QuietReadable
  <2>. SUFFICES ASSUME IInv, ~failed, up, writer = Nobody,
                       NEW i \in DOMAIN file
       PROVE file[i] # Torn /\ file[i].payload # Garbage
    BY DEF QuietReadable, Decodes
  <2>1. \A a \in Actors : ~AtStep(a, "write")
    BY QueueAssumption DEF IInv, Locks
  <2>2. ChainedTo(Len(file) - 1) /\ Chained(Len(file)) /\ file[Len(file)] # Torn
    BY <2>1 DEF IInv, OneChain, TypeOK
  <2>3. i = Len(file) \/ i \in 1..(Len(file) - 1)
    BY DEF IInv, TypeOK
  <2>. QED BY <2>2, <2>3 DEF ChainedTo, Chained
<1>. QED BY <1>1, InvariantHolds, PTL
=============================================================================
