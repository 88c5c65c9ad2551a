----------------------------- MODULE JobQueue -----------------------------
(***************************************************************************)
(* The durable job queue of crates/av-jobs: JobQueue (queue.rs) over its   *)
(* hash-chained JobLog (log.rs), drained by a Runner (runner.rs).          *)
(*                                                                         *)
(* Threads submit while the runner runs.  Submissions exclude each other   *)
(* (submit_guard), appends exclude each other (the lock on the tip), and   *)
(* nothing excludes a reader: read_all may meet a frame half written.  A   *)
(* frame is one write and one sync, and the process may be killed, or the  *)
(* file system fail, at each.  Unlike the command ledger, which refuses a  *)
(* torn tail, the log cuts it off when it is opened.  A hash stands for    *)
(* what it covers: the payloads up to and including its own.               *)
(***************************************************************************)
EXTENDS Naturals, Sequences

CONSTANTS
  Jobs,        \* job ids
  Submitters,  \* threads that submit
  Runner,      \* the thread that drains the queue
  Nobody,      \* the holder of a free lock
  Torn,        \* on file: a frame cut short
  Garbage,     \* a payload that does not decode
  MaxLives     \* bound: process lifetimes

Actors == Submitters \cup {Runner}

\* JobLogRecord: a submitted JobSpec or a JobCompletion.
Payload == [event : {"submitted", "completed"}, job : Jobs]
Frame == [hash : Seq(Payload \cup {Garbage}), payload : Payload \cup {Garbage}]

ASSUME QueueAssumption ==
  /\ Runner \notin Submitters /\ Nobody \notin Actors
  /\ Torn \notin Frame /\ Garbage \notin Payload
  /\ MaxLives \in Nat

VARIABLES
  file,    \* the frames on file, in order
  tip,     \* JobLog.tip: the hash the next frame chains from
  guard,   \* holder of submit_guard
  writer,  \* holder of the lock on the tip, across an append
  actor,   \* actor[a]: where its call is, and the job it is about
  todo,    \* where the pending jobs stand that run_pending has still to run
  failed,  \* history: has an I/O operation failed?
  acked,   \* history: the frames whose append returned Ok before that, in order
  up,      \* is a process running?
  lives    \* process lifetimes begun

locks == <<guard, writer>>
process == <<up, lives>>
vars == <<file, tip, locks, actor, todo, acked, failed, process>>

Idle == [pc |-> "idle"]
AtStep(a, pc) == actor[a].pc = pc
Busy(pc, job) == [pc |-> pc, job |-> job]

\* What a call writes: a submission, or the completion of the job just run.
PayloadOf(a) ==
  [event |-> IF a = Runner THEN "completed" ELSE "submitted", job |-> actor[a].job]

\* read_all decodes every frame or fails; it does not look at the chain.
Decodes == \A i \in DOMAIN file : file[i] # Torn /\ file[i].payload # Garbage
OnFile(event, job) == \E i \in DOMAIN file : file[i] # Torn /\ file[i].payload = [event |-> event, job |-> job]

\* JobQueue::pending: submitted and not completed.  Where they stand on file is
\* their order.
PendingUnfiltered ==   \* bug: completions are not matched
  {i \in DOMAIN file : file[i].payload.event = "submitted"}

Pending ==
  {i \in DOMAIN file :
     file[i].payload.event = "submitted" /\ ~OnFile("completed", file[i].payload.job)}
First(positions) == CHOOSE i \in positions : \A j \in positions : i <= j

ChainHash(i) == IF i = 0 THEN << >> ELSE file[i].hash
Chained(i) == file[i].payload # Garbage /\ file[i].hash = Append(ChainHash(i - 1), file[i].payload)
-----------------------------------------------------------------------------
Init ==
  /\ file = << >> /\ tip = << >>
  /\ guard = Nobody /\ writer = Nobody
  /\ actor = [a \in Actors |-> Idle] /\ todo = {}
  /\ acked = << >> /\ failed = FALSE
  /\ up = FALSE /\ lives = 0

(***************************************************************************)
(* JobLog::open.  The scan of scan_frames keeps what it leaves on file.    *)
(***************************************************************************)
TornAt == {i \in DOMAIN file : file[i] = Torn}
FirstTorn == First(TornAt)

\* With nothing torn only the last frame is judged.  A torn frame is cut off
\* with all that follows; what follows may also be taken for the rest of it,
\* and then a frame of garbage stays.
KeptOffByOne ==   \* bug: the cut is made one frame too early
  IF TornAt = {} THEN {file} ELSE {SubSeq(file, 1, IF FirstTorn > 2 THEN FirstTorn - 2 ELSE 0)}

Kept ==
  IF TornAt = {}
  THEN {IF file = << >> \/ Chained(Len(file)) THEN file ELSE SubSeq(file, 1, Len(file) - 1)}
  ELSE LET whole == SubSeq(file, 1, FirstTorn - 1)
           junk == [hash |-> <<Garbage>>, payload |-> Garbage]
       IN {whole} \cup (IF FirstTorn < Len(file) THEN {Append(whole, junk)} ELSE {})

TipOf(frames) ==
  IF frames = << >> THEN << >>
  ELSE IF frames[Len(frames)] = Torn THEN << >> ELSE frames[Len(frames)].hash

Open ==
  /\ ~up /\ lives < MaxLives
  /\ file' \in Kept
  /\ tip' = TipOf(file')
  /\ up' = TRUE /\ lives' = lives + 1
  /\ UNCHANGED <<locks, actor, todo, acked, failed>>

\* A file that cannot be read is taken for an empty one, and appended to.
OpenUnread ==
  /\ ~up /\ lives < MaxLives
  /\ tip' = << >>
  /\ failed' = TRUE
  /\ up' = TRUE /\ lives' = lives + 1
  /\ UNCHANGED <<file, locks, actor, todo, acked>>

(***************************************************************************)
(* Submitting, and running what is pending.                                *)
(***************************************************************************)
\* The check is made and the append begun under submit_guard.  A duplicate,
\* or a log that cannot be read, is refused and leaves nothing.
SubmitUnguarded(s) ==   \* bug: no lock across the check and the append
  /\ up /\ AtStep(s, "idle")
  /\ Decodes
  /\ \E j \in Jobs :
       ~OnFile("submitted", j) /\ actor' = [actor EXCEPT ![s] = Busy("append", j)]
  /\ guard' = s
  /\ UNCHANGED <<file, tip, writer, todo, acked, failed, process>>

Submit(s) ==
  /\ up /\ AtStep(s, "idle") /\ guard = Nobody
  /\ Decodes
  /\ \E j \in Jobs :
       ~OnFile("submitted", j) /\ actor' = [actor EXCEPT ![s] = Busy("append", j)]
  /\ guard' = s
  /\ UNCHANGED <<file, tip, writer, todo, acked, failed, process>>

\* run_pending reads the pending jobs once, and then runs them one by one.
RunPending ==
  /\ up /\ AtStep(Runner, "idle") /\ Decodes
  /\ Pending # {}
  /\ todo' = Pending
  /\ actor' = [actor EXCEPT ![Runner] = Busy("run", file[First(Pending)].payload.job)]
  /\ UNCHANGED <<file, tip, locks, acked, failed, process>>

\* execute_spec: the job runs, well or badly, and leaves a completion to log.
Execute ==
  /\ AtStep(Runner, "run")
  /\ actor' = [actor EXCEPT ![Runner].pc = "append"]
  /\ UNCHANGED <<file, tip, locks, todo, acked, failed, process>>

(***************************************************************************)
(* JobLog::append, by a submitter or by the runner (complete).             *)
(***************************************************************************)
BeginAppend(a) ==
  /\ AtStep(a, "append") /\ writer = Nobody
  /\ writer' = a
  /\ file' = Append(file, Torn)
  /\ actor' = [actor EXCEPT ![a].pc = "write"]
  /\ UNCHANGED <<tip, guard, todo, acked, failed, process>>

WriteFrame(a) ==
  /\ AtStep(a, "write")
  /\ file' = [file EXCEPT ![Len(file)] =
                [hash |-> Append(tip, PayloadOf(a)), payload |-> PayloadOf(a)]]
  /\ actor' = [actor EXCEPT ![a].pc = "sync"]
  /\ UNCHANGED <<tip, locks, todo, acked, failed, process>>

\* The call is over: a submitter drops its guard.
Release(a) == writer' = (IF writer = a THEN Nobody ELSE writer) /\ guard' = (IF guard = a THEN Nobody ELSE guard)

\* After a logged completion the runner goes to its next job.
NextCall(a) ==
  LET rest == todo \ {First(todo)}
  IN IF a = Runner /\ rest # {}
     THEN actor' = [actor EXCEPT ![a] = Busy("run", file[First(rest)].payload.job)] /\ todo' = rest
     ELSE actor' = [actor EXCEPT ![a] = Idle] /\ todo' = IF a = Runner THEN {} ELSE todo

SyncAndReturn(a) ==
  /\ AtStep(a, "sync")
  /\ tip' = file[Len(file)].hash
  /\ acked' = (IF failed THEN acked ELSE Append(acked, file[Len(file)]))
  /\ Release(a) /\ NextCall(a)
  /\ UNCHANGED <<file, failed, process>>

\* The write or the sync fails.  The error ends the submit, or the run; the
\* tip stays where it was, and what was written stays on file.
AppendFailsAnswered(a) ==   \* bug: a failed append is reported as done
  /\ \/ AtStep(a, "append") /\ writer = Nobody /\ UNCHANGED failed
     \/ (AtStep(a, "write") \/ AtStep(a, "sync")) /\ failed' = TRUE
  /\ acked' = IF file = << >> THEN acked ELSE Append(acked, file[Len(file)])
  /\ Release(a)
  /\ actor' = [actor EXCEPT ![a] = Idle]
  /\ todo' = IF a = Runner THEN {} ELSE todo
  /\ UNCHANGED <<file, tip, process>>

AppendFails(a) ==
  /\ \/ AtStep(a, "append") /\ writer = Nobody /\ UNCHANGED failed
     \/ (AtStep(a, "write") \/ AtStep(a, "sync")) /\ failed' = TRUE
  /\ Release(a)
  /\ actor' = [actor EXCEPT ![a] = Idle]
  /\ todo' = IF a = Runner THEN {} ELSE todo
  /\ UNCHANGED <<file, tip, acked, process>>

Kill ==
  /\ up /\ up' = FALSE
  /\ tip' = << >> /\ guard' = Nobody /\ writer' = Nobody
  /\ actor' = [a \in Actors |-> Idle] /\ todo' = {}
  /\ UNCHANGED <<file, acked, failed, lives>>

\* Nobody calls; every call that was begun goes on.
Quiet == (\A a \in Actors : AtStep(a, "idle")) /\ UNCHANGED vars

Next ==
  \/ Open \/ OpenUnread \/ RunPending \/ Execute \/ Kill \/ Quiet
  \/ \E s \in Submitters : Submit(s)
  \/ \E a \in Actors : BeginAppend(a) \/ WriteFrame(a) \/ SyncAndReturn(a) \/ AppendFails(a)

Spec == Init /\ [][Next]_vars
-----------------------------------------------------------------------------
(* Properties.                                                             *)

TypeOK ==
  /\ file \in Seq(Frame \cup {Torn}) /\ tip \in Seq(Payload \cup {Garbage})
  /\ guard \in Submitters \cup {Nobody} /\ writer \in Actors \cup {Nobody}
  /\ actor \in [Actors -> {Idle} \cup [pc : {"run", "append", "write", "sync"}, job : Jobs]]
  /\ \A s \in Submitters : ~AtStep(s, "run")
  /\ todo \subseteq DOMAIN file /\ acked \in Seq(Frame) /\ failed \in BOOLEAN
  /\ up \in BOOLEAN /\ lives \in Nat

\* A job id is submitted at most once, whoever races to submit it, and
\* whatever was torn off, failed or half written before (queue.rs, submit).
SubmittedOnce ==
  \A i, j \in DOMAIN file :
    /\ file[i] # Torn /\ file[j] # Torn
    /\ file[i].payload # Garbage /\ file[i].payload = file[j].payload
    /\ file[i].payload.event = "submitted"
    => i = j

\* The runner never runs a job whose completion is on file: not after a
\* restart, and not after the append of that completion reported an error.
DoneNotRerun == AtStep(Runner, "run") => ~OnFile("completed", actor[Runner].job)

\* What append returned Ok for before the first I/O failure is never lost:
\* opening cuts off only what nobody was told of (log.rs, crash recovery).
AckedSurvives ==
  \A k \in DOMAIN acked : \E i \in DOMAIN file : file[i] = acked[k]

\* And whenever no append is under way in a running process the log can be
\* read: a kill never leaves a queue that refuses every call.
QuietReadable == ~failed /\ up /\ writer = Nobody => Decodes
=============================================================================
