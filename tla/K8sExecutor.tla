---------------------------- MODULE K8sExecutor ----------------------------
(***************************************************************************)
(* One run of the Kubernetes job executor against a cluster:               *)
(* K8sJobExecutor::run, drive, poll_until_decided and RunGuard             *)
(* (crates/av-jobs/src/k8s/mod.rs) with the judgement of Job and pods      *)
(* (k8s/status.rs).  Every API call is a step: the Job is read before its  *)
(* pods, and the cluster moves between the two reads.                      *)
(*                                                                         *)
(* The cluster is external.  It is modelled from what the executor asks of *)
(* it (k8s/manifest.rs: one pod, backoffLimit 0, activeDeadlineSeconds,    *)
(* ttlSecondsAfterFinished; k8s/api.rs: the calls) and from what the       *)
(* executor guards against: a second pod, pods and Jobs deleted by others, *)
(* replies that are lost, a name that is taken.                            *)
(***************************************************************************)
EXTENDS Integers, Sequences, FiniteSets

CONSTANTS
  PollErrorBudget,  \* consecutive polls that may find the API unreachable
  MaxPods,          \* bound: pods the Job controller may start
  MaxMeddles        \* bound: deletions by others

ASSUME K8sAssumption ==
  PollErrorBudget \in Nat /\ MaxPods \in Nat \ {0} /\ MaxMeddles \in Nat

VARIABLES
  pc,        \* where the run is
  answer,    \* what the create call returned
  mayExist,  \* RunGuard::job_may_exist
  job,       \* the cluster's Job of the run's name
  pods,      \* every pod the Job ever had, in the order they were started
  post,      \* a create request the server still works on
  clock,     \* the Job's deadline, then the executor's own bound
  seen,      \* what the last poll read of the Job
  tracks,    \* the pods the polls have seen, as last seen (by their place in pods)
  errors,    \* consecutive polls that failed
  result,    \* RunReport::result
  overran,   \* whether the bound decided the result
  scratch,   \* whether the scratch directory is on disk
  problem,   \* whether the teardown met a problem
  cleanup,   \* RunReport::cleanup
  meddles    \* what is left of the bound

guard == <<mayExist, scratch, problem>>
poll == <<seen, tracks, errors>>
report == <<result, overran, cleanup>>
exec == <<pc, answer, guard, poll, report>>
cluster == <<job, pods, post, meddles>>
vars == <<exec, cluster, clock>>

NoJob == [st |-> "absent", owner |-> "none", cond |-> "none", count |-> 0]
FreshJob == [st |-> "live", owner |-> "ours", cond |-> "none", count |-> 0]
ForeignJob == [st |-> "live", owner |-> "others", cond |-> "none", count |-> 0]
FreshPod == [st |-> "pending", marked |-> FALSE, cut |-> FALSE, present |-> TRUE]

\* noStart: the pod failed and its container has no terminated state (the
\* kubelet refused it, or the network gate failed); stuck: a container waits
\* for a reason that does not go away by itself.
Terminated == {"exit0", "exitN", "killed", "startError"}
Terminal == Terminated \cup {"noStart"}
PodStates == {"pending", "stuck", "running"} \cup Terminal

\* The locals of poll_until_decided, before and after it.
Unread == [cond |-> "none", count |-> 0]
Idle == seen = Unread /\ tracks = << >> /\ errors = 0

Init ==
  /\ pc = "gate" /\ answer = "none" /\ mayExist = FALSE
  /\ job \in {NoJob, ForeignJob} /\ pods = << >> /\ post = "none"
  /\ clock = "early"
  /\ Idle
  /\ result = "none" /\ overran = FALSE
  /\ scratch = FALSE /\ problem = FALSE /\ cleanup = "ok"
  /\ meddles = MaxMeddles
-----------------------------------------------------------------------------
(* status.rs: the judgement of what the polls have seen.                    *)

\* The pod that is judged: with two of them there is nothing left to judge.
Track(ts) == ts[CHOOSE i \in DOMAIN ts : TRUE]

\* What the pod of a failed Job tells.
ClassifyFailedPod(t) ==
  IF t.marked \/ (t.gone /\ t.st \notin Terminated) THEN "podDeleted"
  ELSE IF t.st = "exit0" THEN "unexpected"
  ELSE IF t.st \in {"exitN", "killed"} THEN t.st
  ELSE "neverStarted"

AssessLastPod(j, ts) ==   \* bug: what became of an earlier pod is forgotten
  IF j.cond = "complete" THEN "ok"
  ELSE IF j.cond = "deadline" THEN "deadline"
  ELSE IF j.cond = "failed" /\ ts # << >> THEN ClassifyFailedPod(Track(ts))
  ELSE "undecided"

\* assess, in the order of its checks.
Assess(j, ts) ==
  LET none == DOMAIN ts = {}
      present == ~none /\ ~Track(ts).gone
  IN IF Cardinality(DOMAIN ts) > 1 \/ j.count > 1 THEN "retried"
     ELSE IF j.cond = "complete"
       THEN IF ~none /\ Track(ts).st \in Terminated \ {"exit0"} THEN "unexpected" ELSE "ok"
     ELSE IF present /\ Track(ts).st = "stuck" THEN "neverStarted"
     ELSE IF present /\ Track(ts).st = "noStart" THEN ClassifyFailedPod(Track(ts))
     ELSE IF j.cond = "deadline" THEN "deadline"
     ELSE IF j.cond = "failed" THEN IF none THEN "unexpected" ELSE ClassifyFailedPod(Track(ts))
     ELSE "undecided"

AssessAtBound(ts) ==
  IF DOMAIN ts # {} /\ Track(ts).st \in Terminated \ {"exit0"}
  THEN ClassifyFailedPod(Track(ts)) ELSE "deadline"
-----------------------------------------------------------------------------
(* The run, up to the create call.                                          *)
At(p) == pc = p
Fail(r) == result' = r /\ pc' = "teardown"
Leave == seen' = Unread /\ tracks' = << >> /\ errors' = 0

\* The image gate refuses before there is anything to tear down.
ImageGate ==
  /\ At("gate")
  /\ \/ pc' = "scratch" /\ UNCHANGED result
     \/ pc' = "done" /\ result' = "imageGate"
  /\ UNCHANGED <<answer, guard, poll, overran, cleanup, cluster, clock>>

\* The directory is made and the inputs are written; from here on the guard
\* must try to delete the Job.
PrepareScratch ==
  /\ At("scratch")
  /\ \/ scratch' = TRUE /\ mayExist' = TRUE /\ pc' = "create" /\ UNCHANGED result
     \/ scratch' \in BOOLEAN /\ Fail("scratch") /\ UNCHANGED mayExist
  /\ UNCHANGED <<answer, problem, poll, overran, cleanup, cluster, clock>>

\* The create request takes effect, if the name is free.
Lands == job.st = "absent" /\ job' = FreshJob
Created ==
  /\ At("create") /\ Lands
  /\ \/ answer' = "created" /\ pc' = "getJob" /\ UNCHANGED result
     \/ answer' = "badReply" /\ Fail("apiBadReply")
  /\ UNCHANGED <<guard, poll, overran, cleanup, pods, post, meddles, clock>>

RefusedKeepsGuard ==   \* bug: the Job under the taken name is deleted
  /\ At("create") /\ answer' = "refused" /\ Fail("apiRefused")
  /\ UNCHANGED <<guard, poll, overran, cleanup, cluster, clock>>

\* Refused: 409 for a name that is taken, 403, 422, ...
CreateRefused ==
  /\ At("create") /\ answer' = "refused" /\ Fail("apiRefused")
  /\ mayExist' = FALSE
  /\ UNCHANGED <<scratch, problem, poll, overran, cleanup, cluster, clock>>

\* The request has taken effect, or will, or never does.
Unsettled ==
  \/ Lands /\ UNCHANGED post
  \/ post' = "late" /\ UNCHANGED job
  \/ UNCHANGED <<job, post>>

\* A 5xx answer is a refusal to the client, whatever became of the request.
CreateServerError ==
  /\ At("create") /\ answer' = "serverError" /\ Fail("apiRefused")
  /\ mayExist' = FALSE /\ Unsettled
  /\ UNCHANGED <<scratch, problem, poll, overran, cleanup, pods, meddles, clock>>

LostMeansNotCreated ==   \* bug: a lost reply is taken for a refusal
  /\ At("create") /\ answer' = "lost" /\ Fail("apiUnreachable")
  /\ mayExist' = FALSE /\ Unsettled
  /\ UNCHANGED <<scratch, problem, poll, overran, cleanup, pods, meddles, clock>>

CreateLost ==
  /\ At("create") /\ answer' = "lost" /\ Fail("apiUnreachable")
  /\ Unsettled
  /\ UNCHANGED <<guard, poll, overran, cleanup, pods, meddles, clock>>
-----------------------------------------------------------------------------
(* The poll: the Job first, then its pods.  apiRefused stands for a reply    *)
(* that cannot be used, too.                                                *)

\* Nothing is decided yet: once more, unless the executor's bound has passed.
Poll(ts, n) ==
  IF clock = "bound"
  THEN overran' = TRUE /\ Fail(AssessAtBound(ts)) /\ Leave
  ELSE pc' = "getJob" /\ seen' = Unread /\ tracks' = ts /\ errors' = n /\ UNCHANGED <<result, overran>>

GetJob ==
  /\ At("getJob")
  /\ \/ /\ job.st # "absent" /\ pc' = "listPods"
        /\ seen' = [cond |-> job.cond, count |-> job.count]
        /\ UNCHANGED <<tracks, errors, result>>
     \/ job.st = "absent" /\ Fail("jobDeleted") /\ Leave
     \/ Fail("apiRefused") /\ Leave
  /\ UNCHANGED <<answer, guard, overran, cleanup, cluster, clock>>

\* What a pod looks like to list_pods, and what the polls know of it then.
Listed == {i \in DOMAIN pods : pods[i].present}
AfterListing ==
  [i \in DOMAIN tracks \cup Listed |->
     IF i \in Listed THEN [st |-> pods[i].st, marked |-> pods[i].marked, gone |-> FALSE]
                     ELSE [tracks[i] EXCEPT !.gone = TRUE]]
ListPods ==
  /\ At("listPods")
  /\ LET verdict == Assess(seen, AfterListing)
     IN \/ verdict = "undecided" /\ Poll(AfterListing, 0)
        \/ verdict = "ok" /\ pc' = "outputs" /\ Leave /\ UNCHANGED <<result, overran>>
        \/ verdict \notin {"undecided", "ok"} /\ Fail(verdict) /\ Leave /\ UNCHANGED overran
        \/ Fail("apiRefused") /\ Leave /\ UNCHANGED overran
  /\ UNCHANGED <<answer, guard, cleanup, cluster, clock>>

PollFailsPatiently ==   \* bug: no budget for polls that fail
  /\ At("getJob") \/ At("listPods")
  /\ Poll(tracks, errors + 1)
  /\ UNCHANGED <<answer, guard, cleanup, cluster, clock>>

\* Either call may find the API unreachable.
PollFails ==
  /\ At("getJob") \/ At("listPods")
  /\ IF errors + 1 > PollErrorBudget
     THEN Fail("apiUnreachable") /\ Leave /\ UNCHANGED overran
     ELSE Poll(tracks, errors + 1)
  /\ UNCHANGED <<answer, guard, cleanup, cluster, clock>>

ReadOutputs ==
  /\ At("outputs")
  /\ \E r \in {"ok", "output"} : Fail(r)
  /\ UNCHANGED <<answer, guard, poll, overran, cleanup, cluster, clock>>
-----------------------------------------------------------------------------
(* RunGuard: the teardown on every path, and the backstop in drop.          *)
Deleting == job.st # "absent" /\ job' = [job EXCEPT !.st = "deleting"]

DeleteJob ==
  /\ At("teardown")
  /\ \/ ~mayExist /\ pc' = "rmdir" /\ UNCHANGED <<job, problem>>
     \/ /\ mayExist /\ pc' = "waitGone" /\ UNCHANGED problem
        /\ Deleting \/ (job.st = "absent" /\ UNCHANGED job)
     \/ /\ mayExist /\ pc' = "waitGone" /\ problem' = TRUE
        /\ Deleting \/ UNCHANGED job
  /\ UNCHANGED <<answer, mayExist, scratch, poll, report, pods, post, meddles, clock>>

\* Present, the Job is asked for again until patience ends; a failing call ends
\* the wait at once.
WaitGone ==
  /\ At("waitGone") /\ pc' = "rmdir"
  /\ \/ job.st = "absent" /\ UNCHANGED problem
     \/ problem' = TRUE
  /\ mayExist' = problem'
  /\ UNCHANGED <<answer, scratch, poll, report, cluster, clock>>

RemoveScratch ==
  /\ At("rmdir") /\ pc' = "drop"
  /\ \/ scratch' = FALSE /\ UNCHANGED problem
     \/ scratch /\ UNCHANGED scratch /\ problem' = TRUE
  /\ cleanup' = IF problem' THEN "problem" ELSE "ok"
  /\ UNCHANGED <<answer, mayExist, poll, result, overran, cluster, clock>>

Drop ==
  /\ At("drop") /\ pc' = "done"
  /\ (mayExist /\ Deleting) \/ UNCHANGED job
  /\ scratch' \in {scratch, FALSE}
  /\ UNCHANGED <<answer, mayExist, problem, poll, report, pods, post, meddles, clock>>

\* The process may die anywhere: neither teardown nor drop runs.
Die ==
  /\ ~At("done") /\ ~At("dead") /\ pc' = "dead"
  /\ Leave /\ mayExist' = FALSE /\ problem' = FALSE
  /\ UNCHANGED <<answer, scratch, report, cluster, clock>>
-----------------------------------------------------------------------------
(* The cluster (external).                                                  *)
Managed == job.owner = "ours" /\ job.st = "live" /\ job.cond = "none"
Dead(p) == p.st \in Terminal
Marked(ps) == [i \in DOMAIN ps |-> IF Dead(ps[i]) THEN ps[i] ELSE [ps[i] EXCEPT !.marked = TRUE]]

\* The Job controller starts a pod.  The manifest asks for one; the executor
\* does not rely on it, so here a failed one may be replaced.
StartPod ==
  /\ Managed /\ Len(pods) < MaxPods
  /\ \A i \in DOMAIN pods : Dead(pods[i]) /\ pods[i].st # "exit0"
  /\ pods' = Append(pods, FreshPod)
  /\ UNCHANGED <<exec, job, post, meddles, clock>>

\* It counts its pods after a while, and at the latest when it is finished.
CountPods ==
  /\ Managed /\ job.count # Len(pods)
  /\ job' = [job EXCEPT !.count = Len(pods)]
  /\ UNCHANGED <<exec, pods, post, meddles, clock>>
FinishJob ==
  /\ Managed /\ pods # << >> /\ \A i \in DOMAIN pods : Dead(pods[i])
  /\ job' = [job EXCEPT !.count = Len(pods),
                        !.cond = IF pods[Len(pods)].st = "exit0" THEN "complete" ELSE "failed"]
  /\ UNCHANGED <<exec, pods, post, meddles, clock>>

\* activeDeadlineSeconds: the Job is to fail, and its pod is deleted for it.
Deadline ==
  /\ Managed /\ clock # "early"
  /\ job' = [job EXCEPT !.cond = "deadline"] /\ pods' = Marked(pods)
  /\ UNCHANGED <<exec, post, meddles, clock>>

\* ttlSecondsAfterFinished.
NoTtl == FALSE /\ UNCHANGED vars   \* bug: the manifest sets no ttl
Ttl ==
  /\ job.owner = "ours" /\ job.st = "live" /\ job.cond # "none"
  /\ \A i \in DOMAIN pods : Dead(pods[i])
  /\ job' = [job EXCEPT !.st = "deleting"]
  /\ UNCHANGED <<exec, pods, post, meddles, clock>>

\* One container: it starts or cannot, runs, and ends by itself or is killed.
\* cut: it ended under a deletion.
Step(p) ==
  CASE p.st = "pending" -> {"running", "stuck", "startError", "noStart"}
    [] p.st = "stuck" -> {"running", "noStart"}
    [] p.st = "running" -> {"exit0", "exitN", "killed"}
    [] OTHER -> {}
PodMoves(i) ==
  /\ \E st \in Step(pods[i]) :
       /\ pods[i].marked => st \in Terminal
       /\ pods' = [pods EXCEPT ![i].st = st, ![i].cut = pods[i].marked]
  /\ UNCHANGED <<exec, job, post, meddles, clock>>
KubeletRuns == \E i \in DOMAIN pods : ~pods[i].marked /\ PodMoves(i)
KubeletEnds == \E i \in DOMAIN pods : pods[i].marked /\ PodMoves(i)

\* A deleted pod goes away when it has ended and the Job has counted it; the
\* Job that is deleted, when its pods are gone (Foreground).
PodGoes ==
  /\ \E i \in DOMAIN pods :
       /\ pods[i].present /\ pods[i].marked /\ Dead(pods[i])
       /\ job.count >= i \/ job.st = "deleting"
       /\ pods' = [pods EXCEPT ![i].present = FALSE]
  /\ UNCHANGED <<exec, job, post, meddles, clock>>
DeletePods ==
  /\ job.st = "deleting" /\ job.owner = "ours"
  /\ \E i \in DOMAIN pods : pods[i].present /\ ~pods[i].marked
  /\ pods' = [i \in DOMAIN pods |-> [pods[i] EXCEPT !.marked = TRUE]]
  /\ UNCHANGED <<exec, job, post, meddles, clock>>
JobGoes ==
  /\ job.st = "deleting" /\ \A i \in DOMAIN pods : ~pods[i].present
  /\ job' = NoJob
  /\ UNCHANGED <<exec, pods, post, meddles, clock>>

\* A create request the client has given up on: it takes effect or is dropped.
LatePost ==
  /\ post = "late"
  /\ \/ Lands /\ post' = "landed"
     \/ UNCHANGED job /\ post' = "none"
  /\ UNCHANGED <<exec, pods, meddles, clock>>

\* Others delete the pod or the Job.
Meddle ==
  /\ meddles > 0 /\ meddles' = meddles - 1
  /\ \/ /\ \E i \in DOMAIN pods :
             pods[i].present /\ ~pods[i].marked /\ pods' = [pods EXCEPT ![i].marked = TRUE]
        /\ UNCHANGED job
     \/ job.st = "live" /\ job.owner = "ours" /\ Deleting /\ UNCHANGED pods
  /\ UNCHANGED <<exec, post, clock>>

Tick ==
  /\ clock # "bound" /\ job.owner # "none"
  /\ clock' = IF clock = "early" THEN "deadline" ELSE "bound"
  /\ UNCHANGED <<exec, cluster>>
-----------------------------------------------------------------------------
Run ==
  \/ ImageGate \/ PrepareScratch
  \/ Created \/ CreateRefused \/ CreateServerError \/ CreateLost
  \/ GetJob \/ ListPods \/ PollFails \/ ReadOutputs
  \/ DeleteJob \/ WaitGone \/ RemoveScratch \/ Drop \/ Die
Controllers == CountPods \/ FinishJob \/ Deadline \/ Ttl \/ DeletePods \/ PodGoes \/ JobGoes
Next == Run \/ Controllers \/ StartPod \/ KubeletRuns \/ KubeletEnds \/ LatePost \/ Meddle \/ Tick

Spec == Init /\ [][Next]_vars

\* The cluster keeps its word on deadlines, deletions and the ttl; nothing is
\* asked of the run, which may die, nor of a container, which may never end.
FairSpec ==
  /\ Spec
  /\ WF_vars(FinishJob) /\ WF_vars(Deadline) /\ WF_vars(Ttl)
  /\ WF_vars(DeletePods) /\ WF_vars(PodGoes) /\ WF_vars(JobGoes)
  /\ WF_vars(KubeletEnds) /\ WF_vars(LatePost) /\ WF_vars(Tick)
-----------------------------------------------------------------------------
Results == {"none", "imageGate", "scratch", "apiUnreachable", "apiRefused", "apiBadReply",
            "exitN", "killed", "podDeleted", "jobDeleted", "deadline", "neverStarted",
            "retried", "unexpected", "output", "ok"}
Conds == {"none", "complete", "failed", "deadline"}
JobType == [st : {"absent", "live", "deleting"}, owner : {"none", "ours", "others"},
            cond : Conds, count : 0..MaxPods]

\* Every variable keeps its type.
TypeOK ==
  /\ pc \in {"gate", "scratch", "create", "getJob", "listPods", "outputs",
             "teardown", "waitGone", "rmdir", "drop", "done", "dead"}
  /\ answer \in {"none", "created", "badReply", "refused", "serverError", "lost"}
  /\ job \in JobType /\ seen \in [cond : Conds, count : 0..MaxPods]
  /\ pods \in Seq([st : PodStates, marked : BOOLEAN, cut : BOOLEAN, present : BOOLEAN])
  /\ Len(pods) <= MaxPods
  /\ DOMAIN tracks \subseteq DOMAIN pods
  /\ \A i \in DOMAIN tracks : tracks[i] \in [st : PodStates, marked : BOOLEAN, gone : BOOLEAN]
  /\ post \in {"none", "late", "landed"} /\ clock \in {"early", "deadline", "bound"}
  /\ errors \in 0..PollErrorBudget /\ result \in Results /\ cleanup \in {"ok", "problem"}
  /\ {mayExist, scratch, problem, overran} \subseteq BOOLEAN /\ meddles \in 0..MaxMeddles

\* The report tells what happened.  Outputs are handed on only of a workload
\* that ran once and succeeded; a non-zero exit or a kill is one that no
\* deletion brought about (neither the deadline's nor anybody's); and unless
\* the executor's own bound cut the wait short, it was the only attempt
\* (k8s/mod.rs: never silently retried, with the Job, its pods, their deletion
\* and the deadline all moving between the two reads of a poll).
OutcomeTrue ==
  /\ result = "ok" => Len(pods) = 1 /\ pods[1].st = "exit0"
  /\ result \in {"exitN", "killed"} =>
       /\ \E i \in DOMAIN pods : pods[i].st = result /\ ~pods[i].cut
       /\ ~overran => Len(pods) = 1
  /\ result = "podDeleted" => \E i \in DOMAIN pods : pods[i].marked
  /\ result = "deadline" => clock # "early"

\* When the report says that the cleanup went well, the Job and its pods are
\* gone and stay away, whatever of the teardown's calls failed or whoever
\* deleted first (mod.rs: removed on every path).  Excused is a create request
\* that took effect behind the client's back: after it had given up, or
\* although the answer was a server error (README, known divergences).
Excused == answer = "serverError" \/ post = "landed"
GoneWhenClean ==
  At("done") /\ cleanup = "ok" /\ ~Excused =>
    /\ job.owner # "ours" /\ ~scratch
    /\ \A i \in DOMAIN pods : ~pods[i].present

\* The Job of somebody else under the run's name is never deleted, neither by
\* the teardown nor by drop, unless the reply that would have said so was lost
\* (mod.rs: a 409's name is somebody else's).
ForeignJobKept ==
  [][job.owner = "others" /\ job' # job => answer = "lost"]_vars

\* No Job of the run stays on the cluster for ever, even when the executor dies
\* or loses track of it: the manifest's deadline and ttl end it.
JobsGoAway == <>[](job.owner # "ours")
=============================================================================
