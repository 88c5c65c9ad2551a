-------------------------- MODULE K8sExecutorProofs --------------------------
(***************************************************************************)
(* What a run of the Kubernetes executor reports, for any number of pods,  *)
(* deletions by others and any budget of poll errors: the report tells     *)
(* what happened, a clean cleanup leaves nothing, and the Job of somebody  *)
(* else is left alone.                                                     *)
(***************************************************************************)
EXTENDS K8sExecutor, TLAPS

\* What the run knows where it stands: the answer of the create call, that the
\* guard must delete the Job, and that nothing is decided before the teardown.
Flow ==
  /\ pc \in {"gate", "scratch", "create"} => answer = "none"
  /\ pc \in {"getJob", "listPods", "outputs"} => answer = "created"
  /\ pc \in {"create", "getJob", "listPods", "outputs", "waitGone"} => mayExist
  /\ mayExist => pc = "create" \/ answer \in {"created", "badReply", "lost"}
  /\ pc = "teardown" /\ ~mayExist => answer \in {"none", "refused", "serverError"}
  /\ pc \notin {"waitGone", "rmdir", "drop", "done"} => ~problem
  /\ pc \in {"gate", "scratch"} => ~scratch
  /\ pc \notin {"teardown", "waitGone", "rmdir", "drop", "done", "dead"} => result = "none"

\* What the answer of the create call tells of the cluster.
AnswerTrue ==
  /\ answer \in {"none", "refused"} => job.owner # "ours" /\ pods = << >>
  /\ answer \in {"none", "refused", "created", "badReply"} => post = "none"
  /\ job.owner = "others" =>
       answer \notin {"created", "badReply"} /\ (job.st = "deleting" => answer = "lost")

\* The cluster: what the Job says of its pods, and how pods go away.
JobTrue ==
  /\ job.st = "absent" => job = NoJob
  /\ job.owner # "ours" => \A i \in DOMAIN pods : ~pods[i].present
  /\ job.cond \in {"complete", "failed"} => pods # << >> /\ job.count = Len(pods)
  /\ job.cond = "complete" => pods[Len(pods)].st = "exit0"
  /\ job.cond = "deadline" => clock # "early"
PodsTrue ==
  \A i \in DOMAIN pods : pods[i].cut \/ ~pods[i].present => pods[i].marked

\* What the polls remember stays true of the pods, however they move on.
TracksTrue ==
  \A i \in DOMAIN tracks :
    /\ tracks[i].st \in Terminal =>
         pods[i].st = tracks[i].st /\ (pods[i].cut => tracks[i].marked)
    /\ tracks[i].marked => pods[i].marked
    /\ tracks[i].gone => ~pods[i].present

\* So does what was read of a Job that has finished: it starts no more pods.
ReadTrue ==
  pc = "listPods" =>
    /\ seen.cond \in {"complete", "failed"} =>
         pods # << >> /\ seen.count = Len(pods) /\ ~Managed
    /\ seen.cond = "complete" => pods[Len(pods)].st = "exit0"
    /\ seen.cond = "deadline" => clock # "early"

\* OutcomeTrue, with what keeps it true after the verdict.
Succeeded == Len(pods) = 1 /\ pods[1].st = "exit0"
Ended(r) == \E i \in DOMAIN pods : pods[i].st = r /\ Dead(pods[i]) /\ ~pods[i].cut
ResultTrue ==
  /\ pc = "outputs" \/ result = "ok" => Succeeded
  /\ result \in {"exitN", "killed"} =>
       Ended(result) /\ answer = "created" /\ (~overran => Len(pods) = 1 /\ ~Managed)
  /\ result = "podDeleted" => \E i \in DOMAIN pods : pods[i].marked
  /\ result = "deadline" => clock # "early"

\* GoneWhenClean, from the moment the teardown has seen that the Job is gone.
GoneTrue ==
  /\ pc \in {"rmdir", "drop", "done"} /\ ~problem /\ ~Excused => job.owner # "ours"
  /\ pc \in {"drop", "done"} /\ cleanup = "ok" => ~problem /\ ~scratch

IInv ==
  /\ TypeOK /\ Flow /\ AnswerTrue /\ JobTrue /\ PodsTrue
  /\ TracksTrue /\ ReadTrue /\ ResultTrue /\ GoneTrue
-----------------------------------------------------------------------------
(* Operators.                                                              *)

LEMMA TrackIn ==
  ASSUME NEW ts, DOMAIN ts # {}
  PROVE  \E i \in DOMAIN ts : Track(ts) = ts[i]
BY DEF Track

\* What the verdict on a failed pod rests on.
LEMMA Classified ==
  ASSUME NEW t
  PROVE  /\ ClassifyFailedPod(t) \in {"podDeleted", "unexpected", "exitN", "killed", "neverStarted"}
         /\ ClassifyFailedPod(t) \in {"exitN", "killed"} => t.st = ClassifyFailedPod(t) /\ ~t.marked
         /\ ClassifyFailedPod(t) = "podDeleted" => t.marked \/ t.gone
BY DEF ClassifyFailedPod

\* What a verdict of assess rests on.
LEMMA Assessed ==
  ASSUME NEW j, NEW ts
  PROVE  LET v == Assess(j, ts)
         IN /\ v \in {"retried", "unexpected", "ok", "neverStarted", "podDeleted", "exitN",
                      "killed", "deadline", "undecided"}
            /\ v = "ok" => j.cond = "complete" /\ ~(j.count > 1)
            /\ v \in {"exitN", "killed"} =>
                 /\ j.cond = "failed" /\ ~(j.count > 1)
                 /\ DOMAIN ts # {} /\ Track(ts).st = v /\ ~Track(ts).marked
            /\ v = "podDeleted" => DOMAIN ts # {} /\ (Track(ts).marked \/ Track(ts).gone)
            /\ v = "deadline" => j.cond = "deadline"
<1>. DEFINE t == Track(ts)
<1>1. t.st = "noStart" => ClassifyFailedPod(t) \in {"podDeleted", "neverStarted"}
  BY DEF ClassifyFailedPod
<1>. QED BY <1>1, Classified DEF Assess

LEMMA AssessedAtBound ==
  ASSUME NEW ts
  PROVE  LET v == AssessAtBound(ts)
         IN /\ v \in {"podDeleted", "unexpected", "exitN", "killed", "neverStarted", "deadline"}
            /\ v \in {"exitN", "killed"} => DOMAIN ts # {} /\ Track(ts).st = v /\ ~Track(ts).marked
            /\ v = "podDeleted" => DOMAIN ts # {} /\ (Track(ts).marked \/ Track(ts).gone)
BY Classified DEF AssessAtBound
-----------------------------------------------------------------------------
(* Types.                                                                  *)
PodType == [st : PodStates, marked : BOOLEAN, cut : BOOLEAN, present : BOOLEAN]
TrackType == [st : PodStates, marked : BOOLEAN, gone : BOOLEAN]

RunTypes ==
  /\ pc \in {"gate", "scratch", "create", "getJob", "listPods", "outputs",
             "teardown", "waitGone", "rmdir", "drop", "done", "dead"}
  /\ answer \in {"none", "created", "badReply", "refused", "serverError", "lost"}
  /\ seen \in [cond : Conds, count : 0..MaxPods] /\ errors \in 0..PollErrorBudget
  /\ result \in Results /\ cleanup \in {"ok", "problem"}
  /\ mayExist \in BOOLEAN /\ scratch \in BOOLEAN /\ problem \in BOOLEAN /\ overran \in BOOLEAN
TrackTypes ==
  /\ DOMAIN tracks \subseteq DOMAIN pods
  /\ \A i \in DOMAIN tracks : tracks[i] \in TrackType
ClusterTypes ==
  /\ job \in JobType
  /\ pods \in Seq(PodType) /\ Len(pods) <= MaxPods
  /\ post \in {"none", "late", "landed"} /\ clock \in {"early", "deadline", "bound"}
  /\ meddles \in 0..MaxMeddles

LEMMA TypesInParts == TypeOK <=> RunTypes /\ TrackTypes /\ ClusterTypes
BY DEF TypeOK, RunTypes, TrackTypes, ClusterTypes, PodType, TrackType

\* A poll's new tracks are what the cluster has, or what was known before.
LEMMA Listing ==
  ASSUME TypeOK
  PROVE  /\ DOMAIN AfterListing \subseteq DOMAIN pods
         /\ \A i \in DOMAIN AfterListing :
              /\ AfterListing[i] \in TrackType
              /\ \/ /\ pods[i].present /\ AfterListing[i].gone = FALSE
                    /\ AfterListing[i].st = pods[i].st /\ AfterListing[i].marked = pods[i].marked
                 \/ /\ ~pods[i].present /\ i \in DOMAIN tracks /\ AfterListing[i].gone = TRUE
                    /\ AfterListing[i].st = tracks[i].st /\ AfterListing[i].marked = tracks[i].marked
<1>1. TrackTypes /\ ClusterTypes
  BY TypesInParts
<1>2. Listed \subseteq DOMAIN pods
  BY DEF Listed
<1>3. DOMAIN AfterListing = DOMAIN tracks \cup Listed
  BY DEF AfterListing
<1>4. ASSUME NEW i \in Listed
      PROVE  AfterListing[i] = [st |-> pods[i].st, marked |-> pods[i].marked, gone |-> FALSE]
  BY <1>4 DEF AfterListing
<1>5. ASSUME NEW i \in DOMAIN tracks, i \notin Listed
      PROVE  AfterListing[i] = [tracks[i] EXCEPT !.gone = TRUE]
  BY <1>5 DEF AfterListing
<1>6. \A i \in DOMAIN pods : pods[i] \in PodType
  BY <1>1 DEF ClusterTypes
<1>7. ASSUME NEW i \in Listed
      PROVE  /\ AfterListing[i] \in TrackType
             /\ pods[i].present /\ AfterListing[i].gone = FALSE
             /\ AfterListing[i].st = pods[i].st /\ AfterListing[i].marked = pods[i].marked
  <2>1. i \in DOMAIN pods /\ pods[i].present /\ pods[i] \in PodType
    BY <1>6, <1>7 DEF Listed
  <2>2. pods[i].st \in PodStates /\ pods[i].marked \in BOOLEAN
    BY <2>1 DEF PodType
  <2>3. AfterListing[i] = [st |-> pods[i].st, marked |-> pods[i].marked, gone |-> FALSE]
    BY <1>4, <1>7
  <2>4. AfterListing[i] \in TrackType
    BY <2>2, <2>3 DEF TrackType
  <2>5. AfterListing[i].gone = FALSE /\ AfterListing[i].st = pods[i].st
    BY <2>3
  <2>6. AfterListing[i].marked = pods[i].marked
    BY <2>3
  <2>. QED BY <2>1, <2>4, <2>5, <2>6
<1>8. ASSUME NEW i \in DOMAIN tracks, i \notin Listed
      PROVE  /\ AfterListing[i] \in TrackType
             /\ ~pods[i].present /\ AfterListing[i].gone = TRUE
             /\ AfterListing[i].st = tracks[i].st /\ AfterListing[i].marked = tracks[i].marked
  BY <1>1, <1>5, <1>8 DEF TrackTypes, TrackType, Listed
<1>. QED BY <1>1, <1>2, <1>3, <1>7, <1>8 DEF TrackTypes
-----------------------------------------------------------------------------
(* How the pods move on, whoever moves them.                               *)

\* What every step keeps: a container that has ended stays as it ended, a
\* deletion is not taken back, and a pod is only added under a Job that is
\* still to finish, when none of its pods has succeeded.
Evolves(q) ==
  /\ q \in Seq(PodType) /\ Len(q) <= MaxPods /\ Len(pods) <= Len(q)
  /\ \A i \in DOMAIN pods :
       /\ Dead(pods[i]) => Dead(q[i]) /\ q[i].st = pods[i].st /\ q[i].cut = pods[i].cut
       /\ pods[i].marked => q[i].marked
       /\ ~pods[i].present => ~q[i].present
  /\ \A i \in DOMAIN q : q[i].cut \/ ~q[i].present => q[i].marked
  /\ Len(q) # Len(pods) => Managed /\ \A i \in DOMAIN pods : pods[i].st # "exit0"

\* It suffices to look at one pod at a time.
LEMMA Pointwise ==
  ASSUME TypeOK, NEW q \in [DOMAIN pods -> PodType],
         \A i \in DOMAIN pods :
           /\ Dead(pods[i]) => q[i].st = pods[i].st /\ q[i].cut = pods[i].cut
           /\ pods[i].marked => q[i].marked
           /\ ~pods[i].present => ~q[i].present
           /\ q[i].cut \/ ~q[i].present => q[i].marked
  PROVE  Evolves(q)
<1>1. pods \in Seq(PodType) /\ Len(pods) <= MaxPods
  BY TypesInParts DEF ClusterTypes
<1>2. q \in Seq(PodType) /\ Len(q) = Len(pods) /\ DOMAIN q = DOMAIN pods
  BY <1>1
<1>. QED BY <1>1, <1>2 DEF Evolves, Dead

\* One pod changes.
LEMMA OnePod ==
  ASSUME TypeOK, PodsTrue, NEW k \in DOMAIN pods, NEW p \in PodType,
         Dead(pods[k]) => p.st = pods[k].st /\ p.cut = pods[k].cut,
         pods[k].marked => p.marked,
         ~pods[k].present => ~p.present,
         p.cut \/ ~p.present => p.marked
  PROVE  Evolves([pods EXCEPT ![k] = p])
<1>. DEFINE q == [pods EXCEPT ![k] = p]
<1>1. \A i \in DOMAIN pods : pods[i] \in PodType
  BY TypesInParts DEF ClusterTypes
<1>2. q \in [DOMAIN pods -> PodType] /\ q[k] = p /\ \A i \in DOMAIN pods \ {k} : q[i] = pods[i]
  BY <1>1
<1>. HIDE DEF q
<1>3. ASSUME NEW i \in DOMAIN pods
      PROVE  /\ Dead(pods[i]) => q[i].st = pods[i].st /\ q[i].cut = pods[i].cut
             /\ pods[i].marked => q[i].marked
             /\ ~pods[i].present => ~q[i].present
             /\ q[i].cut \/ ~q[i].present => q[i].marked
  <2>1. CASE i = k
    BY <1>2, <2>1
  <2>2. CASE i # k
    BY <1>2, <1>3, <2>2 DEF PodsTrue
  <2>. QED BY <2>1, <2>2
<1>4. Evolves(q)
  BY <1>2, <1>3, Pointwise
<1>. QED BY <1>4 DEF q

\* All pods are marked for deletion, or those that have not ended.
LEMMA MarkedEvolves ==
  ASSUME TypeOK, PodsTrue
  PROVE  Evolves(Marked(pods)) /\ Evolves([i \in DOMAIN pods |-> [pods[i] EXCEPT !.marked = TRUE]])
<1>1. \A i \in DOMAIN pods : pods[i] \in PodType
  BY TypesInParts DEF ClusterTypes
<1>2. ASSUME NEW p \in PodType
      PROVE  /\ [p EXCEPT !.marked = TRUE] \in PodType
             /\ [p EXCEPT !.marked = TRUE].st = p.st /\ [p EXCEPT !.marked = TRUE].cut = p.cut
             /\ [p EXCEPT !.marked = TRUE].present = p.present
             /\ [p EXCEPT !.marked = TRUE].marked
  BY <1>2 DEF PodType
<1>3. ASSUME NEW q \in [DOMAIN pods -> PodType],
             \A i \in DOMAIN pods : q[i] \in {pods[i], [pods[i] EXCEPT !.marked = TRUE]}
      PROVE  Evolves(q)
  <2>1. ASSUME NEW i \in DOMAIN pods
        PROVE  /\ Dead(pods[i]) => q[i].st = pods[i].st /\ q[i].cut = pods[i].cut
               /\ pods[i].marked => q[i].marked
               /\ ~pods[i].present => ~q[i].present
               /\ q[i].cut \/ ~q[i].present => q[i].marked
    <3>1. CASE q[i] = pods[i]
      BY <2>1, <3>1 DEF PodsTrue
    <3>2. CASE q[i] = [pods[i] EXCEPT !.marked = TRUE]
      <4>1. q[i].st = pods[i].st /\ q[i].cut = pods[i].cut /\ q[i].present = pods[i].present
              /\ q[i].marked
        BY <1>1, <1>2, <2>1, <3>2
      <4>. QED BY <4>1
    <3>. QED BY <1>3, <2>1, <3>1, <3>2
  <2>. QED BY <2>1, Pointwise
<1>4. Evolves([i \in DOMAIN pods |-> [pods[i] EXCEPT !.marked = TRUE]])
  BY <1>1, <1>2, <1>3
<1>5. Evolves(Marked(pods))
  BY <1>1, <1>2, <1>3 DEF Marked
<1>. QED BY <1>4, <1>5

\* The steps that move pods.
LEMMA NewPodEvolves ==
  ASSUME TypeOK, PodsTrue, StartPod
  PROVE  Evolves(pods') /\ Len(pods') = Len(pods) + 1
<1>1. pods \in Seq(PodType) /\ Len(pods) < MaxPods /\ MaxPods \in Nat
  BY TypesInParts, K8sAssumption DEF ClusterTypes, StartPod
<1>2. FreshPod \in PodType /\ ~FreshPod.cut /\ FreshPod.present
  BY DEF FreshPod, PodType, PodStates
<1>3. pods' = Append(pods, FreshPod)
  BY DEF StartPod
<1>4. /\ pods' \in Seq(PodType) /\ Len(pods') = Len(pods) + 1 /\ Len(pods) \in Nat
      /\ DOMAIN pods = 1..Len(pods) /\ DOMAIN pods' = 1..(Len(pods) + 1)
      /\ \A i \in 1..Len(pods) : pods'[i] = pods[i]
      /\ pods'[Len(pods) + 1] = FreshPod
  BY <1>1, <1>2, <1>3
<1>5. \A i \in DOMAIN pods' : pods'[i].cut \/ ~pods'[i].present => pods'[i].marked
  <2>1. ASSUME NEW i \in DOMAIN pods' PROVE i \in DOMAIN pods \/ i = Len(pods) + 1
    BY <1>4, <2>1
  <2>. QED BY <1>2, <1>4, <2>1 DEF PodsTrue
<1>6. Managed /\ \A i \in DOMAIN pods : pods[i].st # "exit0"
  BY DEF StartPod
<1>7. Len(pods') <= MaxPods /\ Len(pods) <= Len(pods')
  BY <1>1, <1>4
<1>8. \A i \in DOMAIN pods : pods'[i] = pods[i]
  BY <1>4
<1>. QED BY <1>4, <1>5, <1>6, <1>7, <1>8 DEF Evolves

LEMMA MoveEvolves ==
  ASSUME TypeOK, PodsTrue, NEW k \in DOMAIN pods, PodMoves(k)
  PROVE  Evolves(pods')
<1>1. pods[k] \in PodType
  BY TypesInParts DEF ClusterTypes
<1>2. PICK st \in Step(pods[k]) :
        pods' = [pods EXCEPT ![k].st = st, ![k].cut = pods[k].marked]
  BY DEF PodMoves
<1>3. st \in PodStates /\ ~Dead(pods[k])
  BY <1>2 DEF Step, Dead, PodStates, Terminal, Terminated
<1>. DEFINE p == [pods[k] EXCEPT !.st = st, !.cut = pods[k].marked]
<1>4. p \in PodType /\ p.marked = pods[k].marked /\ p.cut = pods[k].marked /\ p.present = pods[k].present
  BY <1>1, <1>3 DEF PodType
<1>5. pods' = [pods EXCEPT ![k] = p]
  BY <1>2, TypesInParts DEF ClusterTypes
<1>. HIDE DEF p
<1>6. Evolves([pods EXCEPT ![k] = p])
  BY <1>3, <1>4, OnePod DEF PodsTrue
<1>. QED BY <1>5, <1>6

LEMMA GoneEvolves ==
  ASSUME TypeOK, PodsTrue, PodGoes
  PROVE  Evolves(pods')
<1>1. PICK k \in DOMAIN pods : pods[k].marked /\ pods' = [pods EXCEPT ![k].present = FALSE]
  BY DEF PodGoes
<1>2. pods[k] \in PodType
  BY TypesInParts DEF ClusterTypes
<1>. DEFINE p == [pods[k] EXCEPT !.present = FALSE]
<1>3. p \in PodType /\ p.st = pods[k].st /\ p.cut = pods[k].cut /\ p.marked = pods[k].marked /\ ~p.present
  BY <1>2 DEF PodType
<1>4. pods' = [pods EXCEPT ![k] = p]
  BY <1>1, TypesInParts DEF ClusterTypes
<1>. HIDE DEF p
<1>5. Evolves([pods EXCEPT ![k] = p])
  BY <1>1, <1>3, OnePod
<1>. QED BY <1>4, <1>5

LEMMA MeddledEvolves ==
  ASSUME TypeOK, PodsTrue, NEW k \in DOMAIN pods, pods' = [pods EXCEPT ![k].marked = TRUE]
  PROVE  Evolves(pods')
<1>2. pods[k] \in PodType
  BY TypesInParts DEF ClusterTypes
<1>. DEFINE p == [pods[k] EXCEPT !.marked = TRUE]
<1>3. p \in PodType /\ p.st = pods[k].st /\ p.cut = pods[k].cut /\ p.present = pods[k].present /\ p.marked
  BY <1>2 DEF PodType
<1>4. pods' = [pods EXCEPT ![k] = p]
  BY TypesInParts DEF ClusterTypes
<1>. HIDE DEF p
<1>5. Evolves([pods EXCEPT ![k] = p])
  BY <1>3, OnePod
<1>. QED BY <1>4, <1>5

LEMMA SameEvolves ==
  ASSUME TypeOK, PodsTrue, UNCHANGED pods
  PROVE  Evolves(pods')
BY TypesInParts DEF Evolves, ClusterTypes, PodsTrue

-----------------------------------------------------------------------------
(* What follows from it.                                                   *)

\* What the polls remember, and what a result rests on, outlives every step.
LEMMA MemoryKept ==
  ASSUME TypeOK, Evolves(pods')
  PROVE  /\ PodsTrue'
         /\ TrackTypes /\ TracksTrue /\ UNCHANGED tracks => TrackTypes' /\ TracksTrue'
         /\ Succeeded => Succeeded'
         /\ \A r : Ended(r) => Ended(r)'
         /\ (\E i \in DOMAIN pods : pods[i].marked) => \E i \in DOMAIN pods' : pods'[i].marked
         /\ pods # << >> /\ pods[Len(pods)].st = "exit0" =>
              Len(pods') = Len(pods) /\ pods' # << >> /\ pods'[Len(pods')].st = "exit0"
         /\ (\A i \in DOMAIN pods : ~pods[i].present) /\ Len(pods') = Len(pods) =>
              \A i \in DOMAIN pods' : ~pods'[i].present
<1>1. /\ pods \in Seq(PodType) /\ Len(pods) \in Nat /\ DOMAIN pods = 1..Len(pods)
      /\ pods' \in Seq(PodType) /\ Len(pods') \in Nat /\ DOMAIN pods' = 1..Len(pods')
      /\ Len(pods) <= Len(pods') /\ DOMAIN pods \subseteq DOMAIN pods'
  BY TypesInParts DEF ClusterTypes, Evolves
<1>2. PodsTrue'
  BY DEF Evolves, PodsTrue
<1>3. TrackTypes /\ TracksTrue /\ UNCHANGED tracks => TrackTypes' /\ TracksTrue'
  <2>. SUFFICES ASSUME TrackTypes, TracksTrue, UNCHANGED tracks PROVE TrackTypes' /\ TracksTrue'
    OBVIOUS
  <2>1. TrackTypes'
    BY <1>1 DEF TrackTypes
  <2>2. ASSUME NEW i \in DOMAIN tracks
        PROVE  /\ tracks[i].st \in Terminal =>
                    pods'[i].st = tracks[i].st /\ (pods'[i].cut => tracks[i].marked)
               /\ tracks[i].marked => pods'[i].marked
               /\ tracks[i].gone => ~pods'[i].present
    <3>1. i \in DOMAIN pods
      BY <2>2 DEF TrackTypes
    <3>. QED BY <2>2, <3>1 DEF TracksTrue, Evolves, Dead
  <2>. QED BY <2>1, <2>2 DEF TracksTrue
<1>4. ASSUME NEW i \in DOMAIN pods, pods[i].st = "exit0"
      PROVE  Len(pods') = Len(pods) /\ pods'[i].st = "exit0"
  BY <1>4 DEF Evolves, Dead, Terminal, Terminated
<1>5. Succeeded => Succeeded'
  BY <1>1, <1>4 DEF Succeeded
<1>6. \A r : Ended(r) => Ended(r)'
  BY <1>1 DEF Ended, Evolves, Dead
<1>7. (\E i \in DOMAIN pods : pods[i].marked) => \E i \in DOMAIN pods' : pods'[i].marked
  BY <1>1 DEF Evolves
<1>8. pods # << >> /\ pods[Len(pods)].st = "exit0" =>
        Len(pods') = Len(pods) /\ pods' # << >> /\ pods'[Len(pods')].st = "exit0"
  <2>. SUFFICES ASSUME pods # << >>, pods[Len(pods)].st = "exit0"
                PROVE  Len(pods') = Len(pods) /\ pods' # << >> /\ pods'[Len(pods')].st = "exit0"
    OBVIOUS
  <2>1. Len(pods) \in DOMAIN pods
    BY <1>1
  <2>2. Len(pods') = Len(pods) /\ pods'[Len(pods)].st = "exit0"
    BY <1>4, <2>1
  <2>. QED BY <1>1, <2>1, <2>2
<1>9. (\A i \in DOMAIN pods : ~pods[i].present) /\ Len(pods') = Len(pods) =>
        \A i \in DOMAIN pods' : ~pods'[i].present
  BY <1>1 DEF Evolves
<1>. QED BY <1>2, <1>3, <1>5, <1>6, <1>7, <1>8, <1>9
-----------------------------------------------------------------------------
(* The cluster's steps.                                                    *)

\* What they mean to the run: nothing of its own changes, a finished or deleted
\* Job does not start again, and no Job of the run appears but a late one.
Moved ==
  /\ UNCHANGED exec
  /\ ClusterTypes' /\ Evolves(pods') /\ JobTrue' /\ AnswerTrue'
  /\ post # "late" => post' = post /\ (~Managed => ~Managed')
  /\ clock # "early" => clock' # "early"
  /\ job.owner # "ours" => job'.owner # "ours" \/ (post = "late" /\ post' = "landed")

LEMMA PodsMove ==
  ASSUME IInv, Evolves(pods'), UNCHANGED <<exec, job, post, clock>>, meddles' \in 0..MaxMeddles
  PROVE  Moved
<1>1. /\ pods \in Seq(PodType) /\ Len(pods) \in Nat /\ DOMAIN pods = 1..Len(pods)
      /\ pods' \in Seq(PodType) /\ Len(pods') \in Nat /\ DOMAIN pods' = 1..Len(pods')
  BY TypesInParts DEF ClusterTypes, Evolves, IInv
<1>2. ClusterTypes'
  BY TypesInParts DEF ClusterTypes, Evolves, IInv
<1>3. ~Managed => Len(pods') = Len(pods)
  BY DEF Evolves
<1>4. pods' = << >> <=> Len(pods') = 0
  BY <1>1
<1>5. pods = << >> <=> Len(pods) = 0
  BY <1>1
<1>6. JobTrue'
  <2>1. job.owner # "ours" => \A i \in DOMAIN pods' : ~pods'[i].present
    BY <1>3, MemoryKept DEF IInv, JobTrue, Managed
  <2>2. job.cond \in {"complete", "failed"} => pods' # << >> /\ job.count = Len(pods')
    BY <1>3, <1>4, <1>5 DEF IInv, JobTrue, Managed
  <2>3. job.cond = "complete" => pods'[Len(pods')].st = "exit0"
    BY MemoryKept DEF IInv, JobTrue
  <2>. QED BY <2>1, <2>2, <2>3 DEF JobTrue, IInv
<1>7. AnswerTrue'
  BY <1>3, <1>4, <1>5 DEF AnswerTrue, IInv, Managed, exec
<1>. QED BY <1>2, <1>6, <1>7 DEF Moved, Managed

LEMMA CountMoves == IInv /\ CountPods => Moved
<1>. SUFFICES ASSUME IInv, CountPods PROVE Moved
  OBVIOUS
<1>1. TypeOK /\ ClusterTypes /\ PodsTrue /\ Evolves(pods')
  BY TypesInParts, SameEvolves DEF IInv, CountPods
<1>2. Len(pods) \in 0..MaxPods
  BY <1>1 DEF ClusterTypes
<1>3. job' \in JobType /\ job'.owner = "ours" /\ job'.st = "live" /\ job'.cond = "none"
  BY <1>1, <1>2 DEF CountPods, Managed, ClusterTypes, JobType
<1>. QED BY <1>1, <1>3 DEF CountPods, Managed, Moved, ClusterTypes, JobTrue, AnswerTrue, IInv, exec

LEMMA FinishMoves == IInv /\ FinishJob => Moved
<1>. SUFFICES ASSUME IInv, FinishJob PROVE Moved
  OBVIOUS
<1>1. TypeOK /\ ClusterTypes /\ PodsTrue /\ Evolves(pods')
  BY TypesInParts, SameEvolves DEF IInv, FinishJob
<1>2. Len(pods) \in 0..MaxPods
  BY <1>1 DEF ClusterTypes
<1>3. /\ job' \in JobType /\ job'.owner = "ours" /\ job'.st = "live" /\ job'.count = Len(pods)
      /\ job'.cond = IF pods[Len(pods)].st = "exit0" THEN "complete" ELSE "failed"
  BY <1>1, <1>2 DEF FinishJob, Managed, ClusterTypes, JobType, Conds
<1>. QED BY <1>1, <1>3 DEF FinishJob, Managed, Moved, ClusterTypes, JobTrue, AnswerTrue, IInv, exec

LEMMA DeadlineMoves == IInv /\ Deadline => Moved
<1>. SUFFICES ASSUME IInv, Deadline PROVE Moved
  OBVIOUS
<1>1. TypeOK /\ ClusterTypes /\ PodsTrue /\ Evolves(pods')
  BY TypesInParts, MarkedEvolves DEF IInv, Deadline
<1>2. /\ job' \in JobType /\ job'.owner = "ours" /\ job'.st = "live" /\ job'.cond = "deadline"
  BY <1>1 DEF Deadline, Managed, ClusterTypes, JobType, Conds
<1>3. pods' \in Seq(PodType) /\ Len(pods') <= MaxPods
  BY <1>1 DEF Evolves
<1>. QED BY <1>1, <1>2, <1>3 DEF Deadline, Managed, Moved, ClusterTypes, JobTrue, AnswerTrue, IInv, exec

\* A Job that is deleted keeps what it says of its pods.
LEMMA DeletingMoves ==
  ASSUME IInv, job.owner = "ours", Deleting, UNCHANGED <<exec, pods, post, clock>>,
         meddles' \in 0..MaxMeddles
  PROVE  Moved
<1>1. TypeOK /\ ClusterTypes /\ PodsTrue /\ Evolves(pods')
  BY TypesInParts, SameEvolves DEF IInv
<1>2. /\ job' \in JobType /\ job'.owner = "ours" /\ job'.st = "deleting"
      /\ job'.cond = job.cond /\ job'.count = job.count
  BY <1>1 DEF Deleting, ClusterTypes, JobType
<1>. QED BY <1>1, <1>2 DEF Managed, Moved, ClusterTypes, JobTrue, AnswerTrue, IInv, exec

LEMMA TtlMoves == IInv /\ Ttl => Moved
<1>. SUFFICES ASSUME IInv, Ttl PROVE Moved
  OBVIOUS
<1>1. meddles' \in 0..MaxMeddles
  BY DEF Ttl, IInv, TypeOK
<1>. QED BY <1>1, DeletingMoves DEF Ttl, Deleting

LEMMA GoesMoves == IInv /\ JobGoes => Moved
<1>. SUFFICES ASSUME IInv, JobGoes PROVE Moved
  OBVIOUS
<1>1. TypeOK /\ ClusterTypes /\ PodsTrue /\ Evolves(pods')
  BY TypesInParts, SameEvolves DEF IInv, JobGoes
<1>2. NoJob \in JobType
  BY K8sAssumption DEF NoJob, JobType, Conds
<1>. QED BY <1>1, <1>2 DEF JobGoes, NoJob, Managed, Moved, ClusterTypes, JobTrue, AnswerTrue, IInv, exec

LEMMA LateMoves == IInv /\ LatePost => Moved
<1>. SUFFICES ASSUME IInv, LatePost PROVE Moved
  OBVIOUS
<1>1. TypeOK /\ ClusterTypes /\ PodsTrue /\ Evolves(pods')
  BY TypesInParts, SameEvolves DEF IInv, LatePost
<1>2. FreshJob \in JobType
  BY K8sAssumption DEF FreshJob, JobType, Conds
<1>3. CASE Lands /\ post' = "landed"
  BY <1>1, <1>2, <1>3 DEF LatePost, Lands, FreshJob, Managed, Moved, ClusterTypes, JobTrue, AnswerTrue, IInv, exec
<1>4. CASE UNCHANGED job /\ post' = "none"
  BY <1>1, <1>4 DEF LatePost, Managed, Moved, ClusterTypes, JobTrue, AnswerTrue, IInv, exec
<1>. QED BY <1>3, <1>4 DEF LatePost

LEMMA TickMoves == IInv /\ Tick => Moved
<1>. SUFFICES ASSUME IInv, Tick PROVE Moved
  OBVIOUS
<1>1. TypeOK /\ ClusterTypes /\ PodsTrue /\ Evolves(pods')
  BY TypesInParts, SameEvolves DEF IInv, Tick, cluster
<1>. QED BY <1>1 DEF Tick, cluster, Managed, Moved, ClusterTypes, JobTrue, AnswerTrue, IInv, exec

LEMMA PodStepsMove ==
  IInv /\ (StartPod \/ KubeletRuns \/ KubeletEnds \/ PodGoes \/ DeletePods) => Moved
<1>. SUFFICES ASSUME IInv, StartPod \/ KubeletRuns \/ KubeletEnds \/ PodGoes \/ DeletePods
              PROVE  Moved
  OBVIOUS
<1>1. TypeOK /\ PodsTrue /\ meddles \in 0..MaxMeddles
  BY DEF IInv, TypeOK
<1>2. CASE StartPod
  <2>1. UNCHANGED <<exec, job, post, clock>> /\ meddles' = meddles
    BY <1>2 DEF StartPod
  <2>. QED BY <1>1, <1>2, <2>1, NewPodEvolves, PodsMove
<1>3. CASE KubeletRuns \/ KubeletEnds
  <2>1. PICK k \in DOMAIN pods : PodMoves(k)
    BY <1>3 DEF KubeletRuns, KubeletEnds
  <2>2. UNCHANGED <<exec, job, post, clock>> /\ meddles' = meddles
    BY <2>1 DEF PodMoves
  <2>. QED BY <1>1, <2>1, <2>2, MoveEvolves, PodsMove
<1>4. CASE PodGoes
  <2>1. UNCHANGED <<exec, job, post, clock>> /\ meddles' = meddles
    BY <1>4 DEF PodGoes
  <2>. QED BY <1>1, <1>4, <2>1, GoneEvolves, PodsMove
<1>5. CASE DeletePods
  <2>1. UNCHANGED <<exec, job, post, clock>> /\ meddles' = meddles
    BY <1>5 DEF DeletePods
  <2>2. Evolves(pods')
    BY <1>1, <1>5, MarkedEvolves DEF DeletePods
  <2>. QED BY <1>1, <2>1, <2>2, PodsMove
<1>. QED BY <1>2, <1>3, <1>4, <1>5

LEMMA MeddleMoves == IInv /\ Meddle => Moved
<1>. SUFFICES ASSUME IInv, Meddle PROVE Moved
  OBVIOUS
<1>1. TypeOK /\ PodsTrue /\ meddles' \in 0..MaxMeddles
  BY K8sAssumption DEF IInv, TypeOK, Meddle
<1>2. CASE job.st = "live" /\ job.owner = "ours" /\ Deleting /\ UNCHANGED pods
  BY <1>1, <1>2, DeletingMoves DEF Meddle
<1>3. CASE UNCHANGED job /\ \E k \in DOMAIN pods : pods' = [pods EXCEPT ![k].marked = TRUE]
  BY <1>1, <1>3, MeddledEvolves, PodsMove DEF Meddle
<1>. QED BY <1>2, <1>3 DEF Meddle

\* So the invariant outlives them.
LEMMA MovedKeeps == IInv /\ Moved => IInv'
<1>. SUFFICES ASSUME IInv, Moved PROVE IInv'
  OBVIOUS
<1>1. /\ RunTypes /\ TrackTypes /\ TypeOK /\ Flow /\ TracksTrue /\ ReadTrue /\ ResultTrue /\ GoneTrue
      /\ Evolves(pods') /\ UNCHANGED exec /\ AnswerTrue
  BY TypesInParts DEF IInv, Moved
<1>2. PodsTrue' /\ TrackTypes' /\ TracksTrue'
  BY <1>1, MemoryKept DEF exec, poll
<1>3. TypeOK'
  <2>1. RunTypes'
    BY <1>1 DEF RunTypes, exec, guard, poll, report
  <2>2. ClusterTypes'
    BY DEF Moved
  <2>. QED BY <1>2, <2>1, <2>2 DEF TypeOK, RunTypes, TrackTypes, ClusterTypes, PodType, TrackType
<1>4. Flow'
  BY <1>1 DEF Flow, exec, guard, report
<1>5. ~Managed => Len(pods') = Len(pods)
  BY <1>1 DEF Evolves
<1>6. pods # << >> => pods' # << >>
  BY <1>1, TypesInParts DEF Evolves, ClusterTypes
<1>7. answer = "created" /\ ~Managed => ~Managed'
  BY <1>1 DEF AnswerTrue, Moved
<1>8. ReadTrue'
  <2>. SUFFICES ASSUME pc = "listPods"
                PROVE  /\ seen.cond \in {"complete", "failed"} =>
                            pods' # << >> /\ seen.count = Len(pods') /\ ~Managed'
                       /\ seen.cond = "complete" => pods'[Len(pods')].st = "exit0"
                       /\ seen.cond = "deadline" => clock' # "early"
    BY <1>1 DEF ReadTrue, exec, poll
  <2>1. answer = "created"
    BY <1>1 DEF Flow
  <2>2. seen.cond \in {"complete", "failed"} =>
          pods' # << >> /\ seen.count = Len(pods') /\ ~Managed'
    BY <1>1, <1>5, <1>6, <1>7, <2>1 DEF ReadTrue
  <2>3. seen.cond = "complete" => pods'[Len(pods')].st = "exit0"
    BY <1>1, MemoryKept DEF ReadTrue
  <2>. QED BY <1>1, <2>2, <2>3 DEF ReadTrue, Moved
<1>9. ResultTrue'
  <2>1. pc = "outputs" \/ result = "ok" => Succeeded'
    BY <1>1, MemoryKept DEF ResultTrue
  <2>2. result \in {"exitN", "killed"} =>
          Ended(result)' /\ answer = "created" /\ (~overran => Len(pods') = 1 /\ ~Managed')
    BY <1>1, <1>5, <1>7, MemoryKept DEF ResultTrue, exec, report
  <2>3. result = "podDeleted" => \E i \in DOMAIN pods' : pods'[i].marked
    BY <1>1, MemoryKept DEF ResultTrue
  <2>. QED BY <1>1, <2>1, <2>2, <2>3 DEF ResultTrue, exec, report, Moved
<1>10. GoneTrue'
  BY <1>1 DEF GoneTrue, Excused, Moved, exec, guard, report
<1>. QED BY <1>2, <1>3, <1>4, <1>8, <1>9, <1>10 DEF IInv, Moved
-----------------------------------------------------------------------------
(* The run's steps.                                                        *)

\* Most leave the cluster alone, and what is known of it.
LEMMA ClusterStill ==
  ASSUME IInv, UNCHANGED <<cluster, clock>>
  PROVE  ClusterTypes' /\ JobTrue' /\ PodsTrue' /\ (UNCHANGED answer => AnswerTrue')
<1>1. ClusterTypes /\ JobTrue /\ PodsTrue /\ AnswerTrue
  BY TypesInParts DEF IInv
<1>. QED BY <1>1 DEF cluster, ClusterTypes, JobTrue, PodsTrue, AnswerTrue

\* Those outside the polls leave its memory alone, too, and what was read of
\* the Job is of no use to them.
LEMMA MemoryStill ==
  ASSUME IInv, UNCHANGED <<pods, poll>>
  PROVE  TrackTypes' /\ TracksTrue'
<1>1. TrackTypes /\ TracksTrue
  BY TypesInParts DEF IInv
<1>. QED BY <1>1 DEF TrackTypes, TracksTrue, poll

\* A run that stays undecided, or has its result already, changes nothing in
\* what that rests on.
LEMMA ResultStill ==
  ASSUME IInv, UNCHANGED <<answer, result, overran, cluster, clock>>, pc' # "outputs"
  PROVE  ResultTrue'
<1>1. ResultTrue
  BY DEF IInv
<1>. QED BY <1>1 DEF ResultTrue, cluster, Succeeded, Ended, Managed

LEMMA TypesTogether == RunTypes' /\ TrackTypes' /\ ClusterTypes' => TypeOK'
BY DEF TypeOK, RunTypes, TrackTypes, ClusterTypes, PodType, TrackType

LEMMA ImageGateKeeps == IInv /\ ImageGate => IInv'
<1>. SUFFICES ASSUME IInv, ImageGate PROVE IInv'
  OBVIOUS
<1>1. ClusterTypes' /\ JobTrue' /\ PodsTrue' /\ AnswerTrue' /\ TrackTypes' /\ TracksTrue'
  BY ClusterStill, MemoryStill DEF ImageGate, cluster
<1>2. RunTypes /\ Flow /\ AnswerTrue /\ ResultTrue /\ GoneTrue
  BY TypesInParts DEF IInv
<1>3. RunTypes'
  BY <1>2 DEF ImageGate, At, guard, poll, RunTypes, Results
<1>4. Flow' /\ ReadTrue' /\ GoneTrue'
  BY <1>2 DEF ImageGate, At, guard, poll, cluster, Flow, ReadTrue, AnswerTrue, GoneTrue, Excused
<1>5. ResultTrue'
  BY <1>2 DEF ImageGate, At, Flow, ResultTrue
<1>. QED BY <1>1, <1>3, <1>4, <1>5, TypesTogether DEF IInv

LEMMA PrepareScratchKeeps == IInv /\ PrepareScratch => IInv'
<1>. SUFFICES ASSUME IInv, PrepareScratch PROVE IInv'
  OBVIOUS
<1>1. ClusterTypes' /\ JobTrue' /\ PodsTrue' /\ AnswerTrue' /\ TrackTypes' /\ TracksTrue'
  BY ClusterStill, MemoryStill DEF PrepareScratch, cluster
<1>2. RunTypes /\ Flow /\ AnswerTrue /\ ResultTrue /\ GoneTrue
  BY TypesInParts DEF IInv
<1>3. RunTypes'
  BY <1>2 DEF PrepareScratch, At, Fail, poll, RunTypes, Results
<1>4. Flow' /\ ReadTrue' /\ GoneTrue'
  BY <1>2 DEF PrepareScratch, At, Fail, Flow, ReadTrue, GoneTrue, RunTypes
<1>5. ResultTrue'
  BY <1>2 DEF PrepareScratch, At, Fail, Flow, ResultTrue
<1>. QED BY <1>1, <1>3, <1>4, <1>5, TypesTogether DEF IInv

\* The steps of the create call: the Job, if it is created, is the run's and new.
LEMMA Landed ==
  ASSUME IInv, Lands
  PROVE  job' \in JobType /\ job'.owner = "ours" /\ job'.st = "live" /\ job'.cond = "none"
           /\ job.owner = "none"
BY K8sAssumption DEF Lands, FreshJob, NoJob, JobType, Conds, IInv, JobTrue

LEMMA CreatedKeeps == IInv /\ Created => IInv'
<1>. SUFFICES ASSUME IInv, Created PROVE IInv'
  OBVIOUS
<1>1. TrackTypes' /\ TracksTrue' /\ PodsTrue'
  BY MemoryStill DEF Created, IInv, PodsTrue
<1>2. RunTypes /\ ClusterTypes /\ Flow /\ AnswerTrue /\ JobTrue /\ ResultTrue /\ GoneTrue
  BY TypesInParts DEF IInv
<1>3. RunTypes'
  BY <1>2 DEF Created, At, Fail, guard, poll, RunTypes, Results
<1>4. ClusterTypes' /\ JobTrue' /\ AnswerTrue'
  BY <1>2, Landed DEF Created, At, ClusterTypes, JobTrue, AnswerTrue, Flow
<1>5. Flow' /\ ReadTrue' /\ GoneTrue'
  BY <1>2 DEF Created, At, Fail, guard, Flow, ReadTrue, GoneTrue
<1>6. ResultTrue'
  BY <1>2 DEF Created, At, Fail, Flow, ResultTrue
<1>. QED BY <1>1, <1>3, <1>4, <1>5, <1>6, TypesTogether DEF IInv

LEMMA CreateRefusedKeeps == IInv /\ CreateRefused => IInv'
<1>. SUFFICES ASSUME IInv, CreateRefused PROVE IInv'
  OBVIOUS
<1>1. ClusterTypes' /\ JobTrue' /\ PodsTrue' /\ TrackTypes' /\ TracksTrue'
  BY ClusterStill, MemoryStill DEF CreateRefused, cluster
<1>2. RunTypes /\ Flow /\ AnswerTrue /\ ResultTrue /\ GoneTrue
  BY TypesInParts DEF IInv
<1>3. RunTypes'
  BY <1>2 DEF CreateRefused, At, Fail, poll, RunTypes, Results
<1>4. AnswerTrue'
  BY <1>2 DEF CreateRefused, At, cluster, AnswerTrue, Flow
<1>5. Flow' /\ ReadTrue' /\ GoneTrue'
  BY <1>2 DEF CreateRefused, At, Fail, Flow, ReadTrue, GoneTrue
<1>6. ResultTrue'
  BY <1>2 DEF CreateRefused, At, Fail, Flow, ResultTrue
<1>. QED BY <1>1, <1>3, <1>4, <1>5, <1>6, TypesTogether DEF IInv

\* Whatever becomes of a request that was not answered as it should be.
LEMMA UnsettledKeeps ==
  ASSUME IInv, At("create"), Unsettled, answer' \in {"serverError", "lost"},
         UNCHANGED <<pods, meddles, clock>>
  PROVE  ClusterTypes' /\ JobTrue' /\ AnswerTrue' /\ PodsTrue'
<1>1. ClusterTypes /\ JobTrue /\ AnswerTrue /\ PodsTrue /\ answer = "none"
  BY TypesInParts DEF IInv, Flow, At
<1>2. CASE Lands /\ UNCHANGED post
  BY <1>1, <1>2, Landed DEF ClusterTypes, JobTrue, AnswerTrue, PodsTrue
<1>3. CASE UNCHANGED job
  BY <1>1, <1>3 DEF Unsettled, Lands, ClusterTypes, JobTrue, AnswerTrue, PodsTrue
<1>. QED BY <1>2, <1>3 DEF Unsettled

LEMMA CreateServerErrorKeeps == IInv /\ CreateServerError => IInv'
<1>. SUFFICES ASSUME IInv, CreateServerError PROVE IInv'
  OBVIOUS
<1>1. ClusterTypes' /\ JobTrue' /\ PodsTrue' /\ AnswerTrue' /\ TrackTypes' /\ TracksTrue'
  BY UnsettledKeeps, MemoryStill DEF CreateServerError
<1>2. RunTypes /\ Flow /\ ResultTrue /\ GoneTrue
  BY TypesInParts DEF IInv
<1>3. RunTypes'
  BY <1>2 DEF CreateServerError, At, Fail, poll, RunTypes, Results
<1>4. Flow' /\ ReadTrue' /\ GoneTrue'
  BY <1>2 DEF CreateServerError, At, Fail, Flow, ReadTrue, GoneTrue
<1>5. ResultTrue'
  BY <1>2 DEF CreateServerError, At, Fail, Flow, ResultTrue
<1>. QED BY <1>1, <1>3, <1>4, <1>5, TypesTogether DEF IInv

LEMMA CreateLostKeeps == IInv /\ CreateLost => IInv'
<1>. SUFFICES ASSUME IInv, CreateLost PROVE IInv'
  OBVIOUS
<1>1. ClusterTypes' /\ JobTrue' /\ PodsTrue' /\ AnswerTrue' /\ TrackTypes' /\ TracksTrue'
  BY UnsettledKeeps, MemoryStill DEF CreateLost
<1>2. RunTypes /\ Flow /\ ResultTrue /\ GoneTrue
  BY TypesInParts DEF IInv
<1>3. RunTypes'
  BY <1>2 DEF CreateLost, At, Fail, guard, poll, RunTypes, Results
<1>4. Flow' /\ ReadTrue' /\ GoneTrue'
  BY <1>2 DEF CreateLost, At, Fail, guard, Flow, ReadTrue, GoneTrue
<1>5. ResultTrue'
  BY <1>2 DEF CreateLost, At, Fail, Flow, ResultTrue
<1>. QED BY <1>1, <1>3, <1>4, <1>5, TypesTogether DEF IInv

\* The polls.  A poll that decides forgets what it knew.
LEMMA Left ==
  ASSUME IInv, Leave, UNCHANGED pods
  PROVE  /\ seen' \in [cond : Conds, count : 0..MaxPods] /\ errors' \in 0..PollErrorBudget
         /\ TrackTypes' /\ TracksTrue'
<1>1. DOMAIN tracks' = {}
  BY DEF Leave
<1>. QED BY <1>1, K8sAssumption DEF Leave, Unread, Conds, TrackTypes, TracksTrue

LEMMA GetJobKeeps == IInv /\ GetJob => IInv'
<1>. SUFFICES ASSUME IInv, GetJob PROVE IInv'
  OBVIOUS
<1>1. ClusterTypes' /\ JobTrue' /\ PodsTrue' /\ AnswerTrue'
  BY ClusterStill DEF GetJob, cluster
<1>2. /\ RunTypes /\ TrackTypes /\ ClusterTypes /\ Flow /\ AnswerTrue /\ JobTrue /\ TracksTrue
      /\ ResultTrue /\ GoneTrue /\ pc = "getJob"
  BY TypesInParts DEF IInv, GetJob, At
<1>3. ResultTrue'
  BY <1>2 DEF GetJob, At, Fail, Flow, ResultTrue
<1>4. CASE job.st # "absent" /\ pc' = "listPods" /\ seen' = [cond |-> job.cond, count |-> job.count]
             /\ UNCHANGED <<tracks, errors, result>>
  <2>1. seen' \in [cond : Conds, count : 0..MaxPods] /\ seen'.cond = job.cond /\ seen'.count = job.count
    BY <1>2, <1>4 DEF ClusterTypes, JobType
  <2>2. RunTypes'
    BY <1>2, <1>4, <2>1 DEF GetJob, guard, RunTypes
  <2>3. TrackTypes' /\ TracksTrue'
    BY <1>2, <1>4 DEF GetJob, cluster, TrackTypes, TracksTrue
  <2>4. Flow' /\ GoneTrue'
    BY <1>2, <1>4 DEF GetJob, guard, Flow, GoneTrue
  <2>5. ReadTrue'
    BY <1>2, <2>1 DEF GetJob, cluster, ReadTrue, JobTrue, Managed
  <2>. QED BY <1>1, <1>3, <2>2, <2>3, <2>4, <2>5, TypesTogether DEF IInv
<1>5. CASE Leave /\ \E r \in {"jobDeleted", "apiRefused"} : Fail(r)
  <2>1. RunTypes'
    BY <1>2, <1>5, Left DEF GetJob, cluster, guard, Fail, RunTypes, Results
  <2>2. TrackTypes' /\ TracksTrue'
    BY <1>5, Left DEF GetJob, cluster
  <2>3. Flow' /\ GoneTrue' /\ ReadTrue'
    BY <1>2, <1>5 DEF GetJob, guard, Fail, Flow, GoneTrue, ReadTrue
  <2>. QED BY <1>1, <1>3, <2>1, <2>2, <2>3, TypesTogether DEF IInv
<1>. QED BY <1>4, <1>5 DEF GetJob

\* What the polls know of a pod, when they know of one.
LEMMA TracksTell ==
  ASSUME TypeOK, NEW ts, DOMAIN ts # {}, DOMAIN ts \subseteq DOMAIN pods,
         \A i \in DOMAIN ts :
           /\ ts[i].st \in Terminal => pods[i].st = ts[i].st /\ (pods[i].cut => ts[i].marked)
           /\ ts[i].marked => pods[i].marked
           /\ ts[i].gone => pods[i].marked
  PROVE  /\ Track(ts).st \in Terminal /\ ~Track(ts).marked => Ended(Track(ts).st)
         /\ Track(ts).marked \/ Track(ts).gone => \E i \in DOMAIN pods : pods[i].marked
<1>1. PICK i \in DOMAIN ts : Track(ts) = ts[i]
  BY TrackIn
<1>. QED BY <1>1 DEF Ended, Dead

\* The undecided poll: once more, or the executor's bound decides.
LEMMA PollKeeps ==
  ASSUME IInv, NEW ts, NEW n \in 0..PollErrorBudget, Poll(ts, n), pc \in {"getJob", "listPods"},
         UNCHANGED <<answer, guard, cleanup, cluster, clock>>,
         DOMAIN ts \subseteq DOMAIN pods, \A i \in DOMAIN ts : ts[i] \in TrackType,
         \A i \in DOMAIN ts :
           /\ ts[i].st \in Terminal => pods[i].st = ts[i].st /\ (pods[i].cut => ts[i].marked)
           /\ ts[i].marked => pods[i].marked
           /\ ts[i].gone => ~pods[i].present
  PROVE  IInv'
<1>1. ClusterTypes' /\ JobTrue' /\ PodsTrue' /\ AnswerTrue'
  BY ClusterStill
<1>2. /\ RunTypes /\ Flow /\ PodsTrue /\ ResultTrue /\ GoneTrue /\ TypeOK
  BY TypesInParts DEF IInv
<1>3. CASE clock # "bound"
  <2>1. UNCHANGED <<result, overran>> /\ pc' = "getJob" /\ seen' = Unread /\ tracks' = ts /\ errors' = n
    BY <1>3 DEF Poll
  <2>2. RunTypes'
    BY <1>2, <2>1, K8sAssumption DEF guard, RunTypes, Unread, Conds
  <2>3. TrackTypes' /\ TracksTrue'
    BY <2>1 DEF cluster, TrackTypes, TracksTrue
  <2>4. Flow' /\ GoneTrue' /\ ReadTrue'
    BY <1>2, <2>1 DEF guard, Flow, GoneTrue, ReadTrue
  <2>5. ResultTrue'
    BY <2>1, ResultStill DEF cluster
  <2>. QED BY <1>1, <2>2, <2>3, <2>4, <2>5, TypesTogether DEF IInv
<1>4. CASE clock = "bound"
  <2>1. overran' = TRUE /\ result' = AssessAtBound(ts) /\ pc' = "teardown" /\ Leave
    BY <1>4 DEF Poll, Fail
  <2>2. RunTypes'
    BY <1>2, <2>1, Left, AssessedAtBound DEF cluster, guard, RunTypes, Results
  <2>3. TrackTypes' /\ TracksTrue'
    BY <2>1, Left DEF cluster
  <2>4. Flow' /\ GoneTrue' /\ ReadTrue'
    BY <1>2, <2>1 DEF guard, Flow, GoneTrue, ReadTrue
  <2>5. ResultTrue'
    <3>1. \A i \in DOMAIN ts : ts[i].gone => pods[i].marked
      BY <1>2 DEF PodsTrue
    <3>2. result' \in {"exitN", "killed"} => Ended(result')
      BY <1>2, <2>1, <3>1, AssessedAtBound, TracksTell DEF Terminal, Terminated
    <3>3. result' = "podDeleted" => \E i \in DOMAIN pods : pods[i].marked
      BY <1>2, <2>1, <3>1, AssessedAtBound, TracksTell
    <3>4. Ended(result') => Ended(result)'
      BY DEF Ended, cluster
    <3>5. answer' = "created" /\ result' # "ok"
      BY <1>2, <2>1, AssessedAtBound DEF Flow
    <3>. QED BY <1>4, <2>1, <3>2, <3>3, <3>4, <3>5 DEF ResultTrue, cluster
  <2>. QED BY <1>1, <2>2, <2>3, <2>4, <2>5, TypesTogether DEF IInv
<1>. QED BY <1>3, <1>4

LEMMA PollFailsKeeps == IInv /\ PollFails => IInv'
<1>. SUFFICES ASSUME IInv, PollFails PROVE IInv'
  OBVIOUS
<1>1. /\ RunTypes /\ TrackTypes /\ Flow /\ TracksTrue /\ ResultTrue /\ GoneTrue
      /\ pc \in {"getJob", "listPods"}
  BY TypesInParts DEF IInv, PollFails, At
<1>2. CASE Poll(tracks, errors + 1) /\ ~(errors + 1 > PollErrorBudget)
  <2>1. errors + 1 \in 0..PollErrorBudget
    BY <1>1, <1>2, K8sAssumption DEF RunTypes
  <2>. QED BY <1>1, <1>2, <2>1, PollKeeps DEF PollFails, TrackTypes, TracksTrue
<1>3. CASE Fail("apiUnreachable") /\ Leave /\ UNCHANGED overran
  <2>1. ClusterTypes' /\ JobTrue' /\ PodsTrue' /\ AnswerTrue'
    BY ClusterStill DEF PollFails
  <2>2. RunTypes'
    BY <1>1, <1>3, Left DEF PollFails, cluster, guard, Fail, RunTypes, Results
  <2>3. TrackTypes' /\ TracksTrue'
    BY <1>3, Left DEF PollFails, cluster
  <2>4. Flow' /\ GoneTrue' /\ ReadTrue'
    BY <1>1, <1>3 DEF PollFails, guard, Fail, Flow, GoneTrue, ReadTrue
  <2>5. ResultTrue'
    BY <1>1, <1>3 DEF PollFails, Fail, ResultTrue
  <2>. QED BY <2>1, <2>2, <2>3, <2>4, <2>5, TypesTogether DEF IInv
<1>. QED BY <1>2, <1>3 DEF PollFails

LEMMA ListPodsKeeps == IInv /\ ListPods => IInv'
<1>. SUFFICES ASSUME IInv, ListPods PROVE IInv'
  OBVIOUS
<1>. DEFINE ts == AfterListing  v == Assess(seen, ts)
<1>1. /\ RunTypes /\ TrackTypes /\ ClusterTypes /\ Flow /\ JobTrue /\ PodsTrue /\ TracksTrue
      /\ ReadTrue /\ ResultTrue /\ GoneTrue /\ TypeOK /\ pc = "listPods"
  BY TypesInParts DEF IInv, ListPods, At
<1>2. ClusterTypes' /\ JobTrue' /\ PodsTrue' /\ AnswerTrue'
  BY ClusterStill DEF ListPods
<1>3. DOMAIN ts \subseteq DOMAIN pods /\ \A i \in DOMAIN ts : ts[i] \in TrackType
  BY <1>1, Listing
<1>4. \A i \in DOMAIN ts :
        /\ ts[i].st \in Terminal => pods[i].st = ts[i].st /\ (pods[i].cut => ts[i].marked)
        /\ ts[i].marked => pods[i].marked
        /\ ts[i].gone => ~pods[i].present
  BY <1>1, Listing DEF TracksTrue, PodsTrue
<1>5. \A i \in DOMAIN ts : ts[i].gone => pods[i].marked
  BY <1>1, <1>3, <1>4 DEF PodsTrue
<1>6. /\ v \in {"retried", "unexpected", "ok", "neverStarted", "podDeleted", "exitN",
                "killed", "deadline", "undecided"}
      /\ v = "ok" => seen.cond = "complete" /\ ~(seen.count > 1)
      /\ v \in {"exitN", "killed"} =>
           /\ seen.cond = "failed" /\ ~(seen.count > 1)
           /\ DOMAIN ts # {} /\ Track(ts).st = v /\ ~Track(ts).marked
      /\ v = "podDeleted" => DOMAIN ts # {} /\ (Track(ts).marked \/ Track(ts).gone)
      /\ v = "deadline" => seen.cond = "deadline"
  BY Assessed
<1>. HIDE DEF ts, v
<1>7. CASE v = "undecided" /\ Poll(ts, 0)
  <2>1. 0 \in 0..PollErrorBudget
    BY K8sAssumption
  <2>. QED BY <1>1, <1>3, <1>4, <1>7, <2>1, PollKeeps DEF ListPods
<1>8. ASSUME Leave, UNCHANGED overran,
             \/ v = "ok" /\ pc' = "outputs" /\ UNCHANGED result
             \/ v \notin {"undecided", "ok"} /\ Fail(v)
             \/ Fail("apiRefused")
      PROVE  IInv'
  <2>1. RunTypes'
    BY <1>1, <1>6, <1>8, Left DEF ListPods, cluster, guard, Fail, RunTypes, Results
  <2>2. TrackTypes' /\ TracksTrue'
    BY <1>8, Left DEF ListPods, cluster
  <2>3. Flow' /\ GoneTrue' /\ ReadTrue'
    BY <1>1, <1>8 DEF ListPods, guard, Fail, Flow, GoneTrue, ReadTrue
  <2>4. seen.cond \in {"complete", "failed"} /\ ~(seen.count > 1) => Len(pods) = 1
    <3>1. Len(pods) \in Nat /\ (Len(pods) = 0 => pods = << >>)
      BY <1>1 DEF ClusterTypes
    <3>2. seen.cond \in {"complete", "failed"} => pods # << >> /\ seen.count = Len(pods)
      BY <1>1 DEF ReadTrue
    <3>3. \A k \in Nat : k # 0 /\ ~(k > 1) => k = 1
      OBVIOUS
    <3>. SUFFICES ASSUME seen.count = Len(pods), pods # << >>, ~(seen.count > 1) PROVE Len(pods) = 1
      BY <3>2
    <3>4. ~(Len(pods) > 1) /\ Len(pods) # 0
      BY <3>1
    <3>. QED BY <3>1, <3>3, <3>4
  <2>5. answer = "created" /\ result = "none" /\ UNCHANGED <<answer, pods, job, clock>>
    BY <1>1 DEF Flow, ListPods, cluster
  <2>6. ResultTrue'
    <3>1. CASE v = "ok" /\ pc' = "outputs" /\ UNCHANGED result
      <4>1. Succeeded
        BY <1>1, <1>6, <2>4, <3>1 DEF ReadTrue, Succeeded
      <4>. QED BY <2>5, <3>1, <4>1 DEF ResultTrue, Succeeded
    <3>2. CASE v \notin {"undecided", "ok"} /\ Fail(v)
      <4>1. result' = v /\ pc' = "teardown"
        BY <3>2 DEF Fail
      <4>2. v \in {"exitN", "killed"} => Ended(v) /\ Len(pods) = 1 /\ ~Managed
        <5>1. v \in {"exitN", "killed"} => Ended(v)
          BY <1>1, <1>3, <1>4, <1>5, <1>6, TracksTell DEF Terminal, Terminated
        <5>. QED BY <1>1, <1>6, <2>4, <5>1 DEF ReadTrue
      <4>3. v = "podDeleted" => \E i \in DOMAIN pods : pods[i].marked
        BY <1>1, <1>3, <1>4, <1>5, <1>6, TracksTell
      <4>4. v = "deadline" => clock # "early"
        BY <1>1, <1>6 DEF ReadTrue
      <4>5. (Ended(v) => Ended(result)') /\ Managed' = Managed
        BY <2>5, <4>1 DEF Ended, Managed
      <4>. QED BY <2>5, <3>2, <4>1, <4>2, <4>3, <4>4, <4>5 DEF ResultTrue
    <3>3. CASE Fail("apiRefused")
      BY <3>3 DEF Fail, ResultTrue
    <3>. QED BY <1>8, <3>1, <3>2, <3>3
  <2>. QED BY <1>2, <2>1, <2>2, <2>3, <2>6, TypesTogether DEF IInv
<1>. QED BY <1>7, <1>8 DEF ListPods, ts, v

LEMMA ReadOutputsKeeps == IInv /\ ReadOutputs => IInv'
<1>. SUFFICES ASSUME IInv, ReadOutputs PROVE IInv'
  OBVIOUS
<1>1. ClusterTypes' /\ JobTrue' /\ PodsTrue' /\ AnswerTrue' /\ TrackTypes' /\ TracksTrue'
  BY ClusterStill, MemoryStill DEF ReadOutputs, cluster
<1>2. RunTypes /\ Flow /\ ResultTrue /\ GoneTrue /\ pc = "outputs"
  BY TypesInParts DEF IInv, ReadOutputs, At
<1>3. RunTypes'
  BY <1>2 DEF ReadOutputs, Fail, guard, poll, RunTypes, Results
<1>4. Flow' /\ ReadTrue' /\ GoneTrue'
  BY <1>2 DEF ReadOutputs, Fail, guard, Flow, ReadTrue, GoneTrue
<1>5. ResultTrue'
  BY <1>2 DEF ReadOutputs, Fail, cluster, ResultTrue, Succeeded
<1>. QED BY <1>1, <1>3, <1>4, <1>5, TypesTogether DEF IInv
-----------------------------------------------------------------------------
(* The teardown.                                                           *)

\* A delete call leaves the Job as it is or makes it go; the guard never sends
\* one for the Job of somebody else, but when the answer was lost.
LEMMA DeleteKeeps ==
  ASSUME IInv, mayExist, pc # "create", Deleting \/ UNCHANGED job,
         UNCHANGED <<answer, pods, post, meddles, clock>>
  PROVE  /\ ClusterTypes' /\ JobTrue' /\ PodsTrue' /\ AnswerTrue'
         /\ job'.owner = job.owner /\ (~Managed => ~Managed')
<1>1. ClusterTypes /\ JobTrue /\ PodsTrue /\ AnswerTrue /\ answer \in {"created", "badReply", "lost"}
  BY TypesInParts DEF IInv, Flow
<1>2. CASE Deleting
  <2>1. /\ job' \in JobType /\ job'.owner = job.owner /\ job'.st = "deleting"
        /\ job'.cond = job.cond /\ job'.count = job.count
    BY <1>1, <1>2 DEF Deleting, ClusterTypes, JobType
  <2>. QED BY <1>1, <2>1 DEF ClusterTypes, JobTrue, PodsTrue, AnswerTrue, Managed
<1>3. CASE UNCHANGED job
  BY <1>1, <1>3 DEF ClusterTypes, JobTrue, PodsTrue, AnswerTrue, Managed
<1>. QED BY <1>2, <1>3

\* With the result given, that is all it rests on.
LEMMA GivenStill ==
  ASSUME IInv, UNCHANGED <<answer, result, overran, pods, clock>>, ~Managed => ~Managed',
         pc' # "outputs"
  PROVE  ResultTrue'
BY DEF IInv, ResultTrue, Succeeded, Ended

LEMMA DeleteJobKeeps == IInv /\ DeleteJob => IInv'
<1>. SUFFICES ASSUME IInv, DeleteJob PROVE IInv'
  OBVIOUS
<1>1. RunTypes /\ Flow /\ AnswerTrue /\ GoneTrue /\ pc = "teardown"
  BY TypesInParts DEF IInv, DeleteJob, At
<1>2. TrackTypes' /\ TracksTrue'
  BY MemoryStill DEF DeleteJob
<1>3. RunTypes'
  BY <1>1 DEF DeleteJob, poll, report, RunTypes
<1>4. CASE ~mayExist /\ pc' = "rmdir" /\ UNCHANGED <<job, problem>>
  <2>1. ClusterTypes' /\ JobTrue' /\ PodsTrue' /\ AnswerTrue'
    BY <1>4, ClusterStill DEF DeleteJob, cluster
  <2>2. Flow' /\ ReadTrue' /\ GoneTrue'
    BY <1>1, <1>4 DEF DeleteJob, report, Flow, ReadTrue, AnswerTrue, GoneTrue, Excused
  <2>3. ResultTrue'
    BY <1>4, GivenStill DEF DeleteJob, report, Managed
  <2>. QED BY <1>2, <1>3, <2>1, <2>2, <2>3, TypesTogether DEF IInv
<1>5. CASE mayExist /\ pc' = "waitGone" /\ problem' \in {problem, TRUE} /\ (Deleting \/ UNCHANGED job)
  <2>1. ClusterTypes' /\ JobTrue' /\ PodsTrue' /\ AnswerTrue' /\ (~Managed => ~Managed')
    BY <1>1, <1>5, DeleteKeeps DEF DeleteJob
  <2>2. Flow' /\ ReadTrue' /\ GoneTrue'
    BY <1>1, <1>5 DEF DeleteJob, report, Flow, ReadTrue, GoneTrue
  <2>3. ResultTrue'
    BY <1>5, <2>1, GivenStill DEF DeleteJob, report
  <2>. QED BY <1>2, <1>3, <2>1, <2>2, <2>3, TypesTogether DEF IInv
<1>. QED BY <1>4, <1>5 DEF DeleteJob

LEMMA WaitGoneKeeps == IInv /\ WaitGone => IInv'
<1>. SUFFICES ASSUME IInv, WaitGone PROVE IInv'
  OBVIOUS
<1>1. ClusterTypes' /\ JobTrue' /\ PodsTrue' /\ AnswerTrue' /\ TrackTypes' /\ TracksTrue'
  BY ClusterStill, MemoryStill DEF WaitGone, cluster
<1>2. RunTypes /\ Flow /\ JobTrue /\ GoneTrue /\ pc = "waitGone"
  BY TypesInParts DEF IInv, WaitGone, At
<1>3. RunTypes'
  BY <1>2 DEF WaitGone, poll, report, RunTypes
<1>4. Flow' /\ ReadTrue'
  BY <1>2 DEF WaitGone, report, Flow, ReadTrue
<1>5. GoneTrue'
  BY <1>2 DEF WaitGone, cluster, GoneTrue, JobTrue, NoJob
<1>6. ResultTrue'
  BY ResultStill DEF WaitGone, report
<1>. QED BY <1>1, <1>3, <1>4, <1>5, <1>6, TypesTogether DEF IInv

LEMMA RemoveScratchKeeps == IInv /\ RemoveScratch => IInv'
<1>. SUFFICES ASSUME IInv, RemoveScratch PROVE IInv'
  OBVIOUS
<1>1. ClusterTypes' /\ JobTrue' /\ PodsTrue' /\ AnswerTrue' /\ TrackTypes' /\ TracksTrue'
  BY ClusterStill, MemoryStill DEF RemoveScratch, cluster
<1>2. RunTypes /\ Flow /\ GoneTrue /\ pc = "rmdir"
  BY TypesInParts DEF IInv, RemoveScratch, At
<1>3. RunTypes'
  BY <1>2 DEF RemoveScratch, poll, RunTypes
<1>4. Flow' /\ ReadTrue'
  BY <1>2 DEF RemoveScratch, Flow, ReadTrue
<1>5. GoneTrue'
  BY <1>2 DEF RemoveScratch, cluster, GoneTrue, Excused, RunTypes
<1>6. ResultTrue'
  BY ResultStill DEF RemoveScratch
<1>. QED BY <1>1, <1>3, <1>4, <1>5, <1>6, TypesTogether DEF IInv

LEMMA DropKeeps == IInv /\ Drop => IInv'
<1>. SUFFICES ASSUME IInv, Drop PROVE IInv'
  OBVIOUS
<1>1. RunTypes /\ Flow /\ GoneTrue /\ pc = "drop"
  BY TypesInParts DEF IInv, Drop, At
<1>2. TrackTypes' /\ TracksTrue'
  BY MemoryStill DEF Drop
<1>3. /\ ClusterTypes' /\ JobTrue' /\ PodsTrue' /\ AnswerTrue'
      /\ job'.owner = job.owner /\ (~Managed => ~Managed')
  <2>1. CASE mayExist /\ Deleting
    BY <1>1, <2>1, DeleteKeeps DEF Drop
  <2>2. CASE UNCHANGED job
    BY <2>2, ClusterStill DEF Drop, cluster, Managed
  <2>. QED BY <2>1, <2>2 DEF Drop
<1>4. RunTypes'
  BY <1>1 DEF Drop, poll, report, RunTypes
<1>5. Flow' /\ ReadTrue'
  BY <1>1 DEF Drop, report, Flow, ReadTrue
<1>6. GoneTrue'
  <2>1. UNCHANGED <<answer, post, problem, cleanup>> /\ pc' = "done"
    BY DEF Drop, report
  <2>2. ~scratch => ~scratch'
    BY <1>1 DEF Drop, RunTypes
  <2>. QED BY <1>1, <1>3, <2>1, <2>2 DEF GoneTrue, Excused
<1>7. ResultTrue'
  BY <1>3, GivenStill DEF Drop, report
<1>. QED BY <1>2, <1>3, <1>4, <1>5, <1>6, <1>7, TypesTogether DEF IInv

LEMMA DieKeeps == IInv /\ Die => IInv'
<1>. SUFFICES ASSUME IInv, Die PROVE IInv'
  OBVIOUS
<1>1. ClusterTypes' /\ JobTrue' /\ PodsTrue' /\ AnswerTrue' /\ TrackTypes' /\ TracksTrue'
  BY ClusterStill, Left DEF Die, cluster
<1>2. RunTypes /\ Flow /\ GoneTrue
  BY TypesInParts DEF IInv
<1>3. RunTypes'
  BY <1>2, Left DEF Die, cluster, report, RunTypes
<1>4. Flow' /\ ReadTrue' /\ GoneTrue'
  BY DEF Die, Flow, ReadTrue, GoneTrue
<1>5. ResultTrue'
  BY ResultStill DEF Die, report
<1>. QED BY <1>1, <1>3, <1>4, <1>5, TypesTogether DEF IInv
-----------------------------------------------------------------------------
(* The theorems.                                                           *)

LEMMA Initially == Init => IInv
<1>. SUFFICES ASSUME Init PROVE IInv
  OBVIOUS
<1>1. pods = << >> /\ DOMAIN pods = {} /\ DOMAIN tracks = {} /\ Len(pods) = 0
  BY DEF Init, Idle
<1>2. RunTypes
  <2>1. seen \in [cond : Conds, count : 0..MaxPods] /\ errors \in 0..PollErrorBudget
    BY K8sAssumption DEF Init, Idle, Unread, Conds
  <2>. QED BY <2>1 DEF Init, RunTypes, Results
<1>3. TrackTypes /\ ClusterTypes
  BY <1>1, K8sAssumption DEF Init, NoJob, ForeignJob, TrackTypes, ClusterTypes, JobType, Conds
<1>4. Flow /\ AnswerTrue /\ ReadTrue /\ ResultTrue /\ GoneTrue
  BY <1>1 DEF Init, NoJob, ForeignJob, Flow, AnswerTrue, ReadTrue, ResultTrue, GoneTrue
<1>5. JobTrue /\ PodsTrue /\ TracksTrue
  BY <1>1 DEF Init, NoJob, ForeignJob, JobTrue, PodsTrue, TracksTrue
<1>. QED BY <1>2, <1>3, <1>4, <1>5, TypesInParts DEF IInv

LEMMA Inductive == IInv /\ [Next]_vars => IInv'
<1>1. IInv /\ Run => IInv'
  BY ImageGateKeeps, PrepareScratchKeeps, CreatedKeeps, CreateRefusedKeeps,
     CreateServerErrorKeeps, CreateLostKeeps, GetJobKeeps, ListPodsKeeps, PollFailsKeeps,
     ReadOutputsKeeps, DeleteJobKeeps, WaitGoneKeeps, RemoveScratchKeeps, DropKeeps, DieKeeps
     DEF Run
<1>2. IInv /\ (Controllers \/ StartPod \/ KubeletRuns \/ KubeletEnds \/ LatePost \/ Meddle \/ Tick)
        => IInv'
  BY CountMoves, FinishMoves, DeadlineMoves, TtlMoves, GoesMoves, LateMoves, TickMoves,
     PodStepsMove, MeddleMoves, MovedKeeps DEF Controllers
<1>3. IInv /\ UNCHANGED vars => IInv'
  <2>. SUFFICES ASSUME IInv, UNCHANGED vars PROVE IInv'
    OBVIOUS
  <2>1. Moved
    BY SameEvolves, TypesInParts DEF IInv, vars, cluster, Moved, ClusterTypes, JobTrue, AnswerTrue,
      exec, Managed
  <2>. QED BY <2>1, MovedKeeps
<1>. QED BY <1>1, <1>2, <1>3 DEF Next

THEOREM InvariantHolds == Spec => []IInv
BY Initially, Inductive, PTL DEF Spec

\* Every variable keeps its type, for any number of pods, deletions and errors.
THEOREM TypeCorrect == Spec => []TypeOK
<1>1. IInv => TypeOK
  BY DEF IInv
<1>. QED BY <1>1, InvariantHolds, PTL

\* The report tells what happened on the cluster (k8s/mod.rs, status.rs).
THEOREM ReportTellsTruth == Spec => []OutcomeTrue
<1>1. IInv => OutcomeTrue
  BY DEF IInv, ResultTrue, OutcomeTrue, Succeeded, Ended
<1>. QED BY <1>1, InvariantHolds, PTL

\* A cleanup that is reported as clean left nothing behind (RunGuard).
THEOREM CleanMeansGone == Spec => []GoneWhenClean
<1>1. IInv => GoneWhenClean
  BY DEF IInv, GoneTrue, GoneWhenClean, At, JobTrue
<1>. QED BY <1>1, InvariantHolds, PTL

\* The Job of somebody else under the run's name is left alone.
THEOREM OthersLeftAlone == Spec => ForeignJobKept
<1>1. IInv /\ [Next]_vars => [job.owner = "others" /\ job' # job => answer = "lost"]_vars
  <2>. SUFFICES ASSUME IInv, Next, job.owner = "others", job' # job PROVE answer = "lost"
    BY DEF ForeignJobKept
  <2>1. /\ job.st # "absent" /\ answer \notin {"created", "badReply"}
        /\ (job.st = "deleting" => answer = "lost")
        /\ (mayExist => pc = "create" \/ answer \in {"created", "badReply", "lost"})
    BY DEF IInv, JobTrue, AnswerTrue, Flow, NoJob
  <2>2. CASE Run
    BY <2>1, <2>2 DEF Run, ImageGate, PrepareScratch, Created, CreateRefused, CreateServerError,
      CreateLost, GetJob, ListPods, PollFails, ReadOutputs, DeleteJob, WaitGone, RemoveScratch,
      Drop, Die, Lands, Unsettled, At, cluster
  <2>3. CASE Controllers \/ StartPod \/ KubeletRuns \/ KubeletEnds \/ LatePost \/ Meddle \/ Tick
    BY <2>1, <2>3 DEF Controllers, CountPods, FinishJob, Deadline, Ttl, DeletePods, PodGoes, JobGoes,
      StartPod, KubeletRuns, KubeletEnds, PodMoves, LatePost, Meddle, Tick, Managed, Lands, cluster
  <2>. QED BY <2>2, <2>3 DEF Next
<1>. QED BY <1>1, InvariantHolds, PTL DEF Spec, ForeignJobKept
=============================================================================
