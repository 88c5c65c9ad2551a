----------------------------- MODULE StudyWrite -----------------------------
(***************************************************************************)
(* One study written to ClickHouse and to a file store by several runs of  *)
(* av-sweep: the coordinator of crates/av-sweep/src/study_write.rs         *)
(* (check_plan, write_study) over the two stores' prepare, commit and      *)
(* abort (store.rs, clickhouse/mod.rs).                                    *)
(*                                                                         *)
(* Nothing serializes the runs.  ClickHouse has no transactions: a study   *)
(* is visible through its header row, which the server stamps with         *)
(* created_at when the insert begins and shows when it ends; readers take  *)
(* the smallest (created_at, write_id).  A file study is a directory that  *)
(* a rename publishes.  Every read of a store and every write is a step;   *)
(* a run may be killed between two of them.                                *)
(*                                                                         *)
(* The runs write one sweep_id; a study is its content.                    *)
(***************************************************************************)
EXTENDS Naturals, Sequences, FiniteSets

CONSTANTS
  Run,        \* runs of av-sweep with both stores configured
  Contents,   \* contents a study of this sweep_id may have
  None,       \* no study
  MaxFaults,  \* bound: I/O errors, lost replies, failed inserts
  MaxKills,   \* bound: runs killed
  MaxLate     \* bound: header inserts whose client gives up before they show

\* Whose study: a run of this model, or one from before it.
Earlier == "earlier"

ASSUME StudyAssumption ==
  /\ None \notin Contents /\ None # Earlier
  /\ None \notin Run /\ Earlier \notin Run
  /\ MaxFaults \in Nat /\ MaxKills \in Nat /\ MaxLate \in Nat

VARIABLES
  pc,        \* where each run is
  content,   \* the study each run writes
  prepared,  \* what each run's prepare found or staged, per store
  outcome,   \* what each run's write_study returned
  stamped,   \* header rows in (created_at, write_id) order, shown or not
  shown,     \* the header rows a reader sees
  dir,       \* whose study the directory of the sweep_id holds
  stages,    \* runs whose .incoming-* directory is on disk
  before,    \* history: what the two stores held at the start
  faulted,   \* history: runs that met a fault of their own
  gaveUp,    \* history: runs that gave up on a header insert before it showed
  bound      \* what is left of the bounds

run == <<pc, content, prepared, outcome>>
clickhouse == <<stamped, shown>>
history == <<before, faulted, gaveUp>>
vars == <<run, clickhouse, dir, stages, history, bound>>

Outcomes == {"none", "ok", "PlanRefused", "PrepareFailed", "CommitFailed",
             "CommitOutcomeUnknown", "PartialCommit", "killed"}
Steps == {"idle", "planClickHouse", "planFile", "prepareClickHouse", "prepareFile",
          "commitClickHouse", "inserting", "reread", "commitFile", "settle", "returned"}
Prepared == [ch : {"none", "existing", "staged"}, file : {"none", "existing", "staged"}]
Unprepared == [ch |-> "none", file |-> "none"]

\* The study a header row or the directory stands for.
ContentOf(h) ==
  CASE h = None -> None
    [] h = Earlier -> (IF before.ch = None THEN before.file ELSE before.ch)
    [] OTHER -> content[h]

\* ClickHouseStudyStore::winning_header: the smallest (created_at, write_id).
Stamped == {stamped[i] : i \in DOMAIN stamped}
Showing == {i \in DOMAIN stamped : stamped[i] \in shown}
WinningHeader ==
  IF Showing = {} THEN None
  ELSE stamped[CHOOSE i \in Showing : \A j \in Showing : i <= j]
Winner == ContentOf(WinningHeader)

\* FileStudyStore::read_study.
file == ContentOf(dir)
-----------------------------------------------------------------------------
TypeOK ==
  /\ pc \in [Run -> Steps]
  /\ content \in [Run -> Contents \cup {None}]
  /\ prepared \in [Run -> Prepared]
  /\ outcome \in [Run -> Outcomes]
  /\ stamped \in Seq(Run \cup {Earlier})
  /\ \A i, j \in DOMAIN stamped : stamped[i] = stamped[j] => i = j
  /\ shown \subseteq Stamped
  /\ dir \in Run \cup {Earlier, None}
  /\ stages \subseteq Run
  /\ before \in [ch : Contents \cup {None}, file : Contents \cup {None}]
  /\ faulted \subseteq Run
  /\ gaveUp \subseteq faulted
  /\ bound \in [faults : 0..MaxFaults, kills : 0..MaxKills]

\* Either store may hold the study already; the two agree where both do.
Init ==
  /\ pc = [r \in Run |-> "idle"] /\ content = [r \in Run |-> None]
  /\ prepared = [r \in Run |-> Unprepared] /\ outcome = [r \in Run |-> "none"]
  /\ \E c \in Contents : before \in [ch : {None, c}, file : {None, c}]
  /\ dir = (IF before.file = None THEN None ELSE Earlier)
  /\ stamped = (IF before.ch = None THEN << >> ELSE <<Earlier>>)
  /\ shown = (IF before.ch = None THEN {} ELSE {Earlier})
  /\ stages = {} /\ faulted = {} /\ gaveUp = {}
  /\ bound = [faults |-> MaxFaults, kills |-> MaxKills]

(***************************************************************************)
(* Steps of a run.                                                         *)
(***************************************************************************)
At(r, step) == pc[r] = step
Go(r, step) == pc' = [pc EXCEPT ![r] = step] /\ UNCHANGED outcome
Return(r, o) ==
  /\ pc' = [pc EXCEPT ![r] = "returned"]
  /\ outcome' = [outcome EXCEPT ![r] = o]

Smooth == UNCHANGED <<faulted, gaveUp, bound>>
Fault(r) ==
  /\ bound.faults > 0
  /\ bound' = [bound EXCEPT !.faults = @ - 1]
  /\ faulted' = faulted \cup {r} /\ UNCHANGED gaveUp

\* abort_all of the file stage; a stage that cannot be removed stays.
AbortStage(r) ==
  \/ stages' = stages \ {r} /\ Smooth
  \/ r \in stages /\ Fault(r) /\ UNCHANGED stages

Start(r, c) ==
  /\ At(r, "idle")
  /\ content' = [content EXCEPT ![r] = c]
  /\ Go(r, "planClickHouse")
  /\ UNCHANGED <<prepared, clickhouse, dir, stages, before>> /\ Smooth

\* check_plan: a store whose study the plan cannot reproduce refuses.  The plan
\* of an import is the content; a study's plan may not tell its results yet.
CheckPlan(r, step, existing, next) ==
  /\ At(r, step)
  /\ \/ Go(r, next) /\ Smooth
     \/ existing \notin {None, content[r]} /\ Return(r, "PlanRefused") /\ Smooth
     \/ Fault(r) /\ Return(r, "PlanRefused")
  /\ UNCHANGED <<content, prepared, clickhouse, dir, stages, before>>

PlanClickHouse(r) == CheckPlan(r, "planClickHouse", Winner, "planFile")
PlanFile(r) == CheckPlan(r, "planFile", file, "prepareClickHouse")

\* Its rows without a header are invisible: only the decision is state.
PrepareClickHouse(r) ==
  /\ At(r, "prepareClickHouse")
  /\ \/ /\ Winner \in {None, content[r]}
        /\ prepared' = [prepared EXCEPT ![r].ch = IF Winner = None THEN "staged" ELSE "existing"]
        /\ Go(r, "prepareFile") /\ Smooth
     \/ /\ Winner \notin {None, content[r]}
        /\ Return(r, "PrepareFailed") /\ UNCHANGED prepared /\ Smooth
     \/ Fault(r) /\ Return(r, "PrepareFailed") /\ UNCHANGED prepared
  /\ UNCHANGED <<content, clickhouse, dir, stages, before>>

PrepareFile(r) ==
  /\ At(r, "prepareFile")
  /\ \/ /\ file = None
        /\ prepared' = [prepared EXCEPT ![r].file = "staged"]
        /\ stages' = stages \cup {r}
        /\ Go(r, "commitClickHouse") /\ Smooth
     \/ /\ file = content[r]
        /\ prepared' = [prepared EXCEPT ![r].file = "existing"]
        /\ Go(r, "commitClickHouse") /\ Smooth /\ UNCHANGED stages
     \/ /\ file \notin {None, content[r]}
        /\ Return(r, "PrepareFailed") /\ Smooth /\ UNCHANGED <<prepared, stages>>
     \/ Fault(r) /\ Return(r, "PrepareFailed") /\ UNCHANGED <<prepared, stages>>
  /\ UNCHANGED <<content, clickhouse, dir, before>>

InsertHeaderRetried(r) ==   \* bug: a failed insert is sent again
  /\ At(r, "commitClickHouse")
  /\ \/ /\ prepared[r].ch = "existing"
        /\ Go(r, "commitFile") /\ Smooth /\ UNCHANGED stamped
     \/ /\ prepared[r].ch = "staged"
        /\ stamped' \in {Append(stamped, r), stamped \o <<r, r>>}
        /\ Go(r, "inserting") /\ Smooth
  /\ UNCHANGED <<content, prepared, shown, dir, stages, before>>

\* ClickHouse's commit: the server takes the header and stamps it, or refuses.
InsertHeader(r) ==
  /\ At(r, "commitClickHouse")
  /\ \/ /\ prepared[r].ch = "existing"
        /\ Go(r, "commitFile") /\ Smooth /\ UNCHANGED stamped
     \/ /\ prepared[r].ch = "staged"
        /\ stamped' = Append(stamped, r)
        /\ Go(r, "inserting") /\ Smooth
     \/ /\ prepared[r].ch = "staged"
        /\ Fault(r) /\ Go(r, "reread") /\ UNCHANGED stamped
  /\ UNCHANGED <<content, prepared, shown, dir, stages, before>>

\* The row shows and the client is answered, or its answer is lost: the re-read
\* judges both alike.
HeaderShows(r) ==
  /\ At(r, "inserting")
  /\ shown' = shown \cup {r}
  /\ Go(r, "reread")
  /\ Smooth \/ Fault(r)
  /\ UNCHANGED <<content, prepared, stamped, dir, stages, before>>

\* The client gives up on an insert that the server still works on.
GiveUp(r) ==
  /\ At(r, "inserting")
  /\ Cardinality(gaveUp) < MaxLate
  /\ faulted' = faulted \cup {r} /\ gaveUp' = gaveUp \cup {r}
  /\ Go(r, "reread")
  /\ UNCHANGED <<content, prepared, clickhouse, dir, stages, before, bound>>

HeaderShowsLate(r) ==
  /\ r \in Stamped \ shown
  /\ ~At(r, "inserting")
  /\ shown' = shown \cup {r}
  /\ UNCHANGED <<run, stamped, dir, stages, before>> /\ Smooth

\* The re-read of the winner, three attempts, decides the commit; when it fails
\* the file stage is aborted.
CommitsOn(r) == Winner = content[r]
RereadWinnerUnasked(r) ==   \* bug: a re-read that fails is taken for no header of ours
  /\ At(r, "reread")
  /\ \/ CommitsOn(r) /\ Go(r, "commitFile") /\ UNCHANGED stages /\ Smooth
     \/ ~CommitsOn(r) /\ Return(r, "CommitFailed") /\ AbortStage(r)
     \/ Fault(r) /\ Return(r, "CommitFailed") /\ stages' = stages \ {r}
  /\ UNCHANGED <<content, prepared, clickhouse, dir, before>>

RereadWinner(r) ==
  /\ At(r, "reread")
  /\ \/ CommitsOn(r) /\ Go(r, "commitFile") /\ UNCHANGED stages /\ Smooth
     \/ ~CommitsOn(r) /\ Return(r, "CommitFailed") /\ AbortStage(r)
     \/ Fault(r) /\ Return(r, "CommitOutcomeUnknown") /\ stages' \in {stages, stages \ {r}}
  /\ UNCHANGED <<content, prepared, clickhouse, dir, before>>

FileCommitErrorPlain(r) ==   \* bug: what ClickHouse did is not looked at
  IF prepared[r].ch = "none" THEN "PartialCommit" ELSE "CommitFailed"

\* write_study's error for a file store that cannot commit.
FileCommitError(r) ==
  IF prepared[r].ch = "staged" THEN "PartialCommit" ELSE "CommitFailed"

\* The rename publishes the stage; onto a study it fails, the stage is removed.
Rename(r) ==
  /\ At(r, "commitFile") /\ prepared[r].file = "staged"
  /\ \/ /\ file = None
        /\ dir' = r /\ Return(r, "ok") /\ Smooth
        /\ stages' = stages \ {r}
     \/ /\ file # None
        /\ Go(r, "settle") /\ UNCHANGED dir /\ AbortStage(r)
     \/ /\ Fault(r) /\ Go(r, "settle") /\ UNCHANGED dir
        /\ stages' \in {stages, stages \ {r}}
  /\ UNCHANGED <<content, prepared, clickhouse, before>>

FileExisted(r) ==
  /\ At(r, "commitFile") /\ prepared[r].file = "existing"
  /\ Return(r, "ok")
  /\ UNCHANGED <<content, prepared, clickhouse, dir, stages, before>> /\ Smooth

SettleRenameTrusts(r) ==   \* bug: any study there is taken for ours
  /\ At(r, "settle")
  /\ \/ file # None /\ Return(r, "ok") /\ Smooth
     \/ file = None /\ Return(r, FileCommitError(r)) /\ Smooth
     \/ Fault(r) /\ Return(r, FileCommitError(r))
  /\ UNCHANGED <<content, prepared, clickhouse, dir, stages, before>>

SettleRenameNever(r) ==   \* bug: a failed rename is an error, whatever is there
  /\ At(r, "settle")
  /\ Return(r, FileCommitError(r)) /\ Smooth
  /\ UNCHANGED <<content, prepared, clickhouse, dir, stages, before>>

\* settle_failed_rename: an identical study there is a success.
SettleRename(r) ==
  /\ At(r, "settle")
  /\ \/ file = content[r] /\ Return(r, "ok") /\ Smooth
     \/ file # content[r] /\ Return(r, FileCommitError(r)) /\ Smooth
     \/ Fault(r) /\ Return(r, FileCommitError(r))
  /\ UNCHANGED <<content, prepared, clickhouse, dir, stages, before>>

Kill(r) ==
  /\ bound.kills > 0 /\ pc[r] \notin {"idle", "returned"}
  /\ bound' = [bound EXCEPT !.kills = @ - 1]
  /\ faulted' = faulted \cup {r} /\ UNCHANGED gaveUp
  /\ Return(r, "killed")
  /\ stages' \in {stages} \cup (IF At(r, "prepareFile") THEN {stages \cup {r}} ELSE {})
  /\ UNCHANGED <<content, prepared, clickhouse, dir, before>>

Next ==
  \E r \in Run :
    \/ \E c \in Contents : Start(r, c)
    \/ PlanClickHouse(r) \/ PlanFile(r)
    \/ PrepareClickHouse(r) \/ PrepareFile(r)
    \/ InsertHeader(r) \/ HeaderShows(r) \/ GiveUp(r) \/ HeaderShowsLate(r)
    \/ RereadWinner(r) \/ Rename(r) \/ FileExisted(r) \/ SettleRename(r)
    \/ Kill(r)

Spec == Init /\ [][Next]_vars
-----------------------------------------------------------------------------
Quiet == \A r \in Run : pc[r] \in {"idle", "returned"}

\* What a run says when it returns an error without a repair stays true: readers
\* find none of its work in either store (study_write.rs, the errors' texts and
\* the outcome table).  RefusalsHold fails (README, known divergences).
Refused(r) == outcome[r] \in {"PlanRefused", "PrepareFailed", "CommitFailed"}
Invisible(r) == WinningHeader # r /\ dir # r
RefusalsHold == \A r \in Run : Refused(r) => Invisible(r)

\* The same of every run that did not give up on a header insert the server
\* still worked on: a lost reply, a lost race, a failed abort or a failed insert
\* leaves nothing a reader sees.
RefusalIsClean == \A r \in Run \ gaveUp : Refused(r) => Invisible(r)

\* A run that returns Ok left its study in both stores, under its own content:
\* the directory holds it and ClickHouse shows a header with it, whatever other
\* runs do (write_study: ClickHouse commits before the file store).
SuccessInBothStores ==
  \A r \in Run : outcome[r] = "ok" =>
    file = content[r] /\ \E h \in shown : ContentOf(h) = content[r]

\* No silent disagreement: with no run in progress, stores that differ differed
\* before, or some run was killed or returned one of the two errors that name
\* the repair (StudyWriteError::needs_repair).
NeedsRepair == {"CommitOutcomeUnknown", "PartialCommit", "killed"}
DisagreementNamed ==
  Quiet /\ Winner # file =>
    \/ [ch |-> Winner, file |-> file] = before
    \/ \E r \in Run : outcome[r] \in NeedsRepair \/ r \in gaveUp

\* The documented repair: while one content is about, a run that meets no fault
\* of its own never fails, whatever killed or failed runs left behind.
Alone(r) == \A c \in {content[q] : q \in Run} \cup {before.ch, before.file} : c \in {None, content[r]}
RepairConverges ==
  \A r \in Run : r \notin faulted /\ Alone(r) => outcome[r] \in {"none", "ok"}

\* The study directory, once it is there, is never replaced.
FileStudyKept == [][dir # None => dir' = dir]_vars

=============================================================================
