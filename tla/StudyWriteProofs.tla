-------------------------- MODULE StudyWriteProofs --------------------------
(***************************************************************************)
(* What a run of av-sweep tells of its study write, for any number of      *)
(* runs, contents, faults, kills and late header inserts: a success is in  *)
(* both stores, a refusal leaves nothing a reader sees, a published        *)
(* directory is never replaced, stores that differ were told of, and       *)
(* writing the study again repairs them.                                   *)
(***************************************************************************)
EXTENDS StudyWrite, WellFoundedInduction, TLAPS

\* A study from before the runs has a content.
Opening ==
  /\ dir = Earlier => before.file # None
  /\ Earlier \in shown => before.ch # None

InClickHouse(r) == \E h \in shown : ContentOf(h) = content[r]

\* A run that has not started owns nothing, one that has writes a content; the
\* outcome is known exactly when the run has returned, and the directory is
\* that of a run which returned Ok.
Lifecycle ==
  \A r \in Run :
    /\ pc[r] = "idle" => r \notin Stamped
    /\ pc[r] # "idle" => content[r] \in Contents
    /\ outcome[r] = "none" <=> pc[r] # "returned"
    /\ dir = r => outcome[r] = "ok"

\* The file store is committed after ClickHouse is known to hold the content.
ClickHouseFirst ==
  \A r \in Run :
    /\ pc[r] \in {"prepareFile", "commitClickHouse"} /\ prepared[r].ch = "existing"
         => InClickHouse(r)
    /\ pc[r] \in {"commitFile", "settle"} \/ outcome[r] = "ok" => InClickHouse(r)

\* What prepare found in the file store is still there, and a success is there.
FileHolds ==
  \A r \in Run :
    /\ prepared[r].file = "existing" \/ outcome[r] = "ok"
         => pc[r] # "idle" /\ file = content[r]

\* A header row belongs to a run that staged its rows and got so far.
HeaderOwner ==
  \A r \in Run :
    /\ pc[r] = "inserting" => r \in Stamped
    /\ r \in Stamped =>
         /\ prepared[r].ch = "staged"
         /\ pc[r] \in {"inserting", "reread", "commitFile", "settle", "returned"}
         /\ pc[r] = "reread" => r \in shown \cup gaveUp

\* A row that can never win: one before it is shown.
Beaten(r) ==
  \E i, j \in DOMAIN stamped : i < j /\ stamped[j] = r /\ stamped[i] \in shown

RefusedBeaten ==
  \A r \in Run \ gaveUp : Refused(r) => r \notin Stamped \/ Beaten(r)

IInv ==
  TypeOK /\ Opening /\ Lifecycle /\ ClickHouseFirst /\ FileHolds /\ HeaderOwner /\ RefusedBeaten

-----------------------------------------------------------------------------
(* The winning header.                                                       *)

\* The winner is a header a reader sees.
LEMMA WinnerShown ==
  ASSUME TypeOK, Showing # {}
  PROVE  \E i \in Showing : WinningHeader = stamped[i] /\ \A j \in Showing : i <= j
<1>1. Showing \in SUBSET Nat
  BY DEF TypeOK, Showing
<1>. DEFINE Less == OpToRel(<, Nat)
<1>2. PICK i \in Showing : \A j \in Showing : <<j, i>> \notin Less
  BY <1>1, WFMin, NatLessThanWellFounded
<1>3. \A j, n \in Nat : j < n => <<j, n>> \in Less
  BY DEF OpToRel
<1>. HIDE DEF Less
<1>4. \A j \in Showing : j \in Nat /\ i \in Nat /\ ~(j < i)
  BY <1>1, <1>2, <1>3
<1>5. \A j \in Showing : i <= j
  BY <1>4
<1>. QED BY <1>5 DEF WinningHeader

\* A content that wins is that of a header which shows.
LEMMA WinnerInClickHouse ==
  ASSUME TypeOK, Winner # None
  PROVE  \E h \in shown : ContentOf(h) = Winner
<1>1. Showing # {}
  <2>1. ContentOf(None) = None
    BY StudyAssumption DEF ContentOf
  <2>2. WinningHeader # None
    BY <2>1 DEF Winner
  <2>. QED BY <2>2 DEF WinningHeader
<1>. QED BY <1>1, WinnerShown DEF Winner, Showing

\* A run whose row is not in front does not win.
LEMMA BeatenLoses ==
  ASSUME TypeOK, NEW r \in Run, r \notin Stamped \/ Beaten(r)
  PROVE  WinningHeader # r
<1>1. CASE Showing = {}
  BY <1>1, StudyAssumption DEF WinningHeader
<1>2. CASE Showing # {}
  <2>1. PICK i \in Showing : WinningHeader = stamped[i] /\ \A j \in Showing : i <= j
    BY <1>2, WinnerShown
  <2>2. CASE r \notin Stamped
    BY <2>1, <2>2 DEF Showing, Stamped
  <2>3. CASE Beaten(r)
    <3>1. PICK k, j \in DOMAIN stamped : k < j /\ stamped[j] = r /\ stamped[k] \in shown
      BY <2>3 DEF Beaten
    <3>2. i <= k /\ i \in Nat /\ k \in Nat /\ j \in Nat
      BY <2>1, <3>1 DEF Showing, TypeOK
    <3>3. stamped[i] # stamped[j]
      BY <2>1, <3>1, <3>2 DEF TypeOK, Showing
    <3>. QED BY <2>1, <3>1, <3>3
  <2>. QED BY <2>2, <2>3
<1>. QED BY <1>1, <1>2

\* And one whose row shows while another wins is beaten.
LEMMA LoserBeaten ==
  ASSUME TypeOK, NEW r \in shown, WinningHeader # r
  PROVE  Beaten(r)
<1>1. PICK j \in Showing : stamped[j] = r
  BY DEF TypeOK, Showing, Stamped
<1>2. PICK i \in Showing : WinningHeader = stamped[i] /\ \A k \in Showing : i <= k
  BY <1>1, WinnerShown
<1>3. i \in Nat /\ j \in Nat /\ i # j /\ i <= j
  BY <1>1, <1>2 DEF Showing, TypeOK
<1>. QED BY <1>1, <1>2, <1>3 DEF Beaten, Showing

\* Once a run writes its content, what a header or the directory stands for
\* does not change.
LEMMA ContentsKept ==
  ASSUME UNCHANGED content, UNCHANGED before, NEW h
  PROVE  ContentOf(h)' = ContentOf(h)
BY DEF ContentOf

\* TypeOK in parts: the runs, the stores, the accounts.
RunTypes ==
  /\ pc \in [Run -> Steps]
  /\ content \in [Run -> Contents \cup {None}]
  /\ prepared \in [Run -> Prepared]
  /\ outcome \in [Run -> Outcomes]

StoreTypes ==
  /\ stamped \in Seq(Run \cup {Earlier})
  /\ \A i, j \in DOMAIN stamped : stamped[i] = stamped[j] => i = j
  /\ shown \subseteq Stamped
  /\ dir \in Run \cup {Earlier, None}
  /\ stages \subseteq Run
  /\ before \in [ch : Contents \cup {None}, file : Contents \cup {None}]

\* The accounts of faults stay in their types, whether or not a step met one.
Accounts ==
  /\ faulted \subseteq Run
  /\ gaveUp \subseteq faulted
  /\ bound \in [faults : 0..MaxFaults, kills : 0..MaxKills]

LEMMA AccountsKept ==
  ASSUME TypeOK, NEW r \in Run, Smooth \/ Fault(r)
  PROVE  Accounts' /\ gaveUp' = gaveUp
<1>1. CASE Smooth
  BY <1>1 DEF Smooth, Accounts, TypeOK
<1>2. CASE Fault(r)
  <2>1. bound.faults - 1 \in 0..MaxFaults
    BY <1>2, StudyAssumption DEF Fault, TypeOK
  <2>. QED BY <1>2, <2>1 DEF Fault, Accounts, TypeOK
<1>. QED BY <1>1, <1>2

\* A new header row goes behind the others.
LEMMA StampedAppended ==
  ASSUME TypeOK, NEW r \in Run, stamped' = Append(stamped, r)
  PROVE  /\ stamped' \in Seq(Run \cup {Earlier}) /\ Stamped' = Stamped \cup {r}
         /\ Len(stamped') = Len(stamped) + 1 /\ stamped'[Len(stamped) + 1] = r
         /\ \A i \in DOMAIN stamped : i \in DOMAIN stamped' /\ stamped'[i] = stamped[i]
         /\ \A i \in DOMAIN stamped' : i \in DOMAIN stamped \/ stamped'[i] = r
<1>1. stamped \in Seq(Run \cup {Earlier})
  BY DEF TypeOK
<1>2. /\ stamped' \in Seq(Run \cup {Earlier})
      /\ DOMAIN stamped = 1..Len(stamped) /\ Len(stamped) \in Nat
      /\ Len(stamped') = Len(stamped) + 1 /\ DOMAIN stamped' = 1..(Len(stamped) + 1)
      /\ stamped'[Len(stamped) + 1] = r
      /\ \A i \in 1..Len(stamped) : stamped'[i] = stamped[i]
  BY <1>1
<1>3. /\ \A i \in DOMAIN stamped : i \in DOMAIN stamped' /\ stamped'[i] = stamped[i]
      /\ \A i \in DOMAIN stamped' : i \in DOMAIN stamped \/ stamped'[i] = r
  BY <1>2
<1>4. Stamped' = Stamped \cup {r}
  <2>1. Len(stamped) + 1 \in DOMAIN stamped'
    BY <1>2
  <2>. QED BY <1>2, <1>3, <2>1 DEF Stamped
<1>. QED BY <1>2, <1>3, <1>4

\* Every step keeps the invariant.
LEMMA Inductive == IInv /\ [Next]_vars => IInv'
<1>. SUFFICES ASSUME IInv, [Next]_vars PROVE IInv'
  OBVIOUS
<1>. USE StudyAssumption DEF IInv
<1>1. ASSUME NEW r \in Run, NEW c \in Contents, Start(r, c) PROVE IInv'
  <2>0. \A h \in shown \cup {dir} : ContentOf(h)' = ContentOf(h)
    BY <1>1 DEF Start, At, Lifecycle, TypeOK, ContentOf
  <2>1. TypeOK'
    BY <1>1 DEF Start, At, Go, Return, Smooth, Fault, AbortStage, CheckPlan, run,
      clickhouse, TypeOK, Steps, Prepared, Outcomes, Stamped
  <2>2. Opening'
    BY <1>1 DEF Start, At, Go, Return, Smooth, Fault, AbortStage, CheckPlan, run,
      clickhouse, Opening
  <2>3. Lifecycle'
    BY <1>1 DEF Start, At, Go, Return, Smooth, Fault, AbortStage, CheckPlan, run,
      clickhouse, Lifecycle, TypeOK, Stamped
  <2>4. ClickHouseFirst'
    <3>1. \A q \in Run \ {r} : pc'[q] = pc[q] /\ (InClickHouse(q) => InClickHouse(q)')
      BY <1>1, <2>0 DEF Start, Go, clickhouse, TypeOK, InClickHouse
    <3>2. pc'[r] = "planClickHouse" /\ outcome'[r] # "ok" /\ UNCHANGED <<outcome, prepared>>
      BY <1>1 DEF Start, At, Go, TypeOK, Lifecycle
    <3>. QED BY <3>1, <3>2 DEF ClickHouseFirst
  <2>5. FileHolds'
    BY <1>1, <2>0 DEF Start, At, Go, Return, Smooth, Fault, AbortStage, CheckPlan, run,
      clickhouse, FileHolds, TypeOK, Prepared, file, Lifecycle
  <2>6. HeaderOwner'
    BY <1>1 DEF Start, At, Go, Return, Smooth, Fault, AbortStage, CheckPlan, run,
      clickhouse, HeaderOwner, TypeOK, Prepared, Stamped
  <2>7. RefusedBeaten'
    BY <1>1 DEF Start, At, Go, Return, Smooth, Fault, AbortStage, CheckPlan, run,
      clickhouse, RefusedBeaten, Refused, Beaten, Stamped, TypeOK, HeaderOwner, Lifecycle
  <2>. QED BY <2>1, <2>2, <2>3, <2>4, <2>5, <2>6, <2>7
<1>2. ASSUME NEW r \in Run, PlanClickHouse(r) PROVE IInv'
  <2>1. TypeOK'
    <3>1. Accounts' /\ gaveUp' = gaveUp
      BY <1>2, AccountsKept DEF PlanClickHouse, CheckPlan
    <3>2. RunTypes'
      BY <1>2 DEF PlanClickHouse, CheckPlan, Go, Return, TypeOK, RunTypes, Steps, Outcomes
    <3>3. StoreTypes'
      BY <1>2 DEF PlanClickHouse, CheckPlan, clickhouse, At, HeaderOwner, TypeOK, StoreTypes, Stamped
    <3>. QED BY <3>1, <3>2, <3>3 DEF Accounts, RunTypes, StoreTypes, TypeOK
  <2>2. Opening'
    BY <1>2 DEF PlanClickHouse, At, Go, Return, Smooth, Fault, AbortStage, CheckPlan,
      run, clickhouse, Opening
  <2>3. Lifecycle'
    BY <1>2 DEF PlanClickHouse, At, Go, Return, Smooth, Fault, AbortStage, CheckPlan,
      run, clickhouse, Lifecycle, TypeOK, Stamped
  <2>4. ClickHouseFirst'
    BY <1>2, ContentsKept DEF PlanClickHouse, At, Go, Return, Smooth, Fault, AbortStage,
      CheckPlan, run, clickhouse, ClickHouseFirst, InClickHouse, TypeOK, Prepared
  <2>5. FileHolds'
    BY <1>2, ContentsKept DEF PlanClickHouse, At, Go, Return, Smooth, Fault, AbortStage,
      CheckPlan, run, clickhouse, FileHolds, TypeOK, Prepared, file, Lifecycle
  <2>6. HeaderOwner'
    BY <1>2 DEF PlanClickHouse, At, Go, Return, Smooth, Fault, AbortStage, CheckPlan,
      run, clickhouse, HeaderOwner, TypeOK, Prepared, Stamped
  <2>7. RefusedBeaten'
    BY <1>2 DEF PlanClickHouse, At, Go, Return, Smooth, Fault, AbortStage, CheckPlan,
      run, clickhouse, RefusedBeaten, Refused, Beaten, Stamped, TypeOK, HeaderOwner,
        Lifecycle
  <2>. QED BY <2>1, <2>2, <2>3, <2>4, <2>5, <2>6, <2>7
<1>3. ASSUME NEW r \in Run, PlanFile(r) PROVE IInv'
  <2>1. TypeOK'
    <3>1. Accounts' /\ gaveUp' = gaveUp
      BY <1>3, AccountsKept DEF PlanFile, CheckPlan
    <3>2. RunTypes'
      BY <1>3 DEF PlanFile, CheckPlan, Go, Return, TypeOK, RunTypes, Steps, Outcomes
    <3>3. StoreTypes'
      BY <1>3 DEF PlanFile, CheckPlan, clickhouse, At, HeaderOwner, TypeOK, StoreTypes, Stamped
    <3>. QED BY <3>1, <3>2, <3>3 DEF Accounts, RunTypes, StoreTypes, TypeOK
  <2>2. Opening'
    BY <1>3 DEF PlanFile, At, Go, Return, Smooth, Fault, AbortStage, CheckPlan, run,
      clickhouse, Opening
  <2>3. Lifecycle'
    BY <1>3 DEF PlanFile, At, Go, Return, Smooth, Fault, AbortStage, CheckPlan, run,
      clickhouse, Lifecycle, TypeOK, Stamped
  <2>4. ClickHouseFirst'
    BY <1>3, ContentsKept DEF PlanFile, At, Go, Return, Smooth, Fault, AbortStage,
      CheckPlan, run, clickhouse, ClickHouseFirst, InClickHouse, TypeOK, Prepared
  <2>5. FileHolds'
    BY <1>3, ContentsKept DEF PlanFile, At, Go, Return, Smooth, Fault, AbortStage,
      CheckPlan, run, clickhouse, FileHolds, TypeOK, Prepared, file, Lifecycle
  <2>6. HeaderOwner'
    BY <1>3 DEF PlanFile, At, Go, Return, Smooth, Fault, AbortStage, CheckPlan, run,
      clickhouse, HeaderOwner, TypeOK, Prepared, Stamped
  <2>7. RefusedBeaten'
    BY <1>3 DEF PlanFile, At, Go, Return, Smooth, Fault, AbortStage, CheckPlan, run,
      clickhouse, RefusedBeaten, Refused, Beaten, Stamped, TypeOK, HeaderOwner, Lifecycle
  <2>. QED BY <2>1, <2>2, <2>3, <2>4, <2>5, <2>6, <2>7
<1>4. ASSUME NEW r \in Run, PrepareClickHouse(r) PROVE IInv'
  <2>1. TypeOK'
    <3>1. Accounts' /\ gaveUp' = gaveUp
      BY <1>4, AccountsKept DEF PrepareClickHouse
    <3>2. RunTypes'
      <4>1. \E v \in {"none", "existing", "staged"} : prepared' = [prepared EXCEPT ![r].ch = v]
        BY <1>4, prepared[r] \in Prepared DEF PrepareClickHouse, TypeOK, Prepared
      <4>2. prepared' \in [Run -> Prepared]
        BY <4>1 DEF TypeOK, Prepared
      <4>. QED BY <1>4, <4>2 DEF PrepareClickHouse, Go, Return, TypeOK, RunTypes, Steps, Outcomes
    <3>3. StoreTypes'
      BY <1>4 DEF PrepareClickHouse, clickhouse, At, HeaderOwner, TypeOK, StoreTypes, Stamped
    <3>. QED BY <3>1, <3>2, <3>3 DEF Accounts, RunTypes, StoreTypes, TypeOK
  <2>2. Opening'
    BY <1>4 DEF PrepareClickHouse, At, Go, Return, Smooth, Fault, AbortStage, CheckPlan,
      run, clickhouse, Opening
  <2>3. Lifecycle'
    BY <1>4 DEF PrepareClickHouse, At, Go, Return, Smooth, Fault, AbortStage, CheckPlan,
      run, clickhouse, Lifecycle, TypeOK, Stamped
  <2>4. ClickHouseFirst'
    <3>1. Winner = content[r] => InClickHouse(r)
      BY <1>4, WinnerInClickHouse DEF PrepareClickHouse, Lifecycle, At, InClickHouse
    <3>2. \A q \in Run : InClickHouse(q)' <=> InClickHouse(q)
      BY <1>4, ContentsKept DEF PrepareClickHouse, clickhouse, InClickHouse
    <3>3. \A q \in Run \ {r} : pc'[q] = pc[q] /\ outcome'[q] = outcome[q]
                                 /\ prepared'[q] = prepared[q]
      BY <1>4 DEF PrepareClickHouse, Go, Return, TypeOK
    <3>4. /\ pc'[r] \notin {"commitClickHouse", "commitFile", "settle"} /\ outcome'[r] # "ok"
          /\ pc'[r] = "prepareFile" /\ prepared'[r].ch = "existing" => Winner = content[r]
      BY <1>4 DEF PrepareClickHouse, At, Go, Return, TypeOK, Prepared, Lifecycle
    <3>. QED BY <3>1, <3>2, <3>3, <3>4 DEF ClickHouseFirst
  <2>5. FileHolds'
    BY <1>4, ContentsKept DEF PrepareClickHouse, At, Go, Return, Smooth, Fault,
      AbortStage, CheckPlan, run, clickhouse, FileHolds, TypeOK, Prepared, file, Lifecycle
  <2>6. HeaderOwner'
    BY <1>4 DEF PrepareClickHouse, At, Go, Return, Smooth, Fault, AbortStage, CheckPlan,
      run, clickhouse, HeaderOwner, TypeOK, Prepared, Stamped
  <2>7. RefusedBeaten'
    BY <1>4 DEF PrepareClickHouse, At, Go, Return, Smooth, Fault, AbortStage, CheckPlan,
      run, clickhouse, RefusedBeaten, Refused, Beaten, Stamped, TypeOK, HeaderOwner,
        Lifecycle
  <2>. QED BY <2>1, <2>2, <2>3, <2>4, <2>5, <2>6, <2>7
<1>5. ASSUME NEW r \in Run, PrepareFile(r) PROVE IInv'
  <2>1. TypeOK'
    <3>1. Accounts' /\ gaveUp' = gaveUp
      BY <1>5, AccountsKept DEF PrepareFile
    <3>2. RunTypes'
      <4>1. \E v \in {"none", "existing", "staged"} : prepared' = [prepared EXCEPT ![r].file = v]
        BY <1>5, prepared[r] \in Prepared DEF PrepareFile, TypeOK, Prepared
      <4>2. prepared' \in [Run -> Prepared]
        BY <4>1 DEF TypeOK, Prepared
      <4>. QED BY <1>5, <4>2 DEF PrepareFile, Go, Return, TypeOK, RunTypes, Steps, Outcomes
    <3>3. StoreTypes'
      BY <1>5 DEF PrepareFile, clickhouse, At, HeaderOwner, TypeOK, StoreTypes, Stamped
    <3>. QED BY <3>1, <3>2, <3>3 DEF Accounts, RunTypes, StoreTypes, TypeOK
  <2>2. Opening'
    BY <1>5 DEF PrepareFile, At, Go, Return, Smooth, Fault, AbortStage, CheckPlan, run,
      clickhouse, Opening
  <2>3. Lifecycle'
    BY <1>5 DEF PrepareFile, At, Go, Return, Smooth, Fault, AbortStage, CheckPlan, run,
      clickhouse, Lifecycle, TypeOK, Stamped
  <2>4. ClickHouseFirst'
    BY <1>5, ContentsKept DEF PrepareFile, At, Go, Return, Smooth, Fault, AbortStage,
      CheckPlan, run, clickhouse, ClickHouseFirst, InClickHouse, TypeOK, Prepared
  <2>5. FileHolds'
    BY <1>5, ContentsKept DEF PrepareFile, At, Go, Return, Smooth, Fault, AbortStage,
      CheckPlan, run, clickhouse, FileHolds, TypeOK, Prepared, file, Lifecycle
  <2>6. HeaderOwner'
    BY <1>5 DEF PrepareFile, At, Go, Return, Smooth, Fault, AbortStage, CheckPlan, run,
      clickhouse, HeaderOwner, TypeOK, Prepared, Stamped
  <2>7. RefusedBeaten'
    BY <1>5 DEF PrepareFile, At, Go, Return, Smooth, Fault, AbortStage, CheckPlan, run,
      clickhouse, RefusedBeaten, Refused, Beaten, Stamped, TypeOK, HeaderOwner, Lifecycle
  <2>. QED BY <2>1, <2>2, <2>3, <2>4, <2>5, <2>6, <2>7
<1>6. ASSUME NEW r \in Run, InsertHeader(r) PROVE IInv'
  <2>1. TypeOK'
    <3>1. Accounts' /\ gaveUp' = gaveUp
      BY <1>6, AccountsKept DEF InsertHeader
    <3>2. CASE UNCHANGED stamped
      BY <1>6, <3>1, <3>2 DEF InsertHeader, Accounts, At, Go, TypeOK, Steps, Stamped
    <3>3. CASE stamped' = Append(stamped, r) /\ r \notin Stamped
      <4>1. \A i, j \in DOMAIN stamped' : stamped'[i] = stamped'[j] => i = j
        BY <3>3, StampedAppended DEF TypeOK, Stamped
      <4>2. shown' \subseteq Stamped'
        BY <1>6, <3>3, StampedAppended DEF InsertHeader, TypeOK
      <4>. QED BY <1>6, <3>1, <3>3, <4>1, <4>2, StampedAppended DEF InsertHeader,
        Accounts, At, Go, TypeOK, Steps
    <3>. QED BY <1>6, <3>2, <3>3 DEF InsertHeader, HeaderOwner, At
  <2>2. Opening'
    BY <1>6 DEF InsertHeader, At, Go, Return, Smooth, Fault, AbortStage, CheckPlan, run,
      clickhouse, Opening
  <2>3. Lifecycle'
    BY <1>6, StampedAppended DEF InsertHeader, At, Go, Lifecycle, TypeOK, Stamped
  <2>4. ClickHouseFirst'
    BY <1>6, ContentsKept DEF InsertHeader, At, Go, Return, Smooth, Fault, AbortStage,
      CheckPlan, run, clickhouse, ClickHouseFirst, InClickHouse, TypeOK, Prepared
  <2>5. FileHolds'
    BY <1>6, ContentsKept DEF InsertHeader, At, Go, Return, Smooth, Fault, AbortStage,
      CheckPlan, run, clickhouse, FileHolds, TypeOK, Prepared, file, Lifecycle
  <2>6. HeaderOwner'
    <3>1. gaveUp' = gaveUp
      BY <1>6 DEF InsertHeader, Smooth, Fault
    <3>2. CASE UNCHANGED stamped
      BY <1>6, <3>1, <3>2 DEF InsertHeader, At, Go, HeaderOwner, TypeOK, Stamped
    <3>3. CASE stamped' = Append(stamped,
      r) /\ prepared[r].ch = "staged" /\ pc' = [pc EXCEPT ![r] = "inserting"]
      BY <1>6, <3>1, <3>3, StampedAppended DEF InsertHeader, At, HeaderOwner, TypeOK
    <3>. QED BY <1>6, <3>2, <3>3 DEF InsertHeader, Go
  <2>7. RefusedBeaten'
    <3>1. gaveUp' = gaveUp /\ outcome' = outcome /\ shown' = shown
      BY <1>6 DEF InsertHeader, Go, Smooth, Fault
    <3>2. CASE UNCHANGED stamped
      BY <3>1, <3>2 DEF RefusedBeaten, Refused, Beaten, Stamped
    <3>3. CASE stamped' = Append(stamped, r)
      <4>1. ~Refused(r)
        BY <1>6 DEF InsertHeader, At, Lifecycle, Refused
      <4>2. \A q \in Run \ {r} : (q \notin Stamped => q \notin Stamped') /\ (Beaten(q) => Beaten(q)')
        BY <3>1, <3>3, StampedAppended DEF Beaten
      <4>. QED BY <3>1, <4>1, <4>2 DEF RefusedBeaten, Refused
    <3>. QED BY <1>6, <3>2, <3>3 DEF InsertHeader
  <2>. QED BY <2>1, <2>2, <2>3, <2>4, <2>5, <2>6, <2>7
<1>7. ASSUME NEW r \in Run, HeaderShows(r) PROVE IInv'
  <2>1. TypeOK'
    <3>1. Accounts' /\ gaveUp' = gaveUp
      BY <1>7, AccountsKept DEF HeaderShows
    <3>2. RunTypes'
      BY <1>7 DEF HeaderShows, Go, TypeOK, RunTypes, Steps, Outcomes
    <3>3. StoreTypes'
      BY <1>7 DEF HeaderShows, At, HeaderOwner, TypeOK, StoreTypes, Stamped
    <3>. QED BY <3>1, <3>2, <3>3 DEF Accounts, RunTypes, StoreTypes, TypeOK
  <2>2. Opening'
    BY <1>7 DEF HeaderShows, At, Go, Return, Smooth, Fault, AbortStage, CheckPlan, run,
      clickhouse, Opening
  <2>3. Lifecycle'
    BY <1>7 DEF HeaderShows, At, Go, Return, Smooth, Fault, AbortStage, CheckPlan, run,
      clickhouse, Lifecycle, TypeOK, Stamped
  <2>4. ClickHouseFirst'
    BY <1>7, ContentsKept DEF HeaderShows, At, Go, Return, Smooth, Fault, AbortStage,
      CheckPlan, run, clickhouse, ClickHouseFirst, InClickHouse, TypeOK, Prepared
  <2>5. FileHolds'
    BY <1>7, ContentsKept DEF HeaderShows, At, Go, Return, Smooth, Fault, AbortStage,
      CheckPlan, run, clickhouse, FileHolds, TypeOK, Prepared, file, Lifecycle
  <2>6. HeaderOwner'
    BY <1>7 DEF HeaderShows, At, Go, Return, Smooth, Fault, AbortStage, CheckPlan, run,
      clickhouse, HeaderOwner, TypeOK, Prepared, Stamped
  <2>7. RefusedBeaten'
    BY <1>7 DEF HeaderShows, At, Go, Return, Smooth, Fault, AbortStage, CheckPlan, run,
      clickhouse, RefusedBeaten, Refused, Beaten, Stamped, TypeOK, HeaderOwner, Lifecycle
  <2>. QED BY <2>1, <2>2, <2>3, <2>4, <2>5, <2>6, <2>7
<1>8. ASSUME NEW r \in Run, GiveUp(r) PROVE IInv'
  <2>1. TypeOK'
    BY <1>8 DEF GiveUp, At, Go, Return, Smooth, Fault, AbortStage, CheckPlan, run,
      clickhouse, TypeOK, Steps, Prepared, Outcomes, Stamped
  <2>2. Opening'
    BY <1>8 DEF GiveUp, At, Go, Return, Smooth, Fault, AbortStage, CheckPlan, run,
      clickhouse, Opening
  <2>3. Lifecycle'
    BY <1>8 DEF GiveUp, At, Go, Return, Smooth, Fault, AbortStage, CheckPlan, run,
      clickhouse, Lifecycle, TypeOK, Stamped
  <2>4. ClickHouseFirst'
    BY <1>8, ContentsKept DEF GiveUp, At, Go, Return, Smooth, Fault, AbortStage,
      CheckPlan, run, clickhouse, ClickHouseFirst, InClickHouse, TypeOK, Prepared
  <2>5. FileHolds'
    BY <1>8, ContentsKept DEF GiveUp, At, Go, Return, Smooth, Fault, AbortStage,
      CheckPlan, run, clickhouse, FileHolds, TypeOK, Prepared, file, Lifecycle
  <2>6. HeaderOwner'
    BY <1>8 DEF GiveUp, At, Go, Return, Smooth, Fault, AbortStage, CheckPlan, run,
      clickhouse, HeaderOwner, TypeOK, Prepared, Stamped
  <2>7. RefusedBeaten'
    BY <1>8 DEF GiveUp, At, Go, Return, Smooth, Fault, AbortStage, CheckPlan, run,
      clickhouse, RefusedBeaten, Refused, Beaten, Stamped, TypeOK, HeaderOwner, Lifecycle
  <2>. QED BY <2>1, <2>2, <2>3, <2>4, <2>5, <2>6, <2>7
<1>9. ASSUME NEW r \in Run, HeaderShowsLate(r) PROVE IInv'
  <2>1. TypeOK'
    BY <1>9 DEF HeaderShowsLate, At, Go, Return, Smooth, Fault, AbortStage, CheckPlan,
      run, clickhouse, TypeOK, Steps, Prepared, Outcomes, Stamped
  <2>2. Opening'
    BY <1>9 DEF HeaderShowsLate, At, Go, Return, Smooth, Fault, AbortStage, CheckPlan,
      run, clickhouse, Opening
  <2>3. Lifecycle'
    BY <1>9 DEF HeaderShowsLate, At, Go, Return, Smooth, Fault, AbortStage, CheckPlan,
      run, clickhouse, Lifecycle, TypeOK, Stamped
  <2>4. ClickHouseFirst'
    BY <1>9, ContentsKept DEF HeaderShowsLate, At, Go, Return, Smooth, Fault, AbortStage,
      CheckPlan, run, clickhouse, ClickHouseFirst, InClickHouse, TypeOK, Prepared
  <2>5. FileHolds'
    BY <1>9, ContentsKept DEF HeaderShowsLate, At, Go, Return, Smooth, Fault, AbortStage,
      CheckPlan, run, clickhouse, FileHolds, TypeOK, Prepared, file, Lifecycle
  <2>6. HeaderOwner'
    BY <1>9 DEF HeaderShowsLate, At, Go, Return, Smooth, Fault, AbortStage, CheckPlan,
      run, clickhouse, HeaderOwner, TypeOK, Prepared, Stamped
  <2>7. RefusedBeaten'
    BY <1>9 DEF HeaderShowsLate, At, Go, Return, Smooth, Fault, AbortStage, CheckPlan,
      run, clickhouse, RefusedBeaten, Refused, Beaten, Stamped, TypeOK, HeaderOwner,
        Lifecycle
  <2>. QED BY <2>1, <2>2, <2>3, <2>4, <2>5, <2>6, <2>7
<1>10. ASSUME NEW r \in Run, RereadWinner(r) PROVE IInv'
  <2>1. TypeOK'
    <3>1. Accounts' /\ gaveUp' = gaveUp
      BY <1>10, AccountsKept DEF RereadWinner, AbortStage
    <3>2. RunTypes'
      BY <1>10 DEF RereadWinner, Go, Return, TypeOK, RunTypes, Steps, Outcomes
    <3>3. StoreTypes'
      BY <1>10 DEF RereadWinner, AbortStage, clickhouse, At, HeaderOwner, TypeOK, StoreTypes, Stamped
    <3>. QED BY <3>1, <3>2, <3>3 DEF Accounts, RunTypes, StoreTypes, TypeOK
  <2>2. Opening'
    BY <1>10 DEF RereadWinner, At, Go, Return, Smooth, Fault, AbortStage, CheckPlan, run,
      clickhouse, Opening
  <2>3. Lifecycle'
    BY <1>10 DEF RereadWinner, At, Go, Return, Smooth, Fault, AbortStage, CheckPlan, run,
      clickhouse, Lifecycle, TypeOK, Stamped
  <2>4. ClickHouseFirst'
    <3>1. CommitsOn(r) => InClickHouse(r)
      BY <1>10, WinnerInClickHouse DEF RereadWinner, CommitsOn, Lifecycle, At, InClickHouse
    <3>. QED BY <1>10, <3>1, ContentsKept DEF RereadWinner, At, Go, Return, clickhouse,
      ClickHouseFirst, InClickHouse, TypeOK, Prepared
  <2>5. FileHolds'
    BY <1>10, ContentsKept DEF RereadWinner, At, Go, Return, Smooth, Fault, AbortStage,
      CheckPlan, run, clickhouse, FileHolds, TypeOK, Prepared, file, Lifecycle
  <2>6. HeaderOwner'
    BY <1>10 DEF RereadWinner, At, Go, Return, Smooth, Fault, AbortStage, CheckPlan, run,
      clickhouse, HeaderOwner, TypeOK, Prepared, Stamped
  <2>7. RefusedBeaten'
    <3>1. ~CommitsOn(r) /\ r \notin gaveUp => r \notin Stamped \/ Beaten(r)
      <4>1. ~CommitsOn(r) => WinningHeader # r
        BY DEF CommitsOn, Winner, ContentOf
      <4>. QED BY <1>10, <4>1, LoserBeaten DEF RereadWinner, At, HeaderOwner
    <3>2. gaveUp' = gaveUp
      BY <1>10 DEF RereadWinner, AbortStage, Smooth, Fault
    <3>. QED BY <1>10, <3>1, <3>2 DEF RereadWinner, At, Go, Return, clickhouse,
      RefusedBeaten, Refused, Beaten, Stamped, TypeOK, HeaderOwner, Lifecycle
  <2>. QED BY <2>1, <2>2, <2>3, <2>4, <2>5, <2>6, <2>7
<1>11. ASSUME NEW r \in Run, Rename(r) PROVE IInv'
  <2>1. TypeOK'
    <3>1. Accounts' /\ gaveUp' = gaveUp
      BY <1>11, AccountsKept DEF Rename, AbortStage
    <3>2. RunTypes'
      BY <1>11 DEF Rename, Go, Return, TypeOK, RunTypes, Steps, Outcomes
    <3>3. StoreTypes'
      BY <1>11 DEF Rename, AbortStage, clickhouse, At, HeaderOwner, TypeOK, StoreTypes, Stamped
    <3>. QED BY <3>1, <3>2, <3>3 DEF Accounts, RunTypes, StoreTypes, TypeOK
  <2>2. Opening'
    BY <1>11 DEF Rename, At, Go, Return, Smooth, Fault, AbortStage, CheckPlan, run,
      clickhouse, Opening
  <2>3. Lifecycle'
    BY <1>11 DEF Rename, At, Go, Return, Smooth, Fault, AbortStage, CheckPlan, run,
      clickhouse, Lifecycle, TypeOK, Stamped
  <2>4. ClickHouseFirst'
    BY <1>11, ContentsKept DEF Rename, At, Go, Return, Smooth, Fault, AbortStage,
      CheckPlan, run, clickhouse, ClickHouseFirst, InClickHouse, TypeOK, Prepared
  <2>5. FileHolds'
    <3>1. CASE file = None /\ dir' = r /\ Return(r, "ok")
      <4>1. \A q \in Run : prepared[q].file # "existing" /\ outcome[q] # "ok"
        BY <3>1 DEF FileHolds, Lifecycle
      <4>2. file' = content'[r] /\ r \notin {None, Earlier}
        BY <1>11, <3>1 DEF Rename, file, ContentOf
      <4>. QED BY <1>11, <3>1, <4>1, <4>2 DEF Rename, Return, FileHolds, TypeOK
    <3>2. CASE UNCHANGED dir /\ Go(r, "settle")
      BY <1>11, <3>2, ContentsKept DEF Rename, At, Go, FileHolds, TypeOK, file
    <3>. QED BY <1>11, <3>1, <3>2 DEF Rename
  <2>6. HeaderOwner'
    BY <1>11 DEF Rename, At, Go, Return, Smooth, Fault, AbortStage, CheckPlan, run,
      clickhouse, HeaderOwner, TypeOK, Prepared, Stamped
  <2>7. RefusedBeaten'
    BY <1>11 DEF Rename, At, Go, Return, Smooth, Fault, AbortStage, CheckPlan, run,
      clickhouse, RefusedBeaten, Refused, Beaten, Stamped, TypeOK, HeaderOwner, Lifecycle
  <2>. QED BY <2>1, <2>2, <2>3, <2>4, <2>5, <2>6, <2>7
<1>12. ASSUME NEW r \in Run, FileExisted(r) PROVE IInv'
  <2>1. TypeOK'
    BY <1>12 DEF FileExisted, At, Go, Return, Smooth, Fault, AbortStage, CheckPlan, run,
      clickhouse, TypeOK, Steps, Prepared, Outcomes, Stamped
  <2>2. Opening'
    BY <1>12 DEF FileExisted, At, Go, Return, Smooth, Fault, AbortStage, CheckPlan, run,
      clickhouse, Opening
  <2>3. Lifecycle'
    BY <1>12 DEF FileExisted, At, Go, Return, Smooth, Fault, AbortStage, CheckPlan, run,
      clickhouse, Lifecycle, TypeOK, Stamped
  <2>4. ClickHouseFirst'
    BY <1>12, ContentsKept DEF FileExisted, At, Go, Return, Smooth, Fault, AbortStage,
      CheckPlan, run, clickhouse, ClickHouseFirst, InClickHouse, TypeOK, Prepared
  <2>5. FileHolds'
    BY <1>12, ContentsKept DEF FileExisted, At, Go, Return, Smooth, Fault, AbortStage,
      CheckPlan, run, clickhouse, FileHolds, TypeOK, Prepared, file, Lifecycle
  <2>6. HeaderOwner'
    BY <1>12 DEF FileExisted, At, Go, Return, Smooth, Fault, AbortStage, CheckPlan, run,
      clickhouse, HeaderOwner, TypeOK, Prepared, Stamped
  <2>7. RefusedBeaten'
    BY <1>12 DEF FileExisted, At, Go, Return, Smooth, Fault, AbortStage, CheckPlan, run,
      clickhouse, RefusedBeaten, Refused, Beaten, Stamped, TypeOK, HeaderOwner, Lifecycle
  <2>. QED BY <2>1, <2>2, <2>3, <2>4, <2>5, <2>6, <2>7
<1>13. ASSUME NEW r \in Run, SettleRename(r) PROVE IInv'
  <2>1. TypeOK'
    <3>1. Accounts' /\ gaveUp' = gaveUp
      BY <1>13, AccountsKept DEF SettleRename
    <3>2. RunTypes'
      BY <1>13 DEF SettleRename, Return, FileCommitError, TypeOK, RunTypes, Steps, Outcomes
    <3>3. StoreTypes'
      BY <1>13 DEF SettleRename, clickhouse, At, HeaderOwner, TypeOK, StoreTypes, Stamped
    <3>. QED BY <3>1, <3>2, <3>3 DEF Accounts, RunTypes, StoreTypes, TypeOK
  <2>2. Opening'
    BY <1>13 DEF SettleRename, At, Go, Return, Smooth, Fault, AbortStage, CheckPlan, run,
      clickhouse, FileCommitError, Opening
  <2>3. Lifecycle'
    BY <1>13 DEF SettleRename, At, Return, FileCommitError, clickhouse, Lifecycle,
      TypeOK, Stamped
  <2>4. ClickHouseFirst'
    BY <1>13, ContentsKept DEF SettleRename, At, Go, Return, Smooth, Fault, AbortStage,
      CheckPlan, run, clickhouse, FileCommitError, ClickHouseFirst, InClickHouse, TypeOK,
        Prepared
  <2>5. FileHolds'
    BY <1>13, ContentsKept DEF SettleRename, At, Return, FileCommitError, FileHolds,
      TypeOK, file
  <2>6. HeaderOwner'
    BY <1>13 DEF SettleRename, At, Go, Return, Smooth, Fault, AbortStage, CheckPlan, run,
      clickhouse, FileCommitError, HeaderOwner, TypeOK, Prepared, Stamped
  <2>7. RefusedBeaten'
    <3>1. gaveUp' = gaveUp /\ UNCHANGED clickhouse
      BY <1>13 DEF SettleRename, Smooth, Fault
    <3>2. outcome'[r] = "CommitFailed" => r \notin Stamped
      BY <1>13 DEF SettleRename, Return, FileCommitError, HeaderOwner, TypeOK
    <3>3. Refused(r)' => r \notin Stamped
      BY <1>13, <3>2 DEF SettleRename, Return, FileCommitError, Refused, TypeOK
    <3>. QED BY <1>13, <3>1, <3>3 DEF SettleRename, Return, clickhouse, RefusedBeaten,
      Refused, Beaten, Stamped, TypeOK
  <2>. QED BY <2>1, <2>2, <2>3, <2>4, <2>5, <2>6, <2>7
<1>14. ASSUME NEW r \in Run, Kill(r) PROVE IInv'
  <2>1. TypeOK'
    BY <1>14 DEF Kill, At, Go, Return, Smooth, Fault, AbortStage, CheckPlan, run,
      clickhouse, TypeOK, Steps, Prepared, Outcomes, Stamped
  <2>2. Opening'
    BY <1>14 DEF Kill, At, Go, Return, Smooth, Fault, AbortStage, CheckPlan, run,
      clickhouse, Opening
  <2>3. Lifecycle'
    BY <1>14 DEF Kill, At, Go, Return, Smooth, Fault, AbortStage, CheckPlan, run,
      clickhouse, Lifecycle, TypeOK, Stamped
  <2>4. ClickHouseFirst'
    BY <1>14, ContentsKept DEF Kill, At, Go, Return, Smooth, Fault, AbortStage,
      CheckPlan, run, clickhouse, ClickHouseFirst, InClickHouse, TypeOK, Prepared
  <2>5. FileHolds'
    BY <1>14, ContentsKept DEF Kill, At, Go, Return, Smooth, Fault, AbortStage,
      CheckPlan, run, clickhouse, FileHolds, TypeOK, Prepared, file, Lifecycle
  <2>6. HeaderOwner'
    BY <1>14 DEF Kill, At, Go, Return, Smooth, Fault, AbortStage, CheckPlan, run,
      clickhouse, HeaderOwner, TypeOK, Prepared, Stamped
  <2>7. RefusedBeaten'
    BY <1>14 DEF Kill, At, Go, Return, Smooth, Fault, AbortStage, CheckPlan, run,
      clickhouse, RefusedBeaten, Refused, Beaten, Stamped, TypeOK, HeaderOwner, Lifecycle
  <2>. QED BY <2>1, <2>2, <2>3, <2>4, <2>5, <2>6, <2>7
<1>15. CASE UNCHANGED vars
  <2>1. UNCHANGED <<run, clickhouse, dir, stages, history,
    bound>> /\ UNCHANGED <<content, before>>
    BY <1>15 DEF vars, run, history
  <2>2. TypeOK' /\ Opening' /\ HeaderOwner'
    BY <2>1 DEF run, clickhouse, history, TypeOK, Opening, HeaderOwner, Stamped
  <2>3. Lifecycle' /\ RefusedBeaten'
    BY <2>1 DEF run, clickhouse, history, Lifecycle, RefusedBeaten, Refused, Beaten, Stamped
  <2>4. ClickHouseFirst' /\ FileHolds'
    BY <2>1, ContentsKept DEF run, clickhouse, history, ClickHouseFirst, InClickHouse,
      FileHolds, file
  <2>. QED BY <2>2, <2>3, <2>4
<1>. QED BY <1>1, <1>2, <1>3, <1>4, <1>5, <1>6, <1>7, <1>8, <1>9, <1>10, <1>11, <1>12,
  <1>13, <1>14, <1>15 DEF Next

\* The stores as the runs find them.
LEMMA Initial == Init => IInv
<1>. SUFFICES ASSUME Init PROVE IInv
  OBVIOUS
<1>. USE StudyAssumption DEF Init
<1>1. before \in [ch : Contents \cup {None}, file : Contents \cup {None}]
  OBVIOUS
<1>2. /\ stamped \in Seq(Run \cup {Earlier}) /\ shown \subseteq Stamped /\ Stamped \subseteq {Earlier}
      /\ \A i, j \in DOMAIN stamped : stamped[i] = stamped[j] => i = j
      /\ Earlier \in shown => before.ch # None
  <2>1. CASE before.ch = None
    BY <2>1 DEF Stamped
  <2>2. CASE before.ch # None
    <3>1. stamped = <<Earlier>> /\ DOMAIN stamped = {1} /\ stamped[1] = Earlier
      BY <2>2
    <3>. QED BY <2>2, <3>1 DEF Stamped
  <2>. QED BY <2>1, <2>2
<1>3. TypeOK
  BY <1>1, <1>2 DEF TypeOK, Steps, Prepared, Outcomes, Unprepared
<1>4. Opening /\ Lifecycle
  BY <1>2 DEF Opening, Lifecycle
<1>5. ClickHouseFirst /\ FileHolds /\ HeaderOwner /\ RefusedBeaten
  BY <1>2 DEF ClickHouseFirst, FileHolds, HeaderOwner, RefusedBeaten, Refused, Unprepared
<1>. QED BY <1>3, <1>4, <1>5 DEF IInv

\* The invariant holds in every reachable state.
LEMMA InvariantHolds == Spec => []IInv
BY Initial, Inductive, PTL DEF Spec
-----------------------------------------------------------------------------
(* What it implies.                                                          *)

\* Every state of every run is well typed, and no header row is stamped twice.
THEOREM TypeCorrect == Spec => []TypeOK
<1>1. IInv => TypeOK
  BY DEF IInv
<1>. QED BY <1>1, InvariantHolds, PTL

\* A run that returned Ok left its content in both stores, for every reader and
\* for good: write_study commits ClickHouse, re-reads the winner and only then
\* commits the file store.
THEOREM SuccessesInBothStores == Spec => []SuccessInBothStores
<1>1. IInv => SuccessInBothStores
  BY DEF IInv, ClickHouseFirst, InClickHouse, FileHolds, SuccessInBothStores
<1>. QED BY <1>1, InvariantHolds, PTL

\* A run refused without a repair to do left nothing a reader finds, unless it
\* gave up on a header insert the server still worked on: its row is not there
\* or stands behind one that shows, and the directory is only ever that of a
\* run which returned Ok.
THEOREM RefusalsAreClean == Spec => []RefusalIsClean
<1>1. IInv => RefusalIsClean
  <2>. SUFFICES ASSUME IInv, NEW r \in Run \ gaveUp, Refused(r) PROVE Invisible(r)
    BY DEF RefusalIsClean
  <2>1. WinningHeader # r
    BY BeatenLoses DEF IInv, RefusedBeaten
  <2>2. dir # r
    BY DEF IInv, Lifecycle, Refused
  <2>. QED BY <2>1, <2>2 DEF Invisible
<1>. QED BY <1>1, InvariantHolds, PTL

\* A directory that is there holds a content.
LEMMA PublishedHasContent ==
  ASSUME IInv, dir # None
  PROVE  file # None
<1>1. CASE dir = Earlier
  BY <1>1, StudyAssumption DEF IInv, Opening, TypeOK, file, ContentOf
<1>2. CASE dir \in Run
  <2>1. content[dir] \in Contents
    BY <1>2 DEF IInv, Lifecycle
  <2>. QED BY <1>2, <2>1, StudyAssumption DEF file, ContentOf
<1>. QED BY <1>1, <1>2 DEF IInv, TypeOK

\* A study directory is never replaced: the only step that publishes one is a
\* rename that found none (store.rs, FileStudyStore's commit).
THEOREM DirectoryNeverReplaced == Spec => FileStudyKept
<1>1. IInv /\ [Next]_vars => [dir # None => dir' = dir]_vars
  <2>. SUFFICES ASSUME IInv, [Next]_vars, dir # None PROVE dir' = dir
    BY DEF vars
  <2>1. file # None
    BY PublishedHasContent
  <2>2. ASSUME NEW r \in Run, Rename(r) PROVE dir' = dir
    BY <2>1, <2>2 DEF Rename
  <2>. QED BY <2>2 DEF Next, vars, Start, PlanClickHouse, PlanFile, CheckPlan,
    PrepareClickHouse, PrepareFile, InsertHeader, HeaderShows, GiveUp, HeaderShowsLate,
    RereadWinner, FileExisted, SettleRename, Kill
<1>. QED BY <1>1, InvariantHolds, PTL DEF Spec, FileStudyKept
-----------------------------------------------------------------------------
(* Agreement of the stores, and the repair.                                  *)

\* What the stores held at the start they still hold.
EarlierKept ==
  /\ before.ch # None /\ before.file # None => before.ch = before.file
  /\ before.ch # None => 1 \in DOMAIN stamped /\ stamped[1] = Earlier /\ Earlier \in shown
  /\ before.file # None => dir = Earlier

\* A run that has not started has no content in anybody's way.
Unstarted == \A r \in Run : pc[r] = "idle" => content[r] = None

\* A study that was in ClickHouse at the start is the only one that a run gets
\* as far as the file store with: its header is in front of every other.
Inherited ==
  before.ch # None =>
    \A r \in Run :
      \/ pc[r] \in {"prepareFile", "commitClickHouse"} /\ prepared[r].ch = "existing"
      \/ pc[r] \in {"commitFile", "settle"} \/ outcome[r] = "ok"
      => content[r] = before.ch

\* A run that met no fault: its re-read finds a header, the failed rename of a
\* published stage finds a study, and alone with its content it never fails.
Unharmed ==
  \A r \in Run \ faulted :
    /\ pc[r] = "reread" => r \in Stamped
    /\ pc[r] = "settle" => dir # None
    /\ Alone(r) => outcome[r] \in {"none", "ok"}

RepairInv == EarlierKept /\ Unstarted /\ Inherited /\ Unharmed

\* Nothing that is in a store is taken away.
LEMMA StoresGrow ==
  ASSUME IInv, [Next]_vars
  PROVE  /\ before' = before /\ shown \subseteq shown' /\ faulted \subseteq faulted'
         /\ stamped' = stamped \/ \E r \in Run : stamped' = Append(stamped, r)
         /\ dir # None => dir' = dir
<1>1. dir # None => file # None
  BY PublishedHasContent
<1>. QED
  BY <1>1
  DEF Next, vars, run, clickhouse, history, Smooth, Fault, AbortStage, Start, PlanClickHouse,
      PlanFile, CheckPlan, PrepareClickHouse, PrepareFile, InsertHeader, HeaderShows, GiveUp,
      HeaderShowsLate, RereadWinner, Rename, FileExisted, SettleRename, Kill

LEMMA EarlierKeptStep == IInv /\ EarlierKept /\ [Next]_vars => EarlierKept'
<1>. SUFFICES ASSUME IInv, EarlierKept, [Next]_vars PROVE EarlierKept'
  OBVIOUS
<1>1. ASSUME 1 \in DOMAIN stamped PROVE 1 \in DOMAIN stamped' /\ stamped'[1] = stamped[1]
  BY <1>1, StoresGrow, StampedAppended DEF IInv
<1>2. before.file # None => dir # None
  BY StudyAssumption DEF EarlierKept
<1>. QED BY <1>1, <1>2, StoresGrow DEF EarlierKept

\* The first header of all wins, once there is one from before.
LEMMA EarlierWins ==
  ASSUME IInv, EarlierKept, before.ch # None
  PROVE  Winner = before.ch
<1>1. /\ 1 \in Showing /\ stamped[1] = Earlier /\ Showing \in SUBSET Nat
      /\ DOMAIN stamped = 1..Len(stamped)
  BY DEF EarlierKept, Showing, IInv, TypeOK
<1>2. PICK i \in Showing : WinningHeader = stamped[i] /\ \A j \in Showing : i <= j
  BY <1>1, WinnerShown DEF IInv
<1>3. i = 1
  BY <1>1, <1>2 DEF Showing
<1>. QED BY <1>1, <1>2, <1>3, StudyAssumption DEF Winner, ContentOf

LEMMA InheritedStep == IInv /\ EarlierKept /\ Inherited /\ [Next]_vars => Inherited'
<1>. SUFFICES ASSUME IInv, EarlierKept, Inherited, [Next]_vars, before.ch # None PROVE Inherited'
  BY StoresGrow DEF Inherited
<1>1. before' = before /\ Winner = before.ch
  BY StoresGrow, EarlierWins
<1>2. ASSUME NEW r \in Run, NEW c \in Contents, Start(r, c) PROVE Inherited'
  BY <1>1, <1>2 DEF Start, At, Go, Inherited, IInv, TypeOK, Lifecycle
<1>3. ASSUME NEW r \in Run, PrepareClickHouse(r) PROVE Inherited'
  BY <1>1, <1>3 DEF PrepareClickHouse, At, Go, Return, Inherited, IInv, TypeOK, Prepared, Lifecycle
<1>4. ASSUME NEW r \in Run, PrepareFile(r) PROVE Inherited'
  BY <1>1, <1>4 DEF PrepareFile, At, Go, Return, Inherited, IInv, TypeOK, Prepared
<1>5. ASSUME NEW r \in Run, InsertHeader(r) PROVE Inherited'
  BY <1>1, <1>5 DEF InsertHeader, At, Go, Inherited, IInv, TypeOK
<1>6. ASSUME NEW r \in Run, RereadWinner(r) PROVE Inherited'
  BY <1>1, <1>6 DEF RereadWinner, CommitsOn, At, Go, Return, Inherited, IInv, TypeOK
<1>7. ASSUME NEW r \in Run, Rename(r) \/ FileExisted(r) \/ SettleRename(r) PROVE Inherited'
  BY <1>1, <1>7 DEF Rename, FileExisted, SettleRename, FileCommitError, At, Go, Return, Inherited,
                    IInv, TypeOK
<1>8. ASSUME NEW r \in Run, PlanClickHouse(r) \/ PlanFile(r) \/ HeaderShows(r) \/ GiveUp(r) \/ Kill(r)
      PROVE  Inherited'
  BY <1>1, <1>8 DEF PlanClickHouse, PlanFile, CheckPlan, HeaderShows, GiveUp, Kill, At, Go, Return,
                    Inherited, IInv, TypeOK
<1>9. ASSUME NEW r \in Run, HeaderShowsLate(r) PROVE Inherited'
  BY <1>1, <1>9 DEF HeaderShowsLate, run, Inherited
<1>10. CASE UNCHANGED vars
  BY <1>1, <1>10 DEF vars, run, Inherited
<1>. QED BY <1>2, <1>3, <1>4, <1>5, <1>6, <1>7, <1>8, <1>9, <1>10 DEF Next

\* A run alone with its content finds it, or nothing, in either store.
LEMMA AloneFinds ==
  ASSUME IInv, NEW r \in Run, Alone(r), pc[r] # "idle"
  PROVE  /\ Winner \in {None, content[r]} /\ file \in {None, content[r]}
         /\ r \in shown => Winner = content[r]
         /\ dir # None => file = content[r]
<1>1. ASSUME NEW h \in Run \cup {Earlier, None} PROVE ContentOf(h) \in {None, content[r]}
  BY <1>1 DEF Alone, ContentOf
<1>2. WinningHeader \in Run \cup {Earlier, None}
  BY WinnerShown DEF IInv, TypeOK, WinningHeader, Showing
<1>3. ASSUME r \in shown PROVE Winner = content[r]
  <2>1. Showing # {}
    BY <1>3 DEF IInv, TypeOK, Stamped, Showing
  <2>2. PICK i \in Showing : WinningHeader = stamped[i]
    BY <2>1, WinnerShown DEF IInv
  <2>3. WinningHeader \in shown /\ WinningHeader \in Stamped
    BY <2>2 DEF Showing, Stamped
  <2>4. ContentOf(WinningHeader) # None
    <3>1. CASE WinningHeader = Earlier
      BY <2>3, <3>1, StudyAssumption DEF IInv, Opening, ContentOf
    <3>2. CASE WinningHeader \in Run
      <4>1. content[WinningHeader] \in Contents
        BY <2>3, <3>2 DEF IInv, Lifecycle
      <4>. QED BY <3>2, <4>1, StudyAssumption DEF ContentOf
    <3>. QED BY <2>2, <3>1, <3>2 DEF IInv, TypeOK, Showing
  <2>. QED BY <1>1, <1>2, <2>4 DEF Winner
<1>. QED BY <1>1, <1>2, <1>3, PublishedHasContent DEF Winner, file, IInv, TypeOK

\* A step that starts no run changes no content, and none goes back to idle.
LEMMA ContentsGrow ==
  ASSUME IInv, [Next]_vars
  PROVE  \A q \in Run :
           \/ content'[q] = content[q] /\ (pc'[q] = "idle" => pc[q] = "idle")
           \/ pc[q] = "idle" /\ pc'[q] # "idle" /\ content'[q] \in Contents
BY DEF Next, vars, run, Start, At, Go, Return, IInv, TypeOK, PlanClickHouse, PlanFile, CheckPlan,
       PrepareClickHouse, PrepareFile, InsertHeader, HeaderShows, GiveUp, HeaderShowsLate,
       RereadWinner, Rename, FileExisted, SettleRename, Kill

LEMMA UnstartedStep == IInv /\ Unstarted /\ [Next]_vars => Unstarted'
BY ContentsGrow DEF Unstarted

\* Other runs only come to stand in the way.
LEMMA AloneBefore ==
  ASSUME IInv, Unstarted, [Next]_vars, NEW r \in Run, Alone(r)', pc[r] # "idle"
  PROVE  Alone(r)
<1>1. before' = before /\ content'[r] = content[r]
  BY StoresGrow, ContentsGrow
<1>2. ASSUME NEW q \in Run PROVE content[q] \in {None, content[r]}
  BY <1>1, <1>2, ContentsGrow DEF Alone, Unstarted
<1>. QED BY <1>1, <1>2 DEF Alone

\* A run whose outcome a step changes took the step, past its start.
LEMMA AloneStep ==
  ASSUME IInv, Unstarted, Unharmed, [Next]_vars, NEW r \in Run, r \notin faulted', Alone(r)'
  PROVE  outcome'[r] \in {"none", "ok"}
<1>1. r \notin faulted /\ gaveUp \subseteq faulted
  BY StoresGrow DEF IInv, TypeOK
<1>2. CASE pc[r] = "idle"
  <2>1. outcome[r] = "none"
    BY <1>2 DEF IInv, Lifecycle
  <2>2. outcome'[r] = outcome[r]
    BY <1>2 DEF Next, vars, run, Start, At, Go, Return, IInv, TypeOK, PlanClickHouse, PlanFile,
         CheckPlan, PrepareClickHouse, PrepareFile, InsertHeader, HeaderShows, GiveUp,
         HeaderShowsLate, RereadWinner, Rename, FileExisted, SettleRename, Kill
  <2>. QED BY <2>1, <2>2
<1>3. CASE pc[r] # "idle"
  <2>1. Alone(r)
    BY <1>3, AloneBefore
  <2>2. /\ Winner \in {None, content[r]} /\ file \in {None, content[r]}
        /\ r \in shown => Winner = content[r]
        /\ dir # None => file = content[r]
    BY <1>3, <2>1, AloneFinds
  <2>3. outcome[r] \in {"none", "ok"} /\ (pc[r] = "reread" => r \in Stamped)
        /\ (pc[r] = "settle" => dir # None)
    BY <1>1, <2>1 DEF Unharmed
  <2>4. pc[r] = "reread" => CommitsOn(r)
    BY <1>1, <2>2, <2>3 DEF IInv, HeaderOwner, CommitsOn
  <2>5. pc[r] = "settle" => file = content[r]
    BY <2>2, <2>3
  <2>6. ASSUME NEW q \in Run, NEW c \in Contents, Start(q, c) PROVE outcome'[r] = outcome[r]
    BY <2>6 DEF Start, Go
  <2>7. ASSUME NEW q \in Run, PlanClickHouse(q) \/ PlanFile(q) \/ PrepareClickHouse(q) \/ PrepareFile(q)
        PROVE  outcome'[r] = outcome[r]
    BY <2>2, <2>7 DEF PlanClickHouse, PlanFile, CheckPlan, PrepareClickHouse, PrepareFile, At, Go,
                      Return, Fault, IInv, TypeOK
  <2>8. ASSUME NEW q \in Run, InsertHeader(q) \/ HeaderShows(q) \/ GiveUp(q) \/ HeaderShowsLate(q)
        PROVE  outcome'[r] = outcome[r]
    BY <2>8 DEF InsertHeader, HeaderShows, GiveUp, HeaderShowsLate, Go, run
  <2>9. ASSUME NEW q \in Run, RereadWinner(q) PROVE outcome'[r] = outcome[r]
    BY <2>4, <2>9 DEF RereadWinner, At, Go, Return, Fault, IInv, TypeOK
  <2>10. ASSUME NEW q \in Run, Rename(q) \/ FileExisted(q) \/ SettleRename(q)
         PROVE  outcome'[r] \in {outcome[r], "ok"}
    BY <2>5, <2>10 DEF Rename, FileExisted, SettleRename, At, Go, Return, Fault, IInv, TypeOK
  <2>11. ASSUME NEW q \in Run, Kill(q) PROVE outcome'[r] = outcome[r]
    BY <2>11 DEF Kill, Return, IInv, TypeOK
  <2>12. CASE UNCHANGED vars
    BY <2>3, <2>12 DEF vars, run
  <2>. QED BY <2>3, <2>6, <2>7, <2>8, <2>9, <2>10, <2>11, <2>12 DEF Next
<1>. QED BY <1>2, <1>3

LEMMA UnharmedStep == IInv /\ Unstarted /\ Unharmed /\ [Next]_vars => Unharmed'
<1>. SUFFICES ASSUME IInv, Unstarted, Unharmed, [Next]_vars, NEW r \in Run, r \notin faulted'
     PROVE  /\ pc'[r] = "reread" => r \in Stamped'
            /\ pc'[r] = "settle" => dir' # None
            /\ Alone(r)' => outcome'[r] \in {"none", "ok"}
  BY StoresGrow DEF Unharmed
<1>1. /\ r \notin faulted
      /\ Stamped \subseteq Stamped'
      /\ dir # None => dir' # None
  BY StoresGrow, StampedAppended DEF IInv, Stamped
<1>2. pc'[r] = "reread" => pc[r] = "reread" \/ (pc[r] = "inserting")
  BY <1>1 DEF Next, vars, run, Start, At, Go, Return, Fault, IInv, TypeOK, PlanClickHouse, PlanFile,
       CheckPlan, PrepareClickHouse, PrepareFile, InsertHeader, HeaderShows, GiveUp,
       HeaderShowsLate, RereadWinner, Rename, FileExisted, SettleRename, Kill
<1>3. file # None => dir # None
  BY StudyAssumption DEF file, ContentOf
<1>4. pc'[r] = "settle" => pc[r] = "settle" \/ dir # None
  BY <1>1, <1>3 DEF Next, vars, run, Start, At, Go, Return, Fault, IInv, TypeOK, PlanClickHouse,
       PlanFile, CheckPlan, PrepareClickHouse, PrepareFile, InsertHeader, HeaderShows, GiveUp,
       HeaderShowsLate, RereadWinner, Rename, FileExisted, SettleRename, Kill
<1>5. (pc[r] \in {"reread", "inserting"} => r \in Stamped) /\ (pc[r] = "settle" => dir # None)
  BY <1>1 DEF Unharmed, IInv, HeaderOwner
<1>. QED BY <1>1, <1>2, <1>4, <1>5, AloneStep

LEMMA RepairInitial == Init => RepairInv
<1>. SUFFICES ASSUME Init PROVE RepairInv
  OBVIOUS
<1>. USE StudyAssumption DEF Init
<1>1. before.ch # None /\ before.file # None => before.ch = before.file
  OBVIOUS
<1>2. before.ch # None => 1 \in DOMAIN stamped /\ stamped[1] = Earlier /\ Earlier \in shown
  OBVIOUS
<1>. QED BY <1>1, <1>2 DEF RepairInv, EarlierKept, Unstarted, Inherited, Unharmed

\* With IInv it is inductive.
LEMMA RepairInvHolds == Spec => [](IInv /\ RepairInv)
<1>1. IInv /\ RepairInv /\ [Next]_vars => RepairInv'
  BY EarlierKeptStep, UnstartedStep, InheritedStep, UnharmedStep DEF RepairInv
<1>. QED BY <1>1, RepairInitial, InvariantHolds, PTL DEF Spec

\* While one content is about, a run that meets no fault of its own returns Ok,
\* whatever runs that were killed or failed left in the stores: doing the write
\* again is the repair that study_write.rs's errors name.
THEOREM RepairsConverge == Spec => []RepairConverges
<1>1. RepairInv => RepairConverges
  BY DEF RepairInv, Unharmed, RepairConverges
<1>. QED BY <1>1, RepairInvHolds, PTL

\* Stores that differ once no run is in progress differed before, or a run was
\* killed, returned an error that names the repair or gave up on an insert.  A
\* study from before keeps its place in both stores; a run that returned Ok had
\* to find or to publish its content in the directory, and a header that wins
\* belongs to such a run, for a run that was refused is beaten.
THEOREM DisagreementsNamed == Spec => []DisagreementNamed
<1>1. IInv /\ RepairInv => DisagreementNamed
  <2>. SUFFICES ASSUME IInv, RepairInv, Quiet, Winner # file, gaveUp = {},
                       \A r \in Run : outcome[r] \notin NeedsRepair
                PROVE  [ch |-> Winner, file |-> file] = before
    BY DEF DisagreementNamed, IInv, TypeOK
  <2>. USE DEF RepairInv
  <2>1. before = [ch |-> before.ch, file |-> before.file]
    BY DEF IInv, TypeOK
  <2>2. ASSUME NEW r \in Run, outcome[r] # "ok" PROVE WinningHeader # r
    <3>1. CASE pc[r] = "idle"
      BY <3>1, BeatenLoses DEF IInv, Lifecycle
    <3>2. CASE pc[r] = "returned"
      <4>1. Refused(r)
        BY <2>2, <3>2 DEF IInv, TypeOK, Outcomes, NeedsRepair, Refused, Lifecycle
      <4>. QED BY <4>1, BeatenLoses DEF IInv, RefusedBeaten
    <3>. QED BY <3>1, <3>2 DEF Quiet
  <2>3. WinningHeader \in Run \cup {Earlier, None}
    BY WinnerShown DEF IInv, TypeOK, WinningHeader, Showing
  <2>4. ASSUME NEW r \in Run, outcome[r] = "ok" PROVE FALSE
    <3>1. file = content[r]
      BY <2>4 DEF IInv, FileHolds
    <3>2. before.ch = None
      BY <2>4, <3>1, EarlierWins DEF Inherited
    <3>3. Showing # {}
      BY <2>4 DEF IInv, ClickHouseFirst, InClickHouse, TypeOK, Stamped, Showing
    <3>4. WinningHeader \in shown
      BY <3>3, WinnerShown DEF IInv, Showing
    <3>5. WinningHeader \in Run
      BY <2>3, <3>2, <3>4, StudyAssumption DEF IInv, Opening, TypeOK, Stamped
    <3>6. outcome[WinningHeader] = "ok"
      BY <2>2, <3>5
    <3>7. file = content[WinningHeader]
      BY <3>5, <3>6 DEF IInv, FileHolds
    <3>. QED BY <3>5, <3>7, StudyAssumption DEF Winner, ContentOf
  <2>5. WinningHeader \in {Earlier, None} /\ dir \in {Earlier, None}
    BY <2>2, <2>3, <2>4 DEF IInv, TypeOK, Lifecycle
  <2>6. Winner = before.ch
    <3>1. CASE before.ch # None
      BY <3>1, EarlierWins
    <3>2. CASE before.ch = None
      <4>1. Showing = {} \/ WinningHeader \in shown
        BY WinnerShown DEF IInv, Showing
      <4>2. WinningHeader = None
        BY <2>5, <3>2, <4>1 DEF IInv, Opening, WinningHeader
      <4>. QED BY <3>2, <4>2, StudyAssumption DEF Winner, ContentOf
    <3>. QED BY <3>1, <3>2
  <2>7. file = before.file
    <3>1. CASE dir = Earlier
      BY <3>1, StudyAssumption DEF IInv, Opening, EarlierKept, file, ContentOf
    <3>2. CASE dir = None
      BY <2>5, <3>2, StudyAssumption DEF EarlierKept, file, ContentOf
    <3>. QED BY <2>5, <3>1, <3>2
  <2>. QED BY <2>1, <2>6, <2>7
<1>. QED BY <1>1, RepairInvHolds, PTL

=============================================================================
