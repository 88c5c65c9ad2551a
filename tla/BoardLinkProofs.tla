-------------------------- MODULE BoardLinkProofs --------------------------
(***************************************************************************)
(* The signed board log, for any number of runs, steps, HELLO attempts and *)
(* faults: it is never behind the kernel, and a run that completed on a    *)
(* log of its own can be replayed from that log.  The invariant follows    *)
(* the script of a run: where the kernel stands decides its counters, its  *)
(* call and how much of the script the log holds; what a cancelled handler *)
(* left to append is the last record of a run that is gone.                *)
(***************************************************************************)
EXTENDS BoardLink, TLAPS

(* A run that has started and still has its connection.                      *)
Live == {"running", "failed", "done"}

(* The stages of a power cycle, behind the gate.                             *)
CycleStages == {"channel", "recordCycle", "hello", "helloWait", "recordLink"}

(* One run at a time is alive, and only a live one has a call.               *)
OneAlive ==
    \A r \in Run :
      /\ kernel[r].status # "waiting" => \A q \in Run : q < r => kernel[q].status = "gone"
      /\ call[r].stage # "none" => kernel[r].status \in {"running", "failed"}
      /\ kernel[r].status = "waiting" => kernel[r].op = "BIND" /\ kernel[r].steps = 0

Relinked == config.channel = "reboots"

(* Where the kernel is in its script decides its counters.                   *)
AtOp(k) ==
    CASE k.op = "BIND" -> \/ k.steps = 0 /\ k.seq = 1
                          \/ k.steps = CycleAfter /\ k.seq = CycleAfter + 1 /\ Relinked
      [] k.op = "STEP" -> \/ k.steps < CycleAfter /\ k.seq = k.steps + 1
                          \/ CycleAfter <= k.steps /\ k.steps < Steps /\ k.seq = k.steps + 2
      [] k.op \in {"POWER_CYCLE", "RESET"} -> k.steps = CycleAfter /\ k.seq = CycleAfter + 1
      [] OTHER -> k.steps = Steps /\ k.seq = Steps + 2
Scripted ==
    \A r \in Run : AtOp(kernel[r]) /\ Len(kernel[r].outputs) = kernel[r].steps

(* A call is the one its kernel makes, at a stage of that operation.         *)
CallOf(k, c) ==
    /\ c.op = k.op
    /\ c.seq = (IF k.op \in {"STEP", "RESET"} THEN k.seq ELSE 0)
    /\ c.at = (CASE k.op = "BIND" -> 0 [] k.op = "STEP" -> k.steps + 1 [] OTHER -> k.steps)
    /\ c.stage \in {"reading", "recording"} => c.op \in {"BIND", "STEP", "RESET", "SHUTDOWN"}
    /\ c.stage \in CycleStages => c.op = "POWER_CYCLE"
    /\ c.stage \in {"gate", "reading", "channel"} => ~c.ok /\ ~c.relinked
    /\ c.stage \in {"recordCycle", "hello", "helloWait"} => ~c.relinked
    /\ c.stage \in {"hello", "helloWait", "recordLink"} => Relinked
    /\ c.stage = "answered" /\ c.op = "POWER_CYCLE" /\ c.ok => (c.relinked <=> Relinked)
CallsMatch ==
    \A r \in Run : IF call[r].stage = "none" THEN call[r] = NoCall ELSE CallOf(kernel[r], call[r])

(* From the send of its Bind on, the log is that of the run; a Bind that was *)
(* answered is in it.                                                        *)
Bound(k) == k.op # "BIND" \/ k.steps > 0
Named(r) == \E i \in DOMAIN log : log[i].run = r
LogIsItsOwn ==
    \A r \in Run :
      /\ kernel[r].status \in Live /\ Bound(kernel[r]) => logRun = r
      /\ Bound(kernel[r]) => Named(r)
      /\ call[r].stage \in {"reading", "recording"} => logRun = r
      /\ call[r].stage = "answered" /\ call[r].ok => logRun = r /\ Named(r)
      /\ Named(r) => kernel[r].status # "waiting"

(* A frame answers the request it names, and its step is one of a run that   *)
(* the log knows.                                                            *)
FrameKnown(f) == f.op = "STEP" => Named(f.run)
StepTrue(seq, at, f) == f.op = "STEP" /\ f.seq = seq /\ f.at = at /\ Named(f.run)
FramesTrue ==
    /\ \A way \in DOMAIN air : \A f \in BagToSet(air[way]) : FrameKnown(f)
    /\ \A r \in Run : call[r].op = "STEP" /\ call[r].ok => StepTrue(call[r].seq, call[r].at, call[r].frame)
    /\ \A d \in orphans : d.kind = "STEP" /\ ~d.error => StepTrue(d.seq, d.at, d.output)
    /\ \A i \in DOMAIN log : log[i].kind = "STEP" /\ ~log[i].error
                                => StepTrue(log[i].seq, log[i].at, log[i].output)

(* The steps of a run in the log: those its kernel was answered and at most  *)
(* the one it is asking for, which is there once it is answered.             *)
NotYet(r) == \A i \in StepAt(r) : log[i].at <= kernel[r].steps
StepsInOrder ==
    /\ LogAheadOfKernel
    /\ \A r \in Run :
         /\ \A i \in StepAt(r) : log[i].at >= 1
         /\ kernel[r].op = "STEP" /\ call[r].stage \in {"none", "gate", "reading", "recording"}
              /\ kernel[r].status = "running" => NotYet(r)
         /\ call[r].op = "STEP" /\ call[r].stage \in {"gate", "reading", "recording"} => NotYet(r)
         /\ call[r].op = "STEP" /\ call[r].stage = "answered" /\ call[r].ok
              => \E i \in StepAt(r) : log[i].at = call[r].at /\ log[i].output = call[r].frame
         /\ kernel[r].op # "STEP" => NotYet(r)

(* What a cancelled handler left to append is the last that its run does.    *)
OrphansLast ==
    \A d \in orphans :
      /\ d.run \in Run /\ kernel[d.run].status = "gone"
      /\ \A e \in orphans : e.run = d.run => e = d
      /\ d.kind = "STEP" /\ ~d.error => NotYet(d.run) /\ kernel[d.run].op = "STEP" /\ d.at = kernel[d.run].steps + 1

(* How much of the script is in the log once the kernel is at its place.     *)
Extra == IF Relinked THEN 2 ELSE 0
Written(k) ==
    CASE k.op = "BIND" -> IF k.steps = 0 THEN 0 ELSE CycleAfter + 3
      [] k.op = "STEP" -> IF k.steps < CycleAfter THEN k.steps + 1 ELSE k.steps + Extra + 3
      [] k.op = "POWER_CYCLE" -> CycleAfter + 1
      [] k.op = "RESET" -> CycleAfter + 2 + Extra
      [] OTHER -> Steps + Extra + 3
WrittenInCall(c) ==
    CASE c.stage \in {"hello", "helloWait", "recordLink"} -> 1
      [] c.stage = "answered" /\ c.op = "POWER_CYCLE" -> IF Relinked THEN 2 ELSE 1
      [] c.stage = "answered" /\ c.op \notin {"HEAD", "POWER_CYCLE"} -> 1
      [] OTHER -> 0
Own(r) == \A i \in DOMAIN log : log[i].run = r
WellAnswered(c) == c.stage = "answered" => c.ok
Complete(r) == IF kernel[r].status = "done" THEN 1 ELSE WrittenInCall(call[r])
Ends == <<Entry("SHUTDOWN", 0, Steps)>>
OnTrack ==
    \A r \in Run :
      kernel[r].status \in {"running", "done"} /\ Own(r) /\ WellAnswered(call[r]) =>
        /\ Len(log) = Written(kernel[r]) + Complete(r)
        /\ \A i \in DOMAIN log :
             /\ ~log[i].error
             /\ Entry(log[i].kind, log[i].seq, log[i].at) = (Script(Relinked) \o Ends)[i]
Pinned ==
    \A r \in Run :
      /\ call[r].stage = "answered" /\ call[r].op = "HEAD" /\ call[r].ok /\ kernel[r].status = "running" /\ Own(r)
            => call[r].pin = Steps + Extra + 3
      /\ kernel[r].op = "SHUTDOWN" /\ kernel[r].status \in {"running", "done"} /\ Own(r) 
            => kernel[r].pin = Steps + Extra + 3
      /\ kernel[r].status = "done" => kernel[r].op = "SHUTDOWN"

(* The inductive invariant.                                                  *)
IInv == /\ TypeOK /\ OneAlive /\ Scripted /\ CallsMatch /\ LogIsItsOwn /\ FramesTrue /\ StepsInOrder
        /\ OrphansLast /\ OnTrack /\ Pinned
-----------------------------------------------------------------------------
(* Datagrams.                                                                *)

(* A datagram that is sent: BagAdd keeps a bag and adds the one datagram.    *)
LEMMA BagGrows ==
  ASSUME NEW B, IsABag(B), NEW f
  PROVE  IsABag(BagAdd(B, f)) /\ BagToSet(BagAdd(B, f)) = BagToSet(B) \cup {f}
BY DEF IsABag, BagToSet, BagAdd

(* A datagram that is read or lost: BagRemove keeps a bag and adds nothing.  *)
LEMMA BagShrinks ==
  ASSUME NEW B, IsABag(B), NEW f
  PROVE  IsABag(BagRemove(B, f)) /\ BagToSet(BagRemove(B, f)) \subseteq BagToSet(B)
BY DEF IsABag, BagToSet, BagRemove

(* What a HELLO discards: any part of a bag is a bag of just those datagrams.*)
LEMMA BagKept ==
  ASSUME NEW B, IsABag(B), NEW S \in SUBSET BagToSet(B)
  PROVE  IsABag([f \in S |-> B[f]]) /\ BagToSet([f \in S |-> B[f]]) = S
BY DEF IsABag, BagToSet

(* The frame of a call of a run is a frame.                                  *)
LEMMA FrameType ==
  ASSUME NEW op \in Ops, NEW seq \in 0 .. Steps + 2, NEW at \in 0 .. Steps, NEW r \in Run
  PROVE  Frame(op, seq, at, r) \in Frames
BY BoardAssumption DEF Frame, Frames, Run

(* What the constants, and the two fixed frames and the empty call, are.     *)
LEMMA Constant ==
  /\ Runs \in Nat \ {0} /\ HelloLimit \in Nat \ {0} /\ Faults \in Nat /\ Steps \in Nat
  /\ CycleAfter \in Nat \ {0} /\ CycleAfter < Steps
  /\ Hello \in Frames /\ ErrorFrame \in Frames /\ NoCall \in Calls
<1>1. /\ Runs \in Nat \ {0} /\ HelloLimit \in Nat \ {0} /\ Faults \in Nat /\ Steps \in Nat
      /\ CycleAfter \in Nat \ {0} /\ CycleAfter < Steps
  BY BoardAssumption
<1>2. Hello \in Frames /\ ErrorFrame \in Frames
  BY <1>1 DEF Hello, ErrorFrame, Frame, Frames
<1>3. NoCall \in Calls
  BY <1>1, <1>2 DEF NoCall, Calls, Ops, Stages
<1>. QED BY <1>1, <1>2, <1>3

(* What a handler at a recording stage appends is a record of the log.       *)
LEMMA DraftType ==
  ASSUME TypeOK, CallsMatch, NEW r \in Run, Recording(r)
  PROVE  Draft(r) \in Records
<1>1. call[r] \in Calls /\ CallOf(kernel[r], call[r]) /\ r \in 0 .. Runs
  BY Constant DEF Recording, TypeOK, CallsMatch, Run
<1>2. CASE call[r].stage = "recording"
  BY <1>1, <1>2, Constant DEF Draft, Record, Records, Kinds, Calls, CallOf, TypeOK
<1>3. CASE call[r].stage # "recording"
  BY <1>1, <1>3, Constant DEF Draft, Record, Records, Kinds, Calls
<1>. QED BY <1>2, <1>3

KernelTypes == kernel \in [Run -> Kernels]
CallTypes ==
  /\ call \in [Run -> Calls]
  /\ \A r \in Run : /\ call[r].hellos > 0 => call[r].op = "POWER_CYCLE"
                    /\ call[r].stage \notin {"none", "gate", "answered"} => gate = r
EdgeTypes ==
  /\ gate \in 0 .. Runs /\ logRun \in 0 .. Runs
  /\ orphans \subseteq Records /\ log \in Seq(Records)
  /\ lost \in BOOLEAN /\ poisoned \in BOOLEAN /\ up \in BOOLEAN
LinkTypes ==
  /\ DOMAIN air = {"guest", "edge"}
  /\ \A way \in DOMAIN air : IsABag(air[way]) /\ BagToSet(air[way]) \subseteq Frames
  /\ guest \in [state : {"booting", "hello", "bind", "loop", "ended"}, tick : 0 .. Steps]
  /\ spent \in 0 .. Faults

(* TypeOK by who changes what: the kernels, the calls, the edge service, the link.*)
LEMMA TypeParts == TypeOK <=>
   /\ config \in [matches : BOOLEAN, declared : BOOLEAN, channel : {"none", "cycles", "reboots"}]
   /\ KernelTypes /\ CallTypes /\ EdgeTypes /\ LinkTypes
BY DEF TypeOK, KernelTypes, CallTypes, EdgeTypes, LinkTypes

(* What a step may do to the kernels.                                       *)
LEMMA KernelTypesStep == IInv /\ [Next]_vars => KernelTypes'
<1>. SUFFICES ASSUME IInv, [Next]_vars PROVE KernelTypes'
  OBVIOUS
<1>. USE Constant DEF IInv
<1>1. ASSUME NEW r \in Run, KReply(r) PROVE KernelTypes'
  <2>1. kernel[r] \in Kernels /\ call[r] \in Calls /\ AtOp(kernel[r]) /\ CallOf(kernel[r], call[r])
    BY <1>1 DEF KReply, TypeOK, Scripted, CallsMatch
  <2>2. CASE ~Accepted(call[r])
    BY <1>1, <2>1, <2>2 DEF KReply, TypeOK, Kernels, Status, KernelTypes
  <2>3. CASE Accepted(call[r])
    <3>1. Advanced(kernel[r], call[r]).outputs \in Seq(Frames)
      BY <2>1, SMTT(20) DEF Advanced, Kernels, Calls
    <3>2. Advanced(kernel[r], call[r]).op \in Ops
      BY <2>1 DEF Advanced, Kernels, Calls, NextOp, AfterStep, Ops
    <3>3. Advanced(kernel[r], call[r]).seq \in 1 .. Steps + 2
      <4>1. kernel[r].op \in {"STEP", "RESET"} => kernel[r].seq + 1 \in 1 .. Steps + 2
        <5>1. CASE kernel[r].op = "STEP"
          BY <2>1, <5>1 DEF Kernels, AtOp
        <5>2. CASE kernel[r].op = "RESET"
          BY <2>1, <5>2 DEF Kernels, AtOp
        <5>. QED BY <5>1, <5>2
      <4>2. call[r].op = kernel[r].op
        BY <2>1 DEF CallOf
      <4>. QED BY <2>1, <4>1, <4>2 DEF Advanced, Kernels
    <3>4. Advanced(kernel[r], call[r]).steps \in 0 .. Steps
      BY <2>1 DEF Advanced, Kernels, Calls, AtOp, CallOf
    <3>5. Advanced(kernel[r], call[r]).pin \in Nat /\ Advanced(kernel[r], call[r]).status \in Status
      BY <2>1 DEF Advanced, Kernels, Calls, Status
    <3>6. Advanced(kernel[r], call[r]) \in Kernels
      BY <2>1, <3>1, <3>2, <3>3, <3>4, <3>5 DEF Advanced, Kernels
    <3>. QED BY <1>1, <2>3, <3>6 DEF KReply, TypeOK, KernelTypes
  <2>. QED BY <2>2, <2>3
<1>2. ASSUME NEW r \in Run, KTimeout(r) \/ KExit(r) \/ KStart(r) PROVE KernelTypes'
  <2>1. PICK s \in Status : kernel' = [kernel EXCEPT ![r].status = s]
    BY <1>2 DEF KTimeout, KExit, KStart, Status
  <2>2. [kernel[r] EXCEPT !.status = s] \in Kernels
    <3>1. kernel[r] \in Kernels
      BY DEF TypeOK
    <3>. QED BY <3>1, ZenonT(40) DEF Kernels
  <2>. QED BY <2>1, <2>2 DEF TypeOK, KernelTypes
<1>3. CASE UNCHANGED kernel
  BY <1>3 DEF TypeOK, KernelTypes
<1>. QED BY <1>1, <1>2, <1>3 DEF Next, vars, KernelMoves, HandlerMoves, KCall, Refuse, Begin, Head_,
  ReadAnswer, Recorded, RecordFails, BeginCycle, Channel, SendHello, HelloRead, HelloUnanswered,
  HelloDeadline, OrphanAppend, LinkFault, GuestReads, GuestBoots, GuestCrashes

(* A call changes by one record; whoever else is inside the gate stays.      *)
CallMoves(r) ==
  /\ call'[r] \in Calls /\ call' = [call EXCEPT ![r] = call'[r]]
  /\ call'[r].hellos > 0 => call'[r].op = "POWER_CYCLE"
  /\ call'[r].stage \notin {"none", "gate", "answered"} => gate' = r
  /\ gate' = gate \/ gate \in {0, r}

(* A step that moves one call in this way keeps the calls in their type.     *)
LEMMA CallSet ==
  ASSUME TypeOK, NEW r \in Run, CallMoves(r)
  PROVE  CallTypes'
<1>1. /\ \A q \in Run : call[q] \in Calls /\ (call[q].hellos > 0 => call[q].op = "POWER_CYCLE")
                        /\ (call[q].stage \notin {"none", "gate", "answered"} => gate = q)
      /\ \A q \in Run \ {r} : call'[q] = call[q]
  BY DEF TypeOK, CallMoves
<1>2. \A q \in Run : q # 0
  BY Constant DEF Run
<1>. QED BY <1>1, <1>2 DEF TypeOK, CallTypes, CallMoves

(* Every step keeps the calls in their type, and the gate with its holder.   *)
LEMMA CallTypesStep == IInv /\ [Next]_vars => CallTypes'
<1>. SUFFICES ASSUME IInv, [Next]_vars PROVE CallTypes'
  OBVIOUS
<1>. USE Constant DEF IInv
<1>0. ASSUME NEW r \in Run
      PROVE  /\ call \in [Run -> Calls]
             /\ call[r] \in Calls /\ kernel[r] \in Kernels
             /\ call[r].hellos > 0 => call[r].op = "POWER_CYCLE"
             /\ call[r].stage \notin {"none", "gate", "answered"} => gate = r
             /\ call[r].stage # "none" => CallOf(kernel[r], call[r])
  BY <1>0 DEF TypeOK, CallsMatch
<1>1. ASSUME NEW r \in Run, KCall(r) PROVE CallTypes'
  <2>1. PICK seq \in 0 .. Steps + 2, at \in 0 .. Steps, op \in Ops :
          call' = [call EXCEPT ![r] = [NoCall EXCEPT !.op = op, !.stage = "gate", !.seq = seq, !.at = at]]
    <3>1. kernel[r].op = "STEP" => kernel[r].steps + 1 \in 0 .. Steps
      BY <1>0 DEF Scripted, AtOp, Kernels
    <3>2. kernel[r].op \in Ops /\ kernel[r].seq \in 0 .. Steps + 2 /\ kernel[r].steps \in 0 .. Steps
      BY <1>0 DEF Kernels
    <3>3. (IF kernel[r].op \in {"STEP", "RESET"} THEN kernel[r].seq ELSE 0) \in 0 .. Steps + 2
      BY <3>2
    <3>4. (CASE kernel[r].op = "BIND" -> 0 [] kernel[r].op = "STEP" -> kernel[r].steps + 1
             [] OTHER -> kernel[r].steps) \in 0 .. Steps
      BY <3>1, <3>2
    <3>. QED BY <1>1, <3>2, <3>3, <3>4, Zenon DEF KCall
  <2>2. [NoCall EXCEPT !.op = op, !.stage = "gate", !.seq = seq, !.at = at] \in Calls
    BY DEF Calls, Stages
  <2>3. call'[r] = [NoCall EXCEPT !.op = op, !.stage = "gate", !.seq = seq, !.at = at]
        /\ call' = [call EXCEPT ![r] = call'[r]] /\ call'[r] \in Calls
    BY <1>0, <2>1, <2>2
  <2>4. call'[r].hellos = 0 /\ call'[r].stage = "gate" /\ gate' = gate
    <3>1. NoCall.hellos = 0 /\ gate' = gate
      BY <1>1 DEF NoCall, KCall, edgeVars
    <3>. QED BY <2>3, <3>1, Constant, ZenonT(40) DEF Calls
  <2>5. CallMoves(r)
    BY <2>3, <2>4 DEF CallMoves
  <2>. QED BY <2>5, CallSet
<1>2. ASSUME NEW r \in Run, KReply(r) \/ KExit(r) PROVE CallTypes'
  <2>1. call' = [call EXCEPT ![r] = NoCall] /\ call'[r] = NoCall
    BY <1>0, <1>2 DEF KReply, KExit
  <2>2. gate' = gate \/ gate = r
    BY <1>2 DEF KReply, KExit, edgeVars
  <2>3. NoCall.hellos = 0 /\ NoCall.stage = "none"
    BY DEF NoCall
  <2>4. call' = [call EXCEPT ![r] = call'[r]]
    BY <2>1
  <2>5. CallMoves(r)
    BY <2>1, <2>2, <2>3, <2>4 DEF CallMoves
  <2>. QED BY <2>5, CallSet
<1>3. ASSUME NEW r \in Run, Refuse(r) \/ RecordFails(r) PROVE CallTypes'
  <2>1. call'[r] = [call[r] EXCEPT !.stage = "answered", !.ok = FALSE]
        /\ call' = [call EXCEPT ![r] = call'[r]]
    BY <1>0, <1>3 DEF Refuse, RecordFails, Answer
  <2>2. call'[r] \in Calls /\ call'[r].hellos = call[r].hellos /\ call'[r].op = call[r].op
        /\ call'[r].stage = "answered"
    BY <1>0, <2>1 DEF Calls, Stages
  <2>3. gate' = gate \/ gate = r
    BY <1>0, <1>3 DEF Refuse, RecordFails, Recording, edgeVars
  <2>4. CallMoves(r)
    BY <1>0, <2>1, <2>2, <2>3 DEF CallMoves
  <2>. QED BY <2>4, CallSet
<1>4. ASSUME NEW r \in Run, Begin(r) \/ BeginCycle(r) \/ HelloUnanswered(r) \/ HelloDeadline(r)
      PROVE  CallTypes'
  <2>1. PICK s \in {"recording", "reading", "channel", "hello", "recordLink"} :
          call'[r] = [call[r] EXCEPT !.stage = s] /\ call' = [call EXCEPT ![r] = call'[r]]
    BY <1>0, <1>4 DEF Begin, BeginCycle, HelloUnanswered, HelloDeadline
  <2>2. call'[r] \in Calls /\ call'[r].hellos = call[r].hellos /\ call'[r].op = call[r].op
    BY <1>0, <2>1 DEF Calls, Stages
  <2>3. gate' = r /\ gate \in {0, r}
    BY <1>0, <1>4 DEF Begin, BeginCycle, HelloUnanswered, HelloDeadline, edgeVars, Enters
  <2>4. CallMoves(r)
    BY <1>0, <2>1, <2>2, <2>3 DEF CallMoves
  <2>. QED BY <2>4, CallSet
<1>5. ASSUME NEW r \in Run, Head_(r) PROVE CallTypes'
  <2>1. call'[r] = [call[r] EXCEPT !.stage = "answered", !.ok = (logRun = r), !.pin = Len(log)]
        /\ call' = [call EXCEPT ![r] = call'[r]] /\ gate' = gate
    BY <1>0, <1>5 DEF Head_, edgeVars
  <2>2. call'[r] \in Calls /\ call'[r].hellos = call[r].hellos /\ call'[r].op = call[r].op
        /\ call'[r].stage = "answered"
    <3>1. Len(log) \in Nat /\ (logRun = r) \in BOOLEAN
      BY DEF TypeOK
    <3>. QED BY <1>0, <2>1, <3>1, ZenonT(40) DEF Calls, Stages
  <2>3. CallMoves(r)
    BY <1>0, <2>1, <2>2 DEF CallMoves
  <2>. QED BY <2>3, CallSet
<1>6. ASSUME NEW r \in Run, ReadAnswer(r) PROVE CallTypes'
  <2>0. PICK f \in BagToSet(air.edge) :
          call' = [call EXCEPT ![r] = [call[r] EXCEPT !.stage = "recording", !.frame = f,
                                                      !.ok = Answers(f, call[r])]]
    BY <1>0, <1>6 DEF ReadAnswer
  <2>1. /\ f \in Frames
        /\ call'[r] = [call[r] EXCEPT !.stage = "recording", !.frame = f, !.ok = Answers(f, call[r])]
        /\ call' = [call EXCEPT ![r] = call'[r]]
    BY <1>0, <2>0 DEF TypeOK
  <2>2. call'[r] \in Calls /\ call'[r].hellos = call[r].hellos /\ call'[r].op = call[r].op
    <3>1. Answers(f, call[r]) \in BOOLEAN
      BY DEF Answers
    <3>. QED BY <1>0, <2>1, <3>1, ZenonT(40) DEF Calls, Stages
  <2>3. gate' = gate /\ gate = r
    BY <1>0, <1>6 DEF ReadAnswer, edgeVars
  <2>4. CallMoves(r)
    BY <1>0, <2>1, <2>2, <2>3 DEF CallMoves
  <2>. QED BY <2>4, CallSet
<1>7. ASSUME NEW r \in Run, Recorded(r) PROVE CallTypes'
  <2>1. gate = r
    BY <1>0, <1>7 DEF Recorded, Recording
  <2>2. CASE Relinks(call[r])
    <3>1. call'[r] = [call[r] EXCEPT !.stage = "hello"] /\ call' = [call EXCEPT ![r] = call'[r]] /\ gate' = gate
      BY <1>0, <1>7, <2>2 DEF Recorded
    <3>2. call'[r] \in Calls /\ call'[r].hellos = call[r].hellos /\ call'[r].op = call[r].op
      BY <1>0, <3>1 DEF Calls, Stages
    <3>3. CallMoves(r)
      BY <1>0, <2>1, <3>1, <3>2 DEF CallMoves
    <3>. QED BY <3>3, CallSet
  <2>3. CASE ~Relinks(call[r])
    <3>1. PICK ok \in BOOLEAN : call'[r] = [call[r] EXCEPT !.stage = "answered", !.ok = ok]
                                /\ call' = [call EXCEPT ![r] = call'[r]]
      BY <1>0, <1>7, <2>3 DEF Recorded, Answer, Calls
    <3>2. call'[r] \in Calls /\ call'[r].hellos = call[r].hellos /\ call'[r].op = call[r].op
          /\ call'[r].stage = "answered"
      BY <1>0, <3>1 DEF Calls, Stages
    <3>3. CallMoves(r)
      BY <1>0, <2>1, <3>1, <3>2 DEF CallMoves
    <3>. QED BY <3>3, CallSet
  <2>. QED BY <2>2, <2>3
<1>8. ASSUME NEW r \in Run, Channel(r) PROVE CallTypes'
  <2>1. PICK ok \in BOOLEAN : call'[r] = [call[r] EXCEPT !.stage = "recordCycle", !.ok = ok]
                              /\ call' = [call EXCEPT ![r] = call'[r]]
    BY <1>0, <1>8 DEF Channel
  <2>2. call'[r] \in Calls /\ call'[r].hellos = call[r].hellos /\ call'[r].op = call[r].op
    BY <1>0, <2>1 DEF Calls, Stages
  <2>3. gate' = gate /\ gate = r
    BY <1>0, <1>8 DEF Channel, edgeVars
  <2>4. CallMoves(r)
    BY <1>0, <2>1, <2>2, <2>3 DEF CallMoves
  <2>. QED BY <2>4, CallSet
<1>9. ASSUME NEW r \in Run, SendHello(r) PROVE CallTypes'
  <2>1. call'[r] = [call[r] EXCEPT !.stage = "helloWait", !.hellos = @ + 1]
        /\ call' = [call EXCEPT ![r] = call'[r]]
    BY <1>0, <1>9 DEF SendHello
  <2>2. call[r].op = "POWER_CYCLE"
    BY <1>0, <1>9 DEF SendHello, CallOf, CycleStages
  <2>3. call[r].hellos + 1 \in 0 .. HelloLimit
    BY <1>0, <1>9 DEF SendHello, Calls
  <2>4. call'[r] \in Calls /\ call'[r].op = "POWER_CYCLE"
    BY <1>0, <2>1, <2>2, <2>3, ZenonT(40) DEF Calls, Stages
  <2>5. gate' = gate /\ gate = r
    BY <1>0, <1>9 DEF SendHello, edgeVars
  <2>6. CallMoves(r)
    BY <1>0, <2>1, <2>4, <2>5 DEF CallMoves
  <2>. QED BY <2>6, CallSet
<1>10. ASSUME NEW r \in Run, HelloRead(r) PROVE CallTypes'
  <2>1. \/ call'[r] = [call[r] EXCEPT !.stage = "recordLink", !.relinked = TRUE]
        \/ call'[r] = [call[r] EXCEPT !.stage = "hello"]
    BY <1>0, <1>10 DEF HelloRead
  <2>2. call' = [call EXCEPT ![r] = call'[r]]
    BY <1>0, <1>10 DEF HelloRead
  <2>3. call'[r] \in Calls /\ call'[r].hellos = call[r].hellos /\ call'[r].op = call[r].op
    BY <1>0, <2>1 DEF Calls, Stages
  <2>4. gate' = gate /\ gate = r
    BY <1>0, <1>10 DEF HelloRead
  <2>5. CallMoves(r)
    BY <1>0, <2>2, <2>3, <2>4 DEF CallMoves
  <2>. QED BY <2>5, CallSet
<1>11. CASE UNCHANGED <<call, gate>>
  BY <1>11 DEF TypeOK, CallTypes
<1>. QED BY <1>1, <1>2, <1>3, <1>4, <1>5, <1>6, <1>7, <1>8, <1>9, <1>10, <1>11
  DEF Next, vars, KernelMoves, HandlerMoves, KTimeout, KStart, edgeVars,
  OrphanAppend, LinkFault, GuestReads, GuestBoots, GuestCrashes

(* The log only grows, by one record of a handler or of a dropped one.       *)
LogMoves(d) == log' \in {log, Append(log, d)}

(* An append, successful or not, adds the record or leaves the log as it was.*)
LEMMA AppendMoves ==
  ASSUME NEW d, Durable(d) \/ NotDurable(d), TypeOK
  PROVE  LogMoves(d) /\ poisoned' \in BOOLEAN /\ spent' \in 0 .. Faults
<1>1. CASE Durable(d)
  BY <1>1 DEF Durable, LogMoves, TypeOK
<1>2. CASE NotDurable(d)
  BY <1>2, Constant DEF NotDurable, LogMoves, TypeOK
<1>. QED BY <1>1, <1>2

(* Every step keeps the edge service in its type.                            *)
LEMMA EdgeTypesStep == IInv /\ [Next]_vars => EdgeTypes'
<1>. SUFFICES ASSUME IInv, [Next]_vars PROVE EdgeTypes'
  OBVIOUS
<1>. USE DEF IInv
<1>0. EdgeTypes /\ \A r \in Run : r \in 0 .. Runs /\ 0 \in 0 .. Runs
  BY Constant DEF TypeOK, EdgeTypes, Run
<1>1. ASSUME NEW r \in Run, Recorded(r) \/ RecordFails(r) PROVE EdgeTypes'
  <2>1. Draft(r) \in Records
    BY <1>1, DraftType DEF Recorded, RecordFails
  <2>2. LogMoves(Draft(r)) /\ poisoned' \in BOOLEAN
    BY <1>1, AppendMoves DEF Recorded, RecordFails
  <2>3. gate' \in 0 .. Runs /\ up' \in BOOLEAN /\ logRun' = logRun /\ lost' = lost /\ orphans' = orphans
    BY <1>0, <1>1 DEF Recorded, RecordFails, EdgeTypes
  <2>. QED BY <1>0, <2>1, <2>2, <2>3 DEF LogMoves, EdgeTypes
<1>2. CASE OrphanAppend
  <2>1. PICK d \in orphans : orphans' = orphans \ {d} /\ (Durable(d) \/ NotDurable(d))
    BY <1>2 DEF OrphanAppend
  <2>2. d \in Records /\ LogMoves(d) /\ poisoned' \in BOOLEAN
    BY <1>0, <2>1, AppendMoves DEF EdgeTypes
  <2>. QED BY <1>0, <1>2, <2>1, <2>2 DEF LogMoves, EdgeTypes, OrphanAppend
<1>3. ASSUME NEW r \in Run, KExit(r) PROVE EdgeTypes'
  <2>1. orphans' \subseteq Records
    BY <1>0, <1>3, DraftType DEF KExit, EdgeTypes
  <2>. QED BY <1>0, <1>3, <2>1 DEF KExit, EdgeTypes
<1>4. ASSUME NEW r \in Run, Begin(r) \/ BeginCycle(r) PROVE EdgeTypes'
  BY <1>0, <1>4 DEF Begin, BeginCycle, EdgeTypes
<1>5. ASSUME NEW r \in Run, HelloRead(r) \/ HelloDeadline(r) PROVE EdgeTypes'
  BY <1>0, <1>5 DEF HelloRead, HelloDeadline, EdgeTypes
<1>6. CASE UNCHANGED edgeVars
  BY <1>0, <1>6 DEF EdgeTypes, edgeVars
<1>. QED BY <1>1, <1>2, <1>3, <1>4, <1>5, <1>6
  DEF Next, vars, KernelMoves, HandlerMoves, KCall, KReply, KTimeout, KStart, edgeVars, Refuse, Head_,
  ReadAnswer, Channel, SendHello, HelloUnanswered, LinkFault, GuestReads, GuestBoots, GuestCrashes

(* The datagrams after a step: those of before, a copy of one of them, or a  *)
(* request or HELLO of the edge service.                                     *)
AirFrom(S) ==
  /\ DOMAIN air' = {"guest", "edge"}
  /\ \A way \in DOMAIN air' :
       IsABag(air'[way]) /\ BagToSet(air'[way]) \subseteq BagToSet(air["guest"]) \cup BagToSet(air["edge"]) \cup S

(* No step makes up a datagram that nobody sent.                             *)
LEMMA AirStep ==
  ASSUME TypeOK, [Next]_vars
  PROVE  \/ AirFrom({Hello, ErrorFrame})
         \/ \E r \in Run : /\ Begin(r)
                           /\ AirFrom({Frame(call[r].op, call[r].seq, call[r].at, r)})
<1>. USE DEF AirFrom
<1>0. /\ IsABag(air["guest"]) /\ IsABag(air["edge"]) /\ DOMAIN air = {"guest", "edge"}
      /\ air.guest = air["guest"] /\ air.edge = air["edge"]
  BY DEF TypeOK
<1>1. ASSUME NEW r \in Run, Begin(r)
      PROVE  AirFrom({Frame(call[r].op, call[r].seq, call[r].at, r)})
  BY <1>0, <1>1, BagGrows DEF Begin
<1>2. ASSUME NEW r \in Run, ReadAnswer(r) PROVE AirFrom({Hello, ErrorFrame})
  BY <1>0, <1>2, BagShrinks DEF ReadAnswer
<1>3. ASSUME NEW r \in Run, SendHello(r) PROVE AirFrom({Hello, ErrorFrame})
  <2>1. PICK late \in SUBSET BagToSet(air["edge"]) :
          air' = [guest |-> BagAdd(air["guest"], Hello), edge |-> [f \in late |-> air["edge"][f]]]
    BY <1>0, <1>3 DEF SendHello
  <2>2. /\ IsABag(BagAdd(air["guest"], Hello)) /\ IsABag([f \in late |-> air["edge"][f]])
        /\ BagToSet(BagAdd(air["guest"], Hello)) = BagToSet(air["guest"]) \cup {Hello}
        /\ BagToSet([f \in late |-> air["edge"][f]]) = late
    BY <1>0, BagGrows, BagKept
  <2>. QED BY <2>1, <2>2
<1>4. ASSUME NEW r \in Run, HelloRead(r) PROVE AirFrom({Hello, ErrorFrame})
  BY <1>0, <1>4, BagGrows, BagShrinks DEF HelloRead
<1>5. CASE LinkFault
  BY <1>0, <1>5, BagGrows, BagShrinks DEF LinkFault
<1>6. CASE GuestReads
  BY <1>0, <1>6, BagGrows, BagShrinks DEF GuestReads
<1>7. CASE UNCHANGED air
  BY <1>0, <1>7
<1>. QED BY <1>1, <1>2, <1>3, <1>4, <1>5, <1>6, <1>7
  DEF Next, vars, KernelMoves, HandlerMoves, KCall, KReply, KTimeout, KExit, KStart, edgeVars, Refuse,
  Head_, Recorded, RecordFails, BeginCycle, Channel, HelloUnanswered, HelloDeadline, OrphanAppend,
  GuestBoots, GuestCrashes

(* Every step keeps the link, the board and the budget in their types.       *)
LEMMA LinkTypesStep == IInv /\ [Next]_vars => LinkTypes'
<1>. SUFFICES ASSUME IInv, [Next]_vars PROVE LinkTypes'
  OBVIOUS
<1>. USE DEF IInv
<1>1. /\ DOMAIN air' = {"guest", "edge"}
      /\ \A way \in DOMAIN air' : IsABag(air'[way]) /\ BagToSet(air'[way]) \subseteq Frames
  <2>1. ASSUME NEW r \in Run PROVE Frame(call[r].op, call[r].seq, call[r].at, r) \in Frames
    <3>1. call[r].op \in Ops /\ call[r].seq \in 0 .. Steps + 2 /\ call[r].at \in 0 .. Steps
      BY DEF TypeOK, Calls
    <3>. QED BY <3>1, FrameType
  <2>2. BagToSet(air["guest"]) \subseteq Frames /\ BagToSet(air["edge"]) \subseteq Frames
    BY DEF TypeOK
  <2>. QED BY <2>1, <2>2, AirStep, Constant DEF AirFrom
<1>2. guest' \in [state : {"booting", "hello", "bind", "loop", "ended"}, tick : 0 .. Steps]
  <2>1. guest \in [state : {"booting", "hello", "bind", "loop", "ended"}, tick : 0 .. Steps]
    BY DEF TypeOK
  <2>2. CASE GuestReads
    <3>1. \A f \in BagToSet(air.guest) : f.at \in 0 .. Steps
      BY DEF TypeOK, Frames
    <3>. QED BY <2>1, <2>2, <3>1 DEF GuestReads, Then
  <2>3. CASE GuestBoots \/ GuestCrashes
    BY <2>1, <2>3 DEF GuestBoots, GuestCrashes
  <2>4. CASE guest' = Rebooted
    BY <2>4, Constant DEF Rebooted
  <2>5. CASE guest' = guest
    BY <2>1, <2>5
  <2>. QED BY <2>2, <2>3, <2>4, <2>5 DEF Next, vars, KernelMoves, HandlerMoves, KCall, KReply, KTimeout,
    KExit, KStart, Refuse, Begin, Head_, ReadAnswer, Recorded, RecordFails, BeginCycle, Channel,
    SendHello, HelloRead, HelloUnanswered, HelloDeadline, OrphanAppend, LinkFault
<1>3. spent' \in 0 .. Faults
  <2>1. spent \in 0 .. Faults /\ (spent < Faults => spent + 1 \in 0 .. Faults)
    BY Constant DEF TypeOK
  <2>2. ASSUME NEW r \in Run, Recorded(r) \/ RecordFails(r) PROVE spent' \in 0 .. Faults
    BY <2>2, AppendMoves DEF Recorded, RecordFails
  <2>3. CASE OrphanAppend
    BY <2>3, AppendMoves DEF OrphanAppend
  <2>4. ASSUME NEW r \in Run, Channel(r) PROVE spent' \in 0 .. Faults
    BY <2>1, <2>4 DEF Channel
  <2>. QED BY <2>1, <2>2, <2>3, <2>4 DEF Next, vars, KernelMoves, HandlerMoves, KCall, KReply, KTimeout,
    KExit, KStart, Refuse, Begin, Head_, ReadAnswer, BeginCycle, SendHello, HelloRead, HelloUnanswered,
    HelloDeadline, LinkFault, GuestReads, GuestBoots, GuestCrashes
<1>. QED BY <1>1, <1>2, <1>3 DEF LinkTypes

(* Every step keeps TypeOK.                                                  *)
LEMMA TypeStep == IInv /\ [Next]_vars => TypeOK'
<1>. SUFFICES ASSUME IInv, [Next]_vars PROVE TypeOK'
  OBVIOUS
<1>1. config' = config
  BY DEF Next, vars, KernelMoves, HandlerMoves, KCall, KReply, KTimeout,
    KExit, KStart, Refuse, Begin, Head_, ReadAnswer, Recorded, RecordFails, BeginCycle, Channel, SendHello,
    HelloRead, HelloUnanswered, HelloDeadline, OrphanAppend, LinkFault, GuestReads, GuestBoots, GuestCrashes
<1>. QED BY <1>1, KernelTypesStep, CallTypesStep, EdgeTypesStep, LinkTypesStep
  DEF IInv, TypeOK, KernelTypes, CallTypes, EdgeTypes, LinkTypes
-----------------------------------------------------------------------------
(* Who changes what.                                                         *)

(* What is declared of the board does not change during the runs.            *)
LEMMA ConfigStep == [Next]_vars => config' = config
BY DEF Next, vars, KernelMoves, HandlerMoves, KCall, KReply, KTimeout,
    KExit, KStart, Refuse, Begin, Head_, ReadAnswer, Recorded, RecordFails, BeginCycle, Channel, SendHello,
    HelloRead, HelloUnanswered, HelloDeadline, OrphanAppend, LinkFault, GuestReads, GuestBoots, GuestCrashes

(* A kernel is changed by its own reply, timeout, exit and start; all but a  *)
(* reply that it accepts change its status alone.                            *)
Became(q, status) == kernel'[q] = [kernel[q] EXCEPT !.status = status]
KernelMoved(q) ==
  \/ kernel'[q] = kernel[q]
  \/ KReply(q) /\ Accepted(call[q]) /\ kernel'[q] = Advanced(kernel[q], call[q])
  \/ kernel[q].status = "running" /\ Became(q, "failed")
  \/ KExit(q) /\ kernel[q].status = "failed" /\ Became(q, "gone")
  \/ KStart(q) /\ kernel[q].status = "waiting" /\ Became(q, "running")

(* Every step is one of these to every kernel.                               *)
LEMMA KernelStep ==
  ASSUME TypeOK, [Next]_vars, NEW q \in Run
  PROVE  KernelMoved(q)
<1>1. ASSUME NEW r \in Run, KReply(r) \/ KTimeout(r) \/ KExit(r) \/ KStart(r), r # q
      PROVE  kernel'[q] = kernel[q]
  BY <1>1 DEF KReply, KTimeout, KExit, KStart, TypeOK
<1>2. CASE KReply(q) \/ KTimeout(q) \/ KExit(q) \/ KStart(q)
  BY <1>2 DEF KReply, KTimeout, KExit, KStart, TypeOK, Became, KernelMoved
<1>. QED BY <1>1, <1>2 DEF Next, vars, KernelMoves, HandlerMoves, KCall, Refuse, Begin, Head_, ReadAnswer,
    Recorded, RecordFails, BeginCycle, Channel, SendHello, HelloRead, HelloUnanswered, HelloDeadline,
    OrphanAppend, LinkFault, GuestReads, GuestBoots, GuestCrashes, KernelMoved

(* A change of status leaves all else of a kernel.                           *)
LEMMA BecameFields ==
  ASSUME TypeOK, NEW q \in Run, NEW s, Became(q, s)
  PROVE  /\ kernel'[q].status = s /\ kernel'[q].op = kernel[q].op /\ kernel'[q].steps = kernel[q].steps
         /\ kernel'[q].seq = kernel[q].seq /\ kernel'[q].outputs = kernel[q].outputs
         /\ kernel'[q].pin = kernel[q].pin
BY DEF Became, TypeOK, Kernels

(* An accepted reply, field by field.                                        *)
LEMMA AdvancedFields ==
  ASSUME TypeOK, NEW q \in Run, KReply(q), kernel'[q] = Advanced(kernel[q], call[q])
  PROVE  /\ kernel[q].status = "running" /\ call[q].stage = "answered"
         /\ call' = [call EXCEPT ![q] = NoCall] /\ call'[q] = NoCall
         /\ kernel'[q].status = (IF call[q].op = "SHUTDOWN" THEN "done" ELSE "running")
         /\ kernel'[q].op = NextOp(kernel[q], call[q])
         /\ kernel'[q].steps = (IF call[q].op = "STEP" THEN kernel[q].steps + 1 ELSE kernel[q].steps)
         /\ kernel'[q].seq = (IF call[q].op \in {"STEP", "RESET"} THEN kernel[q].seq + 1 ELSE kernel[q].seq)
         /\ kernel'[q].outputs = (IF call[q].op = "STEP" THEN Append(kernel[q].outputs, call[q].frame)
                                                          ELSE kernel[q].outputs)
         /\ kernel'[q].pin = (IF call[q].op = "HEAD" THEN call[q].pin ELSE kernel[q].pin)
<1>1. kernel[q] \in Kernels /\ call \in [Run -> Calls]
  BY DEF TypeOK
<1>2. /\ kernel[q].status = "running" /\ call[q].stage = "answered"
      /\ call' = [call EXCEPT ![q] = NoCall] /\ call'[q] = NoCall
  BY <1>1 DEF KReply
<1>3. /\ Advanced(kernel[q], call[q]).status = (IF call[q].op = "SHUTDOWN" THEN "done" ELSE "running")
      /\ Advanced(kernel[q], call[q]).op = NextOp(kernel[q], call[q])
      /\ Advanced(kernel[q], call[q]).steps
           = (IF call[q].op = "STEP" THEN kernel[q].steps + 1 ELSE kernel[q].steps)
      /\ Advanced(kernel[q], call[q]).seq
           = (IF call[q].op \in {"STEP", "RESET"} THEN kernel[q].seq + 1 ELSE kernel[q].seq)
  BY <1>1 DEF Advanced, Kernels
<1>4. /\ Advanced(kernel[q], call[q]).outputs
           = (IF call[q].op = "STEP" THEN Append(kernel[q].outputs, call[q].frame) ELSE kernel[q].outputs)
      /\ Advanced(kernel[q], call[q]).pin = (IF call[q].op = "HEAD" THEN call[q].pin ELSE kernel[q].pin)
  BY <1>1 DEF Advanced, Kernels
<1>. QED BY <1>2, <1>3, <1>4

(* And its call by itself and by the handler.                                *)
LEMMA CallStep ==
  ASSUME TypeOK, [Next]_vars, NEW q \in Run
  PROVE  \/ call'[q] = call[q] \/ KCall(q) \/ KReply(q) \/ KExit(q) \/ HandlerMoves(q)
<1>1. ASSUME NEW r \in Run, KCall(r) \/ KReply(r) \/ KExit(r), r # q
      PROVE  call'[q] = call[q]
  BY <1>1 DEF KCall, KReply, KExit, TypeOK
<1>2. ASSUME NEW r \in Run, HandlerMoves(r), r # q
      PROVE  call'[q] = call[q]
  BY <1>2 DEF HandlerMoves, Refuse, Begin, Head_, ReadAnswer,
    Recorded, RecordFails, BeginCycle, Channel, SendHello, HelloRead, HelloUnanswered, HelloDeadline,
    Answer, TypeOK
<1>. QED BY <1>1, <1>2 DEF Next, vars, KernelMoves, KTimeout, KStart,
    OrphanAppend, LinkFault, GuestReads, GuestBoots, GuestCrashes

(* A handler works for a call, and never touches a kernel.                   *)
LEMMA HandlerKeeps ==
  ASSUME NEW r \in Run, HandlerMoves(r)
  PROVE  kernel' = kernel /\ call[r].stage # "none"
BY DEF HandlerMoves, Refuse, Begin, Head_, ReadAnswer, Enters, Recording,
    Recorded, RecordFails, BeginCycle, Channel, SendHello, HelloRead, HelloUnanswered, HelloDeadline

(* Every step keeps one run alive at a time: the next starts when the last is gone.*)
LEMMA OneAliveStep == IInv /\ [Next]_vars => OneAlive'
<1>. SUFFICES ASSUME IInv, [Next]_vars, NEW r \in Run
              PROVE  /\ kernel'[r].status # "waiting" => \A q \in Run : q < r => kernel'[q].status = "gone"
                     /\ call'[r].stage # "none" => kernel'[r].status \in {"running", "failed"}
                     /\ kernel'[r].status = "waiting" => kernel'[r].op = "BIND" /\ kernel'[r].steps = 0
  BY DEF OneAlive
<1>. USE DEF IInv
<1>1. ASSUME NEW q \in Run
      PROVE  /\ kernel[q].status = "gone" => kernel'[q].status = "gone"
             /\ kernel'[q].status = "waiting" => kernel[q].status = "waiting" /\ kernel'[q] = kernel[q]
             /\ kernel'[q].status # kernel[q].status /\ kernel[q].status = "waiting" => KStart(q)
  BY <1>1, KernelStep, BecameFields, AdvancedFields DEF KernelMoved
<1>2. kernel'[r].status # "waiting" => \A q \in Run : q < r => kernel'[q].status = "gone"
  <2>1. CASE kernel[r].status # "waiting"
    BY <1>1, <2>1 DEF OneAlive
  <2>2. CASE kernel[r].status = "waiting" /\ KStart(r)
    <3>1. r \in Nat /\ r - 1 \in Run /\ kernel[r - 1].status = "gone" /\ \A q \in Run : q \in Nat
      BY <2>2, Constant DEF KStart, Run
    <3>2. ASSUME NEW q \in Run, q < r PROVE kernel[q].status = "gone"
      BY <3>1, <3>2 DEF OneAlive
    <3>. QED BY <1>1, <3>2
  <2>. QED BY <1>1, <2>1, <2>2
<1>3. call'[r].stage # "none" => kernel'[r].status \in {"running", "failed"}
  <2>1. CASE KCall(r)
    BY <2>1 DEF KCall
  <2>2. CASE KReply(r) \/ KExit(r)
    BY <2>2 DEF KReply, KExit, NoCall, TypeOK
  <2>3. CASE HandlerMoves(r)
    BY <2>3, HandlerKeeps DEF OneAlive
  <2>4. CASE call'[r] = call[r] /\ ~KReply(r) /\ ~KExit(r)
    BY <2>4, KernelStep, BecameFields DEF KernelMoved, OneAlive
  <2>. QED BY <2>1, <2>2, <2>3, <2>4, CallStep
<1>. QED BY <1>1, <1>2, <1>3 DEF OneAlive

(* Every step keeps the counters of a kernel at those of its place in the script.*)
LEMMA ScriptedStep == IInv /\ [Next]_vars => Scripted'
<1>. SUFFICES ASSUME IInv, [Next]_vars, NEW r \in Run
              PROVE  AtOp(kernel[r])' /\ Len(kernel'[r].outputs) = kernel'[r].steps
  BY DEF Scripted
<1>. USE Constant DEF IInv
<1>0. kernel[r] \in Kernels /\ AtOp(kernel[r]) /\ Len(kernel[r].outputs) = kernel[r].steps
      /\ kernel \in [Run -> Kernels] /\ config' = config /\ call[r] \in Calls
  BY ConfigStep DEF TypeOK, Scripted
<1>1. CASE KReply(r) /\ Accepted(call[r]) /\ kernel'[r] = Advanced(kernel[r], call[r])
  <2>1. /\ call[r].op = kernel[r].op /\ kernel[r].op \in Ops
        /\ call[r].op = "POWER_CYCLE" => (call[r].relinked <=> Relinked)
    BY <1>0, <1>1 DEF KReply, Accepted, CallsMatch, CallOf, Kernels
  <2>2. Len(kernel'[r].outputs) = kernel'[r].steps
    <3>1. kernel[r].outputs \in Seq(Frames) /\ call[r].frame \in Frames
      BY <1>0 DEF Kernels, Calls
    <3>2. Len(Append(kernel[r].outputs, call[r].frame)) = Len(kernel[r].outputs) + 1
      BY <3>1
    <3>3. /\ kernel'[r].steps = (IF call[r].op = "STEP" THEN kernel[r].steps + 1 ELSE kernel[r].steps)
          /\ kernel'[r].outputs = (IF call[r].op = "STEP" THEN Append(kernel[r].outputs, call[r].frame)
                                                           ELSE kernel[r].outputs)
      BY <1>1, AdvancedFields
    <3>. QED BY <1>0, <3>2, <3>3
  <2>3. AtOp(kernel[r])'
    <3>0. kernel[r].steps \in Nat /\ kernel[r].seq \in Nat
      BY <1>0 DEF Kernels
    <3>1. CASE kernel[r].op = "STEP"
      <4>1. kernel'[r].op = AfterStep(kernel[r].steps + 1) /\ kernel'[r].steps = kernel[r].steps + 1
            /\ kernel'[r].seq = kernel[r].seq + 1
        BY <1>1, <2>1, <3>1, AdvancedFields DEF NextOp
      <4>2. \/ kernel[r].steps < CycleAfter /\ kernel[r].seq = kernel[r].steps + 1
            \/ CycleAfter <= kernel[r].steps /\ kernel[r].steps < Steps /\ kernel[r].seq = kernel[r].steps + 2
        BY <1>0, <3>1 DEF AtOp
      <4>. QED BY <3>0, <4>1, <4>2 DEF AfterStep, AtOp
    <3>2. CASE kernel[r].op = "BIND"
      BY <1>0, <1>1, <2>1, <3>0, <3>2, AdvancedFields DEF NextOp, AtOp, Relinked
    <3>3. CASE kernel[r].op = "POWER_CYCLE"
      BY <1>0, <1>1, <2>1, <3>0, <3>3, AdvancedFields DEF NextOp, AtOp, Relinked
    <3>4. CASE kernel[r].op = "RESET"
      BY <1>0, <1>1, <2>1, <3>0, <3>4, AdvancedFields DEF NextOp, AtOp
    <3>5. CASE kernel[r].op \in {"HEAD", "SHUTDOWN"}
      BY <1>0, <1>1, <2>1, <3>0, <3>5, AdvancedFields DEF NextOp, AtOp
    <3>. QED BY <2>1, <3>1, <3>2, <3>3, <3>4, <3>5 DEF Ops
  <2>. QED BY <2>2, <2>3
<1>2. CASE \E s : Became(r, s)
  BY <1>0, <1>2, BecameFields DEF AtOp, Relinked
<1>3. CASE kernel'[r] = kernel[r]
  BY <1>0, <1>3 DEF AtOp, Relinked
<1>. QED BY <1>1, <1>2, <1>3, KernelStep DEF KernelMoved

(* A handler keeps the operation and what it is about; it changes the        *)
(* stage and, at some of them, the result.                                   *)
SameCall(r) ==
  call'[r].op = call[r].op /\ call'[r].seq = call[r].seq /\ call'[r].at = call[r].at
Same(r) == call'[r].ok = call[r].ok /\ call'[r].frame = call[r].frame /\ call'[r].relinked = call[r].relinked
HandlerEffect(r) ==
  \/ (Refuse(r) \/ RecordFails(r)) /\ call'[r].stage = "answered" /\ ~call'[r].ok
       /\ call'[r].frame = call[r].frame /\ call'[r].relinked = call[r].relinked
  \/ Begin(r) /\ call'[r].stage \in {"recording", "reading"} /\ (call'[r].stage = "recording" => lost) /\ Same(r)
  \/ Head_(r) /\ call'[r].stage = "answered" /\ call'[r].ok = (logRun = r) /\ call'[r].pin = Len(log)
  \/ ReadAnswer(r) /\ call'[r].stage = "recording" /\ call'[r].relinked = call[r].relinked
       /\ call'[r].frame \in BagToSet(air.edge) /\ call'[r].ok = Answers(call'[r].frame, call[r])
  \/ Recorded(r) /\ Relinks(call[r]) /\ call'[r].stage = "hello" /\ Same(r)
  \/ Recorded(r) /\ ~Relinks(call[r]) /\ call'[r].stage = "answered"
       /\ call'[r].ok = (IF call[r].stage = "recordLink" THEN call[r].relinked ELSE call[r].ok)
       /\ call'[r].frame = call[r].frame /\ call'[r].relinked = call[r].relinked
  \/ BeginCycle(r) /\ call'[r].stage = "channel" /\ Same(r)
  \/ Channel(r) /\ call'[r].stage = "recordCycle" /\ call'[r].relinked = call[r].relinked
  \/ SendHello(r) /\ call'[r].stage = "helloWait" /\ Same(r)
  \/ HelloRead(r) /\ call'[r].stage = "recordLink" /\ call'[r].relinked
  \/ (HelloRead(r) \/ HelloUnanswered(r)) /\ call'[r].stage = "hello" /\ Same(r)
  \/ HelloDeadline(r) /\ call'[r].stage = "recordLink" /\ Same(r)

(* Every move of a handler has one of these effects on its call.             *)
LEMMA HandlerStep ==
  ASSUME TypeOK, NEW r \in Run, HandlerMoves(r)
  PROVE  SameCall(r) /\ HandlerEffect(r)
<1>. USE DEF SameCall, Same, HandlerEffect
<1>0. call \in [Run -> Calls] /\ call[r] \in Calls
  BY DEF TypeOK
<1>1. CASE Refuse(r)
  BY <1>0, <1>1 DEF Refuse, Answer, Calls
<1>2. CASE RecordFails(r)
  BY <1>0, <1>2 DEF RecordFails, Answer, Calls
<1>3. CASE Begin(r)
  BY <1>0, <1>3 DEF Begin, Calls
<1>4. CASE Head_(r)
  BY <1>0, <1>4 DEF Head_, Calls
<1>5. CASE ReadAnswer(r)
  <2>1. PICK f \in BagToSet(air.edge) :
          call'[r] = [call[r] EXCEPT !.stage = "recording", !.frame = f, !.ok = Answers(f, call[r])]
    BY <1>0, <1>5 DEF ReadAnswer
  <2>2. /\ call'[r].stage = "recording" /\ call'[r].frame = f /\ call'[r].ok = Answers(f, call[r])
        /\ call'[r].relinked = call[r].relinked /\ SameCall(r)
    BY <1>0, <2>1 DEF Calls
  <2>. QED BY <1>5, <2>2
<1>6. CASE Recorded(r) /\ Relinks(call[r])
  BY <1>0, <1>6 DEF Recorded, Calls
<1>7. CASE Recorded(r) /\ ~Relinks(call[r])
  BY <1>0, <1>7 DEF Recorded, Answer, Calls
<1>8. CASE BeginCycle(r)
  BY <1>0, <1>8 DEF BeginCycle, Calls
<1>9. CASE Channel(r)
  <2>1. PICK ok \in BOOLEAN : call'[r] = [call[r] EXCEPT !.stage = "recordCycle", !.ok = ok]
    BY <1>0, <1>9 DEF Channel
  <2>. QED BY <1>0, <1>9, <2>1 DEF Calls
<1>10. CASE SendHello(r)
  BY <1>0, <1>10 DEF SendHello, Calls
<1>11. CASE HelloRead(r)
  <2>1. \/ call'[r] = [call[r] EXCEPT !.stage = "recordLink", !.relinked = TRUE]
        \/ call'[r] = [call[r] EXCEPT !.stage = "hello"]
    BY <1>0, <1>11 DEF HelloRead
  <2>. QED BY <1>0, <1>11, <2>1 DEF Calls
<1>12. CASE HelloUnanswered(r) \/ HelloDeadline(r)
  BY <1>0, <1>12 DEF HelloUnanswered, HelloDeadline, Calls
<1>. QED BY <1>1, <1>2, <1>3, <1>4, <1>5, <1>6, <1>7, <1>8, <1>9, <1>10, <1>11, <1>12 DEF HandlerMoves

(* A new call of a kernel.                                                   *)
LEMMA CallFields ==
  ASSUME TypeOK, NEW r \in Run, KCall(r)
  PROVE  /\ kernel[r].status = "running" /\ call[r].stage = "none" /\ kernel' = kernel
         /\ call'[r].op = kernel[r].op /\ call'[r].stage = "gate" /\ ~call'[r].ok /\ ~call'[r].relinked
         /\ call'[r].seq = (IF kernel[r].op \in {"STEP", "RESET"} THEN kernel[r].seq ELSE 0)
         /\ call'[r].at = (CASE kernel[r].op = "BIND" -> 0 [] kernel[r].op = "STEP" -> kernel[r].steps + 1
                             [] OTHER -> kernel[r].steps)
BY DEF KCall, Idle, TypeOK, NoCall

(* Every step keeps a call the one its kernel makes.                         *)
LEMMA CallsMatchStep == IInv /\ [Next]_vars => CallsMatch'
<1>. SUFFICES ASSUME IInv, [Next]_vars, NEW r \in Run
              PROVE  (IF call[r].stage = "none" THEN call[r] = NoCall ELSE CallOf(kernel[r], call[r]))'
  BY DEF CallsMatch
<1>. USE DEF IInv
<1>0. /\ Relinked' <=> Relinked
      /\ IF call[r].stage = "none" THEN call[r] = NoCall ELSE CallOf(kernel[r], call[r])
      /\ call[r].stage \in Stages /\ call[r].op \in Ops
  BY ConfigStep DEF CallsMatch, TypeOK, Calls, Relinked
<1>1. CASE KCall(r)
  BY <1>0, <1>1, CallFields DEF CallOf, CycleStages
<1>2. CASE KReply(r) \/ KExit(r)
  <2>1. call'[r] = NoCall /\ NoCall.stage = "none"
    BY <1>2 DEF KReply, KExit, TypeOK, NoCall
  <2>. QED BY <2>1
<1>3. CASE HandlerMoves(r)
  <2>1. kernel' = kernel /\ CallOf(kernel[r], call[r]) /\ SameCall(r) /\ HandlerEffect(r)
    BY <1>0, <1>3, HandlerKeeps, HandlerStep
  <2>. USE <1>0, <2>1 DEF SameCall, Same, CallOf, CycleStages
  <2>2. CASE call'[r].stage = "answered" /\ (~call'[r].ok \/ call[r].op = "HEAD")
    BY <2>2
  <2>3. CASE Begin(r) /\ call'[r].stage \in {"recording", "reading"} /\ Same(r)
    BY <2>3 DEF Begin, Enters
  <2>4. CASE ReadAnswer(r) /\ call'[r].stage = "recording"
    BY <2>4 DEF ReadAnswer
  <2>5. CASE Recorded(r) /\ Relinks(call[r]) /\ call'[r].stage = "hello" /\ Same(r)
    BY <2>5 DEF Recorded, Relinks, Relinked
  <2>6. CASE /\ Recorded(r) /\ ~Relinks(call[r]) /\ call'[r].stage = "answered"
             /\ call'[r].ok = (IF call[r].stage = "recordLink" THEN call[r].relinked ELSE call[r].ok)
             /\ call'[r].relinked = call[r].relinked
    BY <2>6 DEF Recorded, Recording, Relinks, Relinked
  <2>7. CASE BeginCycle(r) /\ call'[r].stage = "channel" /\ Same(r)
    BY <2>7 DEF BeginCycle, Enters
  <2>8. CASE Channel(r) /\ call'[r].stage = "recordCycle" /\ call'[r].relinked = call[r].relinked
    BY <2>8 DEF Channel
  <2>9. CASE SendHello(r) /\ call'[r].stage = "helloWait" /\ Same(r)
    BY <2>9 DEF SendHello
  <2>10. CASE /\ HelloRead(r) \/ HelloUnanswered(r) \/ HelloDeadline(r)
              /\ \/ call'[r].stage = "recordLink"
                 \/ call'[r].stage = "hello" /\ Same(r)
    BY <2>10 DEF HelloRead, HelloUnanswered, HelloDeadline
  <2>11. Head_(r) => call[r].op = "HEAD"
    BY DEF Head_
  <2>. QED BY <2>2, <2>3, <2>4, <2>5, <2>6, <2>7, <2>8, <2>9, <2>10, <2>11 DEF HandlerEffect
<1>4. CASE call'[r] = call[r] /\ ~KReply(r) /\ ~KExit(r)
  <2>1. kernel'[r] = kernel[r] \/ \E s : Became(r, s)
    BY <1>4, KernelStep DEF KernelMoved
  <2>2. kernel'[r].op = kernel[r].op /\ kernel'[r].seq = kernel[r].seq /\ kernel'[r].steps = kernel[r].steps
    BY <2>1, BecameFields
  <2>. QED BY <1>0, <1>4, <2>2 DEF CallOf
<1>. QED BY <1>1, <1>2, <1>3, <1>4, CallStep
-----------------------------------------------------------------------------
(* The log.                                                                  *)

Drafted(d) == log' = Append(log, d)

(* Every step leaves the log or appends to it what a handler drafted.        *)
LEMMA LogStep ==
  ASSUME TypeOK, [Next]_vars
  PROVE  \/ log' = log
         \/ \E r \in Run : Recorded(r) /\ Recording(r) /\ Drafted(Draft(r))
         \/ \E r \in Run : RecordFails(r) /\ Recording(r) /\ Drafted(Draft(r))
         \/ \E d \in orphans : OrphanAppend /\ orphans' = orphans \ {d} /\ Drafted(d)
<1>1. ASSUME NEW r \in Run, Recorded(r) \/ RecordFails(r)
      PROVE  Recording(r) /\ (log' = log \/ Drafted(Draft(r)))
  BY <1>1 DEF Recorded, RecordFails, Durable, NotDurable, Drafted
<1>2. ASSUME OrphanAppend PROVE \E d \in orphans : orphans' = orphans \ {d} /\ (log' = log \/ Drafted(d))
  BY <1>2 DEF OrphanAppend, Durable, NotDurable, Drafted
<1>. QED BY <1>1, <1>2 DEF Next, vars, edgeVars, KernelMoves, HandlerMoves, KCall, KReply, KTimeout,
    KExit, KStart, Refuse, Begin, Head_, ReadAnswer, BeginCycle, Channel, SendHello,
    HelloRead, HelloUnanswered, HelloDeadline, LinkFault, GuestReads, GuestBoots, GuestCrashes

(* The log after an append, record by record.                                *)
LEMMA DraftedFields ==
  ASSUME TypeOK, NEW d, Drafted(d)
  PROVE  /\ Len(log) \in Nat /\ DOMAIN log = 1 .. Len(log)
         /\ Len(log') = Len(log) + 1 /\ DOMAIN log' = 1 .. Len(log) + 1
         /\ log'[Len(log) + 1] = d
         /\ \A i \in DOMAIN log : i \in DOMAIN log' /\ log'[i] = log[i] /\ i # Len(log) + 1
         /\ \A i \in DOMAIN log' : i \in DOMAIN log \/ i = Len(log) + 1
<1>1. log \in Seq(Records)
  BY DEF TypeOK
<1>2. Len(log) \in Nat /\ DOMAIN log = 1 .. Len(log)
  BY <1>1
<1>3. /\ Len(Append(log, d)) = Len(log) + 1 /\ DOMAIN Append(log, d) = 1 .. Len(log) + 1
      /\ Append(log, d)[Len(log) + 1] = d /\ \A i \in 1 .. Len(log) : Append(log, d)[i] = log[i]
  BY <1>1
<1>. QED BY <1>2, <1>3 DEF Drafted

(* A run the log knows stays known.                                          *)
LEMMA NamedStays ==
  ASSUME TypeOK, [Next]_vars, NEW r, Named(r)
  PROVE  Named(r)'
BY LogStep, DraftedFields DEF Named

(* Two runs that are alive are the same run.                                 *)
LEMMA Sole ==
  ASSUME OneAlive, NEW r \in Run, NEW q \in Run, kernel[r].status \in Live, kernel[q].status \in Live
  PROVE  r = q
<1>1. r \in Nat /\ q \in Nat
  BY Constant DEF Run
<1>. QED BY <1>1 DEF OneAlive, Live

(* A run with a call is alive and, its Bind answered, has the log in its name.*)
LEMMA CallerLives ==
  ASSUME IInv, NEW r \in Run, call[r].stage # "none"
  PROVE  /\ kernel[r].status \in Live /\ CallOf(kernel[r], call[r])
         /\ call[r].op # "BIND" => logRun = r /\ Named(r)
BY DEF IInv, OneAlive, CallsMatch, Live, CallOf, LogIsItsOwn, Bound

(* The log changes its run by a Bind, and by nothing else.                   *)
LEMMA LogRunStep ==
  ASSUME [Next]_vars
  PROVE  logRun' = logRun \/ \E r \in Run : Begin(r) /\ call[r].stage # "none" /\ logRun' = r
<1>1. ASSUME NEW r \in Run, Begin(r)
      PROVE  call[r].stage # "none" /\ logRun' \in {logRun, r}
  BY <1>1 DEF Begin, Enters
<1>. QED BY <1>1 DEF Next, vars, edgeVars, KernelMoves, HandlerMoves, KCall, KReply, KTimeout, Recorded,
    RecordFails, KExit, KStart, Refuse, Head_, ReadAnswer, BeginCycle, Channel, SendHello, OrphanAppend,
    HelloRead, HelloUnanswered, HelloDeadline, LinkFault, GuestReads, GuestBoots, GuestCrashes

(* Whose record is appended.                                                 *)
LEMMA DraftFields ==
  ASSUME IInv, NEW r \in Run, Recording(r)
  PROVE  /\ Draft(r).run = r /\ Draft(r).seq \in Nat /\ Draft(r).at = call[r].at
         /\ call[r].stage = "recording" =>
              /\ Draft(r).kind = call[r].op /\ Draft(r).seq = call[r].seq
              /\ Draft(r).error = ~call[r].ok /\ Draft(r).output = call[r].frame
         /\ call[r].stage = "recordCycle" =>
              Draft(r).kind = "POWER_CYCLE" /\ Draft(r).seq = 0 /\ Draft(r).error = ~call[r].ok
         /\ call[r].stage = "recordLink" =>
              Draft(r).kind = "LINK_REHANDSHAKE" /\ Draft(r).seq = 0 /\ Draft(r).error = ~call[r].relinked
<1>1. call[r] \in Calls /\ r \in Nat
  BY Constant DEF IInv, TypeOK, Run
<1>2. CASE call[r].stage = "recording"
  BY <1>1, <1>2, Constant DEF IInv, LogIsItsOwn, Draft, Record, Calls
<1>3. CASE call[r].stage # "recording"
  BY <1>1, <1>3 DEF Draft, Record, Recording
<1>. QED BY <1>2, <1>3

(* Every step keeps the log in the name of the run that is alive.            *)
LEMMA LogIsItsOwnStep == IInv /\ [Next]_vars => LogIsItsOwn'
<1>. SUFFICES ASSUME IInv, [Next]_vars, NEW r \in Run
              PROVE  (/\ kernel[r].status \in Live /\ Bound(kernel[r]) => logRun = r
                      /\ Bound(kernel[r]) => Named(r)
                      /\ call[r].stage \in {"reading", "recording"} => logRun = r
                      /\ call[r].stage = "answered" /\ call[r].ok => logRun = r /\ Named(r)
                      /\ Named(r) => kernel[r].status # "waiting")'
  BY DEF LogIsItsOwn
<1>. USE DEF IInv
<1>1. /\ kernel[r].status \in Live /\ Bound(kernel[r]) => logRun = r
      /\ Bound(kernel[r]) => Named(r)
      /\ call[r].stage \in {"reading", "recording"} => logRun = r
      /\ call[r].stage = "answered" /\ call[r].ok => logRun = r /\ Named(r)
      /\ Named(r) => kernel[r].status # "waiting"
  BY DEF LogIsItsOwn
<1>2. kernel[r].status \in Live => logRun' = logRun \/ logRun' = r
  BY LogRunStep, CallerLives, Sole
<1>3. Named(r) => Named(r)'
  BY NamedStays
<1>4. /\ kernel'[r].status \in Live => kernel[r].status \in Live \/ (kernel'[r].op = "BIND" /\ kernel'[r].steps = 0)
      /\ kernel'[r].status = "waiting" => kernel[r].status = "waiting"
  <2>1. kernel[r].status = "waiting" => kernel[r].op = "BIND" /\ kernel[r].steps = 0
    BY DEF OneAlive
  <2>2. KReply(r) => kernel[r].status = "running"
    BY DEF KReply
  <2>3. KernelMoved(r)
    BY KernelStep
  <2>4. CASE kernel[r].status = "waiting" /\ Became(r, "running")
    BY <2>1, <2>4, BecameFields DEF Live
  <2>5. CASE Became(r, "gone")
    BY <2>5, BecameFields DEF Live
  <2>6. CASE kernel'[r] = kernel[r]
    BY <2>6
  <2>7. CASE kernel[r].status = "running" /\ Became(r, "failed")
    BY <2>7, BecameFields DEF Live
  <2>8. CASE KReply(r) /\ kernel'[r] = Advanced(kernel[r], call[r])
    BY <2>2, <2>8, AdvancedFields DEF Live
  <2>. QED BY <2>3, <2>4, <2>5, <2>6, <2>7, <2>8 DEF KernelMoved
<1>5. Bound(kernel'[r]) => Bound(kernel[r]) \/ (call[r].stage = "answered" /\ call[r].ok /\ kernel[r].status \in Live)
  BY KernelStep, BecameFields, AdvancedFields DEF KernelMoved, Bound, Accepted, Live
<1>6. call'[r].stage # "none" => (call'[r] = call[r] /\ kernel[r].status \in Live) \/ KCall(r) \/ HandlerMoves(r)
  <2>1. NoCall.stage = "none"
    BY DEF NoCall
  <2>2. KReply(r) \/ KExit(r) => call'[r] = NoCall
    BY DEF KReply, KExit, TypeOK
  <2>. QED BY <2>1, <2>2, CallStep, CallerLives
<1>7. ASSUME HandlerMoves(r)
      PROVE  /\ call'[r].stage \in {"reading", "recording"} => logRun' = r
             /\ call'[r].stage = "answered" /\ call'[r].ok => logRun' = r /\ Named(r)'
  <2>1. HandlerEffect(r) /\ SameCall(r) /\ call[r].stage # "none"
    BY <1>7, HandlerStep, HandlerKeeps
  <2>2. CASE call'[r].stage \in {"reading", "recording"}
    <3>1. Begin(r) \/ ReadAnswer(r)
      BY <2>1, <2>2 DEF HandlerEffect
    <3>2. Begin(r) => logRun' = IF call[r].op = "BIND" THEN r ELSE logRun
      BY DEF Begin
    <3>3. ReadAnswer(r) => logRun' = logRun /\ logRun = r
      BY <1>1 DEF ReadAnswer, edgeVars
    <3>. QED BY <2>1, <2>2, <3>1, <3>2, <3>3, CallerLives
  <2>3. CASE call'[r].stage = "answered" /\ call'[r].ok
    <3>1. CASE Head_(r) /\ call'[r].ok = (logRun = r)
      BY <2>1, <2>3, <3>1, <1>3, CallerLives DEF Head_, edgeVars
    <3>2. CASE Recorded(r)
      <4>1. Recording(r) /\ Drafted(Draft(r)) /\ logRun' = logRun
        BY <3>2 DEF Recorded, Durable, Drafted
      <4>2. call[r].stage # "recording" => call[r].op # "BIND"
        BY <2>1, <4>1, CallerLives DEF CallOf, Recording, CycleStages
      <4>3. logRun = r
        BY <1>1, <2>1, <4>2, CallerLives
      <4>4. Named(r)'
        BY <4>1, DraftFields, DraftedFields DEF Named
      <4>. QED BY <4>1, <4>3, <4>4
    <3>. QED BY <2>1, <2>3, <3>1, <3>2 DEF HandlerEffect
  <2>. QED BY <2>2, <2>3
<1>8. ASSUME Named(r)', kernel[r].status = "waiting" PROVE FALSE
  <2>1. ~Named(r)
    BY <1>1, <1>8
  <2>2. ASSUME NEW d, Drafted(d), d.run # r PROVE FALSE
    BY <1>8, <2>1, <2>2, DraftedFields DEF Named
  <2>3. ASSUME NEW q \in Run, Recording(q), Drafted(Draft(q)) PROVE FALSE
    <3>1. Draft(q).run = q /\ q # r
      BY <1>8, <2>3, DraftFields, CallerLives DEF Recording, Live
    <3>. QED BY <2>2, <2>3, <3>1
  <2>4. ASSUME NEW d \in orphans, Drafted(d) PROVE FALSE
    BY <1>8, <2>2, <2>4 DEF OrphansLast
  <2>5. log' = log => FALSE
    BY <1>8, <2>1 DEF Named
  <2>. QED BY <2>3, <2>4, <2>5, LogStep
<1>. QED BY <1>1, <1>2, <1>3, <1>4, <1>5, <1>6, <1>7, <1>8, CallFields DEF Bound

(* A true answer stays true.                                                 *)
LEMMA StepTrueStays ==
  ASSUME TypeOK, [Next]_vars, NEW seq, NEW at, NEW f, StepTrue(seq, at, f)
  PROVE  StepTrue(seq, at, f)'
BY NamedStays DEF StepTrue

(* Late appends are left behind by an exit, and by nothing else.             *)
LEMMA OrphansStep ==
  ASSUME [Next]_vars
  PROVE  \/ orphans' \subseteq orphans
         \/ \E r \in Run : KExit(r) /\ Recording(r) /\ orphans' = orphans \cup {Draft(r)}
BY DEF Next, vars, edgeVars, KernelMoves, HandlerMoves, KCall, KReply, KTimeout, Recorded, RecordFails,
    KExit, KStart, Refuse, Begin, Head_, ReadAnswer, BeginCycle, Channel, SendHello, OrphanAppend,
    HelloRead, HelloUnanswered, HelloDeadline, LinkFault, GuestReads, GuestBoots, GuestCrashes

(* A step is drafted as answered only with the answer to that very step.     *)
LEMMA DraftedStepTrue ==
  ASSUME IInv, NEW r \in Run, Recording(r), Draft(r).kind = "STEP", ~Draft(r).error
  PROVE  /\ call[r].stage = "recording" /\ call[r].op = "STEP" /\ call[r].ok
         /\ StepTrue(Draft(r).seq, Draft(r).at, Draft(r).output)
<1>1. call[r].ok \in BOOLEAN
  BY DEF IInv, TypeOK, Calls
<1>2. call[r].stage = "recording" /\ call[r].op = "STEP" /\ call[r].ok
  BY <1>1, DraftFields DEF Recording
<1>3. StepTrue(call[r].seq, call[r].at, call[r].frame)
  BY <1>2 DEF IInv, FramesTrue
<1>4. Draft(r).seq = call[r].seq /\ Draft(r).at = call[r].at /\ Draft(r).output = call[r].frame
  BY <1>2, DraftFields
<1>. QED BY <1>2, <1>3, <1>4

(* Every step keeps the answers true to their requests.                      *)
LEMMA FramesTrueStep == IInv /\ [Next]_vars => FramesTrue'
<1>. SUFFICES ASSUME IInv, [Next]_vars PROVE FramesTrue'
  OBVIOUS
<1>. USE DEF IInv
<1>0. \A q : Named(q) => Named(q)'
  BY NamedStays
<1>1. (\A way \in DOMAIN air : \A f \in BagToSet(air[way]) : FrameKnown(f))'
  <2>1. \A f \in BagToSet(air["guest"]) \cup BagToSet(air["edge"]) \cup {Hello, ErrorFrame} : FrameKnown(f)'
    <3>1. \A f \in BagToSet(air["guest"]) \cup BagToSet(air["edge"]) : FrameKnown(f)
      BY DEF FramesTrue, TypeOK
    <3>2. Hello.op # "STEP" /\ ErrorFrame.op # "STEP"
      BY DEF Hello, ErrorFrame, Frame
    <3>. QED BY <1>0, <3>1, <3>2 DEF FrameKnown
  <2>2. ASSUME NEW r \in Run, Begin(r), NEW f, f = Frame(call[r].op, call[r].seq, call[r].at, r)
        PROVE  FrameKnown(f)'
    <3>1. call[r].op = "STEP" => Named(r)'
      BY <1>0, <2>2, CallerLives DEF Begin, Enters
    <3>. QED BY <2>2, <3>1 DEF FrameKnown, Frame
  <2>. QED BY <2>1, <2>2, AirStep DEF AirFrom
<1>2. ASSUME NEW r \in Run
      PROVE  (call[r].op = "STEP" /\ call[r].ok => StepTrue(call[r].seq, call[r].at, call[r].frame))'
  <2>1. call[r].op = "STEP" /\ call[r].ok => StepTrue(call[r].seq, call[r].at, call[r].frame)
    BY DEF FramesTrue
  <2>2. CASE call'[r] = call[r]
    BY <1>0, <2>1, <2>2 DEF StepTrue
  <2>3. CASE KCall(r) \/ KReply(r) \/ KExit(r)
    <3>1. NoCall.op = "BIND" /\ (KReply(r) \/ KExit(r) => call'[r] = NoCall)
      BY DEF NoCall, KReply, KExit, TypeOK
    <3>. QED BY <2>3, <3>1, CallFields
  <2>4. CASE HandlerMoves(r)
    <3>1. HandlerEffect(r) /\ SameCall(r) /\ call[r].stage # "none"
      BY <2>4, HandlerStep, HandlerKeeps
    <3>2. CallOf(kernel[r], call[r])
      BY <3>1, CallerLives
    <3>3. CASE Same(r) \/ ~call'[r].ok \/ call[r].op # "STEP"
      BY <1>0, <2>1, <3>1, <3>3 DEF StepTrue, Same, SameCall
    <3>4. CASE /\ ReadAnswer(r) /\ call'[r].frame \in BagToSet(air.edge)
               /\ call'[r].ok = Answers(call'[r].frame, call[r])
      <4>1. FrameKnown(call'[r].frame)
        BY <3>4 DEF FramesTrue, TypeOK
      <4>. QED BY <1>0, <3>1, <3>4, <4>1 DEF Answers, FrameKnown, StepTrue, SameCall
    <3>5. CASE /\ Recorded(r) /\ call'[r].frame = call[r].frame
               /\ call'[r].ok = (IF call[r].stage = "recordLink" THEN call[r].relinked ELSE call[r].ok)
      BY <1>0, <2>1, <3>1, <3>2, <3>5 DEF StepTrue, SameCall, CallOf, CycleStages
    <3>6. /\ Head_(r) => call[r].op # "STEP"
          /\ Channel(r) \/ HelloRead(r) \/ HelloDeadline(r) => call[r].op # "STEP"
      BY <3>2 DEF Head_, Channel, HelloRead, HelloDeadline, CallOf, CycleStages
    <3>. QED BY <3>1, <3>3, <3>4, <3>5, <3>6 DEF HandlerEffect
  <2>. QED BY <2>2, <2>3, <2>4, CallStep
<1>3. (\A d \in orphans : d.kind = "STEP" /\ ~d.error => StepTrue(d.seq, d.at, d.output))'
  <2>1. ASSUME NEW d \in orphans', d.kind = "STEP", ~d.error PROVE StepTrue(d.seq, d.at, d.output)
    BY <2>1, OrphansStep, DraftedStepTrue DEF FramesTrue
  <2>. QED BY <1>0, <2>1 DEF StepTrue
<1>4. (\A i \in DOMAIN log : log[i].kind = "STEP" /\ ~log[i].error
                                => StepTrue(log[i].seq, log[i].at, log[i].output))'
  <2>1. ASSUME NEW i \in DOMAIN log', log'[i].kind = "STEP", ~log'[i].error
        PROVE  StepTrue(log'[i].seq, log'[i].at, log'[i].output)
    <3>1. CASE log' = log
      BY <2>1, <3>1 DEF FramesTrue
    <3>2. ASSUME NEW d, Drafted(d), d.kind = "STEP" /\ ~d.error => StepTrue(d.seq, d.at, d.output)
          PROVE  StepTrue(log'[i].seq, log'[i].at, log'[i].output)
      <4>1. CASE i \in DOMAIN log
        BY <2>1, <3>2, <4>1, DraftedFields DEF FramesTrue
      <4>2. CASE i = Len(log) + 1
        BY <2>1, <3>2, <4>2, DraftedFields
      <4>. QED BY <3>2, <4>1, <4>2, DraftedFields
    <3>3. \A d \in orphans : d.kind = "STEP" /\ ~d.error => StepTrue(d.seq, d.at, d.output)
      BY DEF FramesTrue
    <3>. QED BY <3>1, <3>2, <3>3, LogStep, DraftedStepTrue
  <2>. QED BY <1>0, <2>1 DEF StepTrue
<1>. QED BY <1>1, <1>2, <1>3, <1>4 DEF FramesTrue
-----------------------------------------------------------------------------
(* The steps in the log.                                                     *)

IsStepOf(d, r) == d.kind = "STEP" /\ d.run = r /\ ~d.error
StepsKept(r) == StepAt(r)' = StepAt(r) /\ \A i \in StepAt(r) : log'[i] = log[i]
StepAdded(r, d) ==
  /\ IsStepOf(d, r) /\ Len(log) + 1 \in StepAt(r)' /\ log'[Len(log) + 1] = d
  /\ \A i \in StepAt(r) : i \in StepAt(r)' /\ log'[i] = log[i] /\ i < Len(log) + 1
  /\ \A i \in StepAt(r)' : i \in StepAt(r) \/ i = Len(log) + 1

(* What an append does to the steps of a run.                                *)
LEMMA StepsOfDraft ==
  ASSUME TypeOK, NEW r, NEW d, Drafted(d)
  PROVE  IF IsStepOf(d, r) THEN StepAdded(r, d) ELSE StepsKept(r)
<1>1. \A i \in DOMAIN log : i < Len(log) + 1
  BY DraftedFields
<1>2. \A i \in DOMAIN log : i \in StepAt(r)' <=> i \in StepAt(r)
  BY DraftedFields DEF StepAt
<1>3. Len(log) + 1 \in StepAt(r)' <=> IsStepOf(d, r)
  BY DraftedFields DEF StepAt, IsStepOf
<1>4. StepAt(r) \subseteq DOMAIN log /\ StepAt(r)' \subseteq DOMAIN log'
  BY DEF StepAt
<1>. QED BY <1>1, <1>2, <1>3, <1>4, DraftedFields DEF StepAdded, StepsKept

StepRecorded(r) ==
  /\ Recorded(r) \/ RecordFails(r)
  /\ call[r].stage = "recording" /\ call[r].op = "STEP" /\ call[r].ok
  /\ StepAdded(r, Draft(r)) /\ Draft(r).at = call[r].at /\ Draft(r).output = call[r].frame
StepOrphaned(r) ==
  /\ OrphanAppend /\ kernel[r].status = "gone" /\ NotYet(r) /\ kernel[r].op = "STEP"
  /\ \E d \in orphans : StepAdded(r, d) /\ orphans' = orphans \ {d} /\ d.at = kernel[r].steps + 1

(* A run gets a step into the log by its handler, or by what that left behind.*)
LEMMA StepsStep ==
  ASSUME IInv, [Next]_vars, NEW r \in Run
  PROVE  StepsKept(r) \/ StepRecorded(r) \/ StepOrphaned(r)
<1>. USE DEF IInv
<1>1. CASE log' = log
  BY <1>1 DEF StepsKept, StepAt
<1>2. ASSUME NEW q \in Run, Recorded(q) \/ RecordFails(q), Recording(q), Drafted(Draft(q)), ~StepsKept(r)
      PROVE  StepRecorded(r)
  <2>1. StepAdded(r, Draft(q)) /\ IsStepOf(Draft(q), r)
    BY <1>2, StepsOfDraft DEF StepAdded
  <2>2. q = r
    BY <1>2, <2>1, DraftFields DEF IsStepOf
  <2>3. call[r].stage = "recording" /\ call[r].op = "STEP" /\ call[r].ok
    BY <1>2, <2>1, <2>2, DraftedStepTrue DEF IsStepOf
  <2>. QED BY <1>2, <2>1, <2>2, <2>3, DraftFields DEF StepRecorded
<1>3. ASSUME NEW d \in orphans, OrphanAppend, orphans' = orphans \ {d}, Drafted(d), ~StepsKept(r)
      PROVE  StepOrphaned(r)
  <2>1. StepAdded(r, d) /\ IsStepOf(d, r)
    BY <1>3, StepsOfDraft DEF StepAdded
  <2>. QED BY <1>3, <2>1 DEF StepOrphaned, OrphansLast, IsStepOf
<1>. QED BY <1>1, <1>2, <1>3, LogStep

(* A step that is in the log stays there, unchanged.                         *)
LEMMA StepsStay ==
  ASSUME IInv, [Next]_vars, NEW r \in Run, NEW i \in StepAt(r)
  PROVE  i \in StepAt(r)' /\ log'[i] = log[i]
BY StepsStep DEF StepsKept, StepRecorded, StepOrphaned, StepAdded

(* The positions and numbers of logged steps are numbers.                    *)
LEMMA LogTypes ==
  ASSUME TypeOK, NEW r
  PROVE  \A i \in StepAt(r) : i \in Nat /\ i \in DOMAIN log /\ log[i].at \in Nat
<1>1. \A i \in DOMAIN log : i \in Nat /\ log[i] \in Records
  BY DEF TypeOK
<1>. QED BY <1>1, Constant DEF StepAt, Records

(* Every step keeps a late append the last of its run.                       *)
LEMMA OrphansLastStep == IInv /\ [Next]_vars => OrphansLast'
<1>. SUFFICES ASSUME IInv, [Next]_vars, NEW d \in orphans'
              PROVE  /\ d.run \in Run /\ kernel'[d.run].status = "gone"
                     /\ \A e \in orphans' : e.run = d.run => e = d
                     /\ d.kind = "STEP" /\ ~d.error => NotYet(d.run)' /\ kernel'[d.run].op = "STEP"
                                                       /\ d.at = kernel'[d.run].steps + 1
  BY DEF OrphansLast
<1>. USE DEF IInv
<1>1. \A q \in Run : kernel[q].status = "gone" => kernel'[q] = kernel[q]
  BY KernelStep DEF KernelMoved, KReply
<1>2. ASSUME NEW r \in Run, KExit(r), Recording(r)
      PROVE  /\ kernel[r].status = "failed" /\ kernel' = [kernel EXCEPT ![r].status = "gone"]
             /\ log' = log /\ Draft(r).run = r /\ kernel'[r].status = "gone"
             /\ kernel'[r].op = kernel[r].op /\ kernel'[r].steps = kernel[r].steps
  BY <1>2, DraftFields DEF KExit, TypeOK, Kernels
<1>3. ASSUME NEW r \in Run, KExit(r), Recording(r), Draft(r).kind = "STEP", ~Draft(r).error
      PROVE  NotYet(r)' /\ kernel'[r].op = "STEP" /\ Draft(r).at = kernel'[r].steps + 1
  <2>1. call[r].stage = "recording" /\ call[r].op = "STEP" /\ NotYet(r) /\ CallOf(kernel[r], call[r])
    BY <1>3, DraftedStepTrue, CallerLives DEF StepsInOrder, Recording
  <2>2. NotYet(r)'
    BY <1>2, <1>3, <2>1 DEF NotYet, StepAt
  <2>. QED BY <1>2, <1>3, <2>1, <2>2, DraftFields DEF CallOf
<1>4. CASE d \in orphans
  <2>1. d.run \in Run /\ kernel[d.run].status = "gone" /\ kernel'[d.run] = kernel[d.run]
    BY <1>1, <1>4 DEF OrphansLast
  <2>2. \A e \in orphans' : e.run = d.run => e = d
    BY <1>2, <1>4, <2>1, OrphansStep DEF OrphansLast
  <2>3. ASSUME d.kind = "STEP", ~d.error PROVE NotYet(d.run)'
    <3>1. NotYet(d.run)
      BY <1>4, <2>3 DEF OrphansLast
    <3>2. ~StepRecorded(d.run)
      BY <2>1, CallerLives DEF StepRecorded, Live
    <3>3. ~StepOrphaned(d.run)
      BY <1>4 DEF StepOrphaned, StepAdded, IsStepOf, OrphansLast
    <3>. QED BY <2>1, <3>1, <3>2, <3>3, StepsStep DEF StepsKept, NotYet
  <2>. QED BY <1>4, <2>1, <2>2, <2>3 DEF OrphansLast
<1>5. ASSUME NEW r \in Run, KExit(r), Recording(r), orphans' = orphans \cup {Draft(r)}, d = Draft(r)
      PROVE  /\ d.run \in Run /\ kernel'[d.run].status = "gone"
             /\ \A e \in orphans' : e.run = d.run => e = d
             /\ d.kind = "STEP" /\ ~d.error => NotYet(d.run)' /\ kernel'[d.run].op = "STEP"
                                               /\ d.at = kernel'[d.run].steps + 1
  <2>1. \A e \in orphans : e.run # r
    BY <1>2, <1>5 DEF OrphansLast
  <2>. QED BY <1>2, <1>3, <1>5, <2>1
<1>. QED BY <1>4, <1>5, OrphansStep

(* The answers a kernel was given are a sequence, one for each step.         *)
LEMMA OutputsTyped ==
  ASSUME TypeOK, Scripted, NEW r \in Run
  PROVE  /\ kernel[r].steps \in Nat /\ Len(kernel[r].outputs) = kernel[r].steps
         /\ kernel[r].outputs \in Seq(Frames) /\ DOMAIN kernel[r].outputs = 1 .. kernel[r].steps
<1>1. kernel[r] \in Kernels
  BY DEF TypeOK
<1>2. kernel[r].outputs \in Seq(Frames) /\ kernel[r].steps \in Nat
  BY <1>1, Constant DEF Kernels
<1>. QED BY <1>2 DEF Scripted

(* What the kernel has been given after a step: no more than before, or the  *)
(* answer of the step it asked for.                                          *)
LEMMA OutputsStep ==
  ASSUME IInv, [Next]_vars, NEW r \in Run
  PROVE  /\ kernel[r].steps \in Nat /\ Len(kernel[r].outputs) = kernel[r].steps
         /\ DOMAIN kernel[r].outputs = 1 .. kernel[r].steps
         /\ \/ kernel'[r].outputs = kernel[r].outputs /\ kernel'[r].steps = kernel[r].steps
            \/ /\ KReply(r) /\ Accepted(call[r]) /\ call[r].op = "STEP" /\ call[r].at = kernel[r].steps + 1
               /\ kernel'[r].steps = kernel[r].steps + 1
               /\ DOMAIN kernel'[r].outputs = 1 .. kernel[r].steps + 1
               /\ kernel'[r].outputs[kernel[r].steps + 1] = call[r].frame
               /\ \A n \in DOMAIN kernel[r].outputs : kernel'[r].outputs[n] = kernel[r].outputs[n]
<1>. USE DEF IInv
<1>1. /\ kernel[r].steps \in Nat /\ Len(kernel[r].outputs) = kernel[r].steps
      /\ kernel[r].outputs \in Seq(Frames) /\ DOMAIN kernel[r].outputs = 1 .. kernel[r].steps
  BY OutputsTyped
<1>2. CASE KReply(r) /\ Accepted(call[r]) /\ kernel'[r] = Advanced(kernel[r], call[r]) /\ call[r].op = "STEP"
  <2>1. call[r].at = kernel[r].steps + 1
    BY <1>2, CallerLives DEF KReply, CallOf
  <2>2. kernel'[r].steps = kernel[r].steps + 1 /\ kernel'[r].outputs = Append(kernel[r].outputs, call[r].frame)
    BY <1>2, AdvancedFields
  <2>3. /\ DOMAIN Append(kernel[r].outputs, call[r].frame) = 1 .. kernel[r].steps + 1
        /\ Append(kernel[r].outputs, call[r].frame)[kernel[r].steps + 1] = call[r].frame
        /\ \A n \in 1 .. kernel[r].steps : Append(kernel[r].outputs, call[r].frame)[n] = kernel[r].outputs[n]
    BY <1>1
  <2>. QED BY <1>1, <1>2, <2>1, <2>2, <2>3
<1>3. CASE KReply(r) /\ kernel'[r] = Advanced(kernel[r], call[r]) /\ call[r].op # "STEP"
  BY <1>1, <1>3, AdvancedFields
<1>4. CASE kernel'[r] = kernel[r] \/ \E s : Became(r, s)
  BY <1>1, <1>4, BecameFields
<1>. QED BY <1>2, <1>3, <1>4, KernelStep DEF KernelMoved

(* A handler's record of a step is there before the answer.                  *)
LEMMA RecordedAnswers ==
  ASSUME IInv, NEW r \in Run, StepRecorded(r)
  PROVE  /\ kernel' = kernel /\ kernel[r].op = "STEP" /\ call'[r].stage = "answered" /\ NotYet(r)
         /\ Draft(r).at = kernel[r].steps + 1
<1>1. HandlerMoves(r) /\ call[r].stage = "recording" /\ call[r].op = "STEP"
  BY DEF StepRecorded, HandlerMoves
<1>2. kernel' = kernel /\ CallOf(kernel[r], call[r]) /\ NotYet(r)
  BY <1>1, HandlerKeeps, CallerLives DEF IInv, StepsInOrder
<1>3. call'[r].stage = "answered"
  <2>1. ~Relinks(call[r])
    BY <1>1 DEF Relinks
  <2>. QED BY <2>1 DEF StepRecorded, Recorded, RecordFails, Answer, IInv, TypeOK, Calls
<1>. QED BY <1>1, <1>2, <1>3 DEF CallOf, StepRecorded

(* Every step keeps the log ahead of the kernel, by one step at most.        *)
LEMMA LogAheadStep ==
  ASSUME IInv, [Next]_vars, NEW r \in Run
  PROVE  (/\ Given(r) \subseteq Logged(r)
          /\ \A i, j \in StepAt(r) : i < j => log[i].at < log[j].at
          /\ \A i \in StepAt(r) : log[i].at <= Len(kernel[r].outputs) + 1
          /\ \A i \in StepAt(r) : log[i].at >= 1)'
<1>. USE DEF IInv
<1>0. /\ Given(r) \subseteq Logged(r)
      /\ \A i, j \in StepAt(r) : i < j => log[i].at < log[j].at
      /\ \A i \in StepAt(r) : log[i].at <= Len(kernel[r].outputs) + 1
      /\ \A i \in StepAt(r) : log[i].at >= 1
  BY DEF StepsInOrder, LogAheadOfKernel
<1>1. (Given(r) \subseteq Logged(r))'
  <2>1. \A n \in DOMAIN kernel[r].outputs : <<n, kernel[r].outputs[n]>> \in Logged(r)'
    <3>1. ASSUME NEW n \in DOMAIN kernel[r].outputs PROVE <<n, kernel[r].outputs[n]>> \in Logged(r)'
      <4>1. PICK i \in StepAt(r) : <<n, kernel[r].outputs[n]>> = <<log[i].at, log[i].output>>
        BY <1>0, <3>1 DEF Given, Logged
      <4>. QED BY <4>1, StepsStay DEF Logged
    <3>. QED BY <3>1
  <2>2. CASE kernel'[r].outputs = kernel[r].outputs
    BY <2>1, <2>2 DEF Given
  <2>3. CASE /\ KReply(r) /\ Accepted(call[r]) /\ call[r].op = "STEP" /\ call[r].at = kernel[r].steps + 1
             /\ DOMAIN kernel'[r].outputs = 1 .. kernel[r].steps + 1
             /\ kernel'[r].outputs[kernel[r].steps + 1] = call[r].frame
             /\ \A n \in DOMAIN kernel[r].outputs : kernel'[r].outputs[n] = kernel[r].outputs[n]
    <3>1. PICK i \in StepAt(r) : log[i].at = call[r].at /\ log[i].output = call[r].frame
      BY <2>3 DEF StepsInOrder, KReply, Accepted
    <3>2. <<call[r].at, call[r].frame>> \in Logged(r)'
      BY <3>1, StepsStay DEF Logged
    <3>3. kernel[r].steps \in Nat /\ DOMAIN kernel[r].outputs = 1 .. kernel[r].steps
      BY OutputsStep
    <3>4. ASSUME NEW n \in DOMAIN kernel'[r].outputs PROVE <<n, kernel'[r].outputs[n]>> \in Logged(r)'
      <4>1. CASE n = kernel[r].steps + 1
        BY <2>3, <3>2, <4>1
      <4>2. CASE n \in DOMAIN kernel[r].outputs
        BY <2>1, <2>3, <4>2
      <4>. QED BY <2>3, <3>3, <4>1, <4>2
    <3>. QED BY <3>4 DEF Given
  <2>. QED BY <2>2, <2>3, OutputsStep
<1>2. (\A i, j \in StepAt(r) : i < j => log[i].at < log[j].at)'
  <2>1. CASE StepsKept(r)
    BY <1>0, <2>1 DEF StepsKept
  <2>2. ASSUME NEW d, StepAdded(r, d), NotYet(r), d.at = kernel[r].steps + 1
        PROVE  (\A i, j \in StepAt(r) : i < j => log[i].at < log[j].at)'
    <3>1. \A i \in StepAt(r) : log[i].at < d.at
      BY <2>2, LogTypes, OutputsStep DEF NotYet
    <3>2. \A i \in StepAt(r) : i \in Nat
      BY LogTypes
    <3>3. Len(log) \in Nat
      BY DEF TypeOK
    <3>. QED BY <1>0, <2>2, <3>1, <3>2, <3>3 DEF StepAdded
  <2>. QED BY <2>1, <2>2, StepsStep, RecordedAnswers DEF StepRecorded, StepOrphaned
<1>3. (\A i \in StepAt(r) : log[i].at <= Len(kernel[r].outputs) + 1)'
  <2>1. Len(kernel'[r].outputs) = kernel'[r].steps /\ kernel'[r].steps >= kernel[r].steps
        /\ kernel'[r].steps \in Nat
    <3>1. Len(kernel'[r].outputs) = kernel'[r].steps
      BY ScriptedStep DEF Scripted
    <3>. QED BY <3>1, OutputsStep
  <2>2. \A i \in StepAt(r)' : log'[i].at <= kernel[r].steps + 1
    <3>1. \A i \in StepAt(r) : log[i].at <= kernel[r].steps + 1
      BY <1>0, OutputsStep
    <3>2. CASE StepsKept(r)
      BY <3>1, <3>2 DEF StepsKept
    <3>3. ASSUME NEW d, StepAdded(r, d), d.at = kernel[r].steps + 1
          PROVE  \A i \in StepAt(r)' : log'[i].at <= kernel[r].steps + 1
      BY <3>1, <3>3, OutputsStep DEF StepAdded
    <3>. QED BY <3>2, <3>3, StepsStep, RecordedAnswers DEF StepRecorded, StepOrphaned
  <2>3. \A i \in StepAt(r)' : log'[i].at \in Nat
    <3>1. log' \in Seq(Records)
      BY TypeStep DEF TypeOK
    <3>2. \A i \in DOMAIN log' : log'[i] \in Records
      BY <3>1
    <3>. QED BY <3>2, Constant DEF Records, StepAt
  <2>. QED BY <2>1, <2>2, <2>3, OutputsStep
<1>4. (\A i \in StepAt(r) : log[i].at >= 1)'
  <2>1. CASE StepsKept(r)
    BY <1>0, <2>1 DEF StepsKept
  <2>2. ASSUME NEW d, StepAdded(r, d), d.at = kernel[r].steps + 1
        PROVE  \A i \in StepAt(r)' : log'[i].at >= 1
    BY <1>0, <2>2, OutputsStep DEF StepAdded
  <2>. QED BY <2>1, <2>2, StepsStep, RecordedAnswers DEF StepRecorded, StepOrphaned
<1>. QED BY <1>1, <1>2, <1>3, <1>4

(* Every step keeps the logged steps in order.                               *)
LEMMA StepsInOrderStep == IInv /\ [Next]_vars => StepsInOrder'
<1>. SUFFICES ASSUME IInv, [Next]_vars, NEW r \in Run
              PROVE  (/\ kernel[r].op = "STEP" /\ call[r].stage \in {"none", "gate", "reading", "recording"}
                           /\ kernel[r].status = "running" => NotYet(r)
                      /\ call[r].op = "STEP" /\ call[r].stage \in {"gate", "reading", "recording"} => NotYet(r)
                      /\ call[r].op = "STEP" /\ call[r].stage = "answered" /\ call[r].ok
                           => \E i \in StepAt(r) : log[i].at = call[r].at /\ log[i].output = call[r].frame
                      /\ kernel[r].op # "STEP" => NotYet(r))'
  BY LogAheadStep DEF StepsInOrder, LogAheadOfKernel
<1>. USE DEF IInv
<1>0. /\ kernel[r].op = "STEP" /\ call[r].stage \in {"none", "gate", "reading", "recording"}
           /\ kernel[r].status = "running" => NotYet(r)
      /\ call[r].op = "STEP" /\ call[r].stage \in {"gate", "reading", "recording"} => NotYet(r)
      /\ call[r].op = "STEP" /\ call[r].stage = "answered" /\ call[r].ok
           => \E i \in StepAt(r) : log[i].at = call[r].at /\ log[i].output = call[r].frame
      /\ kernel[r].op # "STEP" => NotYet(r)
      /\ \A i \in StepAt(r) : log[i].at <= kernel[r].steps + 1
      /\ kernel[r].steps \in Nat
  BY OutputsStep DEF StepsInOrder, LogAheadOfKernel
<1>1. CASE StepRecorded(r)
  <2>1. SameCall(r) /\ HandlerEffect(r) /\ call[r].stage = "recording" /\ call[r].op = "STEP"
    BY <1>1, HandlerStep DEF StepRecorded, HandlerMoves
  <2>2. call'[r].ok => Recorded(r) /\ call'[r].frame = call[r].frame
    BY <2>1 DEF HandlerEffect, Same, Refuse, Begin, Enters, Head_, ReadAnswer, BeginCycle, Channel, SendHello,
      HelloRead, HelloUnanswered, HelloDeadline
  <2>3. Len(log) + 1 \in StepAt(r)' /\ log'[Len(log) + 1].at = call[r].at
        /\ log'[Len(log) + 1].output = call[r].frame
    BY <1>1 DEF StepRecorded, StepAdded
  <2>. QED BY <1>1, <2>1, <2>2, <2>3, RecordedAnswers DEF SameCall
<1>2. CASE StepOrphaned(r)
  <2>1. kernel' = kernel /\ call' = call /\ kernel[r].status = "gone" /\ kernel[r].op = "STEP"
    BY <1>2 DEF StepOrphaned, OrphanAppend
  <2>2. call[r].stage = "none"
    BY <2>1 DEF OneAlive
  <2>. QED BY <2>1, <2>2
<1>3. CASE StepsKept(r)
  <2>1. ASSUME NEW n \in Nat, \A i \in StepAt(r) : log[i].at <= n, kernel'[r].steps = n PROVE NotYet(r)'
    BY <1>3, <2>1 DEF StepsKept, NotYet
  <2>2. NotYet(r) /\ kernel'[r].steps = kernel[r].steps => NotYet(r)'
    BY <1>0, <2>1 DEF NotYet
  <2>3. CASE KReply(r) /\ Accepted(call[r]) /\ kernel'[r] = Advanced(kernel[r], call[r])
    <3>1. call[r].op = kernel[r].op /\ call'[r].stage = "none"
      <4>1. call[r].stage = "answered" /\ call'[r] = NoCall /\ NoCall.stage = "none"
        BY <2>3, AdvancedFields DEF NoCall
      <4>2. CallOf(kernel[r], call[r])
        BY <4>1, CallerLives
      <4>. QED BY <4>1, <4>2 DEF CallOf
    <3>2. CASE call[r].op = "STEP"
      BY <1>0, <2>1, <2>3, <3>1, <3>2, AdvancedFields
    <3>3. CASE call[r].op # "STEP"
      BY <1>0, <2>2, <2>3, <3>1, <3>3, AdvancedFields
    <3>. QED BY <3>1, <3>2, <3>3
  <2>4. CASE ~(KReply(r) /\ Accepted(call[r]))
    <3>1. kernel'[r].op = kernel[r].op /\ kernel'[r].steps = kernel[r].steps
      BY <2>4, KernelStep, BecameFields DEF KernelMoved
    <3>2. kernel[r].op # "STEP" => NotYet(r)'
      BY <1>0, <2>2, <3>1
    <3>3. kernel'[r].op = "STEP" /\ kernel'[r].status = "running" => kernel[r].status = "running"
      <4>1. kernel[r].status = "waiting" => kernel[r].op = "BIND"
        BY DEF OneAlive
      <4>2. CASE \E s \in {"failed", "gone"} : Became(r, s)
        BY <4>2, BecameFields
      <4>. QED BY <2>4, <3>1, <4>1, <4>2, KernelStep DEF KernelMoved
    <3>4. CASE call'[r] = call[r]
      BY <1>0, <2>2, <3>1, <3>2, <3>3, <3>4, StepsStay
    <3>5. CASE KCall(r)
      BY <1>0, <2>2, <3>1, <3>2, <3>5, CallFields
    <3>6. CASE KReply(r) \/ KExit(r)
      <4>1. call'[r] = NoCall /\ NoCall.stage = "none"
        BY <3>6 DEF KReply, KExit, TypeOK, NoCall
      <4>2. kernel'[r].status # "running"
        BY <2>4, <3>6 DEF KReply, KExit, TypeOK, Kernels
      <4>. QED BY <3>1, <3>2, <4>1, <4>2
    <3>7. CASE HandlerMoves(r)
      <4>1. kernel' = kernel /\ SameCall(r) /\ HandlerEffect(r) /\ call[r].stage # "none"
            /\ CallOf(kernel[r], call[r])
        BY <3>7, HandlerStep, HandlerKeeps, CallerLives
      <4>2. call'[r].stage \in {"reading", "recording"} => call[r].stage \in {"gate", "reading"}
        BY <4>1 DEF HandlerEffect, Begin, Enters, ReadAnswer
      <4>3. call'[r].stage \notin {"none", "gate"}
        BY <4>1 DEF HandlerEffect
      <4>4. call'[r].op = "STEP" /\ call'[r].stage = "answered" => ~call'[r].ok
        <5>1. CASE Recorded(r) /\ call[r].op = "STEP"
          <6>1. call[r].stage = "recording"
            BY <4>1, <5>1 DEF Recorded, Recording, CallOf, CycleStages
          <6>2. call[r].ok => IsStepOf(Draft(r), r)
            BY <5>1, <6>1, DraftFields DEF Recorded, IsStepOf
          <6>3. ~IsStepOf(Draft(r), r)
            <7>1. Drafted(Draft(r))
              BY <5>1 DEF Recorded, Durable, Drafted
            <7>2. ~StepAdded(r, Draft(r))
              BY <1>3, LogTypes, DraftedFields, <7>1 DEF StepAdded, StepsKept
            <7>. QED BY <7>1, <7>2, StepsOfDraft
          <6>. QED BY <4>1, <6>1, <6>2, <6>3 DEF HandlerEffect, Refuse, RecordFails, Begin, Enters, Head_,
                 ReadAnswer, BeginCycle, Channel, SendHello, HelloRead, HelloUnanswered, HelloDeadline
        <5>2. CASE ~Recorded(r) /\ call[r].op = "STEP"
          BY <4>1, <5>2 DEF HandlerEffect, Head_
        <5>. QED BY <4>1, <5>1, <5>2 DEF SameCall
      <4>. QED BY <1>0, <2>2, <3>1, <3>2, <4>1, <4>2, <4>3, <4>4 DEF SameCall
    <3>. QED BY <3>4, <3>5, <3>6, <3>7, CallStep
  <2>. QED BY <2>3, <2>4 DEF KReply, TypeOK
<1>. QED BY <1>1, <1>2, <1>3, StepsStep
-----------------------------------------------------------------------------
(* The script, entry by entry.                                               *)

Entries == [kind : Kinds, seq : Nat, at : Nat]

(* A sequence of one entry.                                                  *)
LEMMA Single ==
  ASSUME NEW T, NEW e \in T
  PROVE  <<e>> \in Seq(T) /\ Len(<<e>>) = 1 /\ <<e>>[1] = e
OBVIOUS

(* Where the entries of the script are, with and without a re-handshake.     *)
LEMMA ScriptAt ==
  /\ Extra \in {0, 2} /\ (Extra = 2 <=> Relinked)
  /\ Script(Relinked) \in Seq(Entries) /\ Len(Script(Relinked)) = Steps + Extra + 3
  /\ Script(Relinked)[1] = Entry("BIND", 0, 0)
  /\ \A n \in 1 .. CycleAfter : Script(Relinked)[1 + n] = Entry("STEP", n, n)
  /\ Script(Relinked)[CycleAfter + 2] = Entry("POWER_CYCLE", 0, CycleAfter)
  /\ Relinked => /\ Script(Relinked)[CycleAfter + 3] = Entry("LINK_REHANDSHAKE", 0, CycleAfter)
                 /\ Script(Relinked)[CycleAfter + 4] = Entry("BIND", 0, 0)
  /\ Script(Relinked)[CycleAfter + Extra + 3] = Entry("RESET", CycleAfter + 1, CycleAfter)
  /\ \A n \in 1 .. Steps - CycleAfter :
       Script(Relinked)[CycleAfter + Extra + 3 + n] = Entry("STEP", CycleAfter + 1 + n, CycleAfter + n)
<1> DEFINE
  first == <<Entry("BIND", 0, 0)>>
  before == [n \in 1 .. CycleAfter |-> Entry("STEP", n, n)]
  cycle == <<Entry("POWER_CYCLE", 0, CycleAfter)>>
  link == IF Relinked THEN <<Entry("LINK_REHANDSHAKE", 0, CycleAfter), Entry("BIND", 0, 0)>> ELSE <<>>
  reset == <<Entry("RESET", CycleAfter + 1, CycleAfter)>>
  after == [n \in 1 .. Steps - CycleAfter |-> Entry("STEP", CycleAfter + 1 + n, CycleAfter + n)]
  s2 == first \o before
  s3 == s2 \o cycle
  s4 == s3 \o link
  s5 == s4 \o reset
<1>0. Steps \in Nat /\ CycleAfter \in Nat \ {0} /\ CycleAfter < Steps
  BY Constant
<1>. USE <1>0
<1>1. Extra \in {0, 2} /\ (Extra = 2 <=> Relinked)
  BY DEF Extra
<1>2. \A k \in Kinds, a, b \in Nat : Entry(k, a, b) \in Entries
  BY DEF Entry, Entries
<1>3. first \in Seq(Entries) /\ Len(first) = 1 /\ first[1] = Entry("BIND", 0, 0)
  BY <1>2, Single DEF Kinds
<1>4. cycle \in Seq(Entries) /\ Len(cycle) = 1 /\ cycle[1] = Entry("POWER_CYCLE", 0, CycleAfter)
  BY <1>2, Single DEF Kinds
<1>5. reset \in Seq(Entries) /\ Len(reset) = 1 /\ reset[1] = Entry("RESET", CycleAfter + 1, CycleAfter)
  BY <1>2, Single DEF Kinds
<1>6. /\ link \in Seq(Entries) /\ Len(link) = Extra
      /\ Relinked => link[1] = Entry("LINK_REHANDSHAKE", 0, CycleAfter) /\ link[2] = Entry("BIND", 0, 0)
  BY <1>2 DEF Kinds, Extra
<1>7. before \in Seq(Entries) /\ Len(before) = CycleAfter
  <2>1. \A n \in 1 .. CycleAfter : Entry("STEP", n, n) \in Entries
    BY <1>2 DEF Kinds
  <2>. QED BY <2>1
<1>8. after \in Seq(Entries) /\ Len(after) = Steps - CycleAfter
  <2>1. \A n \in 1 .. Steps - CycleAfter : Entry("STEP", CycleAfter + 1 + n, CycleAfter + n) \in Entries
    BY <1>2 DEF Kinds
  <2>. QED BY <2>1
<1>9. \A n \in 1 .. CycleAfter : before[n] = Entry("STEP", n, n)
  OBVIOUS
<1>10. \A n \in 1 .. Steps - CycleAfter : after[n] = Entry("STEP", CycleAfter + 1 + n, CycleAfter + n)
  OBVIOUS
<1>11. Script(Relinked) = s5 \o after
  BY DEF Script
<1>. HIDE DEF first, before, cycle, link, reset, after, s2, s3, s4, s5
<1>12. /\ s2 \in Seq(Entries) /\ Len(s2) = CycleAfter + 1
       /\ s2[1] = first[1] /\ \A n \in 1 .. CycleAfter : s2[1 + n] = before[n]
  <2>1. first \in Seq(Entries) /\ before \in Seq(Entries)
    BY <1>3, <1>7
  <2>2. /\ first \o before \in Seq(Entries) /\ Len(first \o before) = Len(first) + Len(before)
        /\ \A i \in 1 .. Len(first) : (first \o before)[i] = first[i]
        /\ \A i \in 1 .. Len(before) : (first \o before)[Len(first) + i] = before[i]
    BY <2>1
  <2>. QED BY <1>3, <1>7, <2>2 DEF s2
<1>13. /\ s3 \in Seq(Entries) /\ Len(s3) = CycleAfter + 2 /\ s3[CycleAfter + 2] = cycle[1]
       /\ \A i \in 1 .. CycleAfter + 1 : s3[i] = s2[i]
  <2>1. s2 \in Seq(Entries) /\ Len(s2) = CycleAfter + 1 /\ cycle \in Seq(Entries)
    BY <1>4, <1>12
  <2>2. /\ s2 \o cycle \in Seq(Entries) /\ Len(s2 \o cycle) = CycleAfter + 1 + Len(cycle)
        /\ \A i \in 1 .. CycleAfter + 1 : (s2 \o cycle)[i] = s2[i]
        /\ \A i \in 1 .. Len(cycle) : (s2 \o cycle)[CycleAfter + 1 + i] = cycle[i]
    BY <2>1
  <2>. QED BY <1>4, <2>2 DEF s3
<1>14. /\ s4 \in Seq(Entries) /\ Len(s4) = CycleAfter + Extra + 2
       /\ \A i \in 1 .. Extra : s4[CycleAfter + 2 + i] = link[i]
       /\ \A i \in 1 .. CycleAfter + 2 : s4[i] = s3[i]
  <2>1. CycleAfter + 2 \in Nat
    BY <1>1
  <2>2. /\ s3 \o link \in Seq(Entries) /\ Len(s3 \o link) = CycleAfter + 2 + Len(link)
        /\ \A i \in 1 .. CycleAfter + 2 : (s3 \o link)[i] = s3[i]
        /\ \A i \in 1 .. Len(link) : (s3 \o link)[CycleAfter + 2 + i] = link[i]
    BY <1>6, <1>13, <2>1
  <2>. QED BY <1>1, <1>6, <2>2 DEF s4
<1>15. /\ s5 \in Seq(Entries) /\ Len(s5) = CycleAfter + Extra + 3 /\ s5[CycleAfter + Extra + 3] = reset[1]
       /\ \A i \in 1 .. CycleAfter + Extra + 2 : s5[i] = s4[i]
  <2>1. CycleAfter + Extra + 2 \in Nat /\ s4 \in Seq(Entries) /\ Len(s4) = CycleAfter + Extra + 2 /\ reset \in Seq(Entries)
    BY <1>1, <1>5, <1>14
  <2>2. /\ s4 \o reset \in Seq(Entries) /\ Len(s4 \o reset) = CycleAfter + Extra + 2 + Len(reset)
        /\ \A i \in 1 .. CycleAfter + Extra + 2 : (s4 \o reset)[i] = s4[i]
        /\ \A i \in 1 .. Len(reset) : (s4 \o reset)[CycleAfter + Extra + 2 + i] = reset[i]
    BY <2>1
  <2>. QED BY <1>1, <1>5, <2>2 DEF s5
<1>16. /\ s5 \o after \in Seq(Entries) /\ Len(s5 \o after) = Steps + Extra + 3
       /\ \A i \in 1 .. Steps - CycleAfter : (s5 \o after)[CycleAfter + Extra + 3 + i] = after[i]
       /\ \A i \in 1 .. CycleAfter + Extra + 3 : (s5 \o after)[i] = s5[i]
  <2>1. CycleAfter + Extra + 3 \in Nat /\ s5 \in Seq(Entries) /\ Len(s5) = CycleAfter + Extra + 3 /\ after \in Seq(Entries)
    BY <1>1, <1>8, <1>15
  <2>2. /\ s5 \o after \in Seq(Entries) /\ Len(s5 \o after) = CycleAfter + Extra + 3 + Len(after)
        /\ \A i \in 1 .. CycleAfter + Extra + 3 : (s5 \o after)[i] = s5[i]
        /\ \A i \in 1 .. Len(after) : (s5 \o after)[CycleAfter + Extra + 3 + i] = after[i]
    BY <2>1
  <2>3. CycleAfter + Extra + 3 + Len(after) = Steps + Extra + 3
    BY <1>1, <1>8
  <2>. QED BY <1>8, <2>2, <2>3
<1>17. \A i \in 1 .. CycleAfter + 2 : Script(Relinked)[i] = s3[i]
  BY <1>1, <1>11, <1>14, <1>15, <1>16
<1>18. Script(Relinked)[1] = Entry("BIND", 0, 0)
       /\ \A n \in 1 .. CycleAfter : Script(Relinked)[1 + n] = Entry("STEP", n, n)
  <2>1. s3[1] = first[1]
    BY <1>12, <1>13
  <2>2. \A n \in 1 .. CycleAfter : s3[1 + n] = before[n]
    BY <1>12, <1>13
  <2>3. 1 \in 1 .. CycleAfter + 2 /\ \A n \in 1 .. CycleAfter : 1 + n \in 1 .. CycleAfter + 2
    OBVIOUS
  <2>. QED BY <1>3, <1>9, <1>17, <2>1, <2>2, <2>3
<1>19. Script(Relinked)[CycleAfter + 2] = Entry("POWER_CYCLE", 0, CycleAfter)
  BY <1>4, <1>13, <1>17
<1>20. Relinked => /\ Script(Relinked)[CycleAfter + 3] = Entry("LINK_REHANDSHAKE", 0, CycleAfter)
                   /\ Script(Relinked)[CycleAfter + 4] = Entry("BIND", 0, 0)
  <2>1. ASSUME Relinked PROVE /\ s4[CycleAfter + 2 + 1] = link[1] /\ s4[CycleAfter + 2 + 2] = link[2]
    BY <1>1, <1>14, <2>1
  <2>. QED BY <1>1, <1>6, <1>11, <1>15, <1>16, <2>1
<1>21. Script(Relinked)[CycleAfter + Extra + 3] = Entry("RESET", CycleAfter + 1, CycleAfter)
  BY <1>1, <1>5, <1>11, <1>15, <1>16
<1>22. \A n \in 1 .. Steps - CycleAfter :
         Script(Relinked)[CycleAfter + Extra + 3 + n] = Entry("STEP", CycleAfter + 1 + n, CycleAfter + n)
  BY <1>10, <1>11, <1>16
<1>. QED BY <1>1, <1>11, <1>16, <1>18, <1>19, <1>20, <1>21, <1>22

Full == Script(Relinked) \o Ends

(* With the Shutdown behind it, the script is the same up to its length.     *)
LEMMA FullAt ==
  /\ \A i \in 1 .. Steps + Extra + 3 : Full[i] = Script(Relinked)[i]
  /\ Full[Steps + Extra + 4] = Entry("SHUTDOWN", 0, Steps)
<1>1. Script(Relinked) \in Seq(Entries) /\ Steps + Extra + 3 \in Nat /\ Len(Script(Relinked)) = Steps + Extra + 3
  BY ScriptAt, Constant
<1>2. Ends \in Seq(Entries) /\ Len(Ends) = 1 /\ Ends[1] = Entry("SHUTDOWN", 0, Steps)
  BY Constant, Single DEF Ends, Entry, Entries, Kinds
<1>3. /\ \A i \in 1 .. Steps + Extra + 3 : Full[i] = Script(Relinked)[i]
      /\ \A i \in 1 .. Len(Ends) : Full[Steps + Extra + 3 + i] = Ends[i]
  <2>1. Ends \in Seq(Entries)
    BY <1>2
  <2>2. /\ \A i \in 1 .. Steps + Extra + 3 : (Script(Relinked) \o Ends)[i] = Script(Relinked)[i]
        /\ \A i \in 1 .. Len(Ends) : (Script(Relinked) \o Ends)[Steps + Extra + 3 + i] = Ends[i]
    BY <1>1, <2>1
  <2>. QED BY <2>2 DEF Full
<1>4. Full[Steps + Extra + 3 + 1] = Ends[1]
  BY <1>2, <1>3
<1>5. Steps + Extra + 3 + 1 = Steps + Extra + 4
  BY <1>1, ScriptAt, Constant
<1>. QED BY <1>2, <1>3, <1>4, <1>5

(* Where the entries of the whole run are.                                   *)
LEMMA FullEntries ==
  /\ Full[1] = Entry("BIND", 0, 0)
  /\ \A n \in 1 .. CycleAfter : Full[1 + n] = Entry("STEP", n, n)
  /\ Full[CycleAfter + 2] = Entry("POWER_CYCLE", 0, CycleAfter)
  /\ Relinked => /\ Full[CycleAfter + 3] = Entry("LINK_REHANDSHAKE", 0, CycleAfter)
                 /\ Full[CycleAfter + 4] = Entry("BIND", 0, 0)
  /\ Full[CycleAfter + Extra + 3] = Entry("RESET", CycleAfter + 1, CycleAfter)
  /\ \A n \in 1 .. Steps - CycleAfter :
       Full[CycleAfter + Extra + 3 + n] = Entry("STEP", CycleAfter + 1 + n, CycleAfter + n)
  /\ Full[Steps + Extra + 4] = Entry("SHUTDOWN", 0, Steps)
<1>1. /\ Steps \in Nat /\ CycleAfter \in Nat \ {0} /\ CycleAfter < Steps /\ Extra \in {0, 2}
      /\ Relinked => Extra = 2
  BY ScriptAt, Constant
<1>2. /\ 1 \in 1 .. Steps + Extra + 3 /\ CycleAfter + 2 \in 1 .. Steps + Extra + 3
      /\ Relinked => CycleAfter + 3 \in 1 .. Steps + Extra + 3 /\ CycleAfter + 4 \in 1 .. Steps + Extra + 3
      /\ CycleAfter + Extra + 3 \in 1 .. Steps + Extra + 3
      /\ \A n \in 1 .. CycleAfter : 1 + n \in 1 .. Steps + Extra + 3
      /\ \A n \in 1 .. Steps - CycleAfter : CycleAfter + Extra + 3 + n \in 1 .. Steps + Extra + 3
  BY <1>1
<1>. QED BY <1>2, ScriptAt, FullAt

(* The count of written entries is a number.                                 *)
LEMMA WrittenType ==
  ASSUME NEW k, k.steps \in Nat
  PROVE  Written(k) \in Nat
<1>1. /\ Steps \in Nat /\ CycleAfter \in Nat /\ Extra \in {0, 2}
  BY ScriptAt, Constant
<1>. QED BY <1>1 DEF Written

(* What a handler records is the script's next entry.                        *)
LEMMA NextEntry ==
  ASSUME IInv, NEW r \in Run, Recording(r)
  PROVE  Entry(Draft(r).kind, Draft(r).seq, Draft(r).at) = Full[Written(kernel[r]) + WrittenInCall(call[r]) + 1]
<1>. DEFINE next == Written(kernel[r]) + WrittenInCall(call[r]) + 1
            k == kernel[r]
<1>0. /\ Steps \in Nat /\ CycleAfter \in Nat \ {0} /\ CycleAfter < Steps
      /\ Extra \in {0, 2} /\ (Relinked => Extra = 2)
  BY Constant, ScriptAt
<1>1. /\ CallOf(k, call[r]) /\ AtOp(k) /\ k.steps \in Nat /\ k.seq \in Nat
      /\ call[r].stage \in {"recording", "recordCycle", "recordLink"}
  <2>1. TypeOK /\ Scripted /\ kernel[r] \in Kernels
    BY DEF IInv, TypeOK
  <2>2. call[r].stage \in {"recording", "recordCycle", "recordLink"}
    BY DEF Recording
  <2>3. k.steps \in Nat /\ k.seq \in Nat
    BY <2>1, OutputsTyped, Constant DEF Kernels
  <2>. QED BY <2>1, <2>2, <2>3, CallerLives DEF Scripted
<1>2. CASE call[r].stage = "recording"
  <2>1. /\ WrittenInCall(call[r]) = 0 /\ Draft(r).kind = k.op /\ Draft(r).at = call[r].at
        /\ Draft(r).seq = call[r].seq /\ k.op \in {"BIND", "STEP", "RESET", "SHUTDOWN"}
    BY <1>1, <1>2, DraftFields DEF WrittenInCall, CallOf
  <2>2. CASE k.op = "BIND" /\ k.steps = 0
    <3>1. Draft(r).seq = 0 /\ Draft(r).at = 0
      BY <1>1, <2>1, <2>2 DEF CallOf
    <3>2. next = 1
      BY <2>1, <2>2 DEF Written
    <3>. QED BY <2>1, <2>2, <3>1, <3>2, FullEntries
  <2>3. CASE k.op = "BIND" /\ k.steps # 0
    <3>1. Draft(r).seq = 0 /\ Draft(r).at = 0 /\ Relinked
      BY <1>1, <2>1, <2>3 DEF CallOf, AtOp
    <3>2. next = CycleAfter + 4
      BY <1>0, <2>1, <2>3 DEF Written
    <3>. QED BY <2>1, <2>3, <3>1, <3>2, FullEntries
  <2>4. CASE k.op = "STEP" /\ k.steps < CycleAfter
    <3>. DEFINE n == k.steps + 1
    <3>1. Draft(r).seq = n /\ Draft(r).at = n
      BY <1>0, <1>1, <2>1, <2>4 DEF CallOf, AtOp
    <3>2. n \in 1 .. CycleAfter /\ next = 1 + n
      BY <1>0, <1>1, <2>1, <2>4 DEF Written
    <3>3. Full[1 + n] = Entry("STEP", n, n)
      BY <3>2, FullEntries
    <3>. QED BY <2>1, <2>4, <3>1, <3>2, <3>3
  <2>5. CASE k.op = "STEP" /\ ~(k.steps < CycleAfter)
    <3>. DEFINE n == k.steps + 1 - CycleAfter
    <3>1. Draft(r).seq = k.steps + 2 /\ Draft(r).at = k.steps + 1 /\ k.steps < Steps
      BY <1>0, <1>1, <2>1, <2>5 DEF CallOf, AtOp
    <3>2. n \in 1 .. Steps - CycleAfter /\ CycleAfter + 1 + n = k.steps + 2 /\ CycleAfter + n = k.steps + 1
      BY <1>0, <1>1, <2>5, <3>1
    <3>3. next = CycleAfter + Extra + 3 + n
      BY <1>0, <1>1, <2>1, <2>5 DEF Written
    <3>4. Full[CycleAfter + Extra + 3 + n] = Entry("STEP", CycleAfter + 1 + n, CycleAfter + n)
      BY <3>2, FullEntries
    <3>. QED BY <2>1, <2>5, <3>1, <3>2, <3>3, <3>4
  <2>6. CASE k.op = "RESET"
    <3>1. Draft(r).seq = CycleAfter + 1 /\ Draft(r).at = CycleAfter
      BY <1>1, <2>1, <2>6 DEF CallOf, AtOp
    <3>2. next = CycleAfter + Extra + 3
      BY <1>0, <2>1, <2>6 DEF Written
    <3>. QED BY <2>1, <2>6, <3>1, <3>2, FullEntries
  <2>7. CASE k.op = "SHUTDOWN"
    <3>1. Draft(r).seq = 0 /\ Draft(r).at = Steps
      BY <1>1, <2>1, <2>7 DEF CallOf, AtOp
    <3>2. next = Steps + Extra + 4
      BY <1>0, <2>1, <2>7 DEF Written
    <3>. QED BY <2>1, <2>7, <3>1, <3>2, FullEntries
  <2>. QED BY <2>1, <2>2, <2>3, <2>4, <2>5, <2>6, <2>7
<1>3. CASE call[r].stage \in {"recordCycle", "recordLink"}
  <2>1. k.op = "POWER_CYCLE" /\ call[r].at = CycleAfter /\ Written(k) = CycleAfter + 1
    BY <1>1, <1>3 DEF CallOf, AtOp, Written, CycleStages
  <2>2. CASE call[r].stage = "recordCycle"
    <3>1. Draft(r).kind = "POWER_CYCLE" /\ Draft(r).seq = 0 /\ Draft(r).at = CycleAfter
      BY <2>1, <2>2, DraftFields DEF Recording
    <3>2. next = CycleAfter + 2
      BY <1>0, <2>1, <2>2 DEF WrittenInCall
    <3>. QED BY <3>1, <3>2, FullEntries
  <2>3. CASE call[r].stage = "recordLink"
    <3>1. /\ Draft(r).kind = "LINK_REHANDSHAKE" /\ Draft(r).seq = 0 /\ Draft(r).at = CycleAfter
          /\ Relinked
      BY <1>1, <2>1, <2>3, DraftFields DEF CallOf
    <3>2. next = CycleAfter + 3
      BY <1>0, <2>1, <2>3 DEF WrittenInCall
    <3>. QED BY <3>1, <3>2, FullEntries
  <2>. QED BY <1>3, <2>2, <2>3
<1>. QED BY <1>1, <1>2, <1>3

(* The counts of a kernel that goes on.                                      *)
LEMMA AdvancedWritten ==
  ASSUME IInv, [Next]_vars, NEW r \in Run, KReply(r), Accepted(call[r])
  PROVE  (Written(kernel[r]) + Complete(r))' = Written(kernel[r]) + Complete(r)
<1>0. /\ Steps \in Nat /\ CycleAfter \in Nat \ {0} /\ CycleAfter < Steps
      /\ Extra \in {0, 2} /\ (Extra = 2 <=> Relinked)
  BY Constant, ScriptAt
<1>1. /\ CallOf(kernel[r], call[r]) /\ AtOp(kernel[r]) /\ kernel[r].steps \in Nat /\ kernel[r].op \in Ops
      /\ call[r].stage = "answered" /\ call[r].ok /\ kernel[r].status = "running"
      /\ call[r].op = kernel[r].op
  BY CallerLives, OutputsStep DEF KReply, Accepted, IInv, Scripted, TypeOK, Kernels, CallOf
<1>2. /\ Extra' = Extra
      /\ kernel'[r].status = (IF call[r].op = "SHUTDOWN" THEN "done" ELSE "running")
      /\ kernel'[r].op = NextOp(kernel[r], call[r])
      /\ kernel'[r].steps = (IF call[r].op = "STEP" THEN kernel[r].steps + 1 ELSE kernel[r].steps)
      /\ call'[r] = NoCall
  <2>1. kernel'[r] = Advanced(kernel[r], call[r])
    BY DEF KReply, IInv, TypeOK
  <2>. QED BY <2>1, AdvancedFields, ConfigStep DEF IInv, Extra, Relinked
<1>3. Complete(r)' = (IF kernel[r].op = "SHUTDOWN" THEN 1 ELSE 0)
  BY <1>1, <1>2 DEF Complete, WrittenInCall, NoCall
<1>4. Complete(r) = (IF kernel[r].op = "POWER_CYCLE" THEN IF Relinked THEN 2 ELSE 1
                     ELSE IF kernel[r].op = "HEAD" THEN 0 ELSE 1)
  <2>1. Complete(r) = WrittenInCall(call[r])
    BY <1>1 DEF Complete
  <2>2. CASE call[r].op = "POWER_CYCLE"
    <3>1. WrittenInCall(call[r]) = IF Relinked THEN 2 ELSE 1
      BY <1>1, <2>2 DEF WrittenInCall
    <3>. QED BY <1>1, <2>1, <2>2, <3>1
  <2>3. CASE call[r].op # "POWER_CYCLE"
    BY <1>1, <2>1, <2>3 DEF WrittenInCall
  <2>. QED BY <1>1, <2>2, <2>3
<1>5. Written(kernel[r])' =
        CASE kernel'[r].op = "BIND" -> IF kernel'[r].steps = 0 THEN 0 ELSE CycleAfter + 3
          [] kernel'[r].op = "STEP" -> IF kernel'[r].steps < CycleAfter THEN kernel'[r].steps + 1
                                                                        ELSE kernel'[r].steps + Extra + 3
          [] kernel'[r].op = "POWER_CYCLE" -> CycleAfter + 1
          [] kernel'[r].op = "RESET" -> CycleAfter + 2 + Extra
          [] OTHER -> Steps + Extra + 3
  BY <1>2 DEF Written
<1>6. CASE kernel[r].op = "BIND"
  BY <1>0, <1>1, <1>2, <1>3, <1>4, <1>5, <1>6 DEF Written, AtOp, NextOp
<1>7. CASE kernel[r].op = "STEP"
  <2>1. Complete(r) = 1 /\ Complete(r)' = 0
    BY <1>3, <1>4, <1>7
  <2>2. kernel'[r].steps = kernel[r].steps + 1 /\ kernel'[r].op = AfterStep(kernel[r].steps + 1)
    BY <1>1, <1>2, <1>7 DEF NextOp
  <2>3. CASE kernel[r].steps < CycleAfter
    <3>1. Written(kernel[r]) = kernel[r].steps + 1
      BY <1>7, <2>3 DEF Written
    <3>2. Written(kernel[r])' = kernel[r].steps + 2
      BY <1>0, <1>1, <1>5, <2>2, <2>3 DEF AfterStep
    <3>. QED BY <1>1, <2>1, <3>1, <3>2
  <2>4. CASE ~(kernel[r].steps < CycleAfter)
    <3>1. Written(kernel[r]) = kernel[r].steps + Extra + 3 /\ kernel[r].steps < Steps
      BY <1>1, <1>7, <2>4 DEF Written, AtOp
    <3>2. Written(kernel[r])' = kernel[r].steps + 1 + Extra + 3
      BY <1>0, <1>1, <1>5, <2>2, <2>4, <3>1 DEF AfterStep
    <3>. QED BY <1>0, <1>1, <2>1, <3>1, <3>2
  <2>. QED BY <2>3, <2>4
<1>8. CASE kernel[r].op = "POWER_CYCLE"
  BY <1>0, <1>1, <1>2, <1>3, <1>4, <1>5, <1>8 DEF Written, AtOp, NextOp, CallOf
<1>9. CASE kernel[r].op = "RESET"
  BY <1>0, <1>1, <1>2, <1>3, <1>4, <1>5, <1>9 DEF Written, AtOp, NextOp
<1>10. CASE kernel[r].op \in {"HEAD", "SHUTDOWN"}
  BY <1>0, <1>1, <1>2, <1>3, <1>4, <1>5, <1>10 DEF Written, AtOp, NextOp
<1>. QED BY <1>1, <1>6, <1>7, <1>8, <1>9, <1>10 DEF Ops

(* A log that is of one run was so before.                                   *)
LEMMA OwnBefore ==
  ASSUME TypeOK, [Next]_vars, NEW r, Own(r)'
  PROVE  Own(r)
BY LogStep, DraftedFields DEF Own

(* Of a run that has the log for itself and was refused nothing, a step      *)
(* leaves the counts alone, or appends a record of its handler's.            *)
LEMMA HandlerWrites ==
  ASSUME IInv, [Next]_vars, NEW r \in Run, HandlerMoves(r), WellAnswered(call[r])'
  PROVE  /\ WellAnswered(call[r])
         /\ \/ log' = log /\ WrittenInCall(call[r])' = WrittenInCall(call[r])
            \/ /\ Recorded(r) /\ Drafted(Draft(r)) /\ ~Draft(r).error
               /\ WrittenInCall(call[r])' = WrittenInCall(call[r]) + 1
<1>. USE DEF IInv
<1>1. /\ HandlerEffect(r) /\ SameCall(r) /\ CallOf(kernel[r], call[r]) /\ call[r].stage # "none"
      /\ call[r].ok \in BOOLEAN /\ call[r].relinked \in BOOLEAN /\ Relinked' = Relinked
  BY HandlerStep, HandlerKeeps, CallerLives, ConfigStep DEF TypeOK, Calls, Relinked
<1>2. call'[r].stage = "answered" => call'[r].ok
  BY DEF WellAnswered
<1>3. WellAnswered(call[r])
  BY DEF WellAnswered, HandlerMoves, Refuse, Begin, Enters, Head_, ReadAnswer, Recorded, RecordFails,
    Recording, BeginCycle, Channel, SendHello, HelloRead, HelloUnanswered, HelloDeadline
<1>4. CASE Begin(r) \/ Head_(r) \/ ReadAnswer(r) \/ BeginCycle(r) \/ Channel(r)
  <2>1. log' = log
    BY <1>4 DEF Begin, Head_, ReadAnswer, BeginCycle, Channel, edgeVars
  <2>2. call[r].stage \in {"gate", "reading", "channel"} /\ (Head_(r) => call[r].op = "HEAD")
    BY <1>4 DEF Begin, Enters, Head_, ReadAnswer, BeginCycle, Channel
  <2>3. call'[r].stage \in {"reading", "recording", "channel", "recordCycle"}
        \/ (call'[r].stage = "answered" /\ call'[r].op = "HEAD")
    BY <1>1, <1>2, <2>2 DEF HandlerEffect, SameCall, Recorded, Recording, SendHello, HelloRead,
      HelloUnanswered, HelloDeadline
  <2>. QED BY <1>3, <2>1, <2>2, <2>3 DEF WrittenInCall
<1>5. CASE SendHello(r) \/ HelloRead(r) \/ HelloUnanswered(r) \/ HelloDeadline(r)
  <2>1. log' = log
    BY <1>5 DEF SendHello, HelloRead, HelloUnanswered, HelloDeadline, edgeVars
  <2>2. call[r].stage \in {"hello", "helloWait"}
    BY <1>5 DEF SendHello, HelloRead, HelloUnanswered, HelloDeadline
  <2>3. call'[r].stage \in {"hello", "helloWait", "recordLink"}
    BY <1>1, <1>2, <2>2 DEF HandlerEffect, Refuse, Begin, Enters, Head_, ReadAnswer, Recorded, RecordFails,
      Recording, BeginCycle, Channel
  <2>. QED BY <1>3, <2>1, <2>2, <2>3 DEF WrittenInCall
<1>6. CASE Recorded(r)
  <2>1. Drafted(Draft(r)) /\ Recording(r)
    BY <1>6 DEF Recorded, Durable, Drafted
  <2>2. \/ Relinks(call[r]) /\ call'[r].stage = "hello"
        \/ /\ ~Relinks(call[r]) /\ call'[r].stage = "answered"
           /\ call'[r].ok = (IF call[r].stage = "recordLink" THEN call[r].relinked ELSE call[r].ok)
    BY <1>1, <1>2, <2>1 DEF HandlerEffect, Refuse, Begin, Enters, Head_, ReadAnswer, RecordFails,
      Recording, BeginCycle, Channel, SendHello, HelloRead, HelloUnanswered, HelloDeadline
  <2>3. CASE call[r].stage = "recording"
    <3>1. ~Relinks(call[r]) /\ call[r].op \in {"BIND", "STEP", "RESET", "SHUTDOWN"}
      BY <1>1, <2>3 DEF Relinks, CallOf
    <3>2. call'[r].stage = "answered" /\ call'[r].ok = call[r].ok /\ call'[r].op = call[r].op
      BY <1>1, <2>2, <2>3, <3>1 DEF SameCall
    <3>3. ~Draft(r).error
      BY <1>2, <2>1, <2>3, <3>2, DraftFields
    <3>4. WrittenInCall(call[r]) = 0 /\ WrittenInCall(call[r])' = 1
      BY <2>3, <3>1, <3>2 DEF WrittenInCall
    <3>. QED BY <1>3, <1>6, <2>1, <3>3, <3>4
  <2>4. CASE call[r].stage = "recordCycle"
    BY <1>1, <1>2, <1>3, <1>6, <2>1, <2>2, <2>4, DraftFields
    DEF WrittenInCall, CallOf, SameCall, Relinks, Relinked, CycleStages
  <2>5. CASE call[r].stage = "recordLink"
    <3>1. ~Relinks(call[r]) /\ call[r].op = "POWER_CYCLE" /\ Relinked
      BY <1>1, <2>5 DEF Relinks, CallOf, CycleStages
    <3>2. call'[r].stage = "answered" /\ call'[r].ok = call[r].relinked /\ call'[r].op = call[r].op
      BY <1>1, <2>2, <2>5, <3>1 DEF SameCall
    <3>3. ~Draft(r).error
      BY <1>2, <2>1, <2>5, <3>2, DraftFields
    <3>4. WrittenInCall(call[r]) = 1 /\ WrittenInCall(call[r])' = 2
      BY <1>1, <2>5, <3>1, <3>2 DEF WrittenInCall
    <3>. QED BY <1>3, <1>6, <2>1, <3>3, <3>4
  <2>. QED BY <2>1, <2>3, <2>4, <2>5 DEF Recording
<1>7. CASE Refuse(r) \/ RecordFails(r)
  <2>1. call' = [call EXCEPT ![r].stage = "answered", ![r].ok = FALSE]
    BY <1>7 DEF Refuse, RecordFails, Answer
  <2>. QED BY <1>2, <2>1 DEF TypeOK, Calls
<1>. QED BY <1>4, <1>5, <1>6, <1>7 DEF HandlerMoves

OnTrackOf(r) ==
  /\ Len(log) = Written(kernel[r]) + Complete(r)
  /\ \A i \in DOMAIN log : ~log[i].error /\ Entry(log[i].kind, log[i].seq, log[i].at) = Full[i]

(* Every step keeps the log of an undisturbed run on its script.             *)
LEMMA OnTrackStep == IInv /\ [Next]_vars => OnTrack'
<1>. SUFFICES ASSUME IInv, [Next]_vars, NEW r \in Run,
                     kernel'[r].status \in {"running", "done"}, Own(r)', WellAnswered(call[r])'
              PROVE  OnTrackOf(r)'
  BY DEF OnTrack, OnTrackOf, Full
<1>. USE DEF IInv
<1>1. Own(r) /\ Extra' = Extra /\ Full' = Full /\ Relinked' = Relinked
  <2>1. Relinked' = Relinked
    BY ConfigStep DEF Relinked
  <2>2. Full' = Full
    BY <2>1 DEF Full, Script
  <2>. QED BY <2>1, <2>2, OwnBefore DEF Extra
<1>2. kernel[r].status \in {"running", "done"} /\ WellAnswered(call[r]) => OnTrackOf(r)
  BY <1>1 DEF OnTrack, OnTrackOf, Full
<1>3. CASE log' = log
  <2>. USE <1>3
  <2>1. CASE KReply(r) /\ Accepted(call[r])
    <3>1. kernel[r].status = "running" /\ WellAnswered(call[r])
      BY <2>1 DEF KReply, Accepted, WellAnswered
    <3>. QED BY <1>1, <1>2, <2>1, <3>1, AdvancedWritten DEF OnTrackOf
  <2>2. CASE KStart(r) /\ kernel[r].status = "waiting" /\ Became(r, "running")
    <3>1. Len(log) = 0 /\ DOMAIN log = {}
      <4>1. ~Named(r) /\ log \in Seq(Records)
        BY <2>2 DEF LogIsItsOwn, TypeOK
      <4>. QED BY <1>1, <4>1 DEF Named, Own
    <3>2. kernel'[r].op = "BIND" /\ kernel'[r].steps = 0 /\ kernel'[r].status = "running"
      BY <2>2, BecameFields DEF OneAlive
    <3>3. call'[r].stage = "none"
      BY <2>2 DEF KStart, OneAlive
    <3>4. Written(kernel[r])' = 0 /\ Complete(r)' = 0
      BY <3>2, <3>3 DEF Written, Complete, WrittenInCall
    <3>. QED BY <3>1, <3>4 DEF OnTrackOf
  <2>3. CASE kernel'[r] = kernel[r] /\ ~(KReply(r) /\ Accepted(call[r]))
    <3>1. Written(kernel[r])' = Written(kernel[r])
      BY <1>1, <2>3 DEF Written
    <3>2. ~KReply(r) /\ ~KExit(r)
      BY <2>3 DEF KReply, KExit, TypeOK, Kernels
    <3>3. CASE call'[r] = call[r]
      BY <1>1, <1>2, <2>3, <3>1, <3>3 DEF OnTrackOf, WellAnswered, Complete, WrittenInCall
    <3>4. CASE KCall(r)
      <4>1. WellAnswered(call[r]) /\ kernel[r].status = "running" /\ call[r].stage = "none"
            /\ call'[r].stage = "gate"
        BY <3>4, CallFields DEF WellAnswered
      <4>2. Complete(r) = 0 /\ Complete(r)' = 0
        BY <2>3, <4>1 DEF Complete, WrittenInCall
      <4>. QED BY <1>1, <1>2, <3>1, <4>1, <4>2 DEF OnTrackOf
    <3>5. CASE HandlerMoves(r)
      <4>1. kernel[r].status = "running"
        BY <2>3, <3>5, HandlerKeeps DEF OneAlive
      <4>2. ~Drafted(Draft(r))
        BY DraftedFields
      <4>3. WellAnswered(call[r]) /\ WrittenInCall(call[r])' = WrittenInCall(call[r])
        BY <3>5, <4>2, HandlerWrites
      <4>. QED BY <1>1, <1>2, <2>3, <3>1, <4>1, <4>3 DEF OnTrackOf, Complete
    <3>. QED BY <3>2, <3>3, <3>4, <3>5, CallStep
  <2>4. CASE \E s \in {"failed", "gone"} : Became(r, s)
    BY <2>4, BecameFields
  <2>. QED BY <2>1, <2>2, <2>3, <2>4, KernelStep DEF KernelMoved
<1>4. ASSUME NEW d, Drafted(d) PROVE d.run = r
  BY <1>4, DraftedFields DEF Own
<1>5. ASSUME NEW q \in Run, Recorded(q) \/ RecordFails(q), Recording(q), Drafted(Draft(q))
      PROVE  OnTrackOf(r)'
  <2>1. q = r /\ HandlerMoves(r)
    BY <1>4, <1>5, DraftFields DEF HandlerMoves
  <2>2. kernel' = kernel /\ kernel[r].status = "running" /\ kernel'[r] = kernel[r]
    BY <2>1, HandlerKeeps DEF OneAlive
  <2>3. log' # log
    BY <1>5, DraftedFields
  <2>4. /\ WellAnswered(call[r]) /\ ~Draft(r).error
        /\ WrittenInCall(call[r])' = WrittenInCall(call[r]) + 1
    BY <2>1, <2>3, HandlerWrites
  <2>5. OnTrackOf(r) /\ Len(log) = Written(kernel[r]) + WrittenInCall(call[r])
    BY <1>2, <2>2, <2>4 DEF OnTrackOf, Complete
  <2>6. Written(kernel[r])' = Written(kernel[r]) /\ Complete(r)' = WrittenInCall(call[r]) + 1
    BY <1>1, <2>2, <2>4 DEF Written, Complete
  <2>7. Entry(Draft(r).kind, Draft(r).seq, Draft(r).at) = Full[Len(log) + 1]
    BY <1>5, <2>1, <2>5, NextEntry
  <2>8. Written(kernel[r]) \in Nat /\ WrittenInCall(call[r]) \in {0, 1, 2}
    BY WrittenType, OutputsStep DEF WrittenInCall
  <2>9. (\A i \in DOMAIN log : ~log[i].error /\ Entry(log[i].kind, log[i].seq, log[i].at) = Full[i])'
    <3>1. ASSUME NEW i \in DOMAIN log'
          PROVE  ~log'[i].error /\ Entry(log'[i].kind, log'[i].seq, log'[i].at) = Full[i]
      <4>1. CASE i \in DOMAIN log
        BY <1>5, <2>5, <4>1, DraftedFields DEF OnTrackOf
      <4>2. CASE i = Len(log) + 1
        BY <1>5, <2>1, <2>4, <2>7, <4>2, DraftedFields
      <4>. QED BY <1>5, <4>1, <4>2, DraftedFields
    <3>. QED BY <1>1, <3>1
  <2>10. Len(log') = Len(log) + 1
    BY <1>5, DraftedFields
  <2>. QED BY <2>5, <2>6, <2>8, <2>9, <2>10 DEF OnTrackOf
<1>6. ASSUME NEW d \in orphans, OrphanAppend, Drafted(d) PROVE FALSE
  <2>1. kernel[r].status = "gone" /\ kernel' = kernel
    BY <1>4, <1>6 DEF OrphansLast, OrphanAppend
  <2>. QED BY <2>1
<1>. QED BY <1>3, <1>5, <1>6, LogStep

(* Every step keeps the pin at the length of the script.                     *)
LEMMA PinnedStep == IInv /\ [Next]_vars => Pinned'
<1>. SUFFICES ASSUME IInv, [Next]_vars, NEW r \in Run
              PROVE  (/\ call[r].stage = "answered" /\ call[r].op = "HEAD" /\ call[r].ok
                           /\ kernel[r].status = "running" /\ Own(r) => call[r].pin = Steps + Extra + 3
                      /\ kernel[r].op = "SHUTDOWN" /\ kernel[r].status \in {"running", "done"} /\ Own(r)
                           => kernel[r].pin = Steps + Extra + 3
                      /\ kernel[r].status = "done" => kernel[r].op = "SHUTDOWN")'
  BY DEF Pinned
<1>. USE DEF IInv
<1>1. Extra' = Extra /\ (Own(r)' => Own(r)) /\ AtOp(kernel[r]) /\ kernel[r].op \in Ops
  BY OwnBefore, ConfigStep DEF Extra, Relinked, Scripted, TypeOK, Kernels
<1>2. /\ call[r].stage = "answered" /\ call[r].op = "HEAD" /\ call[r].ok
           /\ kernel[r].status = "running" /\ Own(r) => call[r].pin = Steps + Extra + 3
      /\ kernel[r].op = "SHUTDOWN" /\ kernel[r].status \in {"running", "done"} /\ Own(r)
           => kernel[r].pin = Steps + Extra + 3
      /\ kernel[r].status = "done" => kernel[r].op = "SHUTDOWN"
  BY DEF Pinned
<1>3. CASE KReply(r) /\ Accepted(call[r])
  <2>1. /\ call[r].stage = "answered" /\ call[r].ok /\ call[r].op = kernel[r].op /\ kernel[r].status = "running"
    BY <1>3, CallerLives DEF KReply, Accepted, CallOf
  <2>2. /\ kernel'[r].status = (IF call[r].op = "SHUTDOWN" THEN "done" ELSE "running")
        /\ kernel'[r].op = NextOp(kernel[r], call[r])
        /\ kernel'[r].pin = (IF call[r].op = "HEAD" THEN call[r].pin ELSE kernel[r].pin)
        /\ call'[r].stage = "none"
    <3>1. kernel'[r] = Advanced(kernel[r], call[r])
      BY <1>3 DEF KReply, TypeOK
    <3>2. NoCall.stage = "none"
      BY DEF NoCall
    <3>. QED BY <1>3, <3>1, <3>2, AdvancedFields
  <2>3. kernel'[r].op = "SHUTDOWN" <=> kernel[r].op \in {"HEAD", "SHUTDOWN"}
    BY <1>1, <2>1, <2>2 DEF NextOp, AfterStep, Ops
  <2>. QED BY <1>1, <1>2, <2>1, <2>2, <2>3
<1>4. CASE ~(KReply(r) /\ Accepted(call[r]))
  <2>1. /\ kernel'[r].op = kernel[r].op /\ kernel'[r].pin = kernel[r].pin
        /\ kernel'[r].status = kernel[r].status \/ kernel'[r].status \in {"failed", "gone"}
           \/ kernel[r].status = "waiting"
    BY <1>4, KernelStep, BecameFields DEF KernelMoved
  <2>2. kernel[r].status = "waiting" => kernel[r].op = "BIND" /\ call[r].stage = "none"
    BY DEF OneAlive
  <2>3. kernel[r].status = "waiting" => kernel'[r].status # "done"
    BY <1>4, KernelStep, BecameFields DEF KernelMoved
  <2>4. ASSUME call'[r].stage = "answered", call'[r].op = "HEAD", call'[r].ok,
               kernel'[r].status = "running", Own(r)'
        PROVE  call'[r].pin = Steps + Extra + 3
    <3>1. CASE call'[r] = call[r]
      BY <1>1, <1>2, <2>1, <2>2, <2>4, <3>1
    <3>2. CASE KCall(r) \/ KReply(r) \/ KExit(r)
      <4>1. call'[r] # NoCall /\ ~KCall(r)
        BY <2>4, CallFields DEF NoCall
      <4>. QED BY <3>2, <4>1 DEF KReply, KExit, TypeOK
    <3>3. CASE HandlerMoves(r)
      <4>1. /\ HandlerEffect(r) /\ SameCall(r) /\ CallOf(kernel[r], call[r]) /\ kernel' = kernel
            /\ call[r].stage # "none"
        BY <3>3, HandlerStep, HandlerKeeps, CallerLives
      <4>2. Head_(r) /\ call'[r].pin = Len(log)
        BY <2>4, <4>1 DEF HandlerEffect, SameCall, CallOf, CycleStages, Recorded, Recording
      <4>3. WellAnswered(call[r]) /\ kernel[r].status = "running" /\ Own(r) /\ kernel[r].op = "HEAD"
            /\ call[r].stage = "gate"
        BY <1>1, <2>4, <4>1, <4>2 DEF Head_, Enters, WellAnswered, CallOf
      <4>4. Len(log) = Written(kernel[r]) + Complete(r)
        BY <4>3 DEF OnTrack
      <4>5. Complete(r) = 0 /\ Written(kernel[r]) = Steps + Extra + 3
        BY <4>3 DEF Complete, WrittenInCall, Written
      <4>. QED BY <4>2, <4>4, <4>5, ScriptAt, Constant
    <3>. QED BY <3>1, <3>2, <3>3, CallStep
  <2>. QED BY <1>1, <1>2, <2>1, <2>2, <2>3, <2>4
<1>. QED BY <1>3, <1>4

-----------------------------------------------------------------------------

(* The invariant holds when the first kernel starts.                         *)
LEMMA Initial == Init => IInv
<1>. SUFFICES ASSUME Init PROVE IInv
  OBVIOUS
<1>. USE Constant
<1>1. /\ kernel \in [Run -> Kernels] /\ call = [r \in Run |-> NoCall] /\ log = <<>> /\ orphans = {}
      /\ \A r \in Run : /\ kernel[r].status = (IF r = 1 THEN "running" ELSE "waiting")
                        /\ kernel[r].op = "BIND" /\ kernel[r].seq = 1 /\ kernel[r].steps = 0
                        /\ kernel[r].outputs = <<>> /\ kernel[r].pin = 0
                        /\ r \in Nat \ {0}
                        /\ call[r] = NoCall
      /\ gate = 0 /\ lost = FALSE /\ logRun = 0 /\ poisoned = FALSE /\ up = TRUE /\ spent = 0
  BY DEF Init, Kernels, Status, Ops, Run
<1>2. NoCall.stage = "none" /\ NoCall.op = "BIND" /\ ~NoCall.ok /\ NoCall.hellos = 0
  BY DEF NoCall
<1>3. DOMAIN log = {} /\ Len(log) = 0 /\ \A r : StepAt(r) = {} /\ ~Named(r)
  BY <1>1 DEF StepAt, Named
<1>4. air = [guest |-> EmptyBag, edge |-> EmptyBag] /\ IsABag(EmptyBag) /\ BagToSet(EmptyBag) = {}
  BY DEF Init, EmptyBag, SetToBag, IsABag, BagToSet
<1>5. TypeOK
  <2>1. LinkTypes
    BY <1>1, <1>4 DEF Init, LinkTypes
  <2>2. EdgeTypes
    <3>1. 0 \in 0 .. Runs /\ <<>> \in Seq(Records) /\ {} \subseteq Records
      OBVIOUS
    <3>. QED BY <1>1, <3>1 DEF EdgeTypes
  <2>3. CallTypes
    BY <1>1, <1>2 DEF CallTypes
  <2>. QED BY <1>1, <2>1, <2>2, <2>3, TypeParts DEF Init, KernelTypes
<1>6. OneAlive
  BY <1>1, <1>2 DEF OneAlive
<1>7. Scripted /\ CallsMatch
  BY <1>1, <1>2 DEF Scripted, AtOp, CallsMatch
<1>8. LogIsItsOwn
  BY <1>1, <1>2, <1>3 DEF LogIsItsOwn, Bound
<1>9. FramesTrue /\ OrphansLast
  BY <1>1, <1>2, <1>3, <1>4 DEF FramesTrue, OrphansLast
<1>10. StepsInOrder
  BY <1>1, <1>2, <1>3 DEF StepsInOrder, LogAheadOfKernel, NotYet, Given
<1>11. OnTrack /\ Pinned
  BY <1>1, <1>2, <1>3 DEF OnTrack, Pinned, Written, Complete, WrittenInCall
<1>. QED BY <1>5, <1>6, <1>7, <1>8, <1>9, <1>10, <1>11 DEF IInv

(* The inductive invariant holds in every state of the edge service and its runs.*)
THEOREM InvariantHolds == Spec => []IInv
<1>1. IInv /\ [Next]_vars => IInv'
  BY TypeStep, OneAliveStep, ScriptedStep, CallsMatchStep, LogIsItsOwnStep, FramesTrueStep, StepsInOrderStep,
     OrphansLastStep, OnTrackStep, PinnedStep DEF IInv
<1>. QED BY Initial, <1>1, PTL DEF Spec

(* Types, attempts and the gate (TypeOK), for any number of runs, steps and faults.*)
THEOREM TypeCorrect == Spec => []TypeOK
<1>1. IInv => TypeOK
  BY DEF IInv
<1>. QED BY <1>1, InvariantHolds, PTL

(* The signed log is never behind the kernel (service.rs records before it   *)
(* replies), for any number of runs and steps, and whatever the link loses,  *)
(* copies or reorders, the board does, or a cancelled handler appends late.  *)
THEOREM LogNeverBehind == Spec => []LogAheadOfKernel
<1>1. IInv => LogAheadOfKernel
  BY DEF IInv, StepsInOrder
<1>. QED BY <1>1, InvariantHolds, PTL

(* Between steps the log tells of the answers that were given, and of no other.*)
LEMMA LoggedIsGiven ==
  ASSUME IInv, NEW r \in Run, NotYet(r)
  PROVE  Logged(r) = Given(r)
<1>1. Given(r) \subseteq Logged(r)
  BY DEF IInv, StepsInOrder, LogAheadOfKernel
<1>2. ASSUME NEW i \in StepAt(r) PROVE <<log[i].at, log[i].output>> \in Given(r)
  <2>1. i \in Nat /\ log[i].at \in Nat /\ log[i].at >= 1 /\ log[i].at <= kernel[r].steps
    BY LogTypes DEF IInv, StepsInOrder, NotYet
  <2>2. log[i].at \in DOMAIN kernel[r].outputs
    BY <2>1, OutputsTyped DEF IInv
  <2>3. <<log[i].at, kernel[r].outputs[log[i].at]>> \in Given(r)
    BY <2>2 DEF Given
  <2>4. PICK j \in StepAt(r) : log[j].at = log[i].at /\ log[j].output = kernel[r].outputs[log[i].at]
    BY <1>1, <2>3 DEF Logged
  <2>5. j \in Nat /\ log[j].at \in Nat
    BY LogTypes DEF IInv
  <2>6. ~(i < j) /\ ~(j < i)
    <3>1. \A m, n \in StepAt(r) : m < n => log[m].at < log[n].at
      BY DEF IInv, StepsInOrder, LogAheadOfKernel
    <3>2. ~(log[i].at < log[j].at) /\ ~(log[j].at < log[i].at)
      BY <2>1, <2>4
    <3>. QED BY <3>1, <3>2
  <2>. QED BY <2>1, <2>3, <2>4, <2>5, <2>6
<1>. QED BY <1>1, <1>2 DEF Logged

(* A run that completed on a log of its own replays from it (board_replay.rs:*)
(* the pin, the script, the answers), whatever happened to link and board.   *)
THEOREM CompletedRunsReplay == Spec => []PinnedRunReplays
<1>1. IInv => PinnedRunReplays
  <2>. SUFFICES ASSUME IInv, NEW r \in Run, kernel[r].status = "done", Own(r)
                PROVE  Replays(r)
    BY DEF PinnedRunReplays, Own
  <2> DEFINE pin == kernel[r].pin
             body == SubSeq(log, 1, pin)
  <2>1. /\ kernel[r].op = "SHUTDOWN" /\ pin = Steps + Extra + 3 /\ call[r].stage = "none"
        /\ Steps \in Nat /\ Extra \in {0, 2}
    BY ScriptAt, Constant DEF IInv, Pinned, OneAlive
  <2>2. /\ Len(log) = pin + 1
        /\ \A i \in DOMAIN log : ~log[i].error /\ Entry(log[i].kind, log[i].seq, log[i].at) = Full[i]
    <3>1. Written(kernel[r]) + Complete(r) = pin + 1
      BY <2>1 DEF Written, Complete
    <3>. QED BY <2>1, <3>1 DEF IInv, OnTrack, WellAnswered, Full
  <2>3. log \in Seq(Records) /\ pin \in Nat /\ DOMAIN log = 1 .. pin + 1
    BY <2>1, <2>2 DEF IInv, TypeOK
  <2>4. log[pin + 1].kind = "SHUTDOWN"
    <3>1. Full[pin + 1] = Entry("SHUTDOWN", 0, Steps) /\ pin + 1 \in DOMAIN log
      BY <2>1, <2>3, FullAt
    <3>2. Entry(log[pin + 1].kind, log[pin + 1].seq, log[pin + 1].at) = Entry("SHUTDOWN", 0, Steps)
      BY <2>2, <3>1
    <3>. QED BY <3>2 DEF Entry
  <2>5. [i \in DOMAIN body |-> Entry(body[i].kind, body[i].seq, body[i].at)] = Script(Relinked)
    <3>1. DOMAIN body = 1 .. pin /\ \A i \in 1 .. pin : body[i] = log[i] /\ i \in DOMAIN log
      BY <2>3
    <3>2. Script(Relinked) \in Seq(Entries) /\ Len(Script(Relinked)) = pin
      BY <2>1, ScriptAt
    <3>3. Script(Relinked) = [i \in 1 .. pin |-> Script(Relinked)[i]]
      BY <3>2
    <3>4. \A i \in 1 .. pin : Entry(body[i].kind, body[i].seq, body[i].at) = Script(Relinked)[i]
      BY <2>1, <2>2, <3>1, FullAt
    <3>. QED BY <3>1, <3>3, <3>4
  <2>6. NotYet(r)
    BY <2>1 DEF IInv, StepsInOrder
  <2>7. ASSUME NEW i \in StepAt(r) PROVE log[i].output = Frame("STEP", log[i].seq, log[i].at, r)
    <3>1. StepTrue(log[i].seq, log[i].at, log[i].output) /\ log[i].output \in Frames
      <4>1. i \in DOMAIN log /\ log[i].kind = "STEP" /\ ~log[i].error
        BY DEF StepAt
      <4>2. log[i] \in Records
        BY <2>3, <4>1
      <4>. QED BY <4>1, <4>2 DEF IInv, FramesTrue, Records
    <3>2. log[i].output.run = r
      BY <3>1 DEF StepTrue, Named, Own
    <3>. QED BY <3>1, <3>2 DEF StepTrue, Frames, Frame
  <2>8. Relinked \in BOOLEAN
    BY DEF Relinked
  <2>. QED BY <2>2, <2>4, <2>5, <2>6, <2>7, <2>8, LoggedIsGiven DEF Replays
<1>. QED BY <1>1, InvariantHolds, PTL
=============================================================================
