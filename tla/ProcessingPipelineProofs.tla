---------------------- MODULE ProcessingPipelineProofs ----------------------
(***************************************************************************)
(* Proofs about ProcessingPipeline, for every set of meetings and threads, *)
(* every database the launch finds, every choice of outside events and     *)
(* every bound.                                                            *)
(***************************************************************************)
EXTENDS ProcessingPipeline, TLAPS

-----------------------------------------------------------------------------
(* What the helpers of the actions return.                                  *)

\* The initial values of a run, an operation and a resumer have their types.
LEMMA NothingTypes ==
  NoRun \in RunType /\ NoOp \in OpType /\ NoResumer \in ResumerType
<1>1. NoRun \in RunType
  BY ConstantsAssumption DEF NoRun, RunType, RunPcs, Causes
<1>2. NoOp \in OpType
  BY DEF NoOp, OpType, OpPcs, OpKinds
<1>3. NoResumer \in ResumerType
  BY DEF NoResumer, NoList, ResumerType, ResumeKinds
<1> QED BY <1>1, <1>2, <1>3

\* `start` leaves a claim set of meetings and a run for each (start).
LEMMA StartTypes ==
  ASSUME TypeOK, NEW m \in Meetings, Start(m)
  PROVE  claimed' \subseteq Meetings /\ run' \in [Meetings -> RunType]
<1>1. [NoRun EXCEPT !.pc = "spawned"] \in RunType
  BY NothingTypes DEF RunType, RunPcs
<1> QED BY <1>1, NothingTypes DEF TypeOK, Start

\* So does a dropped claim (Drop for AssetClaim).
LEMMA DropClaimTypes ==
  ASSUME TypeOK, NEW m \in Meetings, DropClaim(m)
  PROVE  claimed' \subseteq Meetings /\ run' \in [Meetings -> RunType]
BY NothingTypes DEF TypeOK, DropClaim

\* A run that moves to another place still is a run.
LEMMA GotoTypes ==
  ASSUME TypeOK, NEW m \in Meetings, NEW pc \in RunPcs, Goto(m, pc)
  PROVE  run' \in [Meetings -> RunType]
BY DEF TypeOK, Goto, RunType

\* A call of resume_among is a resumer's state.
LEMMA ResumesTypes ==
  ASSUME TypeOK, NEW r \in Threads, NEW by \in ResumeKinds, NEW all \in BOOLEAN,
         NEW among \in SUBSET Meetings, NEW models \in SUBSET Meetings,
         Resumes(r, by, all, among, models)
  PROVE  resumer' \in [Threads -> ResumerType]
<1> DEFINE c == [NoResumer EXCEPT !.pc = "listing", !.by = by, !.all = all,
                                  !.among = among, !.models = models]
<1>1. c \in ResumerType
  BY DEF NoResumer, NoList, ResumerType
<1> QED BY <1>1 DEF TypeOK, Resumes

\* A counted resume stays below the wrap (ModelWaits::resume).
LEMMA CountResumeTypes ==
  ASSUME TypeOK, CountResume
  PROVE  resumes' \in 0..(ResumeWrap - 1) /\ waiting' \subseteq Meetings
BY ConstantsAssumption DEF TypeOK, CountResume

\* Meetings that wait for the store stay meetings (ModelWaits::wait_for_store).
LEMMA WaitForStoreTypes ==
  ASSUME TypeOK, NEW ms \in SUBSET Meetings, WaitForStore(ms)
  PROVE  forStore' \subseteq Meetings /\ retryWake' \in BOOLEAN
BY DEF TypeOK, WaitForStore

\* A thread that returns has its type, and so have its caller's places.
LEMMA ReturnsTypes ==
  ASSUME TypeOK, NEW r \in Threads, Returns(r)
  PROVE  /\ resumer' \in [Threads -> ResumerType]
         /\ launch' \in {"due", "resuming", "exports", "done"}
         /\ retry' \in {"waiting", "sleeping", "trying", "ended"}
BY NothingTypes DEF TypeOK, Returns

-----------------------------------------------------------------------------
(* Type correctness.                                                        *)

\* A step of a run keeps the types (start's task and process_held).
LEMMA RunTypeStep ==
  ASSUME TypeOK, NEW m \in Meetings, RunStep(m) \/ RunFaults(m)
  PROVE  TypeOK'
<1> USE DEF TypeOK, rows, marks, waits, tasks, callers, exit, outside
<1>1. CASE RunBegin(m)
  BY <1>1, GotoTypes DEF RunBegin, RunPcs
<1>2. CASE RunAdmit(m)
  BY <1>2 DEF RunAdmit, Goto, RunType, RunPcs
<1>3. CASE RunWarmUp(m)
  BY <1>3, GotoTypes DEF RunWarmUp, RunPcs
<1>4. CASE RunMark(m)
  BY <1>4, GotoTypes DEF RunMark, RunWrites, States, RunPcs
<1>5. CASE RunMerge(m)
  BY <1>5, GotoTypes DEF RunMerge, RunWrites, States, RunPcs
<1>6. CASE RunSummarize(m)
  BY <1>6, GotoTypes DEF RunSummarize, RunWrites, States, RunPcs
<1>7. CASE RunPersist(m)
  BY <1>7, GotoTypes DEF RunPersist, RunPcs
<1>8. CASE RunOwe(m)
  BY <1>8, GotoTypes DEF RunOwe, MarkPending, Statuses, RunPcs
<1>9. CASE RunReady(m)
  BY <1>9, GotoTypes DEF RunReady, States, RunPcs
<1>10. CASE RunDeliver(m)
  BY <1>10, GotoTypes DEF RunDeliver, MarkPending, Statuses, RunPcs
<1>11. CASE RunExport(m)
  BY <1>11, GotoTypes DEF RunExport, SaveOutcome, Statuses, RunPcs
<1>12. ASSUME NEW why \in Causes, FailsWith(m, why), events' \in 0..MaxEvents
       PROVE  TypeOK'
  <2>1. run' \in [Meetings -> RunType]
    <3>1. CASE Quitting
      BY <1>12, <3>1, GotoTypes DEF FailsWith, RunPcs
    <3>2. CASE ~Quitting
      BY <1>12, <3>2 DEF FailsWith, RunType, RunPcs
    <3> QED BY <3>1, <3>2
  <2> QED BY <1>12, <2>1 DEF FailsWith
<1>13. CASE RunMissesModels(m)
  BY <1>12, <1>13 DEF RunMissesModels, Causes
<1>14. CASE RunMeetsLock(m) \/ RunMissesRow(m)
  BY <1>12, <1>14 DEF RunMeetsLock, RunMissesRow, Causes
<1>15. CASE RunFaults(m)
  BY <1>12, <1>15, ConstantsAssumption DEF RunFaults, Event, Causes
<1>16. CASE RunHandlesFailure(m)
  <2>1. state' \in [Meetings -> States]
    BY <1>16 DEF RunHandlesFailure, BestEffort, States
  <2>2. run' \in [Meetings -> RunType]
    <3>1. CASE Goto(m, "leaving")
      BY <3>1, GotoTypes DEF RunPcs
    <3>2. ASSUME NEW pc \in RunPcs, run' = [run EXCEPT ![m].pc = pc, ![m].why = "none"]
          PROVE  run' \in [Meetings -> RunType]
      BY <3>2 DEF RunType, Causes
    <3> QED BY <1>16, <3>1, <3>2 DEF RunHandlesFailure, RunPcs
  <2> QED BY <1>16, <2>1, <2>2 DEF RunHandlesFailure
<1>17. CASE RunLeave(m)
  BY <1>17, GotoTypes DEF RunLeave, RunPcs
<1>18. CASE RunDrop(m)
  BY <1>18, NothingTypes DEF RunDrop, Refusals, RunType
<1> QED
  BY <1>1, <1>2, <1>3, <1>4, <1>5, <1>6, <1>7, <1>8, <1>9, <1>10, <1>11, <1>13,
     <1>14, <1>15, <1>16, <1>17, <1>18 DEF RunStep

\* A re-export or a summary re-run keeps the types.
LEMMA OpTypeStep ==
  ASSUME TypeOK, NEW m \in Meetings,
         OpStep(m) \/ \E k \in {"redeliver", "rerun"} : ClaimOperation(m, k)
  PROVE  TypeOK'
<1> USE DEF TypeOK, rows, marks, waits, tasks, callers, exit, outside
<1>1. ASSUME NEW pc \in OpPcs, OpGoto(m, pc) PROVE op' \in [Meetings -> OpType]
  BY <1>1 DEF OpGoto, OpType
<1>2. ASSUME NEW k \in OpKinds, NEW pc \in OpPcs, AdmitOp(m, k, pc)
      PROVE  op' \in [Meetings -> OpType] /\ inFlight' \subseteq Meetings
  BY <1>2 DEF AdmitOp, OpType
<1>3. ASSUME ReleaseOp(m)
      PROVE  op' \in [Meetings -> OpType] /\ inFlight' \subseteq Meetings
  BY <1>3, NothingTypes DEF ReleaseOp
<1>4. CASE RedeliverAtLaunch(m)
  BY <1>2, <1>4 DEF RedeliverAtLaunch, OpPcs, OpKinds
<1>5. CASE StillOwed(m)
  BY <1>1, <1>3, <1>5 DEF StillOwed, OpPcs
<1>6. CASE OpBegin(m)
  BY <1>1, <1>6 DEF OpBegin, OpPcs
<1>7. CASE Resummarize(m)
  BY <1>1, <1>7 DEF Resummarize, OpPcs, States
<1>8. CASE OpMarkPending(m)
  BY <1>1, <1>8 DEF OpMarkPending, MarkPending, OpPcs, Statuses
<1>9. CASE OpDeliver(m)
  BY <1>1, <1>9 DEF OpDeliver, MarkPending, OpPcs, Statuses
<1>10. CASE OpExport(m)
  BY <1>1, <1>10 DEF OpExport, SaveOutcome, OpPcs, Statuses
<1>11. CASE OpClose(m)
  BY <1>3, <1>11 DEF OpClose, Statuses
<1>12. ASSUME NEW k \in {"redeliver", "rerun"}, ClaimOperation(m, k) PROVE TypeOK'
  BY <1>2, <1>12, ConstantsAssumption DEF ClaimOperation, Event, OpPcs, OpKinds
<1> QED
  BY <1>4, <1>5, <1>6, <1>7, <1>8, <1>9, <1>10, <1>11, <1>12 DEF OpStep

\* Entering the queue, an exit's saves and a delete keep the types.
LEMMA CallTypeStep ==
  ASSUME TypeOK, NEW m \in Meetings,
         \/ CallStep(m) \/ EnqueueClaim(m) \/ SaveQueued(m) \/ ReprocessClaim(m)
         \/ DeleteMeeting(m)
  PROVE  TypeOK'
<1> USE DEF TypeOK, rows, marks, waits, tasks, callers, exit, outside
<1>1. ASSUME NEW e, Event(e) PROVE events' \in 0..MaxEvents
  BY <1>1, ConstantsAssumption DEF Event
<1>2. ASSUME NEW pc \in RunPcs PROVE [NoRun EXCEPT !.pc = pc] \in RunType
  BY <1>2, NothingTypes DEF RunType
<1>3. CASE EnqueueSave(m)
  <2>1. state' \in [Meetings -> States] /\ asset' \in [Meetings -> BOOLEAN]
    BY <1>3 DEF EnqueueSave, States
  <2>2. claimed' \subseteq Meetings /\ run' \in [Meetings -> RunType]
    BY <1>3, StartTypes, DropClaimTypes DEF EnqueueSave
  <2> QED BY <1>3, <2>1, <2>2 DEF EnqueueSave
<1>4. CASE EnqueueSaved(m)
  BY <1>4, StartTypes DEF EnqueueSaved
<1>5. CASE ReprocessReads(m)
  BY <1>5, GotoTypes, DropClaimTypes DEF ReprocessReads, RunPcs
<1>6. CASE ReprocessSave(m)
  <2>1. state' \in [Meetings -> States] /\ asset' \in [Meetings -> BOOLEAN]
    BY <1>6 DEF ReprocessSave, States
  <2>2. claimed' \subseteq Meetings /\ run' \in [Meetings -> RunType]
    BY <1>6, StartTypes, DropClaimTypes DEF ReprocessSave
  <2> QED BY <1>6, <2>1, <2>2 DEF ReprocessSave
<1>7. CASE QuitSaves(m)
  BY <1>7 DEF QuitSaves, BestEffort, States
<1>8. CASE EnqueueClaim(m)
  BY <1>1, <1>2, <1>8 DEF EnqueueClaim, RunPcs
<1>9. CASE SaveQueued(m)
  BY <1>1, <1>9 DEF SaveQueued, States
<1>10. CASE ReprocessClaim(m)
  BY <1>1, <1>2, <1>10 DEF ReprocessClaim, RunPcs
<1>11. CASE DeleteMeeting(m)
  BY <1>1, <1>11 DEF DeleteMeeting, States, Statuses
<1> QED
  BY <1>3, <1>4, <1>5, <1>6, <1>7, <1>8, <1>9, <1>10, <1>11 DEF CallStep

\* A step of a resume's loop is a look or a read, the failed meeting's write,
\* or a start; it moves its own thread, through the meeting's place in the list.
LEMMA LoopMoves ==
  ASSUME TypeOK, NEW r \in Threads, NEW m \in Meetings, ResumeTakes(r, m)
  PROVE  /\ resumer' \in [Threads -> ResumerType]
         /\ \A s \in Threads \ {r} : resumer'[s] = resumer[s]
         /\ resumer[r].pc \in LoopPcs /\ resumer'[r].pc \in LoopPcs
         /\ resumer'[r].all = resumer[r].all /\ resumer'[r].list = resumer[r].list
         /\ \/ /\ resumer[r].pc = "looping" /\ m \in resumer[r].todo
               /\ \/ /\ m \in inFlight
                     /\ resumer'[r].pc = "looping" /\ resumer'[r].at = resumer[r].at
                     /\ resumer'[r].todo = resumer[r].todo \ {m}
                  \/ /\ m \notin inFlight
                     /\ resumer'[r].pc = "reading" /\ resumer'[r].at = {m}
                     /\ resumer'[r].todo = resumer[r].todo
                     /\ resumer'[r].busy = resumer[r].busy
               /\ UNCHANGED <<state, claimed, run>>
            \/ /\ resumer[r].pc = "reading" /\ m \in resumer[r].at
               /\ resumer'[r].pc = IF MarksFailed(r, m) THEN "failing" ELSE "claiming"
               /\ resumer'[r].at = resumer[r].at /\ resumer'[r].todo = resumer[r].todo
               /\ resumer'[r].busy = resumer[r].busy
               /\ UNCHANGED <<state, claimed, run>>
            \/ /\ resumer[r].pc \in {"failing", "claiming"} /\ m \in resumer[r].at
               /\ resumer'[r].pc = "looping" /\ resumer'[r].at = {}
               /\ resumer'[r].todo = resumer[r].todo \ {m}
               /\ \/ /\ resumer[r].pc = "failing" /\ CanWrite(m)
                     /\ state' = [state EXCEPT ![m] = "failed"]
                     /\ resumer'[r].busy = resumer[r].busy /\ UNCHANGED <<claimed, run>>
                  \/ /\ resumer[r].pc = "claiming" /\ ClaimFree(m) /\ Start(m)
                     /\ resumer'[r].busy = resumer[r].busy /\ UNCHANGED state
                  \/ /\ resumer[r].pc = "claiming" /\ ~ClaimFree(m)
                     /\ UNCHANGED <<state, claimed, run>>
         /\ UNCHANGED <<asset, transcript, delivery, inFlight, jobHold, waits, aside, op,
                        exports, launch, saved, exit, outside>>
<1> USE DEF rows, marks, tasks
<1>1. resumer \in [Threads -> ResumerType] /\ resumer[r] \in ResumerType
  BY DEF TypeOK
<1>2. CASE ResumeLooks(r, m)
  <2>1. CASE m \in inFlight
    <3>1. resumer' = [resumer EXCEPT ![r].todo = @ \ {m}, ![r].busy = @ \cup {m}]
      BY <1>2, <2>1 DEF ResumeLooks
    <3>2. [resumer[r] EXCEPT !.todo = @ \ {m}, !.busy = @ \cup {m}] \in ResumerType
      BY <1>1 DEF ResumerType
    <3>3. /\ resumer' \in [Threads -> ResumerType]
          /\ \A s \in Threads \ {r} : resumer'[s] = resumer[s]
          /\ resumer'[r].pc = resumer[r].pc /\ resumer'[r].at = resumer[r].at
          /\ resumer'[r].todo = resumer[r].todo \ {m}
          /\ resumer'[r].all = resumer[r].all /\ resumer'[r].list = resumer[r].list
      BY <1>1, <3>1, <3>2 DEF ResumerType
    <3> QED BY <1>2, <2>1, <3>3 DEF ResumeLooks, LoopPcs
  <2>2. CASE m \notin inFlight
    <3>1. [resumer[r] EXCEPT !.pc = "reading", !.at = {m}] \in ResumerType
      BY <1>1 DEF ResumerType, LoopPcs
    <3>2. resumer' = [resumer EXCEPT ![r].pc = "reading", ![r].at = {m}]
      BY <1>2, <2>2 DEF ResumeLooks
    <3>3. /\ resumer' \in [Threads -> ResumerType]
          /\ \A s \in Threads \ {r} : resumer'[s] = resumer[s]
          /\ resumer'[r].pc = "reading" /\ resumer'[r].at = {m}
          /\ resumer'[r].todo = resumer[r].todo /\ resumer'[r].busy = resumer[r].busy
          /\ resumer'[r].all = resumer[r].all /\ resumer'[r].list = resumer[r].list
      BY <1>1, <3>1, <3>2 DEF ResumerType
    <3> QED BY <1>2, <2>2, <3>3 DEF ResumeLooks, LoopPcs
  <2> QED BY <2>1, <2>2
<1>3. CASE ResumeReads(r, m)
  <2> DEFINE pc == IF MarksFailed(r, m) THEN "failing" ELSE "claiming"
  <2>1. pc \in LoopPcs
    BY DEF LoopPcs
  <2>2. resumer' = [resumer EXCEPT ![r].pc = pc]
    BY <1>3 DEF ResumeReads
  <2>3. [resumer[r] EXCEPT !.pc = pc] \in ResumerType
    BY <1>1, <2>1 DEF ResumerType
  <2>4. resumer' \in [Threads -> ResumerType]
    BY <1>1, <2>2, <2>3
  <2>5. resumer'[r].pc = pc
    BY <1>1, <2>2 DEF ResumerType
  <2> HIDE DEF pc
  <2> QED BY <1>1, <1>3, <2>1, <2>2, <2>4, <2>5 DEF ResumeReads, LoopPcs, ResumerType, pc
<1>4. ASSUME NEW b \in BOOLEAN, LoopsOn(r, m, b)
      PROVE  /\ resumer' \in [Threads -> ResumerType]
             /\ \A s \in Threads \ {r} : resumer'[s] = resumer[s]
             /\ resumer'[r].pc = "looping" /\ resumer'[r].at = {}
             /\ resumer'[r].all = resumer[r].all /\ resumer'[r].list = resumer[r].list
             /\ resumer'[r].todo = resumer[r].todo \ {m}
             /\ ~b => resumer'[r].busy = resumer[r].busy
  <2>1. resumer' = [resumer EXCEPT ![r].pc = "looping", ![r].at = {},
                                   ![r].todo = @ \ {m},
                                   ![r].busy = IF b THEN @ \cup {m} ELSE @]
    BY <1>4 DEF LoopsOn
  <2>2. [resumer[r] EXCEPT !.pc = "looping", !.at = {}, !.todo = @ \ {m},
                           !.busy = IF b THEN @ \cup {m} ELSE @] \in ResumerType
    BY <1>1 DEF ResumerType, LoopPcs
  <2> QED BY <1>1, <2>1, <2>2 DEF ResumerType
<1>5. CASE ResumeFails(r, m)
  BY <1>4, <1>5 DEF ResumeFails, LoopPcs
<1>6. CASE ResumeClaims(r, m)
  <2>1. (~ClaimFree(m)) \in BOOLEAN
    OBVIOUS
  <2> QED BY <1>4, <1>6, <2>1 DEF ResumeClaims, LoopPcs
<1> QED BY <1>2, <1>3, <1>5, <1>6 DEF ResumeTakes

\* The resumes, and the record of a refused run's wait, keep the types.
LEMMA ResumeTypeStep ==
  ASSUME TypeOK, NEW r \in Threads, ResumeStep(r) \/ ResumeFaults(r)
  PROVE  TypeOK'
<1> USE DEF TypeOK, rows, marks, waits, tasks, callers, exit, outside
<1>1. resumer[r] \in ResumerType
  OBVIOUS
<1>2. /\ resumer[r].all \in BOOLEAN
      /\ resumer[r].among \subseteq Meetings
      /\ resumer[r].models \subseteq Meetings
      /\ resumer[r].todo \subseteq Meetings
      /\ resumer[r].busy \subseteq Meetings
  BY <1>1 DEF ResumerType
<1>3. CASE ResumeUnfinished(r)
  <2>1. CASE Quitting
    BY <1>3, <2>1 DEF ResumeUnfinished
  <2>2. CASE ~Quitting
    <3>1. CountResume /\ Resumes(r, "launch", TRUE, {}, {})
      BY <1>3, <2>2 DEF ResumeUnfinished
    <3>2. resumer' \in [Threads -> ResumerType]
      <4>1. [NoResumer EXCEPT !.pc = "listing", !.by = "launch", !.all = TRUE,
                              !.among = {}, !.models = {}] \in ResumerType
        BY DEF NoResumer, NoList, ResumerType, ResumeKinds
      <4> QED BY <3>1, <4>1 DEF Resumes
    <3>3. resumes' \in 0..(ResumeWrap - 1) /\ waiting' \subseteq Meetings
      BY <3>1, CountResumeTypes
    <3>4. /\ launch' = "resuming"
          /\ UNCHANGED <<rows, marks, forStore, owed, retryWake, retry, tasks, saved,
                         exit, outside>>
      BY <1>3, <2>2 DEF ResumeUnfinished
    <3> QED BY <3>2, <3>3, <3>4
  <2> QED BY <2>1, <2>2
<1>4. CASE ResumeWaiting(r)
  <2>1. resumes' \in 0..(ResumeWrap - 1) /\ waiting' \subseteq Meetings
    BY <1>4, CountResumeTypes DEF ResumeWaiting
  <2>2. resumer' \in [Threads -> ResumerType]
    <3>1. CASE Resumes(r, "models", FALSE, waiting, {})
      <4>1. [NoResumer EXCEPT !.pc = "listing", !.by = "models", !.all = FALSE,
                              !.among = waiting, !.models = {}] \in ResumerType
        BY DEF NoResumer, NoList, ResumerType, ResumeKinds
      <4> QED BY <3>1, <4>1 DEF Resumes
    <3> QED BY <1>4, <3>1 DEF ResumeWaiting
  <2>3. resumeDue' \in BOOLEAN
    BY <1>4 DEF ResumeWaiting
  <2>4. UNCHANGED <<rows, marks, forStore, owed, retryWake, retry, tasks, launch,
                    saved, exit, installed, locked, events>>
    BY <1>4 DEF ResumeWaiting
  <2> QED BY <2>1, <2>2, <2>3, <2>4
<1>5. CASE RetryTakes(r)
  <2>1. resumes' \in 0..(ResumeWrap - 1) /\ waiting' \subseteq Meetings
    BY <1>5, CountResumeTypes DEF RetryTakes
  <2>2. resumer' \in [Threads -> ResumerType]
    BY <1>5, ResumesTypes DEF RetryTakes, ResumeKinds
  <2>3. /\ retry' \in {"waiting", "sleeping", "trying", "ended"}
        /\ forStore' \subseteq Meetings /\ owed' \in BOOLEAN
    BY <1>5 DEF RetryTakes
  <2> QED BY <1>5, <2>1, <2>2, <2>3 DEF RetryTakes
<1>6. ASSUME NEW t \in aside, SetAsideForModels(t, r) PROVE TypeOK'
  <2>1. t.meeting \in Meetings
    BY DEF Refusals
  <2>2. resumer' \in [Threads -> ResumerType]
    <3>1. CASE Resumes(r, "restart", FALSE, {t.meeting}, {})
      <4>1. [NoResumer EXCEPT !.pc = "listing", !.by = "restart", !.all = FALSE,
                              !.among = {t.meeting}, !.models = {}] \in ResumerType
        BY <2>1 DEF NoResumer, NoList, ResumerType, ResumeKinds
      <4> QED BY <3>1, <4>1 DEF Resumes
    <3> QED BY <1>6, <3>1 DEF SetAsideForModels
  <2>3. waiting' \subseteq Meetings /\ aside' \subseteq Refusals
    BY <1>6, <2>1 DEF SetAsideForModels
  <2> QED BY <1>6, <2>2, <2>3 DEF SetAsideForModels
<1>7. CASE ResumeLists(r)
  <2> DEFINE list == [m \in Meetings |->
                        IF state[m] = "processing" THEN "processing" ELSE "queued"]
  <2>1. list \in [Meetings -> {"queued", "processing"}]
    OBVIOUS
  <2> DEFINE todo == {m \in Meetings : /\ state[m] \in {"queued", "processing"}
                                       /\ resumer[r].all \/ m \in resumer[r].among}
  <2>2. resumer' = [resumer EXCEPT ![r].pc = "looping", ![r].list = list, ![r].todo = todo]
    BY <1>7 DEF ResumeLists
  <2>3. todo \subseteq Meetings
    OBVIOUS
  <2> HIDE DEF list, todo
  <2>4. [resumer[r] EXCEPT !.pc = "looping", !.list = list, !.todo = todo] \in ResumerType
    BY <1>1, <2>1, <2>3 DEF ResumerType, LoopPcs
  <2>5. resumer' \in [Threads -> ResumerType]
    BY <2>2, <2>4
  <2>6. UNCHANGED <<rows, marks, waits, tasks, launch, saved, exit, outside>>
    BY <1>7 DEF ResumeLists
  <2> QED BY <2>5, <2>6
<1>8. ASSUME NEW m \in Meetings, ResumeTakes(r, m) PROVE TypeOK'
  <2>1. resumer' \in [Threads -> ResumerType]
    BY <1>8, LoopMoves
  <2>2. state' \in [Meetings -> States]
    BY <1>8, LoopMoves DEF States
  <2>3. claimed' \subseteq Meetings /\ run' \in [Meetings -> RunType]
    BY <1>8, LoopMoves, StartTypes
  <2> QED BY <1>8, <2>1, <2>2, <2>3, LoopMoves
<1>9. CASE ResumeEnds(r)
  <2>1. waiting' \subseteq Meetings
    BY <1>1, <1>2, <1>9 DEF ResumeEnds, ResumerType, ResumeKinds
  <2>2. forStore' \subseteq Meetings /\ retryWake' \in BOOLEAN
    BY <1>1, <1>2, <1>9, WaitForStoreTypes DEF ResumeEnds, ResumerType, ResumeKinds
  <2> QED BY <1>9, <2>1, <2>2, ReturnsTypes DEF ResumeEnds
<1>10. ASSUME NEW busy \in BOOLEAN, FailedResume(r, busy),
              events' \in 0..MaxEvents
       PROVE  TypeOK'
  <2>1. waiting' \subseteq Meetings /\ forStore' \subseteq Meetings
    BY <1>1, <1>2, <1>10, WaitForStoreTypes DEF FailedResume, ResumerType, ResumeKinds
  <2>2. owed' \in BOOLEAN /\ retryWake' \in BOOLEAN
    BY <1>1, <1>2, <1>10, WaitForStoreTypes DEF FailedResume, ResumerType, ResumeKinds
  <2> QED BY <1>10, <2>1, <2>2, ReturnsTypes DEF FailedResume
<1>11. CASE ResumeMeetsLock(r) \/ ResumeMissesRow(r)
  BY <1>10, <1>11 DEF ResumeMeetsLock, ResumeMissesRow
<1>12. CASE ResumeFaults(r)
  <2>1. events' \in 0..MaxEvents
    BY <1>12, ConstantsAssumption DEF ResumeFaults, Event
  <2>2. FailedResume(r, FALSE)
    BY <1>12 DEF ResumeFaults
  <2> QED BY <1>10, <2>1, <2>2
<1> QED
  BY <1>3, <1>4, <1>5, <1>6, <1>7, <1>8, <1>9, <1>11, <1>12 DEF ResumeStep

\* The steps that belong to no meeting or thread keep the types.
LEMMA WorldTypeStep ==
  ASSUME TypeOK,
         \/ \E t \in aside : SetAsideForStore(t)
         \/ RetryWakes \/ RedeliverUnfinished
         \/ QuitLists \/ QuitSaved \/ Exit
         \/ DropHold \/ InstallModels \/ Unlock
         \/ QuitLatches \/ Crash \/ TakeHold \/ RemoveModels \/ Reload \/ Lock
         \/ UNCHANGED vars
  PROVE  TypeOK'
<1> USE DEF TypeOK, rows, marks, waits, tasks, callers, exit, outside
<1>1. ASSUME NEW e, Event(e) PROVE events' \in 0..MaxEvents
  BY <1>1, ConstantsAssumption DEF Event
<1>2. ASSUME NEW t \in aside, SetAsideForStore(t) PROVE TypeOK'
  <2>1. {t.meeting} \in SUBSET Meetings
    BY DEF Refusals
  <2> QED BY <1>2, <2>1, WaitForStoreTypes DEF SetAsideForStore
<1>3. CASE RetryWakes
  BY <1>3 DEF RetryWakes
<1>4. CASE RedeliverUnfinished
  BY <1>4 DEF RedeliverUnfinished
<1>5. CASE QuitLists \/ QuitSaved \/ QuitLatches
  BY <1>1, <1>5 DEF QuitLists, QuitSaved, QuitLatches
<1>6. ASSUME Relaunch, events' \in 0..MaxEvents PROVE TypeOK'
  <2>1. /\ run' \in [Meetings -> RunType]
        /\ op' \in [Meetings -> OpType]
        /\ resumer' \in [Threads -> ResumerType]
    BY <1>6, NothingTypes DEF Relaunch
  <2>2. 0 \in 0..(ResumeWrap - 1)
    BY ConstantsAssumption
  <2> QED BY <1>6, <2>1, <2>2 DEF Relaunch
<1>7. CASE Exit \/ Crash
  BY <1>1, <1>6, <1>7 DEF Exit, Crash
<1>8. CASE DropHold
  <2>1. jobHold' \in BOOLEAN
    BY <1>8 DEF DropHold
  <2>2. UNCHANGED <<rows, claimed, inFlight, waits, tasks, callers, exit, outside>>
    BY <1>8 DEF DropHold
  <2> QED BY <2>1, <2>2
<1>9. CASE TakeHold
  BY <1>1, <1>9 DEF TakeHold
<1>10. CASE InstallModels
  BY <1>10 DEF InstallModels
<1>11. CASE RemoveModels
  <2>1. installed' \in BOOLEAN /\ events' \in 0..MaxEvents
    BY <1>11, <1>1 DEF RemoveModels
  <2>2. UNCHANGED <<rows, marks, waits, tasks, callers, exit, resumeDue, locked>>
    BY <1>11 DEF RemoveModels
  <2> QED BY <2>1, <2>2
<1>12. CASE Unlock
  <2>1. locked' \in BOOLEAN
    BY <1>12 DEF Unlock
  <2>2. UNCHANGED <<rows, marks, waits, tasks, callers, exit, installed, resumeDue, events>>
    BY <1>12 DEF Unlock
  <2> QED BY <2>1, <2>2
<1>13. CASE Lock
  BY <1>1, <1>13 DEF Lock
<1>14. CASE Reload
  BY <1>1, <1>14 DEF Reload
<1>15. CASE UNCHANGED vars
  BY <1>15 DEF vars
<1> QED
  BY <1>2, <1>3, <1>4, <1>5, <1>7, <1>8, <1>9, <1>10, <1>11, <1>12, <1>13, <1>14, <1>15

\* Every reachable state has its types: the marks name meetings, a run and an
\* operation are always at one of their places, and the counters stay bounded.
THEOREM TypeCorrect == Spec => []TypeOK
<1>1. Init => TypeOK
  <2> SUFFICES ASSUME Init PROVE TypeOK
    OBVIOUS
  <2>1. PICK found \in [Meetings -> InitialRows] :
          /\ state = [m \in Meetings |-> found[m].state]
          /\ asset = [m \in Meetings |-> found[m].asset]
          /\ transcript = {m \in Meetings : found[m].transcript}
          /\ delivery = [m \in Meetings |-> found[m].delivery]
    BY DEF Init
  <2>2. \A m \in Meetings : found[m] \in RowType
    BY ConstantsAssumption
  <2>3. /\ state \in [Meetings -> States] /\ asset \in [Meetings -> BOOLEAN]
        /\ transcript \subseteq Meetings /\ delivery \in [Meetings -> Statuses]
    BY <2>1, <2>2 DEF RowType
  <2>4. /\ run \in [Meetings -> RunType]
        /\ op \in [Meetings -> OpType]
        /\ resumer \in [Threads -> ResumerType]
    BY NothingTypes DEF Init
  <2>5. resumes \in 0..(ResumeWrap - 1) /\ events \in 0..MaxEvents
    BY ConstantsAssumption DEF Init
  <2> QED BY <2>3, <2>4, <2>5 DEF Init, TypeOK
<1>2. TypeOK /\ [Next]_vars => TypeOK'
  BY RunTypeStep, OpTypeStep, CallTypeStep, ResumeTypeStep, WorldTypeStep
     DEF Next, Request, World, Idle
<1> QED BY <1>1, <1>2, PTL DEF Spec

-----------------------------------------------------------------------------
(* The marks of InFlightSet.                                                *)

\* The two invariants of the marks; with TypeOK they are inductive: a hold is
\* taken only while both sets are empty, and the sets name what is under way.
Marks == OneOperationPerMeeting /\ HoldKeepsJobsWaiting

\* A run that moves inside its admission leaves the marks right.
LEMMA MoveInside ==
  ASSUME TypeOK, Marks, NEW m \in Meetings, NEW pc \in AdmittedPcs,
         run[m].pc \in AdmittedPcs, run' \in [Meetings -> RunType],
         run'[m].pc = pc, \A n \in Meetings \ {m} : run'[n] = run[n],
         UNCHANGED <<marks, op>>
  PROVE  Marks'
BY DEF TypeOK, Marks, OneOperationPerMeeting, HoldKeepsJobsWaiting, marks, AdmittedPcs

\* So does an operation that moves on while it holds the meeting.
LEMMA MoveOp ==
  ASSUME TypeOK, Marks, NEW m \in Meetings, NEW pc \in OpPcs \ {"none"},
         op[m].pc # "none", jobHold => pc \in {"owing", "admitted"},
         OpGoto(m, pc), UNCHANGED <<marks, run>>
  PROVE  Marks'
BY DEF TypeOK, Marks, OneOperationPerMeeting, HoldKeepsJobsWaiting, marks, OpGoto, OpType

\* A claim before the run begins: by a caller that saves first, or by start.
LEMMA ClaimMarks ==
  ASSUME TypeOK, Marks, NEW m \in Meetings,
         NEW pc \in {"saving", "rereading", "requeueing", "spawned"},
         run[m].pc \in {"none", "saving", "rereading", "requeueing"},
         claimed' = claimed \cup {m}, run'[m].pc = pc,
         run' \in [Meetings -> RunType], \A n \in Meetings \ {m} : run'[n] = run[n],
         UNCHANGED <<inFlight, jobHold, op>>
  PROVE  Marks'
BY DEF TypeOK, Marks, OneOperationPerMeeting, HoldKeepsJobsWaiting, AdmittedPcs, RunPcs

\* A claim given up before or after the admission.
LEMMA UnclaimMarks ==
  ASSUME TypeOK, Marks, NEW m \in Meetings,
         run[m].pc \in {"none", "saving", "rereading", "requeueing", "dropping"},
         DropClaim(m), UNCHANGED <<inFlight, jobHold, op>>
  PROVE  Marks'
BY NothingTypes DEF TypeOK, Marks, OneOperationPerMeeting, HoldKeepsJobsWaiting,
   DropClaim, NoRun, AdmittedPcs, RunPcs

\* `start` of a meeting that is free, or whose claim the caller holds.
LEMMA StartMarks ==
  ASSUME TypeOK, Marks, NEW m \in Meetings,
         run[m].pc \in {"none", "saving", "rereading", "requeueing"},
         Start(m), UNCHANGED <<inFlight, jobHold, op>>
  PROVE  Marks'
<1>1. CASE Quitting
  BY <1>1, UnclaimMarks DEF Start, DropClaim
<1>2. CASE ~Quitting
  <2>1. /\ claimed' = claimed \cup {m}
        /\ run' = [run EXCEPT ![m] = [NoRun EXCEPT !.pc = "spawned"]]
    BY <1>2 DEF Start
  <2>2. /\ run' \in [Meetings -> RunType]
        /\ run'[m].pc = "spawned"
        /\ \A n \in Meetings \ {m} : run'[n] = run[n]
    BY <2>1, StartTypes DEF TypeOK, NoRun
  <2> QED BY <2>1, <2>2, ClaimMarks
<1> QED BY <1>1, <1>2

\* A step of a run keeps the marks right.
LEMMA RunMarks ==
  ASSUME TypeOK, Marks, NEW m \in Meetings, RunStep(m) \/ RunFaults(m)
  PROVE  Marks'
<1> USE DEF rows, marks, tasks
<1>1. run \in [Meetings -> RunType]
  BY DEF TypeOK
<1>2. ASSUME NEW pc \in AdmittedPcs, Goto(m, pc), run[m].pc \in AdmittedPcs,
             UNCHANGED <<marks, op>>
      PROVE  Marks'
  <2>1. pc \in RunPcs
    BY DEF AdmittedPcs
  <2>2. run' \in [Meetings -> RunType]
    BY <1>2, <2>1, GotoTypes
  <2> QED BY <1>1, <1>2, <2>2, MoveInside DEF Goto, RunType
<1>3. CASE RunBegin(m)
  BY <1>1, <1>3 DEF RunBegin, At, Goto, RunType, Marks, OneOperationPerMeeting,
     HoldKeepsJobsWaiting, AdmittedPcs, RunPcs
<1>4. CASE RunAdmit(m)
  <2>1. CASE run' = [run EXCEPT ![m].pc = "warming", ![m].seen = resumes]
             /\ m \notin inFlight /\ inFlight' = inFlight \cup {m}
    BY <1>1, <1>4, <2>1 DEF RunAdmit, At, RunType, Marks, OneOperationPerMeeting,
       HoldKeepsJobsWaiting, AdmittedPcs, RunPcs
  <2>2. CASE Goto(m, "dropping") /\ UNCHANGED inFlight
    BY <1>1, <1>4, <2>2 DEF RunAdmit, At, Goto, RunType, Marks, OneOperationPerMeeting,
       HoldKeepsJobsWaiting, AdmittedPcs, RunPcs
  <2> QED BY <1>4, <2>1, <2>2 DEF RunAdmit
<1>5. CASE RunWarmUp(m)
  BY <1>2, <1>5 DEF RunWarmUp, At, AdmittedPcs, RunPcs
<1>6. CASE RunMark(m) \/ RunMerge(m) \/ RunSummarize(m)
  BY <1>2, <1>6 DEF RunMark, RunMerge, RunSummarize, RunWrites, At, AdmittedPcs, RunPcs
<1>7. CASE RunPersist(m) \/ RunOwe(m) \/ RunReady(m)
  BY <1>2, <1>7 DEF RunPersist, RunOwe, RunReady, At, AdmittedPcs, RunPcs
<1>8. CASE RunDeliver(m) \/ RunExport(m)
  BY <1>2, <1>8 DEF RunDeliver, RunExport, At, AdmittedPcs, RunPcs
<1>9. ASSUME NEW why \in Causes, FailsWith(m, why), run[m].pc \in WritingPcs \cup {"warming"}
      PROVE  Marks'
  <2>1. run[m].pc \in AdmittedPcs
    BY <1>9 DEF WritingPcs, AdmittedPcs, RunPcs
  <2>2. CASE Quitting
    BY <1>2, <1>9, <2>1, <2>2 DEF FailsWith, AdmittedPcs, RunPcs
  <2>3. CASE ~Quitting
    <3>1. run' = [run EXCEPT ![m].pc = "failing", ![m].why = why]
      BY <1>9, <2>3 DEF FailsWith
    <3>2. /\ run' \in [Meetings -> RunType]
          /\ run'[m].pc = "failing"
          /\ \A n \in Meetings \ {m} : run'[n] = run[n]
      BY <1>1, <1>9, <3>1 DEF RunType, RunPcs
    <3>3. UNCHANGED <<marks, op>> /\ "failing" \in AdmittedPcs
      BY <1>9 DEF FailsWith, AdmittedPcs, RunPcs
    <3> QED BY <2>1, <3>2, <3>3, MoveInside
  <2> QED BY <2>2, <2>3
<1>10. CASE RunMissesModels(m) \/ RunMeetsLock(m) \/ RunMissesRow(m) \/ RunFaults(m)
  BY <1>9, <1>10 DEF RunMissesModels, RunMeetsLock, RunMissesRow, RunFaults, WritingPcs, Causes
<1>11. CASE RunHandlesFailure(m)
  <2>1. run[m].pc \in AdmittedPcs /\ UNCHANGED <<marks, op>>
    BY <1>11 DEF RunHandlesFailure, At, AdmittedPcs, RunPcs
  <2>2. CASE Goto(m, "leaving")
    BY <1>2, <2>1, <2>2 DEF AdmittedPcs, RunPcs
  <2>3. ASSUME NEW pc \in {"delivering", "leaving"},
               run' = [run EXCEPT ![m].pc = pc, ![m].why = "none"]
        PROVE  Marks'
    <3>1. /\ run' \in [Meetings -> RunType]
          /\ run'[m].pc = pc
          /\ \A n \in Meetings \ {m} : run'[n] = run[n]
      BY <1>1, <2>3 DEF RunType, RunPcs, Causes
    <3>2. pc \in AdmittedPcs
      BY <2>3 DEF AdmittedPcs, RunPcs
    <3> QED BY <2>1, <3>1, <3>2, MoveInside
  <2> QED BY <1>11, <2>2, <2>3 DEF RunHandlesFailure
<1>12. CASE RunLeave(m)
  BY <1>1, <1>12 DEF RunLeave, At, Goto, RunType, Marks, OneOperationPerMeeting,
     HoldKeepsJobsWaiting, AdmittedPcs, RunPcs
<1>13. CASE RunDrop(m)
  BY <1>13, UnclaimMarks DEF RunDrop, At, DropClaim
<1> QED
  BY <1>3, <1>4, <1>5, <1>6, <1>7, <1>8, <1>10, <1>11, <1>12, <1>13 DEF RunStep

\* A step of a re-export or a summary re-run keeps the marks right.
LEMMA OpMarks ==
  ASSUME TypeOK, Marks, NEW m \in Meetings,
         OpStep(m) \/ \E k \in {"redeliver", "rerun"} : ClaimOperation(m, k)
  PROVE  Marks'
<1> USE DEF rows, marks, tasks
<1>1. ASSUME NEW k \in OpKinds, NEW pc \in {"owing", "admitted"}, AdmitOp(m, k, pc),
             UNCHANGED <<claimed, jobHold, run>>
      PROVE  Marks'
  BY <1>1 DEF TypeOK, AdmitOp, Marks, OneOperationPerMeeting, HoldKeepsJobsWaiting
<1>2. ASSUME ReleaseOp(m), op[m].pc # "none", UNCHANGED <<claimed, jobHold, run>>
      PROVE  Marks'
  BY <1>2 DEF TypeOK, ReleaseOp, NoOp, Marks, OneOperationPerMeeting, HoldKeepsJobsWaiting
<1>3. jobHold => op[m].pc \in {"none", "owing", "admitted"}
  BY DEF Marks, HoldKeepsJobsWaiting
<1>4. CASE RedeliverAtLaunch(m)
  <2>1. CASE AdmitOp(m, "launch", "owing")
    BY <1>1, <1>4, <2>1 DEF RedeliverAtLaunch, OpKinds
  <2>2. CASE UNCHANGED <<inFlight, op>>
    BY <1>4, <2>2 DEF RedeliverAtLaunch, Marks, OneOperationPerMeeting, HoldKeepsJobsWaiting
  <2> QED BY <1>4, <2>1, <2>2 DEF RedeliverAtLaunch
<1>5. CASE StillOwed(m)
  BY <1>2, <1>5, MoveOp DEF StillOwed, OpAt, OpPcs
<1>6. CASE OpBegin(m)
  BY <1>6, MoveOp DEF OpBegin, OpAt, OpPcs
<1>7. CASE Resummarize(m)
  BY <1>3, <1>7, MoveOp DEF Resummarize, OpAt, OpPcs
<1>8. CASE OpMarkPending(m)
  BY <1>3, <1>8, MoveOp DEF OpMarkPending, OpAt, OpPcs
<1>9. CASE OpDeliver(m)
  BY <1>3, <1>9, MoveOp DEF OpDeliver, OpAt, OpPcs
<1>10. CASE OpExport(m)
  BY <1>3, <1>10, MoveOp DEF OpExport, OpAt, OpPcs
<1>11. CASE OpClose(m)
  BY <1>2, <1>11 DEF OpClose, OpAt
<1>12. ASSUME NEW k \in {"redeliver", "rerun"}, ClaimOperation(m, k) PROVE Marks'
  BY <1>1, <1>12 DEF ClaimOperation, OpKinds
<1> QED
  BY <1>4, <1>5, <1>6, <1>7, <1>8, <1>9, <1>10, <1>11, <1>12 DEF OpStep

\* Entering the queue, and the other steps of a call, keep the marks right.
LEMMA CallMarks ==
  ASSUME TypeOK, Marks, NEW m \in Meetings,
         \/ CallStep(m) \/ EnqueueClaim(m) \/ SaveQueued(m) \/ ReprocessClaim(m)
         \/ DeleteMeeting(m)
  PROVE  Marks'
<1> USE DEF rows, marks, tasks
<1>1. m \notin claimed => run[m].pc = "none"
  BY DEF Marks, OneOperationPerMeeting
<1>2. ASSUME UNCHANGED <<marks, run, op>> PROVE Marks'
  BY <1>2 DEF Marks, OneOperationPerMeeting, HoldKeepsJobsWaiting
<1>3. ASSUME NEW pc \in {"saving", "rereading"}, ClaimFree(m),
             claimed' = claimed \cup {m},
             run' = [run EXCEPT ![m] = [NoRun EXCEPT !.pc = pc]],
             UNCHANGED <<inFlight, jobHold, op>>
      PROVE  Marks'
  <2>1. [NoRun EXCEPT !.pc = pc] \in RunType
    BY <1>3, NothingTypes DEF RunType, RunPcs
  <2>2. /\ run' \in [Meetings -> RunType]
        /\ run'[m].pc = pc
        /\ \A n \in Meetings \ {m} : run'[n] = run[n]
    BY <1>3, <2>1 DEF TypeOK, NoRun
  <2> QED BY <1>1, <1>3, <2>2, ClaimMarks DEF ClaimFree
<1>4. CASE EnqueueSave(m)
  BY <1>4, StartMarks, UnclaimMarks DEF EnqueueSave, At
<1>5. CASE EnqueueSaved(m)
  BY <1>1, <1>2, <1>5, StartMarks DEF EnqueueSaved, ClaimFree
<1>6. CASE ReprocessReads(m)
  <2>1. CASE Goto(m, "requeueing") /\ UNCHANGED claimed
    <3>1. /\ run' \in [Meetings -> RunType]
          /\ run'[m].pc = "requeueing"
          /\ \A n \in Meetings \ {m} : run'[n] = run[n]
      BY <2>1 DEF TypeOK, Goto, RunType, RunPcs
    <3>2. claimed' = claimed \cup {m} /\ run[m].pc = "rereading"
      BY <1>6, <2>1 DEF ReprocessReads, At, Marks, OneOperationPerMeeting
    <3> QED BY <1>6, <3>1, <3>2, ClaimMarks DEF ReprocessReads
  <2>2. CASE DropClaim(m)
    BY <1>6, <2>2, UnclaimMarks DEF ReprocessReads, At
  <2> QED BY <1>6, <2>1, <2>2 DEF ReprocessReads
<1>7. CASE ReprocessSave(m)
  BY <1>7, StartMarks, UnclaimMarks DEF ReprocessSave, At
<1>8. CASE QuitSaves(m)
  BY <1>2, <1>8 DEF QuitSaves
<1>9. CASE EnqueueClaim(m)
  BY <1>3, <1>9 DEF EnqueueClaim
<1>10. CASE SaveQueued(m)
  BY <1>2, <1>10 DEF SaveQueued
<1>11. CASE ReprocessClaim(m)
  BY <1>3, <1>11 DEF ReprocessClaim
<1>12. CASE DeleteMeeting(m)
  BY <1>2, <1>12 DEF DeleteMeeting
<1> QED
  BY <1>4, <1>5, <1>6, <1>7, <1>8, <1>9, <1>10, <1>11, <1>12 DEF CallStep

\* A resume starts only meetings that are free, so it keeps the marks right.
LEMMA ResumeMarks ==
  ASSUME TypeOK, Marks, NEW r \in Threads, ResumeStep(r) \/ ResumeFaults(r)
  PROVE  Marks'
<1> USE DEF rows, marks, tasks
<1>1. ASSUME UNCHANGED <<marks, run, op>> PROVE Marks'
  BY <1>1 DEF Marks, OneOperationPerMeeting, HoldKeepsJobsWaiting
<1>2. CASE ResumeUnfinished(r) \/ ResumeWaiting(r) \/ RetryTakes(r)
  BY <1>1, <1>2 DEF ResumeUnfinished, ResumeWaiting, RetryTakes
<1>3. ASSUME NEW t \in aside, SetAsideForModels(t, r) PROVE Marks'
  BY <1>1, <1>3 DEF SetAsideForModels
<1>4. CASE ResumeLists(r) \/ ResumeEnds(r)
  BY <1>1, <1>4 DEF ResumeLists, ResumeEnds
<1>5. ASSUME NEW m \in Meetings, ResumeTakes(r, m) PROVE Marks'
  <2>1. UNCHANGED <<inFlight, jobHold, op>>
    BY <1>5, LoopMoves
  <2>2. CASE UNCHANGED <<claimed, run>>
    BY <1>1, <2>1, <2>2
  <2>3. CASE ClaimFree(m) /\ Start(m)
    <3>1. run[m].pc = "none"
      BY <2>3 DEF ClaimFree, Marks, OneOperationPerMeeting
    <3> QED BY <2>1, <2>3, <3>1, StartMarks
  <2> QED BY <1>5, <2>2, <2>3, LoopMoves
<1>6. CASE ResumeMeetsLock(r) \/ ResumeMissesRow(r) \/ ResumeFaults(r)
  BY <1>1, <1>6 DEF ResumeMeetsLock, ResumeMissesRow, ResumeFaults, FailedResume
<1> QED BY <1>2, <1>3, <1>4, <1>5, <1>6 DEF ResumeStep

\* So do the steps that belong to no meeting or thread; a hold is taken only
\* while no mark is left, when no run and no operation is under way.
LEMMA WorldMarks ==
  ASSUME TypeOK, Marks,
         \/ \E t \in aside : SetAsideForStore(t)
         \/ RetryWakes \/ RedeliverUnfinished
         \/ QuitLists \/ QuitSaved \/ Exit
         \/ DropHold \/ InstallModels \/ Unlock
         \/ QuitLatches \/ Crash \/ TakeHold \/ RemoveModels \/ Reload \/ Lock
         \/ UNCHANGED vars
  PROVE  Marks'
<1> USE DEF rows, marks, tasks
<1>1. ASSUME UNCHANGED <<marks, run, op>> PROVE Marks'
  BY <1>1 DEF Marks, OneOperationPerMeeting, HoldKeepsJobsWaiting
<1>2. ASSUME NEW t \in aside, SetAsideForStore(t) PROVE Marks'
  BY <1>1, <1>2 DEF SetAsideForStore
<1>3. CASE RetryWakes \/ RedeliverUnfinished \/ QuitLists \/ QuitSaved \/ QuitLatches
  BY <1>1, <1>3 DEF RetryWakes, RedeliverUnfinished, QuitLists, QuitSaved, QuitLatches
<1>4. CASE InstallModels \/ Unlock \/ RemoveModels \/ Reload \/ Lock
  BY <1>1, <1>4 DEF InstallModels, Unlock, RemoveModels, Reload, Lock
<1>5. CASE Exit \/ Crash
  <2>1. Relaunch
    BY <1>5 DEF Exit, Crash
  <2> QED BY <2>1 DEF Relaunch, NoRun, NoOp, Marks, OneOperationPerMeeting,
          HoldKeepsJobsWaiting, AdmittedPcs, RunPcs
<1>6. CASE DropHold
  BY <1>6 DEF DropHold, Marks, OneOperationPerMeeting, HoldKeepsJobsWaiting
<1>7. CASE TakeHold
  <2>1. inFlight = {} /\ claimed = {}
    BY <1>7 DEF TakeHold, IsIdle
  <2>2. \A m \in Meetings : run[m].pc = "none" /\ op[m].pc = "none"
    BY <2>1 DEF Marks, OneOperationPerMeeting
  <2> QED BY <1>7, <2>2 DEF TakeHold, Marks, OneOperationPerMeeting, HoldKeepsJobsWaiting
<1>8. CASE UNCHANGED vars
  BY <1>1, <1>8 DEF vars
<1> QED BY <1>2, <1>3, <1>4, <1>5, <1>6, <1>7, <1>8

\* The inductive invariant holds in every reachable state.
LEMMA MarksAlways == Spec => [](TypeOK /\ Marks)
<1>1. Init => Marks
  BY DEF Init, NoRun, NoOp, Marks, OneOperationPerMeeting, HoldKeepsJobsWaiting,
     AdmittedPcs, RunPcs
<1>2. TypeOK /\ Marks /\ [Next]_vars => Marks'
  BY RunMarks, OpMarks, CallMarks, ResumeMarks, WorldMarks
     DEF Next, Request, World, Idle
<1> QED BY <1>1, <1>2, TypeCorrect, PTL DEF Spec

\* A run and a re-export or summary re-run never hold one meeting at the same
\* time, and the two sets of InFlightSet name exactly what is under way, for
\* any number of meetings, resumes, exits and crashes.
THEOREM OneOperation == Spec => []OneOperationPerMeeting
BY MarksAlways, PTL DEF Marks

\* Under an update's JobHold no run has read a row and no operation works,
\* whatever was claimed while the hold lived (try_hold, until_released).
THEOREM HoldIsKept == Spec => []HoldKeepsJobsWaiting
BY MarksAlways, PTL DEF Marks

-----------------------------------------------------------------------------
(* What a crash leaves of an export.                                        *)

\* No lock of another process, no summary re-run, and no database in which a
\* ready meeting's export was forgotten already.
OwesFromTheStart ==
  /\ {"lock", "rerun"} \cap Events = {}
  /\ \A row \in InitialRows : row.state = "ready" => row.delivery # "none"

\* A meeting that is ready, or whose run makes it so next.
NearlyReady(m) == state[m] = "ready" \/ (run[m].pc = "readying" /\ HasRow(m))

\* A run about to make its meeting ready has said that the export is owed;
\* without locks that write goes through, and no summary is written again.
Owes ==
  /\ \A m \in Meetings : NearlyReady(m) => delivery[m] # "none"
  /\ \A m \in Meetings : op[m].kind # "rerun" /\ op[m].pc # "working"
  /\ ~locked

\* No save of a delivery says that nothing is owed (mark_pending, deliver_all).
LEMMA SavesOwe ==
  ASSUME TypeOK, NEW m \in Meetings, MarkPending(m) \/ SaveOutcome(m)
  PROVE  \A n \in Meetings : delivery[n] # "none" => delivery'[n] # "none"
BY DEF TypeOK, MarkPending, SaveOutcome

\* A run that goes elsewhere than to its readying.
LEMMA ElsewhereOwes ==
  ASSUME TypeOK, Owes, NEW m \in Meetings, run'[m].pc # "readying",
         \A n \in Meetings \ {m} : run'[n] = run[n],
         \A n \in Meetings : state'[n] # state[n] => n = m /\ state'[n] # "ready",
         \A n \in Meetings : delivery[n] # "none" => delivery'[n] # "none",
         UNCHANGED <<op, locked>>
  PROVE  Owes'
BY DEF Owes, NearlyReady, HasRow

\* A step of a run keeps what is owed (persist, deliver, process_held).
LEMMA RunOwes ==
  ASSUME TypeOK, Marks, Owes, NEW m \in Meetings, RunStep(m) \/ RunFaults(m)
  PROVE  Owes'
<1> USE DEF rows, marks, tasks, outside
<1>1. run \in [Meetings -> RunType] /\ state \in [Meetings -> States]
  BY DEF TypeOK
<1>2. ASSUME NEW pc \in RunPcs \ {"readying"}, Goto(m, pc),
             UNCHANGED <<state, delivery, op, locked>>
      PROVE  Owes'
  BY <1>1, <1>2, ElsewhereOwes DEF Goto, RunType
<1>3. CASE RunBegin(m) \/ RunWarmUp(m) \/ RunPersist(m) \/ RunLeave(m)
  BY <1>2, <1>3 DEF RunBegin, RunWarmUp, RunPersist, RunLeave, RunPcs
<1>4. CASE RunAdmit(m)
  <2>1. CASE run' = [run EXCEPT ![m].pc = "warming", ![m].seen = resumes]
    <3>1. run'[m].pc # "readying" /\ \A n \in Meetings \ {m} : run'[n] = run[n]
      BY <1>1, <2>1 DEF RunType
    <3> QED BY <1>4, <3>1, ElsewhereOwes DEF RunAdmit
  <2> QED BY <1>2, <1>4, <2>1 DEF RunAdmit, RunPcs
<1>5. ASSUME NEW from, NEW to \in RunPcs \ {"readying"}, RunWrites(m, from, to)
      PROVE  Owes'
  <2>1. run'[m].pc # "readying" /\ \A n \in Meetings \ {m} : run'[n] = run[n]
    BY <1>1, <1>5 DEF RunWrites, Goto, RunType
  <2>2. \A n \in Meetings : state'[n] # state[n] => n = m /\ state'[n] # "ready"
    BY <1>1, <1>5 DEF RunWrites
  <2> QED BY <1>5, <2>1, <2>2, ElsewhereOwes DEF RunWrites
<1>6. CASE RunMark(m) \/ RunMerge(m) \/ RunSummarize(m)
  BY <1>5, <1>6 DEF RunMark, RunMerge, RunSummarize, RunPcs
<1>7. CASE RunOwe(m)
  <2>1. HasRow(m) => delivery'[m] = "pending"
    BY <1>7 DEF RunOwe, MarkPending, CanWrite, Owes, TypeOK
  <2>2. \A n \in Meetings : delivery[n] # "none" => delivery'[n] # "none"
    BY <1>7, SavesOwe DEF RunOwe
  <2>3. \A n \in Meetings \ {m} : run'[n] = run[n]
    BY <1>1, <1>7 DEF RunOwe, Goto
  <2>4. UNCHANGED <<state, op, locked>>
    BY <1>7 DEF RunOwe
  <2> QED BY <2>1, <2>2, <2>3, <2>4 DEF Owes, NearlyReady, HasRow
<1>8. CASE RunReady(m)
  <2>1. delivery[m] # "none"
    BY <1>8 DEF RunReady, At, CanWrite, Owes, NearlyReady
  <2>2. \A n \in Meetings \ {m} : run'[n] = run[n] /\ state'[n] = state[n]
    BY <1>1, <1>8 DEF RunReady, Goto
  <2>3. UNCHANGED <<delivery, op, locked>>
    BY <1>8 DEF RunReady
  <2> QED BY <2>1, <2>2, <2>3 DEF Owes, NearlyReady, HasRow
<1>9. CASE RunDeliver(m) \/ RunExport(m)
  <2>1. run'[m].pc # "readying" /\ \A n \in Meetings \ {m} : run'[n] = run[n]
    BY <1>1, <1>9 DEF RunDeliver, RunExport, Goto, RunType
  <2>2. \A n \in Meetings : delivery[n] # "none" => delivery'[n] # "none"
    BY <1>9, SavesOwe DEF RunDeliver, RunExport
  <2> QED BY <1>9, <2>1, <2>2, ElsewhereOwes DEF RunDeliver, RunExport
<1>10. ASSUME NEW why, FailsWith(m, why) PROVE Owes'
  <2>1. run'[m].pc # "readying" /\ \A n \in Meetings \ {m} : run'[n] = run[n]
    BY <1>1, <1>10 DEF FailsWith, Goto, RunType
  <2> QED BY <1>10, <2>1, ElsewhereOwes DEF FailsWith
<1>11. CASE RunMissesModels(m) \/ RunMeetsLock(m) \/ RunMissesRow(m) \/ RunFaults(m)
  BY <1>10, <1>11 DEF RunMissesModels, RunMeetsLock, RunMissesRow, RunFaults
<1>12. CASE RunHandlesFailure(m)
  <2>1. run'[m].pc # "readying" /\ \A n \in Meetings \ {m} : run'[n] = run[n]
    BY <1>1, <1>12 DEF RunHandlesFailure, Goto, RunType
  <2>2. \A n \in Meetings : state'[n] # state[n] => n = m /\ state'[n] # "ready"
    BY <1>1, <1>12 DEF RunHandlesFailure, BestEffort
  <2> QED BY <1>12, <2>1, <2>2, ElsewhereOwes DEF RunHandlesFailure
<1>13. CASE RunDrop(m)
  <2>1. run'[m].pc # "readying" /\ \A n \in Meetings \ {m} : run'[n] = run[n]
    BY <1>1, <1>13 DEF RunDrop, NoRun
  <2> QED BY <1>13, <2>1, ElsewhereOwes DEF RunDrop
<1> QED
  BY <1>3, <1>4, <1>6, <1>7, <1>8, <1>9, <1>11, <1>12, <1>13 DEF RunStep

\* A step of a re-export keeps what is owed (deliver_again, still_owed).
LEMMA OpOwes ==
  ASSUME TypeOK, Owes, OwesFromTheStart, NEW m \in Meetings,
         OpStep(m) \/ \E k \in {"redeliver", "rerun"} : ClaimOperation(m, k)
  PROVE  Owes'
<1> USE DEF rows, marks, tasks, outside
<1>1. op \in [Meetings -> OpType]
  BY DEF TypeOK
<1>2. op[m].kind # "rerun" /\ op[m].pc # "working"
  BY DEF Owes
<1>3. ASSUME \A n \in Meetings : op'[n].kind # "rerun" /\ op'[n].pc # "working",
             \A n \in Meetings : delivery[n] # "none" => delivery'[n] # "none",
             UNCHANGED <<state, run, locked>>
      PROVE  Owes'
  BY <1>3 DEF Owes, NearlyReady, HasRow
<1>4. ASSUME NEW pc \in OpPcs \ {"working"}, OpGoto(m, pc)
      PROVE  \A n \in Meetings : op'[n].kind # "rerun" /\ op'[n].pc # "working"
  BY <1>1, <1>4 DEF Owes, OpGoto, OpType
<1>5. ASSUME NEW k \in {"redeliver", "launch"}, NEW pc \in OpPcs \ {"working"},
             AdmitOp(m, k, pc)
      PROVE  \A n \in Meetings : op'[n].kind # "rerun" /\ op'[n].pc # "working"
  BY <1>1, <1>5 DEF Owes, AdmitOp
<1>6. ASSUME ReleaseOp(m)
      PROVE  \A n \in Meetings : op'[n].kind # "rerun" /\ op'[n].pc # "working"
  BY <1>1, <1>6 DEF Owes, ReleaseOp, NoOp
<1>7. CASE RedeliverAtLaunch(m)
  <2>1. UNCHANGED op \/ AdmitOp(m, "launch", "owing")
    BY <1>7 DEF RedeliverAtLaunch
  <2>2. \A n \in Meetings : op'[n].kind # "rerun" /\ op'[n].pc # "working"
    BY <1>5, <2>1 DEF Owes, OpPcs
  <2> QED BY <1>3, <1>7, <2>2 DEF RedeliverAtLaunch
<1>8. CASE StillOwed(m)
  <2>1. \A n \in Meetings : op'[n].kind # "rerun" /\ op'[n].pc # "working"
    BY <1>4, <1>6, <1>8 DEF StillOwed, OpPcs
  <2> QED BY <1>3, <1>8, <2>1 DEF StillOwed
<1>9. CASE OpBegin(m)
  <2>1. OpGoto(m, "delivering")
    BY <1>2, <1>9 DEF OpBegin
  <2>2. \A n \in Meetings : op'[n].kind # "rerun" /\ op'[n].pc # "working"
    BY <1>4, <2>1 DEF OpPcs
  <2> QED BY <1>3, <1>9, <2>2 DEF OpBegin
<1>10. CASE Resummarize(m)
  BY <1>2, <1>10 DEF Resummarize, OpAt
<1>11. CASE OpMarkPending(m) \/ OpDeliver(m) \/ OpExport(m)
  <2>1. \A n \in Meetings : op'[n].kind # "rerun" /\ op'[n].pc # "working"
    BY <1>4, <1>11 DEF OpMarkPending, OpDeliver, OpExport, OpPcs
  <2>2. \A n \in Meetings : delivery[n] # "none" => delivery'[n] # "none"
    BY <1>11, SavesOwe DEF OpMarkPending, OpDeliver, OpExport
  <2> QED BY <1>3, <1>11, <2>1, <2>2 DEF OpMarkPending, OpDeliver, OpExport
<1>12. CASE OpClose(m)
  <2>1. \A n \in Meetings : delivery[n] # "none" => delivery'[n] # "none"
    BY <1>12 DEF OpClose, TypeOK
  <2> QED BY <1>3, <1>6, <1>12, <2>1 DEF OpClose
<1>13. ASSUME NEW k \in {"redeliver", "rerun"}, ClaimOperation(m, k) PROVE Owes'
  <2>1. k = "redeliver"
    BY <1>13 DEF ClaimOperation, Event, OwesFromTheStart
  <2>2. \A n \in Meetings : op'[n].kind # "rerun" /\ op'[n].pc # "working"
    BY <1>5, <1>13, <2>1 DEF ClaimOperation, OpPcs
  <2> QED BY <1>3, <1>13, <2>2 DEF ClaimOperation
<1> QED
  BY <1>7, <1>8, <1>9, <1>10, <1>11, <1>12, <1>13 DEF OpStep

\* Entering the queue keeps what is owed: a meeting whose row is new has no
\* run yet, and one saved again has a run that only begins.
LEMMA CallOwes ==
  ASSUME TypeOK, Marks, Owes, NEW m \in Meetings,
         \/ CallStep(m) \/ EnqueueClaim(m) \/ SaveQueued(m) \/ ReprocessClaim(m)
         \/ DeleteMeeting(m)
  PROVE  Owes'
<1> USE DEF rows, marks, tasks, outside
<1>1. run \in [Meetings -> RunType] /\ state \in [Meetings -> States]
  BY DEF TypeOK
<1>2. m \notin claimed => run[m].pc = "none"
  BY DEF Marks, OneOperationPerMeeting
<1>3. ASSUME Start(m) \/ DropClaim(m)
      PROVE  run'[m].pc # "readying" /\ \A n \in Meetings \ {m} : run'[n] = run[n]
  BY <1>1, <1>3 DEF Start, DropClaim, NoRun
<1>4. CASE EnqueueSave(m) \/ ReprocessSave(m)
  <2>1. run'[m].pc # "readying" /\ \A n \in Meetings \ {m} : run'[n] = run[n]
    BY <1>3, <1>4 DEF EnqueueSave, ReprocessSave
  <2>2. \A n \in Meetings : state'[n] # state[n] => n = m /\ state'[n] # "ready"
    BY <1>1, <1>4 DEF EnqueueSave, ReprocessSave
  <2> QED BY <1>4, <2>1, <2>2, ElsewhereOwes DEF EnqueueSave, ReprocessSave
<1>5. CASE EnqueueSaved(m)
  <2>1. CASE UNCHANGED run
    BY <1>5, <2>1 DEF EnqueueSaved, Owes, NearlyReady, HasRow
  <2>2. CASE Start(m)
    BY <1>3, <1>5, <2>2, ElsewhereOwes DEF EnqueueSaved
  <2> QED BY <1>5, <2>1, <2>2 DEF EnqueueSaved
<1>6. CASE ReprocessReads(m)
  <2>1. run'[m].pc # "readying" /\ \A n \in Meetings \ {m} : run'[n] = run[n]
    BY <1>1, <1>3, <1>6 DEF ReprocessReads, Goto, RunType
  <2> QED BY <1>6, <2>1, ElsewhereOwes DEF ReprocessReads
<1>7. CASE QuitSaves(m)
  <2>1. \A n \in Meetings : state'[n] # state[n] =>
          n = m /\ state'[n] = "queued" /\ HasRow(n)
    BY <1>1, <1>7 DEF QuitSaves, BestEffort, CanWrite
  <2>2. UNCHANGED <<delivery, run, op, locked>>
    BY <1>7 DEF QuitSaves
  <2> QED BY <2>1, <2>2 DEF Owes, NearlyReady, HasRow
<1>8. CASE EnqueueClaim(m) \/ ReprocessClaim(m)
  <2>1. run'[m].pc # "readying" /\ \A n \in Meetings \ {m} : run'[n] = run[n]
    BY <1>1, <1>8 DEF EnqueueClaim, ReprocessClaim, NoRun
  <2> QED BY <1>8, <2>1, ElsewhereOwes DEF EnqueueClaim, ReprocessClaim
<1>9. CASE SaveQueued(m)
  <2>1. run'[m].pc # "readying" /\ UNCHANGED <<run, delivery, op, locked>>
    BY <1>2, <1>9 DEF SaveQueued
  <2>2. \A n \in Meetings : state'[n] # state[n] => n = m /\ state'[n] # "ready"
    BY <1>1, <1>9 DEF SaveQueued
  <2> QED BY <2>1, <2>2, ElsewhereOwes
<1>10. CASE DeleteMeeting(m)
  <2>1. /\ state'[m] = "gone"
        /\ \A n \in Meetings \ {m} : state'[n] = state[n] /\ delivery'[n] = delivery[n]
        /\ UNCHANGED <<run, op, locked>>
    BY <1>1, <1>10 DEF DeleteMeeting, TypeOK
  <2> QED BY <2>1 DEF Owes, NearlyReady, HasRow
<1> QED BY <1>4, <1>5, <1>6, <1>7, <1>8, <1>9, <1>10 DEF CallStep

\* A resume starts a free meeting or marks one failed: it owes no less.
LEMMA ResumeOwes ==
  ASSUME TypeOK, Marks, Owes, NEW r \in Threads, ResumeStep(r) \/ ResumeFaults(r)
  PROVE  Owes'
<1> USE DEF rows, marks, tasks, outside
<1>1. ASSUME UNCHANGED <<state, delivery, run, op, locked>> PROVE Owes'
  BY <1>1 DEF Owes, NearlyReady, HasRow
<1>2. CASE ResumeUnfinished(r) \/ ResumeWaiting(r) \/ RetryTakes(r)
  BY <1>1, <1>2 DEF ResumeUnfinished, ResumeWaiting, RetryTakes
<1>3. ASSUME NEW t \in aside, SetAsideForModels(t, r) PROVE Owes'
  BY <1>1, <1>3 DEF SetAsideForModels
<1>4. CASE ResumeLists(r) \/ ResumeEnds(r)
  BY <1>1, <1>4 DEF ResumeLists, ResumeEnds
<1>5. ASSUME NEW m \in Meetings, ResumeTakes(r, m) PROVE Owes'
  <2>1. UNCHANGED <<delivery, op, locked>>
    BY <1>5, LoopMoves
  <2>2. CASE ClaimFree(m) /\ Start(m) /\ UNCHANGED state
    <3>1. run'[m].pc # "readying" /\ \A n \in Meetings \ {m} : run'[n] = run[n]
      BY <2>2 DEF TypeOK, Start, NoRun
    <3> QED BY <2>1, <2>2, <3>1, ElsewhereOwes
  <2>3. CASE CanWrite(m) /\ state' = [state EXCEPT ![m] = "failed"] /\ UNCHANGED run
    BY <2>1, <2>3 DEF TypeOK, Owes, NearlyReady, CanWrite, HasRow
  <2>4. CASE UNCHANGED <<state, run>>
    BY <1>1, <2>1, <2>4
  <2> QED BY <1>5, <2>2, <2>3, <2>4, LoopMoves
<1>6. CASE ResumeMeetsLock(r) \/ ResumeMissesRow(r) \/ ResumeFaults(r)
  BY <1>1, <1>6 DEF ResumeMeetsLock, ResumeMissesRow, ResumeFaults, FailedResume
<1> QED BY <1>2, <1>3, <1>4, <1>5, <1>6 DEF ResumeStep

\* So do the steps that belong to no meeting or thread; an exit and a crash
\* leave the rows.
LEMMA WorldOwes ==
  ASSUME TypeOK, Owes, OwesFromTheStart,
         \/ \E t \in aside : SetAsideForStore(t)
         \/ RetryWakes \/ RedeliverUnfinished
         \/ QuitLists \/ QuitSaved \/ Exit
         \/ DropHold \/ InstallModels \/ Unlock
         \/ QuitLatches \/ Crash \/ TakeHold \/ RemoveModels \/ Reload \/ Lock
         \/ UNCHANGED vars
  PROVE  Owes'
<1> USE DEF rows, marks, tasks, outside
<1>1. ASSUME UNCHANGED <<state, delivery, run, op, locked>> PROVE Owes'
  BY <1>1 DEF Owes, NearlyReady, HasRow
<1>2. ASSUME NEW t \in aside, SetAsideForStore(t) PROVE Owes'
  BY <1>1, <1>2 DEF SetAsideForStore
<1>3. CASE RetryWakes \/ RedeliverUnfinished \/ QuitLists \/ QuitSaved \/ QuitLatches
  BY <1>1, <1>3 DEF RetryWakes, RedeliverUnfinished, QuitLists, QuitSaved, QuitLatches
<1>4. CASE InstallModels \/ RemoveModels \/ Reload \/ DropHold \/ TakeHold
  BY <1>1, <1>4 DEF InstallModels, RemoveModels, Reload, DropHold, TakeHold
<1>5. CASE Exit \/ Crash
  <2>1. Relaunch
    BY <1>5 DEF Exit, Crash
  <2> QED BY <2>1 DEF Relaunch, NoRun, NoOp, Owes, NearlyReady, HasRow
<1>6. CASE Lock \/ Unlock
  BY <1>6 DEF Lock, Unlock, Event, Owes, OwesFromTheStart
<1>7. CASE UNCHANGED vars
  BY <1>1, <1>7 DEF vars
<1> QED BY <1>2, <1>3, <1>4, <1>5, <1>6, <1>7

\* Without locks and summary re-runs the export of a ready meeting is always
\* on record, wherever a crash, an exit, a delete or a re-processing falls
\* (persist saves what is owed before the meeting is ready).
THEOREM ReadyIsOnRecord ==
  ASSUME OwesFromTheStart
  PROVE  Spec => []ReadyIsExportedOrOwed
<1>1. Init => Owes
  <2> SUFFICES ASSUME Init PROVE Owes
    OBVIOUS
  <2>1. PICK found \in [Meetings -> InitialRows] :
          /\ state = [m \in Meetings |-> found[m].state]
          /\ delivery = [m \in Meetings |-> found[m].delivery]
    BY DEF Init
  <2>2. \A m \in Meetings : state[m] = "ready" => delivery[m] # "none"
    BY <2>1 DEF OwesFromTheStart
  <2> QED BY <2>2 DEF Init, NoRun, NoOp, Owes, NearlyReady
<1>2. TypeOK /\ Marks /\ Owes /\ [Next]_vars => Owes'
  BY RunOwes, OpOwes, CallOwes, ResumeOwes, WorldOwes
     DEF Next, Request, World, Idle
<1>3. Owes => ReadyIsExportedOrOwed
  BY DEF Owes, NearlyReady, ReadyIsExportedOrOwed
<1> QED BY <1>1, <1>2, <1>3, MarksAlways, PTL DEF Spec

-----------------------------------------------------------------------------
(* Where a resume's loop is.                                                *)

\* A resume works on one of the meetings it listed, and claims the one whose
\* audio it has read, which only a delete takes away.
AtListed ==
  \A r \in Threads :
    /\ resumer[r].at \subseteq resumer[r].todo
    /\ \A m, n \in resumer[r].at : m = n
    /\ resumer[r].pc \notin LoopPcs => resumer[r].todo = {}
    /\ resumer[r].pc = "looping" <=> resumer[r].pc \in LoopPcs /\ resumer[r].at = {}
    /\ "delete" \notin Events /\ resumer[r].pc = "claiming" =>
         \A m \in resumer[r].at : asset[m]

\* A step of a resume, whose loop alone moves the place.
LEMMA ResumeAt ==
  ASSUME TypeOK, AtListed, NEW r \in Threads, ResumeStep(r) \/ ResumeFaults(r)
  PROVE  AtListed'
<1> USE DEF rows, marks, tasks, callers, exit, outside, waits
<1>1. resumer \in [Threads -> ResumerType] /\ resumer[r] \in ResumerType
  BY DEF TypeOK
<1>2. ASSUME UNCHANGED asset,
             \A s \in Threads :
               \/ resumer'[s] = resumer[s]
               \/ /\ resumer'[s].todo = {} /\ resumer'[s].at = {}
                  /\ resumer'[s].pc \in {"none", "listing"}
      PROVE  AtListed'
  BY <1>2 DEF AtListed, LoopPcs
<1>3. ASSUME UNCHANGED asset, NEW by, NEW all, NEW among, NEW models,
             Resumes(r, by, all, among, models)
      PROVE  AtListed'
  <2>1. /\ \A s \in Threads \ {r} : resumer'[s] = resumer[s]
        /\ resumer'[r].todo = {} /\ resumer'[r].at = {}
        /\ resumer'[r].pc \in {"none", "listing"}
    BY <1>1, <1>3 DEF Resumes, NoResumer
  <2> QED BY <1>2, <1>3, <2>1
<1>4. ASSUME UNCHANGED asset, Returns(r) PROVE AtListed'
  <2>1. /\ \A s \in Threads \ {r} : resumer'[s] = resumer[s]
        /\ resumer'[r].todo = {} /\ resumer'[r].at = {}
        /\ resumer'[r].pc \in {"none", "listing"}
    BY <1>1, <1>4 DEF Returns, NoResumer
  <2> QED BY <1>2, <1>4, <2>1
<1>5. ASSUME UNCHANGED <<asset, resumer>> PROVE AtListed'
  BY <1>2, <1>5
<1>6. CASE ResumeUnfinished(r)
  BY <1>3, <1>5, <1>6 DEF ResumeUnfinished
<1>7. CASE ResumeWaiting(r)
  BY <1>3, <1>5, <1>7 DEF ResumeWaiting
<1>8. CASE RetryTakes(r)
  BY <1>3, <1>5, <1>8 DEF RetryTakes
<1>9. CASE \E t \in aside : SetAsideForModels(t, r)
  BY <1>3, <1>5, <1>9 DEF SetAsideForModels
<1>10. CASE ResumeLists(r)
  <2> DEFINE todo == {m \in Meetings : /\ state[m] \in {"queued", "processing"}
                                       /\ resumer[r].all \/ m \in resumer[r].among}
             list == [m \in Meetings |->
                        IF state[m] = "processing" THEN "processing" ELSE "queued"]
  <2>1. /\ resumer[r].pc = "listing" /\ UNCHANGED asset
        /\ resumer' = [resumer EXCEPT ![r].pc = "looping", ![r].list = list, ![r].todo = todo]
    BY <1>10 DEF ResumeLists
  <2> HIDE DEF todo, list
  <2>2. /\ resumer'[r].pc = "looping" /\ resumer'[r].at = resumer[r].at
        /\ \A s \in Threads \ {r} : resumer'[s] = resumer[s]
    BY <1>1, <2>1 DEF ResumerType
  <2>3. resumer'[r].at = {}
    BY <2>1, <2>2 DEF AtListed, LoopPcs
  <2>4. UNCHANGED asset
    BY <2>1
  <2>5. \A s \in Threads :
          resumer'[s] = resumer[s] \/ (resumer'[s].pc = "looping" /\ resumer'[s].at = {})
    BY <2>2, <2>3
  <2> QED BY <2>4, <2>5 DEF AtListed, LoopPcs
<1>11. ASSUME NEW m \in Meetings, ResumeTakes(r, m) PROVE AtListed'
  <2>1. UNCHANGED asset /\ \A s \in Threads \ {r} : resumer'[s] = resumer[s]
    BY <1>11, LoopMoves DEF rows
  <2>2. CASE /\ resumer'[r].pc = "looping" /\ resumer'[r].at = {}
    BY <2>1, <2>2 DEF AtListed, LoopPcs
  <2>3. CASE /\ resumer'[r].pc = "looping" /\ resumer'[r].at = resumer[r].at
             /\ resumer[r].pc = "looping"
    BY <2>1, <2>3 DEF AtListed, LoopPcs
  <2>4. CASE /\ resumer'[r].pc = "reading" /\ resumer'[r].at = {m}
             /\ m \in resumer[r].todo /\ resumer'[r].todo = resumer[r].todo
    BY <2>1, <2>4 DEF AtListed, LoopPcs
  <2>5. CASE /\ resumer'[r].pc = IF MarksFailed(r, m) THEN "failing" ELSE "claiming"
             /\ m \in resumer[r].at /\ resumer'[r].at = resumer[r].at
             /\ resumer'[r].todo = resumer[r].todo
    BY <2>1, <2>5 DEF AtListed, LoopPcs, MarksFailed
  <2> QED
    BY <1>11, LoopMoves, <2>2, <2>3, <2>4, <2>5
<1>12. CASE ResumeEnds(r) \/ ResumeMeetsLock(r) \/ ResumeMissesRow(r) \/ ResumeFaults(r)
  BY <1>4, <1>12 DEF ResumeEnds, ResumeMeetsLock, ResumeMissesRow, ResumeFaults, FailedResume
<1> QED
  BY <1>6, <1>7, <1>8, <1>9, <1>10, <1>11, <1>12 DEF ResumeStep

\* Everything else leaves the resumes alone, or ends them with the process.
LEMMA AtAlways == Spec => [](TypeOK /\ Marks /\ AtListed)
<1> USE DEF rows, marks, tasks, callers, exit, outside, waits
<1>1. Init => AtListed
  BY DEF Init, AtListed, NoResumer, LoopPcs
<1>2. TypeOK /\ AtListed /\ [Next]_vars => AtListed'
  <2> SUFFICES ASSUME TypeOK, AtListed, [Next]_vars PROVE AtListed'
    OBVIOUS
  <2>1. ASSUME UNCHANGED resumer,
               "delete" \notin Events => \A m \in Meetings : asset[m] => asset'[m]
        PROVE  AtListed'
    <3>1. \A r \in Threads : resumer[r].at \subseteq Meetings
      BY DEF TypeOK, ResumerType
    <3> QED BY <2>1, <3>1 DEF AtListed
  <2>2. /\ asset \in [Meetings -> BOOLEAN]
        /\ resumer \in [Threads -> ResumerType]
    BY DEF TypeOK
  <2>3. ASSUME NEW m \in Meetings, RunStep(m) \/ RunFaults(m) PROVE AtListed'
    <3>1. UNCHANGED <<resumer, asset>>
      BY <2>3 DEF RunStep, RunFaults, RunBegin, RunAdmit, RunWarmUp, RunMark, RunMerge,
         RunSummarize, RunWrites, RunPersist, RunOwe, RunReady, RunDeliver, RunExport,
         RunMissesModels, RunMeetsLock, RunMissesRow, RunHandlesFailure, RunLeave, RunDrop,
         FailsWith
    <3> QED BY <2>1, <3>1
  <2>4. ASSUME NEW m \in Meetings,
               OpStep(m) \/ \E k \in {"redeliver", "rerun"} : ClaimOperation(m, k)
        PROVE  AtListed'
    <3>1. UNCHANGED <<resumer, asset>>
      BY <2>4 DEF OpStep, ClaimOperation, RedeliverAtLaunch, StillOwed, OpBegin, Resummarize,
         OpMarkPending, OpDeliver, OpExport, OpClose
    <3> QED BY <2>1, <3>1
  <2>5. ASSUME NEW m \in Meetings,
               \/ CallStep(m) \/ EnqueueClaim(m) \/ SaveQueued(m) \/ ReprocessClaim(m)
               \/ DeleteMeeting(m)
        PROVE  AtListed'
    <3>1. UNCHANGED resumer
      BY <2>5 DEF CallStep, EnqueueSave, EnqueueSaved, ReprocessReads, ReprocessSave,
         QuitSaves, EnqueueClaim, SaveQueued, ReprocessClaim, DeleteMeeting
    <3>2. \/ UNCHANGED asset \/ asset' = [asset EXCEPT ![m] = TRUE]
          \/ "delete" \in Events
      BY <2>5 DEF CallStep, EnqueueSave, EnqueueSaved, ReprocessReads, ReprocessSave,
         QuitSaves, EnqueueClaim, SaveQueued, ReprocessClaim, DeleteMeeting, Event
    <3> QED BY <2>1, <2>2, <3>1, <3>2
  <2>6. ASSUME \/ \E t \in aside : SetAsideForStore(t)
               \/ RetryWakes \/ RedeliverUnfinished \/ QuitLists \/ QuitSaved
               \/ DropHold \/ InstallModels \/ Unlock
               \/ QuitLatches \/ TakeHold \/ RemoveModels \/ Reload \/ Lock \/ Idle
               \/ UNCHANGED vars
        PROVE  AtListed'
    <3>1. UNCHANGED <<resumer, asset>>
      BY <2>6 DEF SetAsideForStore, RetryWakes, RedeliverUnfinished, QuitLists, QuitSaved,
         DropHold, InstallModels, Unlock, QuitLatches, TakeHold, RemoveModels, Reload, Lock,
         Idle, vars
    <3> QED BY <2>1, <3>1
  <2>7. CASE Exit \/ Crash
    <3>1. resumer' = [r \in Threads |-> NoResumer]
      BY <2>7 DEF Exit, Crash, Relaunch
    <3> QED BY <3>1 DEF AtListed, NoResumer, LoopPcs
  <2> QED
    BY <2>3, <2>4, <2>5, <2>6, <2>7, ResumeAt DEF Next, Request, World
<1> QED BY <1>1, <1>2, MarksAlways, PTL DEF Spec

-----------------------------------------------------------------------------
(* Failures without a cause.                                                *)

\* Nothing has begun since the launch but what the threads in `T` do.
Untouched(T) ==
  /\ \A m \in Meetings : run[m].pc = "none" /\ op[m].pc = "none" /\ state[m] # "processing"
  /\ aside = {} /\ saved = {} /\ exports = {} /\ waiting = {} /\ forStore = {}
  /\ \A r \in Threads \ T : Free(r)

\* The launch's resume lists before anything runs, and no other asks for all.
LaunchListsFirst ==
  /\ quit = "no" /\ owed = FALSE
  /\ launch = "due" => Untouched({})
  /\ \A r \in Threads :
       /\ Free(r) => resumer[r] = NoResumer
       /\ resumer[r].all => resumer[r].list = NoList
       /\ resumer[r].all /\ resumer[r].pc = "listing" => launch = "resuming" /\ Untouched({r})

\* A stage fails its meeting for other reasons only when the row is gone.
FailsWhatIsGone ==
  \A m \in Meetings : run[m].pc = "failing" /\ run[m].why = "other" => ~HasRow(m)

\* Where the store may be locked, whatever is unfinished has its audio,
NeedsAudio(m) == state[m] \in {"queued", "processing"} \/ run[m].pc \in AdmittedPcs

\* so no resume has to write while it is.
LockedOutOfNothing ==
  /\ locked => "lock" \in Events
  /\ "lock" \in Events => \A m \in Meetings :
       /\ NeedsAudio(m) => asset[m]
       /\ \A r \in Threads : m \in resumer[r].todo => asset[m]

\* What a resume lists was enqueued once, so that only a re-processing, which
\* found its audio, can put it back into the queue;
ListedWasQueued ==
  /\ \A r \in Threads : \A m \in resumer[r].todo : state[m] \notin {"none", "recording"}
  /\ \A m \in Meetings : run[m].pc \in {"rereading", "requeueing"} => asset[m]

\* and what the resume read of the audio stays true until it writes.
ReadIsTrue ==
  \A r \in Threads : resumer[r].pc = "failing" => \A m \in resumer[r].at : ~asset[m]

\* What an earlier process or the launch failed has no audio to process.
FailedLackAudio == \A m \in Meetings : state[m] = "failed" => ~asset[m]

\* What Orderly asks of the rows and of the runs that write them.
RowsInOrder ==
  FailsWhatIsGone /\ LockedOutOfNothing /\ FailedLackAudio /\ ListedWasQueued /\ ReadIsTrue

\* With TypeOK and Marks inductive, under FindsOrder.
Orderly == LaunchListsFirst /\ RowsInOrder

\* The launch's list is made.
Listed ==
  /\ launch # "due"
  /\ \A r \in Threads : ~(resumer[r].all /\ resumer[r].pc = "listing")

\* Whatever is under way shows that the launch's list is made.
LEMMA UnderWayIsListed ==
  ASSUME LaunchListsFirst,
         \/ \E m \in Meetings : run[m].pc # "none" \/ op[m].pc # "none"
         \/ aside # {} \/ saved # {} \/ exports # {} \/ waiting # {} \/ forStore # {}
         \/ launch \in {"exports", "done"}
  PROVE  Listed
BY DEF LaunchListsFirst, Listed, Untouched

\* A thread in a resume shows the same of all others.
LEMMA ResumerIsListed ==
  ASSUME LaunchListsFirst, NEW r \in Threads, ~Free(r)
  PROVE  /\ launch # "due"
         /\ \A s \in Threads \ {r} : ~(resumer[s].all /\ resumer[s].pc = "listing")
BY DEF LaunchListsFirst, Untouched

\* Once it is made, only a resume, a launch or an exit touches the order.
LEMMA ListedIsKept ==
  ASSUME LaunchListsFirst, Listed, UNCHANGED <<launch, resumer, quit, owed>>
  PROVE  LaunchListsFirst'
BY DEF LaunchListsFirst, Listed, Free

\* A resume that is begun for some meetings, or has ended, asks for no list of all.
LEMMA OtherResumes ==
  ASSUME TypeOK, LaunchListsFirst, Listed, NEW r \in Threads, NEW c,
         c = NoResumer \/ (c.pc # "none" /\ c.all = FALSE),
         resumer' = [resumer EXCEPT ![r] = c], launch' # "due", UNCHANGED <<quit, owed>>
  PROVE  LaunchListsFirst'
<1>1. resumer \in [Threads -> ResumerType]
  BY DEF TypeOK
<1>2. NoResumer.all = FALSE
  BY DEF NoResumer
<1>3. resumer'[r] = c /\ \A s \in Threads \ {r} : resumer'[s] = resumer[s]
  BY <1>1
<1> QED BY <1>2, <1>3 DEF LaunchListsFirst, Listed, Free

\* What a step does to the rows and the run of one meeting at most.
LEMMA OneMeeting ==
  ASSUME TypeOK, AtListed, RowsInOrder, NEW m \in Meetings,
         \A n \in Meetings \ {m} :
           state'[n] = state[n] /\ asset'[n] = asset[n] /\ run'[n] = run[n],
         run'[m].pc = "failing" /\ run'[m].why = "other" => ~HasRow(m)',
         "lock" \in Events => (NeedsAudio(m)' => asset'[m]),
         asset[m] => asset'[m],
         asset'[m] => asset[m] \/ state[m] \in {"none", "recording"},
         state'[m] = "failed" => ~asset'[m],
         state'[m] \in {"none", "recording"} => state'[m] = state[m],
         run'[m].pc \in {"rereading", "requeueing"} => asset'[m],
         UNCHANGED <<resumer, locked>>
  PROVE  RowsInOrder'
<1>1. FailsWhatIsGone' /\ LockedOutOfNothing' /\ FailedLackAudio'
  BY DEF RowsInOrder, FailsWhatIsGone, LockedOutOfNothing, FailedLackAudio, NeedsAudio, HasRow
<1>2. \A r \in Threads :
        resumer[r].at \subseteq resumer[r].todo /\ resumer[r].todo \subseteq Meetings
  BY DEF TypeOK, ResumerType, AtListed
<1>3. ListedWasQueued' /\ ReadIsTrue'
  BY <1>2 DEF RowsInOrder, ListedWasQueued, ReadIsTrue
<1> QED BY <1>1, <1>3 DEF RowsInOrder

\* A step of a run fails its meeting only for a row that is gone (process_held).
LEMMA RunOrder ==
  ASSUME TypeOK, Marks, AtListed, Orderly, FindsOrder, NEW m \in Meetings,
         RunStep(m) \/ RunFaults(m)
  PROVE  Orderly'
<1> USE DEF rows, marks, tasks, callers, exit, outside
<1>1. /\ run \in [Meetings -> RunType] /\ state \in [Meetings -> States]
      /\ asset \in [Meetings -> BOOLEAN]
  BY DEF TypeOK
<1>2. quit = "no" /\ ~Quitting
  BY DEF Orderly, LaunchListsFirst, Quitting
<1>3. run[m].pc # "none" /\ UNCHANGED <<launch, resumer, quit, owed, asset, locked>>
  BY <1>2 DEF RunStep, RunFaults, RunBegin, RunAdmit, RunWarmUp, RunMark, RunMerge,
     RunSummarize, RunWrites, RunPersist, RunOwe, RunReady, RunDeliver, RunExport,
     RunMissesModels, RunMeetsLock, RunMissesRow, RunHandlesFailure, RunLeave, RunDrop,
     FailsWith, At, WritingPcs, waits
<1>4. LaunchListsFirst'
  BY <1>3, UnderWayIsListed, ListedIsKept DEF Orderly
<1> SUFFICES RowsInOrder'
  BY <1>4 DEF Orderly
<1>5. \A n \in Meetings \ {m} :
        state'[n] = state[n] /\ asset'[n] = asset[n] /\ run'[n] = run[n]
  BY <1>1, <1>3 DEF RunStep, RunFaults, RunBegin, RunAdmit, RunWarmUp, RunMark, RunMerge,
     RunSummarize, RunWrites, RunPersist, RunOwe, RunReady, RunDeliver, RunExport,
     RunMissesModels, RunMeetsLock, RunMissesRow, RunHandlesFailure, RunLeave, RunDrop,
     FailsWith, Goto, BestEffort
<1>6. /\ state[m] = "failed" => ~asset[m]
      /\ "lock" \in Events => (NeedsAudio(m) => asset[m])
      /\ run[m].pc = "failing" /\ run[m].why = "other" => ~HasRow(m)
  BY DEF Orderly, RowsInOrder, FailsWhatIsGone, LockedOutOfNothing, FailedLackAudio
<1>7. ASSUME run'[m].pc = "failing" /\ run'[m].why = "other" => ~HasRow(m)',
             state'[m] = "failed" => state[m] = "failed",
             state'[m] \in {"none", "recording"} => state'[m] = state[m],
             run'[m].pc \notin {"rereading", "requeueing"},
             "lock" \in Events => (NeedsAudio(m)' => asset[m])
      PROVE  RowsInOrder'
  BY <1>3, <1>5, <1>6, <1>7, OneMeeting DEF Orderly
<1>8. ASSUME NEW pc \in RunPcs \ {"failing", "rereading", "requeueing"}, run'[m].pc = pc,
             pc \in AdmittedPcs => run[m].pc \in AdmittedPcs,
             UNCHANGED state
      PROVE  RowsInOrder'
  BY <1>6, <1>7, <1>8 DEF NeedsAudio
<1>9. ASSUME NEW pc \in RunPcs, Goto(m, pc) PROVE run'[m].pc = pc
  BY <1>1, <1>9 DEF Goto, RunType
<1>10. CASE RunBegin(m) \/ RunLeave(m)
  BY <1>8, <1>9, <1>10 DEF RunBegin, RunLeave, At, RunPcs, AdmittedPcs
<1>11. CASE RunAdmit(m)
  <2>1. CASE run' = [run EXCEPT ![m].pc = "warming", ![m].seen = resumes] /\ asset[m]
    <3>1. run'[m].pc = "warming"
      BY <1>1, <2>1 DEF RunType
    <3> QED BY <1>7, <1>11, <2>1, <3>1 DEF RunAdmit
  <2>2. CASE Goto(m, "dropping")
    <3>1. run'[m].pc = "dropping"
      BY <1>9, <2>2 DEF RunPcs
    <3> QED BY <1>8, <1>11, <3>1 DEF RunAdmit, RunPcs, AdmittedPcs
  <2> QED BY <1>11, <2>1, <2>2 DEF RunAdmit
<1>12. CASE RunWarmUp(m) \/ RunPersist(m)
  <2>1. run[m].pc \in AdmittedPcs
    BY <1>12 DEF RunWarmUp, RunPersist, At, AdmittedPcs, RunPcs
  <2>2. UNCHANGED state /\ \E pc \in {"leaving", "marking", "owing"} : Goto(m, pc)
    BY <1>12 DEF RunWarmUp, RunPersist
  <2> QED BY <1>8, <1>9, <2>1, <2>2 DEF RunPcs
<1>13. CASE RunMark(m) \/ RunMerge(m) \/ RunSummarize(m) \/ RunReady(m)
  <2>1. run[m].pc \in AdmittedPcs
    BY <1>13 DEF RunMark, RunMerge, RunSummarize, RunWrites, RunReady, At, AdmittedPcs, RunPcs
  <2>2. state'[m] \notin {"failed", "none", "recording"} \/ state'[m] = state[m]
    BY <1>1, <1>13 DEF RunMark, RunMerge, RunSummarize, RunWrites, RunReady
  <2>3. run'[m].pc \notin {"failing", "rereading", "requeueing"}
    BY <1>9, <1>13 DEF RunMark, RunMerge, RunSummarize, RunWrites, RunReady, RunPcs
  <2> QED BY <1>6, <1>7, <2>1, <2>2, <2>3 DEF NeedsAudio
<1>14. CASE RunOwe(m) \/ RunDeliver(m) \/ RunExport(m)
  <2>1. run[m].pc \in AdmittedPcs
    BY <1>14 DEF RunOwe, RunDeliver, RunExport, At, AdmittedPcs, RunPcs
  <2>2. UNCHANGED state /\ \E pc \in {"readying", "exporting", "leaving"} : Goto(m, pc)
    BY <1>14 DEF RunOwe, RunDeliver, RunExport
  <2> QED BY <1>8, <1>9, <2>1, <2>2 DEF RunPcs
<1>15. CASE RunMissesModels(m) \/ RunMeetsLock(m) \/ RunMissesRow(m) \/ RunFaults(m)
  <2>1. PICK why \in Causes : FailsWith(m, why) /\ (why = "other" => ~HasRow(m))
    BY <1>15 DEF RunMissesModels, RunMeetsLock, RunMissesRow, RunFaults, Event, FindsOrder, Causes
  <2>2. run[m].pc \in AdmittedPcs
    BY <1>15 DEF RunMissesModels, RunMeetsLock, RunMissesRow, RunFaults, WritingPcs,
       AdmittedPcs, RunPcs
  <2>3. run'[m].why = why /\ run'[m].pc = "failing" /\ UNCHANGED state
    BY <1>1, <1>2, <2>1 DEF FailsWith, RunType
  <2> QED BY <1>6, <1>7, <2>1, <2>2, <2>3 DEF NeedsAudio, HasRow
<1>16. CASE RunHandlesFailure(m)
  <2>1. run[m].pc \in AdmittedPcs
    BY <1>16 DEF RunHandlesFailure, At, AdmittedPcs, RunPcs
  <2>2. run'[m].pc \notin {"failing", "rereading", "requeueing"}
    BY <1>1, <1>16 DEF RunHandlesFailure, Goto, RunType
  <2>3. run[m].why = "other" => ~CanWrite(m)
    BY <1>6, <1>16 DEF RunHandlesFailure, At, CanWrite
  <2>4. state'[m] \in {"failed", "none", "recording"} => state'[m] = state[m]
    BY <1>1, <1>16, <2>3 DEF RunHandlesFailure, BestEffort
  <2> QED BY <1>6, <1>7, <2>1, <2>2, <2>4 DEF NeedsAudio
<1>17. CASE RunDrop(m)
  <2>1. run'[m].pc = "none" /\ UNCHANGED state
    BY <1>1, <1>17 DEF RunDrop, NoRun
  <2> QED BY <1>8, <2>1 DEF RunPcs, AdmittedPcs
<1> QED
  BY <1>10, <1>11, <1>12, <1>13, <1>14, <1>15, <1>16, <1>17 DEF RunStep

\* A re-export or a summary re-run fails no meeting (deliver_again, resummarize).
LEMMA OpOrder ==
  ASSUME TypeOK, Marks, AtListed, Orderly, FindsOrder, NEW m \in Meetings,
         OpStep(m) \/ \E k \in {"redeliver", "rerun"} : ClaimOperation(m, k)
  PROVE  Orderly'
<1> USE DEF rows, marks, tasks, callers, exit, outside
<1>1. UNCHANGED <<launch, resumer, quit, owed, asset, locked, run>>
  BY DEF OpStep, ClaimOperation, RedeliverAtLaunch, StillOwed, OpBegin, Resummarize,
     OpMarkPending, OpDeliver, OpExport, OpClose, waits
<1>2. op[m].pc # "none" \/ exports # {} \/ launch \in {"exports", "done"}
  BY DEF OpStep, ClaimOperation, RedeliverAtLaunch, StillOwed, OpBegin, Resummarize,
     OpMarkPending, OpDeliver, OpExport, OpClose, OpAt, InUse, FindsOrder
<1>3. LaunchListsFirst'
  BY <1>1, <1>2, UnderWayIsListed, ListedIsKept DEF Orderly
<1> SUFFICES RowsInOrder'
  BY <1>3 DEF Orderly
<1>4. CASE UNCHANGED state
  BY <1>1, <1>4 DEF Orderly, RowsInOrder, FailsWhatIsGone, LockedOutOfNothing,
     FailedLackAudio, ListedWasQueued, ReadIsTrue, NeedsAudio, HasRow
<1>5. CASE CanWrite(m) /\ state' = [state EXCEPT ![m] = "ready"]
  <2>1. state'[m] = "ready" /\ \A n \in Meetings \ {m} : state'[n] = state[n]
    BY <1>5 DEF TypeOK
  <2> QED BY <1>1, <1>5, <2>1, OneMeeting DEF Orderly, RowsInOrder, FailsWhatIsGone,
          LockedOutOfNothing, ListedWasQueued, NeedsAudio, CanWrite, HasRow
<1>6. UNCHANGED state \/ (CanWrite(m) /\ state' = [state EXCEPT ![m] = "ready"])
  BY DEF OpStep, ClaimOperation, RedeliverAtLaunch, StillOwed, OpBegin, Resummarize,
     OpMarkPending, OpDeliver, OpExport, OpClose
<1> QED BY <1>4, <1>5, <1>6

\* What enters the queue has its audio, and no run of it fails.
LEMMA CallOrder ==
  ASSUME TypeOK, Marks, AtListed, Orderly, FindsOrder, NEW m \in Meetings,
         \/ CallStep(m) \/ EnqueueClaim(m) \/ SaveQueued(m) \/ ReprocessClaim(m)
         \/ DeleteMeeting(m)
  PROVE  Orderly'
<1> USE DEF rows, marks, tasks, callers, exit, outside
<1>1. /\ run \in [Meetings -> RunType] /\ state \in [Meetings -> States]
      /\ asset \in [Meetings -> BOOLEAN]
  BY DEF TypeOK
<1>2. quit = "no" /\ ~Quitting
  BY DEF Orderly, LaunchListsFirst, Quitting
<1>3. UNCHANGED <<launch, resumer, quit, owed, locked>>
  BY <1>2 DEF CallStep, EnqueueSave, EnqueueSaved, ReprocessReads, ReprocessSave, QuitSaves,
     EnqueueClaim, SaveQueued, ReprocessClaim, DeleteMeeting, waits
<1>4. m \notin claimed => run[m].pc = "none"
  BY DEF Marks, OneOperationPerMeeting
<1>5. /\ state[m] = "failed" => ~asset[m]
      /\ "lock" \in Events => (NeedsAudio(m) => asset[m])
  BY DEF Orderly, RowsInOrder, LockedOutOfNothing, FailedLackAudio
<1>6. ~DeleteMeeting(m)
  BY DEF DeleteMeeting, Event, FindsOrder
<1>7. Listed
  <2>1. run[m].pc # "none" \/ saved # {} \/ launch \in {"exports", "done"}
    BY <1>2, <1>6 DEF CallStep, EnqueueSave, EnqueueSaved, ReprocessReads, ReprocessSave,
       QuitSaves, EnqueueClaim, SaveQueued, ReprocessClaim, At, InUse, FindsOrder
  <2> QED BY <2>1, UnderWayIsListed DEF Orderly
<1>8. LaunchListsFirst'
  BY <1>3, <1>7, ListedIsKept DEF Orderly
<1>9. ASSUME Start(m) \/ DropClaim(m)
      PROVE  /\ run'[m].pc \in {"none", "spawned"}
             /\ \A n \in Meetings \ {m} : run'[n] = run[n]
  BY <1>1, <1>9 DEF Start, DropClaim, NoRun
<1>10. ASSUME NEW pc \in {"none", "saving", "rereading", "requeueing", "spawned"},
              run'[m].pc = pc, \A n \in Meetings \ {m} : run'[n] = run[n],
              pc \in {"rereading", "requeueing"} => asset[m],
              UNCHANGED <<state, asset>>
       PROVE  RowsInOrder'
  BY <1>3, <1>5, <1>10, OneMeeting DEF Orderly, NeedsAudio, AdmittedPcs
<1>11. ASSUME NEW pc \in {"none", "saving", "rereading", "requeueing", "spawned"},
              run'[m].pc = pc, \A n \in Meetings \ {m} : run'[n] = run[n],
              asset[m] \/ state[m] \in {"none", "recording"},
              state' = [state EXCEPT ![m] = "queued"], asset' = [asset EXCEPT ![m] = TRUE]
       PROVE  RowsInOrder'
  BY <1>1, <1>3, <1>11, OneMeeting DEF Orderly
<1> SUFFICES RowsInOrder'
  BY <1>8 DEF Orderly
<1>12. run[m].pc \in {"rereading", "requeueing"} => asset[m]
  BY DEF Orderly, RowsInOrder, ListedWasQueued
<1>13. CASE EnqueueSave(m) \/ ReprocessSave(m)
  BY <1>9, <1>10, <1>11, <1>12, <1>13 DEF EnqueueSave, ReprocessSave, At
<1>14. CASE EnqueueSaved(m)
  <2>1. CASE UNCHANGED run
    BY <1>3, <1>14, <2>1 DEF EnqueueSaved, Orderly, RowsInOrder, FailsWhatIsGone,
       LockedOutOfNothing, FailedLackAudio, ListedWasQueued, ReadIsTrue, NeedsAudio, HasRow
  <2>2. CASE Start(m)
    BY <1>9, <1>10, <1>14, <2>2 DEF EnqueueSaved
  <2> QED BY <1>14, <2>1, <2>2 DEF EnqueueSaved
<1>15. CASE ReprocessReads(m)
  <2>1. CASE Goto(m, "requeueing")
    BY <1>1, <1>10, <1>12, <1>15, <2>1 DEF ReprocessReads, Goto, RunType, At
  <2>2. CASE DropClaim(m)
    BY <1>9, <1>10, <1>15, <2>2 DEF ReprocessReads
  <2> QED BY <1>15, <2>1, <2>2 DEF ReprocessReads
<1>16. CASE QuitSaves(m)
  BY <1>2, <1>16 DEF QuitSaves
<1>17. CASE EnqueueClaim(m) \/ ReprocessClaim(m)
  <2>1. /\ run'[m].pc = "saving" \/ (run'[m].pc = "rereading" /\ asset[m])
        /\ \A n \in Meetings \ {m} : run'[n] = run[n]
        /\ UNCHANGED <<state, asset>>
    BY <1>1, <1>17 DEF EnqueueClaim, ReprocessClaim, NoRun
  <2> QED BY <1>10, <2>1
<1>18. CASE SaveQueued(m)
  BY <1>4, <1>11, <1>18 DEF SaveQueued
<1> QED BY <1>6, <1>13, <1>14, <1>15, <1>16, <1>17, <1>18 DEF CallStep

\* A resume fails only a meeting without its audio: the launch's lists nothing
\* as processing, and no lock stops one, so the launch's is never run late.
LEMMA ResumeOrder ==
  ASSUME TypeOK, Marks, AtListed, Orderly, FindsOrder, NEW r \in Threads,
         ResumeStep(r) \/ ResumeFaults(r)
  PROVE  Orderly'
<1> USE DEF rows, marks, tasks, callers, exit, outside
<1>1. /\ run \in [Meetings -> RunType] /\ state \in [Meetings -> States]
      /\ asset \in [Meetings -> BOOLEAN] /\ resumer \in [Threads -> ResumerType]
  BY DEF TypeOK
<1>2. quit = "no" /\ ~Quitting /\ owed = FALSE
  BY DEF Orderly, LaunchListsFirst, Quitting
<1>3. LaunchListsFirst /\ RowsInOrder
  BY DEF Orderly
<1>4. ASSUME UNCHANGED <<state, asset, run, locked>>,
             \A s \in Threads :
               resumer'[s] = resumer[s] \/ (resumer'[s].todo = {} /\ resumer'[s].at = {})
      PROVE  RowsInOrder'
  BY <1>3, <1>4 DEF RowsInOrder, FailsWhatIsGone, LockedOutOfNothing, FailedLackAudio,
     ListedWasQueued, ReadIsTrue, NeedsAudio, HasRow
<1>5. ASSUME NEW by, NEW all, NEW among, NEW models, Resumes(r, by, all, among, models)
      PROVE  \A s \in Threads :
               resumer'[s] = resumer[s] \/ (resumer'[s].todo = {} /\ resumer'[s].at = {})
  BY <1>1, <1>5 DEF Resumes, NoResumer
<1>6. ASSUME Returns(r)
      PROVE  \A s \in Threads :
               resumer'[s] = resumer[s] \/ (resumer'[s].todo = {} /\ resumer'[s].at = {})
  BY <1>1, <1>6 DEF Returns, NoResumer
<1>7. ASSUME NEW m \in Meetings, MarksFailed(r, m) PROVE ~asset[m]
  BY <1>3, <1>7 DEF MarksFailed, LaunchListsFirst, NoList
<1>8. ASSUME Listed, UNCHANGED <<launch, quit, owed>>, NEW by, NEW among, NEW models,
             Resumes(r, by, FALSE, among, models)
      PROVE  LaunchListsFirst'
  <2> DEFINE c == [NoResumer EXCEPT !.pc = "listing", !.by = by, !.all = FALSE,
                                    !.among = among, !.models = models]
  <2>1. c.pc # "none" /\ c.all = FALSE
    BY DEF NoResumer
  <2>2. resumer' = [resumer EXCEPT ![r] = c]
    BY <1>8 DEF Resumes
  <2>3. launch' # "due"
    BY <1>8 DEF Listed
  <2> HIDE DEF c
  <2> QED BY <1>3, <1>8, <2>1, <2>2, <2>3, OtherResumes
<1>9. CASE ResumeUnfinished(r)
  <2>1. /\ launch = "due" /\ launch' = "resuming" /\ Free(r)
        /\ Resumes(r, "launch", TRUE, {}, {}) /\ waiting' = {}
        /\ UNCHANGED <<state, asset, run, op, aside, saved, exports, forStore, owed, quit,
                       locked>>
    BY <1>2, <1>9 DEF ResumeUnfinished, CountResume
  <2>2. Untouched({})
    BY <1>3, <2>1 DEF LaunchListsFirst
  <2>3. /\ resumer'[r].pc = "listing" /\ resumer'[r].list = NoList
        /\ \A s \in Threads \ {r} : resumer'[s] = resumer[s]
    BY <1>1, <2>1 DEF Resumes, NoResumer
  <2>4. Untouched({r})'
    BY <2>1, <2>2, <2>3 DEF Untouched, Free
  <2>5. \A s \in Threads \ {r} : resumer'[s].pc = "none"
    BY <2>2, <2>3 DEF Untouched, Free
  <2>6. LaunchListsFirst'
    BY <1>2, <1>3, <2>1, <2>3, <2>4, <2>5 DEF LaunchListsFirst, Free
  <2>7. RowsInOrder'
    BY <1>4, <1>5, <2>1
  <2> QED BY <2>6, <2>7 DEF Orderly
<1>10. CASE ResumeWaiting(r)
  <2>1. UNCHANGED <<state, asset, run, op, aside, saved, exports, forStore, owed, quit,
                    launch, locked>>
    BY <1>10 DEF ResumeWaiting
  <2>2. CASE UNCHANGED resumer /\ (waiting' = {} \/ UNCHANGED waiting)
    <3>1. LaunchListsFirst'
      BY <1>3, <2>1, <2>2 DEF LaunchListsFirst, Untouched, Free
    <3>2. RowsInOrder'
      BY <1>4, <2>1, <2>2
    <3> QED BY <3>1, <3>2 DEF Orderly
  <2>3. CASE waiting # {} /\ Resumes(r, "models", FALSE, waiting, {})
    <3>1. Listed
      BY <1>3, <2>3, UnderWayIsListed
    <3> QED BY <1>4, <1>5, <1>8, <2>1, <2>3, <3>1 DEF Orderly
  <2> QED BY <1>10, <2>2, <2>3 DEF ResumeWaiting, CountResume
<1>11. CASE RetryTakes(r)
  <2>1. UNCHANGED <<state, asset, run, op, aside, saved, exports, quit, launch, locked>>
    BY <1>11 DEF RetryTakes
  <2>2. CASE UNCHANGED <<forStore, owed, waiting, resumer>>
    <3>1. LaunchListsFirst'
      BY <1>3, <2>1, <2>2 DEF LaunchListsFirst, Untouched, Free
    <3>2. RowsInOrder'
      BY <1>4, <2>1, <2>2
    <3> QED BY <3>1, <3>2 DEF Orderly
  <2>3. CASE forStore # {} /\ owed' = FALSE /\ Resumes(r, "retry", FALSE, forStore, {})
    <3>1. Listed
      BY <1>3, <2>3, UnderWayIsListed
    <3> QED BY <1>2, <1>4, <1>5, <1>8, <2>1, <2>3, <3>1 DEF Orderly
  <2> QED BY <1>2, <1>11, <2>2, <2>3 DEF RetryTakes
<1>12. ASSUME NEW t \in aside, SetAsideForModels(t, r) PROVE Orderly'
  <2>1. UNCHANGED <<state, asset, run, owed, quit, launch, locked>>
    BY <1>12 DEF SetAsideForModels
  <2>2. Listed
    BY <1>3, UnderWayIsListed
  <2>3. CASE UNCHANGED resumer
    <3>1. LaunchListsFirst'
      BY <1>3, <2>1, <2>2, <2>3, ListedIsKept
    <3>2. RowsInOrder'
      BY <1>4, <2>1, <2>3
    <3> QED BY <3>1, <3>2 DEF Orderly
  <2>4. CASE Resumes(r, "restart", FALSE, {t.meeting}, {})
    BY <1>4, <1>5, <1>8, <2>1, <2>2, <2>4 DEF Orderly
  <2> QED BY <1>12, <2>3, <2>4 DEF SetAsideForModels
<1>13. ASSUME ~Free(r), UNCHANGED <<quit, owed>>, Returns(r) PROVE LaunchListsFirst'
  <2>1. launch # "due" /\ \A s \in Threads \ {r} : ~(resumer[s].all /\ resumer[s].pc = "listing")
    BY <1>3, <1>13, ResumerIsListed
  <2>2. resumer'[r] = NoResumer /\ \A s \in Threads \ {r} : resumer'[s] = resumer[s]
    BY <1>1, <1>13 DEF Returns
  <2>3. launch' # "due"
    BY <1>13, <2>1 DEF Returns
  <2>4. NoResumer.all = FALSE
    BY DEF NoResumer
  <2> QED BY <1>3, <1>13, <2>1, <2>2, <2>3, <2>4 DEF LaunchListsFirst, Free
<1>14. CASE ResumeLists(r)
  <2> DEFINE list == [m \in Meetings |->
                        IF state[m] = "processing" THEN "processing" ELSE "queued"]
             todo == {m \in Meetings : /\ state[m] \in {"queued", "processing"}
                                       /\ resumer[r].all \/ m \in resumer[r].among}
  <2>1. /\ resumer[r].pc = "listing"
        /\ resumer' = [resumer EXCEPT ![r].pc = "looping", ![r].list = list, ![r].todo = todo]
        /\ UNCHANGED <<state, asset, run, owed, quit, launch, locked>>
    BY <1>14 DEF ResumeLists, waits
  <2>2. resumer[r].all => list = NoList
    BY <1>3, <2>1 DEF LaunchListsFirst, Untouched, NoList
  <2>3. \A m \in todo : m \in Meetings /\ state[m] \in {"queued", "processing"}
    OBVIOUS
  <2> HIDE DEF list, todo
  <2>4. /\ resumer'[r].pc = "looping" /\ resumer'[r].all = resumer[r].all
        /\ resumer'[r].list = list /\ resumer'[r].todo = todo
        /\ \A s \in Threads \ {r} : resumer'[s] = resumer[s]
    BY <1>1, <2>1 DEF ResumerType
  <2>5. launch # "due" /\ \A s \in Threads \ {r} : ~(resumer[s].all /\ resumer[s].pc = "listing")
    BY <1>3, <2>1, ResumerIsListed DEF Free
  <2>6. LaunchListsFirst'
    <3>1. quit' = "no" /\ owed' = FALSE /\ launch' # "due"
      BY <1>2, <2>1, <2>5
    <3>2. ASSUME NEW s \in Threads
          PROVE  /\ Free(s)' => resumer'[s] = NoResumer
                 /\ resumer'[s].all => resumer'[s].list = NoList
                 /\ ~(resumer'[s].all /\ resumer'[s].pc = "listing")
      BY <1>3, <2>2, <2>4, <2>5 DEF LaunchListsFirst, Free
    <3> QED BY <3>1, <3>2 DEF LaunchListsFirst
  <2>7. LockedOutOfNothing'
    BY <1>3, <2>1, <2>3, <2>4 DEF RowsInOrder, LockedOutOfNothing, NeedsAudio
  <2>8. ListedWasQueued' /\ ReadIsTrue'
    BY <1>3, <2>1, <2>3, <2>4 DEF RowsInOrder, ListedWasQueued, ReadIsTrue
  <2>9. RowsInOrder'
    BY <1>3, <2>1, <2>7, <2>8 DEF RowsInOrder, FailsWhatIsGone, FailedLackAudio, HasRow
  <2> QED BY <2>6, <2>9 DEF Orderly
<1>15. ASSUME NEW m \in Meetings, ResumeTakes(r, m) PROVE Orderly'
  <2>1. /\ \A s \in Threads \ {r} : resumer'[s] = resumer[s]
        /\ resumer[r].pc \in LoopPcs /\ resumer'[r].pc \in LoopPcs
        /\ resumer'[r].all = resumer[r].all /\ resumer'[r].list = resumer[r].list
        /\ UNCHANGED <<asset, op, owed, quit, launch, locked>>
    BY <1>15, LoopMoves DEF waits
  <2>2. launch # "due" /\ \A s \in Threads \ {r} : ~(resumer[s].all /\ resumer[s].pc = "listing")
    BY <1>3, <2>1, ResumerIsListed DEF Free, LoopPcs
  <2>3. LaunchListsFirst'
    BY <1>3, <2>1, <2>2 DEF LaunchListsFirst, Free, LoopPcs
  <2> SUFFICES RowsInOrder'
    BY <2>3 DEF Orderly
  <2>4. ASSUME UNCHANGED <<state, run>>, resumer'[r].todo \subseteq resumer[r].todo,
               resumer'[r].pc = "failing" => \A n \in resumer'[r].at : ~asset[n]
        PROVE  RowsInOrder'
    BY <1>3, <2>1, <2>4 DEF RowsInOrder, FailsWhatIsGone, LockedOutOfNothing,
       FailedLackAudio, ListedWasQueued, ReadIsTrue, NeedsAudio, HasRow
  <2>5. CASE /\ resumer[r].pc = "failing" /\ m \in resumer[r].at
             /\ CanWrite(m) /\ state' = [state EXCEPT ![m] = "failed"]
             /\ resumer'[r].pc = "looping" /\ resumer'[r].todo = resumer[r].todo \ {m}
             /\ UNCHANGED run
    <3>1. ~asset[m] /\ HasRow(m)
      BY <1>3, <2>5 DEF CanWrite, RowsInOrder, ReadIsTrue
    <3>2. state'[m] = "failed" /\ \A n \in Meetings \ {m} : state'[n] = state[n]
      BY <1>1, <2>5
    <3> QED BY <1>1, <1>3, <2>1, <2>5, <3>1, <3>2 DEF RowsInOrder, FailsWhatIsGone,
            LockedOutOfNothing, FailedLackAudio, ListedWasQueued, ReadIsTrue, NeedsAudio, HasRow
  <2>6. CASE /\ Start(m) /\ UNCHANGED state
             /\ resumer'[r].pc = "looping" /\ resumer'[r].todo = resumer[r].todo \ {m}
    <3>1. /\ run'[m].pc \in {"none", "spawned"}
          /\ \A n \in Meetings \ {m} : run'[n] = run[n]
      BY <1>1, <2>6 DEF Start, NoRun
    <3> QED BY <1>3, <2>1, <2>6, <3>1 DEF RowsInOrder, FailsWhatIsGone, LockedOutOfNothing,
            FailedLackAudio, ListedWasQueued, ReadIsTrue, NeedsAudio, HasRow, AdmittedPcs
  <2>7. CASE /\ resumer[r].pc = "reading" /\ m \in resumer[r].at
             /\ resumer'[r].pc = IF MarksFailed(r, m) THEN "failing" ELSE "claiming"
             /\ resumer'[r].at = resumer[r].at /\ resumer'[r].todo = resumer[r].todo
             /\ UNCHANGED <<state, run>>
    <3>1. \A n \in resumer[r].at : n = m
      BY <2>7 DEF AtListed
    <3> QED BY <1>7, <2>4, <2>7, <3>1
  <2>8. CASE /\ resumer'[r].pc \in {"looping", "reading"}
             /\ resumer'[r].todo \subseteq resumer[r].todo
             /\ UNCHANGED <<state, run>>
    BY <2>4, <2>8
  <2> QED BY <1>15, LoopMoves, <2>5, <2>6, <2>7, <2>8
<1>16. CASE ResumeEnds(r)
  <2>1. /\ ~Free(r) /\ Returns(r) /\ UNCHANGED <<state, asset, run, owed, quit, locked>>
    BY <1>16 DEF ResumeEnds, Free
  <2> QED BY <1>4, <1>6, <1>13, <2>1 DEF Orderly
<1>17. ~ResumeMeetsLock(r)
  <2> SUFFICES ASSUME ResumeMeetsLock(r) PROVE FALSE
    OBVIOUS
  <2>1. resumer[r].pc = "failing" /\ "lock" \in Events
    BY <1>3 DEF ResumeMeetsLock, RowsInOrder, LockedOutOfNothing
  <2>2. resumer[r].at # {}
    BY <2>1 DEF AtListed, LoopPcs
  <2>3. \A m \in resumer[r].at : m \in resumer[r].todo /\ m \in Meetings
    BY <1>1 DEF AtListed, ResumerType
  <2> QED BY <1>3, <2>1, <2>2, <2>3 DEF RowsInOrder, LockedOutOfNothing, ReadIsTrue
<1>18. CASE ResumeMissesRow(r) \/ ResumeFaults(r)
  <2>1. FailedResume(r, FALSE) /\ ~Free(r)
    BY <1>18 DEF ResumeMissesRow, ResumeFaults, Free
  <2>2. Returns(r) /\ UNCHANGED <<state, asset, run, quit, locked>>
    BY <2>1 DEF FailedResume
  <2>3. UNCHANGED owed
    BY <1>1, <1>2, <2>1 DEF FailedResume, ResumerType, ResumeKinds
  <2> QED BY <1>4, <1>6, <1>13, <2>1, <2>2, <2>3 DEF Orderly
<1> QED
  BY <1>9, <1>10, <1>11, <1>12, <1>14, <1>15, <1>16, <1>17, <1>18 DEF ResumeStep

\* The steps that belong to no meeting or thread fail nothing.
LEMMA WorldOrder ==
  ASSUME TypeOK, Marks, AtListed, Orderly, FindsOrder,
         \/ \E t \in aside : SetAsideForStore(t)
         \/ RetryWakes \/ RedeliverUnfinished
         \/ QuitLists \/ QuitSaved \/ Exit
         \/ DropHold \/ InstallModels \/ Unlock
         \/ QuitLatches \/ Crash \/ TakeHold \/ RemoveModels \/ Reload \/ Lock
         \/ UNCHANGED vars
  PROVE  Orderly'
<1> USE DEF rows, marks, tasks, callers, exit, outside
<1>1. LaunchListsFirst /\ RowsInOrder /\ quit = "no"
  BY DEF Orderly, LaunchListsFirst
<1>2. ASSUME UNCHANGED <<state, asset, run, resumer>>, locked' => "lock" \in Events
      PROVE  RowsInOrder'
  BY <1>1, <1>2 DEF RowsInOrder, FailsWhatIsGone, LockedOutOfNothing, FailedLackAudio,
     ListedWasQueued, ReadIsTrue, NeedsAudio, HasRow
<1>3. locked => "lock" \in Events
  BY <1>1 DEF RowsInOrder, LockedOutOfNothing
<1>4. ASSUME UNCHANGED <<state, run, op, aside, saved, exports, waiting, forStore, resumer,
                         launch, quit, owed>>
      PROVE  LaunchListsFirst'
  BY <1>1, <1>4 DEF LaunchListsFirst, Untouched, Free
<1>5. ASSUME NEW t \in aside, SetAsideForStore(t) PROVE Orderly'
  <2>1. UNCHANGED <<state, asset, run, resumer, launch, quit, owed, locked>>
    BY <1>5 DEF SetAsideForStore
  <2>2. Listed
    BY <1>1, UnderWayIsListed
  <2> QED BY <1>1, <1>2, <1>3, <2>1, <2>2, ListedIsKept DEF Orderly
<1>6. CASE RetryWakes \/ DropHold \/ TakeHold \/ InstallModels \/ RemoveModels \/ Reload
  <2>1. UNCHANGED <<state, asset, run, op, aside, saved, exports, waiting, forStore, resumer,
                    launch, quit, owed, locked>>
    BY <1>6 DEF RetryWakes, DropHold, TakeHold, InstallModels, RemoveModels, Reload, waits
  <2> QED BY <1>2, <1>3, <1>4, <2>1 DEF Orderly
<1>7. CASE RedeliverUnfinished
  <2>1. /\ launch = "exports" /\ launch' = "done"
        /\ UNCHANGED <<state, asset, run, resumer, quit, owed, locked>>
    BY <1>7 DEF RedeliverUnfinished, waits
  <2>2. LaunchListsFirst'
    BY <1>1, <2>1 DEF LaunchListsFirst, Free
  <2> QED BY <1>2, <1>3, <2>1, <2>2 DEF Orderly
<1>8. CASE QuitLists \/ QuitSaved \/ Exit \/ QuitLatches \/ Crash
  BY <1>1, <1>8 DEF QuitLists, QuitSaved, Exit, QuitLatches, Crash, Event, FindsOrder
<1>9. CASE Lock \/ Unlock
  <2>1. /\ locked' => "lock" \in Events
        /\ UNCHANGED <<state, asset, run, op, aside, saved, exports, waiting, forStore,
                       resumer, launch, quit, owed>>
    BY <1>9 DEF Lock, Unlock, Event, waits
  <2> QED BY <1>2, <1>4, <2>1 DEF Orderly
<1>10. CASE UNCHANGED vars
  <2>1. UNCHANGED <<state, asset, run, op, aside, saved, exports, waiting, forStore, resumer,
                    launch, quit, owed, locked>>
    BY <1>10 DEF vars, waits
  <2> QED BY <1>2, <1>3, <1>4, <2>1 DEF Orderly
<1> QED BY <1>5, <1>6, <1>7, <1>8, <1>9, <1>10

\* Where the app finds what FindsOrder says, missing models, a busy store, a
\* reload, an update's hold and whatever the user asks for fail no meeting that
\* has its audio (resume_among, park, park_for_store, process_held).
THEOREM OnlyForCause == Spec => []FailedOnlyForCause
<1>1. FindsOrder /\ Init => Orderly
  <2> SUFFICES ASSUME FindsOrder, Init PROVE Orderly
    OBVIOUS
  <2>1. PICK found \in [Meetings -> InitialRows] :
          /\ state = [m \in Meetings |-> found[m].state]
          /\ asset = [m \in Meetings |-> found[m].asset]
    BY DEF Init
  <2>2. \A m \in Meetings :
          /\ state[m] # "processing" /\ (state[m] = "failed" => ~asset[m])
          /\ "lock" \in Events => (state[m] = "queued" => asset[m])
    BY <2>1 DEF FindsOrder
  <2>3. LaunchListsFirst
    BY <2>2 DEF Init, LaunchListsFirst, Untouched, Free, NoRun, NoOp, NoResumer
  <2>4. RowsInOrder
    BY <2>2 DEF Init, RowsInOrder, FailsWhatIsGone, LockedOutOfNothing, FailedLackAudio,
       ListedWasQueued, ReadIsTrue, NeedsAudio, NoRun, NoResumer, AdmittedPcs
  <2> QED BY <2>3, <2>4 DEF Orderly
<1>2. TypeOK /\ Marks /\ AtListed /\ (FindsOrder => Orderly) /\ [Next]_vars
        => (FindsOrder => Orderly)'
  BY RunOrder, OpOrder, CallOrder, ResumeOrder, WorldOrder
     DEF Next, Request, World, Idle, FindsOrder
<1>3. (FindsOrder => Orderly) => FailedOnlyForCause
  BY DEF Orderly, RowsInOrder, FailedLackAudio, FailedOnlyForCause
<1>4. Init => (FindsOrder => Orderly)
  BY <1>1
<1> QED BY <1>2, <1>3, <1>4, AtAlways, PTL DEF Spec

-----------------------------------------------------------------------------
(* No meeting is skipped.                                                   *)

\* Recordings come and are finished, and nothing else works on them: no
\* re-processing, re-export or summary re-run is asked for, no stage faults,
\* nothing is deleted, and the app is in use only after its launch.  Where the
\* store may be locked, the process goes on and finds nothing half done.
QueuesOnly ==
  /\ {"delete", "fault", "redeliver", "rerun", "reprocess"} \cap Events = {} /\ ~KeyringAsks
  /\ "lock" \in Events =>
       /\ {"quit", "crash"} \cap Events = {}
       /\ \A row \in InitialRows : row.state # "processing" /\ (row.state = "queued" => row.asset)

Unfinished(m) == state[m] \in {"queued", "processing"}

\* Nothing but the threads in `T` has anything in hand.
Quiet(T) ==
  /\ \A m \in Meetings : run[m].pc = "none" /\ op[m].pc = "none"
  /\ aside = {} /\ saved = {} /\ exports = {} /\ waiting = {} /\ forStore = {}
  /\ \A r \in Threads \ T : Free(r)

\* The launch's resume comes first and is the only one that asks for all; no
\* resume finds a meeting held.
LaunchIsFirst ==
  /\ owed = FALSE
  /\ launch = "due" => Quiet({})
  /\ \A r \in Threads :
       /\ Free(r) => resumer[r] = NoResumer
       /\ resumer[r].busy = {}
       /\ resumer[r].pc = "listing" => resumer[r].todo = {}
       /\ resumer[r].all /\ resumer[r].pc = "listing" => launch = "resuming" /\ Quiet({r})

\* Where the store may be locked, the launch's resume finds nothing processing,
\* and no resume has a meeting to fail.
NothingProcessing == \A m \in Meetings : state[m] # "processing"
LaunchFindsQueued ==
  /\ locked => "lock" \in Events
  /\ "lock" \in Events =>
       /\ quit = "no"
       /\ launch = "due" => NothingProcessing
       /\ \A r \in Threads : resumer[r].all =>
            /\ resumer[r].list = NoList
            /\ resumer[r].pc = "listing" => NothingProcessing
       /\ \A r \in Threads : resumer[r].pc # "failing"

\* What a resume has in hand.
Hand(r, m) ==
  \/ resumer[r].pc = "listing" /\ IF resumer[r].all THEN Unfinished(m)
                                                    ELSE m \in resumer[r].among
  \/ resumer[r].pc \in LoopPcs /\ m \in resumer[r].todo

\* The places an unfinished meeting can be in.
Places == {"run", "saved", "models", "store", "aside", "resume"}

IsIn(m, p) ==
  \/ p = "run" /\ m \in claimed
  \/ p = "saved" /\ m \in saved
  \/ p = "models" /\ m \in waiting
  \/ p = "store" /\ m \in forStore
  \/ p = "aside" /\ \E t \in aside : t.meeting = m
  \/ p = "resume" /\ \E r \in Threads : Hand(r, m)

\* It is in one of them, and there once.
OnePlace(m) ==
  /\ \A p, q \in Places : IsIn(m, p) /\ IsIn(m, q) => p = q
  /\ \A t, u \in aside : t.meeting = m /\ u.meeting = m => t = u
  /\ \A r, s \in Threads : Hand(r, m) /\ Hand(s, m) => r = s

EarlyPcs == {"spawned", "reading", "warming", "marking", "transcribing", "summarizing",
             "persisting", "owing", "readying"}

Refused(m) == run[m].why \in {"models", "busy"}

\* What a run's place says of its meeting: a run is refused for the models or
\* the store, or goes on until its meeting is ready or the app quits.
RunFits(m) ==
  /\ run[m].pc = "saving" => state[m] \in {"none", "recording"}
  /\ run[m].pc \notin {"rereading", "requeueing"}
  /\ run[m].pc \in EarlyPcs => Unfinished(m) /\ asset[m]
  /\ run[m].pc = "failing" => Unfinished(m) /\ Refused(m)
  /\ run[m].pc \in {"delivering", "exporting"} => state[m] = "ready"
  /\ run[m].pc \in {"leaving", "dropping"} =>
       IF Refused(m) THEN Unfinished(m) ELSE Quitting \/ ~Unfinished(m)
  /\ run[m].pc \notin {"failing", "leaving", "dropping"} => run[m].why = "none"

\* A meeting waits in a place only while it is unfinished, and then it does; the
\* launch's re-exports are of meetings that are ready and stay so.
Fits(m) ==
  /\ OnePlace(m) /\ RunFits(m)
  /\ \A p \in Places \ {"run"} : IsIn(m, p) => Unfinished(m)
  /\ m \in saved => asset[m]
  /\ "lock" \in Events /\ Unfinished(m) => asset[m]
  /\ m \in exports \/ op[m].pc # "none" => state[m] = "ready"
  /\ ~Quitting /\ Unfinished(m) => launch = "due" \/ \E p \in Places : IsIn(m, p)

InPlace == LaunchIsFirst /\ LaunchFindsQueued /\ \A m \in Meetings : Fits(m)

\* Whatever is under way shows that the launch's list is made.
LEMMA BusyIsListed ==
  ASSUME LaunchIsFirst,
         \/ \E m \in Meetings : run[m].pc # "none" \/ op[m].pc # "none"
         \/ aside # {} \/ saved # {} \/ exports # {} \/ waiting # {} \/ forStore # {}
         \/ launch \in {"exports", "done"}
  PROVE  Listed
BY DEF LaunchIsFirst, Listed, Quiet

\* A thread in a resume shows the same of all others.
LEMMA OthersAreListed ==
  ASSUME LaunchIsFirst, NEW r \in Threads, ~Free(r)
  PROVE  /\ launch # "due"
         /\ \A s \in Threads \ {r} : ~(resumer[s].all /\ resumer[s].pc = "listing")
BY DEF LaunchIsFirst, Quiet

\* Once it is made, the launch's order is a matter of resumes and exits.
LEMMA LaunchIsKept ==
  ASSUME LaunchIsFirst, LaunchFindsQueued, Listed, launch' # "due",
         UNCHANGED <<resumer, owed, quit, locked>>
  PROVE  LaunchIsFirst' /\ LaunchFindsQueued'
BY DEF LaunchIsFirst, LaunchFindsQueued, Listed, Free

\* A thread's next state, when the launch's list is made but for its own.
LEMMA ThreadIsKept ==
  ASSUME TypeOK, LaunchIsFirst, LaunchFindsQueued, NEW r \in Threads,
         \A s \in Threads \ {r} :
           resumer'[s] = resumer[s] /\ ~(resumer[s].all /\ resumer[s].pc = "listing"),
         Free(r)' => resumer'[r] = NoResumer,
         resumer'[r].busy = {}, resumer'[r].pc = "listing" => resumer'[r].todo = {},
         ~(resumer'[r].all /\ resumer'[r].pc = "listing"),
         "lock" \in Events => (resumer'[r].all => resumer'[r].list = NoList),
         "lock" \in Events => resumer'[r].pc # "failing",
         launch' # "due", UNCHANGED <<owed, quit, locked>>
  PROVE  LaunchIsFirst' /\ LaunchFindsQueued'
BY DEF LaunchIsFirst, LaunchFindsQueued, Free

\* The step leaves the meeting's rows alone, but for one that waits again.
StaysAs(n) == state'[n] = state[n] \/ (state[n] = "processing" /\ state'[n] = "queued")

\* The step leaves the meeting's rows, marks and places alone.
Same(n) ==
  /\ StaysAs(n) /\ asset'[n] = asset[n] /\ run'[n] = run[n]
  /\ op'[n].pc # "none" => op[n].pc # "none" \/ n \in exports
  /\ n \in exports' => n \in exports \/ state[n] = "ready"
  /\ n \in claimed' <=> n \in claimed
  /\ n \in saved' <=> n \in saved
  /\ n \in waiting' <=> n \in waiting
  /\ n \in forStore' <=> n \in forStore
  /\ \A t \in aside' : t.meeting = n => t \in aside
  /\ \A t \in aside : t.meeting = n => t \in aside'
  /\ \A r \in Threads : Hand(r, n)' <=> Hand(r, n)

\* A meeting that is left alone stays in its place.
LEMMA SameFits ==
  ASSUME NEW n \in Meetings, Fits(n), Same(n),
         Quitting => Quitting', launch = "due" => launch' = "due" \/ Quitting'
  PROVE  Fits(n)'
<1>1. Unfinished(n)' <=> Unfinished(n)
  BY DEF Same, StaysAs, Unfinished
<1>2. \A p \in Places : IsIn(n, p)' <=> IsIn(n, p)
  <2> SUFFICES ASSUME NEW p \in Places PROVE IsIn(n, p)' <=> IsIn(n, p)
    OBVIOUS
  <2>1. (\E t \in aside' : t.meeting = n) <=> (\E t \in aside : t.meeting = n)
    BY DEF Same
  <2>2. (\E r \in Threads : Hand(r, n)') <=> (\E r \in Threads : Hand(r, n))
    BY DEF Same
  <2> QED BY <2>1, <2>2 DEF IsIn, Same
<1>3. OnePlace(n)'
  BY <1>2 DEF Fits, OnePlace, Same
<1>4. RunFits(n)'
  BY <1>1 DEF Fits, RunFits, Refused, Same, StaysAs, Unfinished
<1> QED BY <1>1, <1>2, <1>3, <1>4 DEF Fits, Same, StaysAs

\* A hand changes only with its thread or with the meeting's state.
LEMMA SameHand ==
  ASSUME NEW r \in Threads, NEW n \in Meetings, resumer'[r] = resumer[r],
         StaysAs(n) \/ ~(resumer[r].all /\ resumer[r].pc = "listing")
  PROVE  Hand(r, n)' <=> Hand(r, n)
BY DEF Hand, Unfinished, StaysAs

\* A meeting with a run is nowhere else, one that is in no hand and waits
\* nowhere may be finished, and one that is finished is in no place but a run.
LEMMA InARun ==
  ASSUME NEW m \in Meetings, Fits(m), m \in claimed \/ ~Unfinished(m)
  PROVE  /\ m \notin saved \cup waiting \cup forStore
         /\ \A t \in aside : t.meeting # m
         /\ \A r \in Threads : ~Hand(r, m)
<1>1. \A p \in Places \ {"run"} : ~IsIn(m, p)
  BY DEF Fits, OnePlace, IsIn, Places
<1> QED BY <1>1 DEF IsIn, Places

\* An unfinished meeting is exported by nobody, so only its run can hold it.
LEMMA NotExported ==
  ASSUME Marks, NEW m \in Meetings, Fits(m), Unfinished(m)
  PROVE  /\ m \notin exports /\ op[m].pc = "none"
         /\ m \in inFlight => run[m].pc \in AdmittedPcs
BY DEF Fits, Unfinished, Marks, OneOperationPerMeeting

\* A run that moves on keeps its meeting's one place.
LEMMA RunMoves ==
  ASSUME TypeOK, Marks, InPlace, NEW m \in Meetings, m \in claimed, Listed,
         UNCHANGED <<claimed, saved, waiting, forStore, aside, resumer, exports, op, launch,
                     quit, owed, asset, locked>>,
         \A n \in Meetings \ {m} : state'[n] = state[n] /\ run'[n] = run[n],
         RunFits(m)', Unfinished(m)' => Unfinished(m),
         state[m] = "ready" => state'[m] = "ready"
  PROVE  InPlace'
<1>1. LaunchIsFirst' /\ LaunchFindsQueued'
  BY LaunchIsKept DEF InPlace, Listed
<1>2. \A n \in Meetings, r \in Threads : Hand(r, n)' <=> Hand(r, n)
  BY SameHand DEF Listed, StaysAs
<1>3. ASSUME NEW n \in Meetings \ {m} PROVE Fits(n)'
  <2>1. Same(n)
    BY <1>2, <1>3 DEF Same, StaysAs
  <2> QED BY <2>1, SameFits DEF InPlace, Quitting
<1>4. Fits(m)'
  <2>1. Fits(m)
    BY DEF InPlace
  <2>2. /\ m \notin saved \cup waiting \cup forStore
        /\ \A t \in aside : t.meeting # m
        /\ \A r \in Threads : ~Hand(r, m)
    BY <2>1, InARun
  <2>3. \A r \in Threads : ~Hand(r, m)'
    BY <1>2, <2>2
  <2>4. \A p \in Places : IsIn(m, p)' <=> p = "run"
    BY <2>2, <2>3 DEF IsIn, Places
  <2>5. OnePlace(m)'
    BY <2>2, <2>3, <2>4 DEF OnePlace
  <2>6. "run" \in Places
    BY DEF Places
  <2> QED BY <2>1, <2>2, <2>4, <2>5, <2>6 DEF Fits
<1> QED BY <1>1, <1>3, <1>4 DEF InPlace

\* A claimed meeting with a run has the row the run needs (process, start).
LEMMA ClaimedRuns ==
  ASSUME Marks, NEW m \in Meetings
  PROVE  m \in claimed <=> run[m].pc # "none"
BY DEF Marks, OneOperationPerMeeting

\* A step of a run leaves its meeting in the run, or hands it to a wait when it
\* drops its claim (process_held, set_aside).
LEMMA RunPlaces ==
  ASSUME TypeOK, Marks, InPlace, QueuesOnly, NEW m \in Meetings, RunStep(m) \/ RunFaults(m)
  PROVE  InPlace'
<1> USE DEF rows, marks, tasks, callers, exit, outside
<1>1. /\ run \in [Meetings -> RunType] /\ state \in [Meetings -> States]
  BY DEF TypeOK
<1>2. run[m].pc # "none"
  BY DEF RunStep, RunFaults, RunBegin, RunAdmit, RunWarmUp, RunMark, RunMerge, RunSummarize,
     RunWrites, RunPersist, RunOwe, RunReady, RunDeliver, RunExport, RunMissesModels,
     RunMeetsLock, RunMissesRow, RunHandlesFailure, RunLeave, RunDrop, At, WritingPcs
<1>3. m \in claimed /\ Listed
  BY <1>2, ClaimedRuns, BusyIsListed DEF InPlace
<1>4. UNCHANGED <<saved, waiting, forStore, resumer, exports, op, launch, quit, owed, asset,
                  locked>>
  BY DEF RunStep, RunFaults, RunBegin, RunAdmit, RunWarmUp, RunMark, RunMerge, RunSummarize,
     RunWrites, RunPersist, RunOwe, RunReady, RunDeliver, RunExport, RunMissesModels,
     RunMeetsLock, RunMissesRow, RunHandlesFailure, RunLeave, RunDrop, FailsWith, waits
<1>5. \A n \in Meetings \ {m} : state'[n] = state[n] /\ run'[n] = run[n]
  BY <1>1 DEF RunStep, RunFaults, RunBegin, RunAdmit, RunWarmUp, RunMark, RunMerge,
     RunSummarize, RunWrites, RunPersist, RunOwe, RunReady, RunDeliver, RunExport,
     RunMissesModels, RunMeetsLock, RunMissesRow, RunHandlesFailure, RunLeave, RunDrop,
     FailsWith, Goto, BestEffort
<1>6. Fits(m) /\ RunFits(m)
  BY DEF InPlace, Fits
<1>7. ASSUME UNCHANGED <<claimed, aside>>, RunFits(m)', Unfinished(m)' => Unfinished(m),
             state[m] = "ready" => state'[m] = "ready"
      PROVE  InPlace'
  BY <1>3, <1>4, <1>5, <1>7, RunMoves
<1>8. ASSUME NEW pc \in RunPcs, Goto(m, pc) PROVE run'[m].pc = pc /\ run'[m].why = run[m].why
  BY <1>1, <1>8 DEF Goto, RunType
<1>9. Quitting' <=> Quitting
  BY <1>4 DEF Quitting
<1>10. CASE RunBegin(m)
  <2>1. UNCHANGED <<claimed, aside, state>> /\ run[m].pc = "spawned"
    BY <1>10 DEF RunBegin, At
  <2>2. (Goto(m, "dropping") /\ Quitting) \/ Goto(m, "reading")
    BY <1>10 DEF RunBegin
  <2>3. RunFits(m)'
    BY <1>4, <1>6, <1>8, <1>9, <2>1, <2>2
       DEF RunFits, Refused, Unfinished, EarlyPcs, RunPcs
  <2> QED BY <1>7, <2>1, <2>3 DEF Unfinished
<1>11. CASE RunAdmit(m)
  <2>1. UNCHANGED <<claimed, aside, state>> /\ run[m].pc = "reading"
    BY <1>11 DEF RunAdmit, At
  <2>2. Unfinished(m) /\ asset[m] /\ run[m].why = "none"
    BY <1>6, <2>1 DEF RunFits, EarlyPcs
  <2>3. HasRow(m) /\ m \notin inFlight
    BY <1>6, <2>1, <2>2, NotExported DEF HasRow, Unfinished, AdmittedPcs
  <2>4. run' = [run EXCEPT ![m].pc = "warming", ![m].seen = resumes]
    BY <1>11, <2>2, <2>3 DEF RunAdmit
  <2>5. run'[m].pc = "warming" /\ run'[m].why = "none"
    BY <1>1, <2>2, <2>4 DEF RunType
  <2>6. RunFits(m)'
    BY <1>4, <2>1, <2>2, <2>5 DEF RunFits, Refused, Unfinished, EarlyPcs
  <2> QED BY <1>7, <2>1, <2>6 DEF Unfinished
<1>12. CASE RunWarmUp(m)
  <2>1. UNCHANGED <<claimed, aside, state>> /\ run[m].pc = "warming"
    BY <1>12 DEF RunWarmUp, At
  <2>2. (Goto(m, "leaving") /\ Quitting) \/ Goto(m, "marking")
    BY <1>12 DEF RunWarmUp
  <2>3. RunFits(m)'
    BY <1>4, <1>6, <1>8, <1>9, <2>1, <2>2
       DEF RunFits, Refused, Unfinished, EarlyPcs, RunPcs
  <2> QED BY <1>7, <2>1, <2>3 DEF Unfinished
<1>13. CASE RunMark(m) \/ RunMerge(m) \/ RunSummarize(m)
  <2>1. /\ UNCHANGED <<claimed, aside>>
        /\ run[m].pc \in {"marking", "transcribing", "summarizing"}
        /\ \E pc \in {"transcribing", "summarizing", "persisting"} : Goto(m, pc)
        /\ state' = [state EXCEPT ![m] = "processing"]
    BY <1>13 DEF RunMark, RunMerge, RunSummarize, RunWrites, At
  <2>2. Unfinished(m) /\ asset[m] /\ run[m].why = "none" /\ state'[m] = "processing"
    BY <1>1, <1>6, <2>1 DEF RunFits, EarlyPcs
  <2>3. RunFits(m)'
    BY <1>4, <1>8, <2>1, <2>2 DEF RunFits, Refused, Unfinished, EarlyPcs, RunPcs
  <2> QED BY <1>7, <2>1, <2>2, <2>3 DEF Unfinished
<1>14. CASE RunPersist(m) \/ RunOwe(m)
  <2>1. /\ UNCHANGED <<claimed, aside, state>> /\ run[m].pc \in {"persisting", "owing"}
        /\ \E pc \in {"owing", "readying"} : Goto(m, pc)
    BY <1>14 DEF RunPersist, RunOwe, At
  <2>2. RunFits(m)'
    BY <1>4, <1>6, <1>8, <2>1 DEF RunFits, Refused, Unfinished, EarlyPcs, RunPcs
  <2> QED BY <1>7, <2>1, <2>2 DEF Unfinished
<1>15. CASE RunReady(m)
  <2>1. /\ UNCHANGED <<claimed, aside>> /\ run[m].pc = "readying"
        /\ Goto(m, "delivering") /\ state'[m] = "ready"
    BY <1>1, <1>15 DEF RunReady, At
  <2>2. RunFits(m)'
    BY <1>4, <1>6, <1>8, <2>1 DEF RunFits, Refused, Unfinished, EarlyPcs, RunPcs
  <2> QED BY <1>7, <2>1, <2>2 DEF Unfinished
<1>16. CASE RunDeliver(m) \/ RunExport(m)
  <2>1. /\ UNCHANGED <<claimed, aside, state>> /\ run[m].pc \in {"delivering", "exporting"}
        /\ \E pc \in {"exporting", "leaving"} : Goto(m, pc)
    BY <1>16 DEF RunDeliver, RunExport, At
  <2>2. RunFits(m)'
    BY <1>4, <1>6, <1>8, <2>1 DEF RunFits, Refused, Unfinished, EarlyPcs, RunPcs
  <2> QED BY <1>7, <2>1, <2>2 DEF Unfinished
<1>17. CASE RunMissesModels(m) \/ RunMeetsLock(m) \/ RunMissesRow(m) \/ RunFaults(m)
  <2>1. run[m].pc \in EarlyPcs
    BY <1>17 DEF RunMissesModels, RunMeetsLock, RunMissesRow, RunFaults, WritingPcs, EarlyPcs
  <2>2. Unfinished(m) /\ asset[m] /\ run[m].why = "none"
    BY <1>6, <2>1 DEF RunFits, EarlyPcs
  <2>3. PICK why \in {"models", "busy"} : FailsWith(m, why)
    BY <1>17, <2>2 DEF RunMissesModels, RunMeetsLock, RunMissesRow, RunFaults, Event,
       QueuesOnly, HasRow,
       Unfinished
  <2>4. UNCHANGED <<claimed, aside, state>>
    BY <2>3 DEF FailsWith
  <2>5. \/ Quitting /\ run'[m].pc = "leaving" /\ run'[m].why = "none"
        \/ run'[m].pc = "failing" /\ run'[m].why = why
    <3>1. CASE Quitting
      BY <1>8, <2>2, <2>3, <3>1 DEF FailsWith, RunPcs
    <3>2. CASE ~Quitting
      BY <1>1, <2>3, <3>2 DEF FailsWith, RunType
    <3> QED BY <3>1, <3>2
  <2>6. RunFits(m)'
    BY <1>4, <1>9, <2>2, <2>4, <2>5 DEF RunFits, Refused, Unfinished, EarlyPcs
  <2> QED BY <1>7, <2>4, <2>6 DEF Unfinished
<1>18. CASE RunHandlesFailure(m)
  <2>1. UNCHANGED <<claimed, aside>> /\ run[m].pc = "failing"
    BY <1>18 DEF RunHandlesFailure, At
  <2>2. Unfinished(m) /\ run[m].why \in {"models", "busy"}
    BY <1>6, <2>1 DEF RunFits, Refused
  <2>3. Goto(m, "leaving") /\ (state'[m] = state[m] \/ state'[m] = "queued")
    BY <1>1, <1>18, <2>2 DEF RunHandlesFailure, BestEffort, Unfinished
  <2>4. RunFits(m)'
    BY <1>8, <2>2, <2>3 DEF RunFits, Refused, Unfinished, EarlyPcs, RunPcs
  <2> QED BY <1>7, <2>1, <2>2, <2>3, <2>4 DEF Unfinished
<1>19. CASE RunLeave(m)
  <2>1. UNCHANGED <<claimed, aside, state>> /\ run[m].pc = "leaving" /\ Goto(m, "dropping")
    BY <1>19 DEF RunLeave, At
  <2>2. RunFits(m)'
    BY <1>4, <1>6, <1>8, <1>9, <2>1 DEF RunFits, Refused, Unfinished, EarlyPcs, RunPcs
  <2> QED BY <1>7, <2>1, <2>2 DEF Unfinished
<1>20. CASE RunDrop(m)
  <2> DEFINE t == [meeting |-> m, awaits |-> IF run[m].why = "models" THEN "models" ELSE "store",
                   seen |-> run[m].seen]
  <2>1. /\ run[m].pc = "dropping" /\ claimed' = claimed \ {m} /\ UNCHANGED state
        /\ aside' = IF Refused(m) THEN aside \cup {t} ELSE aside
    BY <1>20 DEF RunDrop, At, Refused
  <2>2. run'[m].pc = "none" /\ run'[m].why = "none"
    BY <1>1, <1>20 DEF RunDrop, NoRun
  <2>3. t.meeting = m
    OBVIOUS
  <2> HIDE DEF t
  <2>4. LaunchIsFirst' /\ LaunchFindsQueued'
    BY <1>3, <1>4, LaunchIsKept DEF InPlace, Listed
  <2>5. \A n \in Meetings, r \in Threads : Hand(r, n)' <=> Hand(r, n)
    BY <1>4, <2>1, SameHand DEF StaysAs
  <2>6. ASSUME NEW n \in Meetings \ {m} PROVE Fits(n)'
    <3>1. \A u \in aside' : u.meeting = n => u \in aside
      BY <2>1, <2>3, <2>6
    <3>2. \A u \in aside : u \in aside'
      BY <2>1
    <3>3. asset'[n] = asset[n] /\ (n \in claimed' <=> n \in claimed)
      BY <1>4, <2>1
    <3>4. Same(n)
      BY <1>4, <1>5, <2>5, <2>6, <3>1, <3>2, <3>3 DEF Same, StaysAs
    <3> QED BY <1>4, <1>9, <3>4, SameFits DEF InPlace
  <2>7. Fits(m)'
    <3>1. /\ m \notin saved \cup waiting \cup forStore
          /\ \A u \in aside : u.meeting # m
          /\ \A r \in Threads : ~Hand(r, m)
      BY <1>3, <1>6, InARun
    <3>2. \A r \in Threads : ~Hand(r, m)'
      BY <2>5, <3>1
    <3>3. \A u \in aside' : u.meeting = m => u = t /\ Refused(m)
      BY <2>1, <3>1
    <3>4. Refused(m) => t \in aside'
      BY <2>1
    <3>5. \A p \in Places : IsIn(m, p)' <=> p = "aside" /\ Refused(m)
      BY <1>4, <2>1, <2>3, <3>1, <3>2, <3>3, <3>4 DEF IsIn, Places
    <3>6. OnePlace(m)'
      BY <3>2, <3>3, <3>5 DEF OnePlace
    <3>7. RunFits(m)'
      BY <2>2 DEF RunFits, EarlyPcs
    <3>8. Unfinished(m)' <=> Unfinished(m)
      BY <2>1 DEF Unfinished
    <3>9. (Refused(m) => Unfinished(m)) /\ (~Refused(m) => Quitting \/ ~Unfinished(m))
      BY <1>6, <2>1 DEF RunFits
    <3>10. "aside" \in Places
      BY DEF Places
    <3>11. /\ \A p \in Places \ {"run"} : IsIn(m, p)' => Unfinished(m)'
           /\ ~Quitting' /\ Unfinished(m)' => \E p \in Places : IsIn(m, p)'
      BY <1>9, <3>5, <3>8, <3>9, <3>10
    <3>12. m \notin saved' /\ asset' = asset /\ exports' = exports /\ op' = op /\ state' = state
      BY <1>4, <2>1, <3>1
    <3> QED BY <1>6, <3>6, <3>7, <3>8, <3>11, <3>12 DEF Fits
  <2> QED BY <2>4, <2>6, <2>7 DEF InPlace
<1> QED
  BY <1>10, <1>11, <1>12, <1>13, <1>14, <1>15, <1>16, <1>17, <1>18, <1>19, <1>20 DEF RunStep

\* Other operations take up only meetings that are ready, and leave them so.
LEMMA OpPlaces ==
  ASSUME TypeOK, InPlace, QueuesOnly, NEW m \in Meetings,
         OpStep(m) \/ (\E k \in {"redeliver", "rerun"} : ClaimOperation(m, k))
  PROVE  InPlace'
<1> USE DEF rows, marks, tasks, callers, exit, outside, waits
<1>1. /\ op \in [Meetings -> OpType] /\ state \in [Meetings -> States]
  BY DEF TypeOK
<1>2. OpStep(m)
  BY DEF ClaimOperation, Event, QueuesOnly
<1>3. op[m].pc # "none" \/ m \in exports
  BY <1>2 DEF OpStep, RedeliverAtLaunch, StillOwed, OpBegin, Resummarize, OpMarkPending,
     OpDeliver, OpExport, OpClose, OpAt
<1>4. Listed
  BY <1>3, BusyIsListed DEF InPlace
<1>5. UNCHANGED <<asset, run, claimed, saved, waiting, forStore, aside, resumer, owed, quit,
                  launch, locked>>
  BY <1>2 DEF OpStep, RedeliverAtLaunch, StillOwed, OpBegin, Resummarize, OpMarkPending,
     OpDeliver, OpExport, OpClose
<1>6. exports' \subseteq exports
  BY <1>2 DEF OpStep, RedeliverAtLaunch, StillOwed, OpBegin, Resummarize, OpMarkPending,
     OpDeliver, OpExport, OpClose
<1>7. \A n \in Meetings \ {m} : op'[n] = op[n]
  BY <1>1, <1>2 DEF OpStep, RedeliverAtLaunch, StillOwed, OpBegin, Resummarize, OpMarkPending,
     OpDeliver, OpExport, OpClose, OpGoto, AdmitOp, ReleaseOp
<1>8. state[m] = "ready"
  BY <1>3 DEF InPlace, Fits
<1>9. \A n \in Meetings : state'[n] = state[n]
  BY <1>1, <1>2, <1>8 DEF OpStep, RedeliverAtLaunch, StillOwed, OpBegin, Resummarize,
     OpMarkPending, OpDeliver, OpExport, OpClose
<1>10. \A n \in Meetings, r \in Threads : Hand(r, n)' <=> Hand(r, n)
  BY <1>5, <1>9, SameHand DEF StaysAs
<1>11. ASSUME NEW n \in Meetings PROVE Fits(n)'
  <2>1. Same(n)
    BY <1>3, <1>5, <1>6, <1>7, <1>9, <1>10 DEF Same, StaysAs
  <2> QED BY <1>5, <2>1, SameFits DEF InPlace, Quitting
<1>12. LaunchIsFirst' /\ LaunchFindsQueued'
  BY <1>4, <1>5, LaunchIsKept DEF InPlace, Listed
<1> QED BY <1>11, <1>12 DEF InPlace

\* A meeting that comes in, moves between its saved row and its run, or leaves
\* while it is finished or the app quits.
LEMMA EntryPlaces ==
  ASSUME TypeOK, Marks, InPlace, NEW m \in Meetings, Listed,
         UNCHANGED <<waiting, forStore, aside, resumer, exports, op, launch, quit, owed,
                     locked>>,
         \A n \in Meetings \ {m} :
           /\ state'[n] = state[n] /\ run'[n] = run[n] /\ asset'[n] = asset[n]
           /\ (n \in claimed' <=> n \in claimed) /\ (n \in saved' <=> n \in saved),
         \A p \in Places \ {"run", "saved"} : ~IsIn(m, p),
         m \notin exports, op[m].pc = "none", RunFits(m)',
         ~(m \in claimed' /\ m \in saved'),
         m \in saved' => Unfinished(m)' /\ asset'[m],
         Unfinished(m)' => asset'[m],
         Unfinished(m)' => Quitting \/ m \in claimed' \/ m \in saved'
  PROVE  InPlace'
<1>1. LaunchIsFirst' /\ LaunchFindsQueued'
  BY LaunchIsKept DEF InPlace, Listed
<1>2. \A n \in Meetings, r \in Threads : Hand(r, n)' <=> Hand(r, n)
  BY SameHand DEF Listed, StaysAs
<1>3. ASSUME NEW n \in Meetings \ {m} PROVE Fits(n)'
  <2>1. Same(n)
    BY <1>2, <1>3 DEF Same, StaysAs
  <2> QED BY <2>1, SameFits DEF InPlace, Quitting
<1>4. Fits(m)'
  <2>1. /\ m \notin waiting \cup forStore
        /\ \A t \in aside : t.meeting # m
        /\ \A r \in Threads : ~Hand(r, m)
    BY DEF IsIn, Places
  <2>2. \A r \in Threads : ~Hand(r, m)'
    BY <1>2, <2>1
  <2>3. \A p \in Places : IsIn(m, p)' =>
          (p = "run" /\ m \in claimed') \/ (p = "saved" /\ m \in saved')
    BY <2>1, <2>2 DEF IsIn, Places
  <2>4. (m \in claimed' => IsIn(m, "run")') /\ (m \in saved' => IsIn(m, "saved")')
    BY DEF IsIn
  <2>5. OnePlace(m)'
    BY <2>1, <2>2, <2>3 DEF OnePlace
  <2>6. "run" \in Places /\ "saved" \in Places
    BY DEF Places
  <2> QED BY <2>3, <2>4, <2>5, <2>6 DEF Fits, Quitting
<1> QED BY <1>1, <1>3, <1>4 DEF InPlace

\* Recordings come in through their save and their claim, and quit puts no
\* meeting that is processing anywhere else.
LEMMA CallPlaces ==
  ASSUME TypeOK, Marks, InPlace, QueuesOnly, NEW m \in Meetings,
         \/ CallStep(m) \/ EnqueueClaim(m) \/ SaveQueued(m) \/ ReprocessClaim(m)
         \/ DeleteMeeting(m)
  PROVE  InPlace'
<1> USE DEF rows, marks, tasks, callers, exit, outside, waits
<1>1. /\ run \in [Meetings -> RunType] /\ state \in [Meetings -> States]
      /\ asset \in [Meetings -> BOOLEAN]
  BY DEF TypeOK
<1>2. Fits(m) /\ RunFits(m)
  BY DEF InPlace, Fits
<1>3. m \in claimed <=> run[m].pc # "none"
  BY ClaimedRuns
<1>4. run[m].pc # "none" \/ saved # {} \/ launch \in {"exports", "done"} => Listed
  BY BusyIsListed DEF InPlace
<1>5. ~ReprocessClaim(m) /\ ~DeleteMeeting(m) /\ ~ReprocessReads(m) /\ ~ReprocessSave(m)
  BY <1>2 DEF ReprocessClaim, DeleteMeeting, ReprocessReads, ReprocessSave, Event, QueuesOnly,
     At, RunFits
<1>7. ASSUME ~Unfinished(m)
      PROVE  /\ \A p \in Places \ {"run"} : ~IsIn(m, p)
             /\ state[m] # "ready" => m \notin exports /\ op[m].pc = "none"
  BY <1>2, <1>7 DEF Fits
<1>8. CASE EnqueueSave(m)
  <2>1. run[m].pc = "saving" /\ state[m] \in {"none", "recording"}
    BY <1>2, <1>8 DEF EnqueueSave, At, RunFits
  <2>2. ~Unfinished(m)
    BY <2>1 DEF Unfinished
  <2>3. UNCHANGED <<saved, waiting, forStore, aside, resumer, exports, op, launch, quit, owed,
                    locked>>
    BY <1>8 DEF EnqueueSave
  <2>4. m \notin saved
    BY <1>7, <2>2 DEF IsIn, Places
  <2>5. \A n \in Meetings \ {m} :
          /\ state'[n] = state[n] /\ run'[n] = run[n] /\ asset'[n] = asset[n]
          /\ (n \in claimed' <=> n \in claimed)
    BY <1>1, <1>8 DEF EnqueueSave, Start, DropClaim
  <2>6. \/ state'[m] = "queued" /\ asset'[m] /\ Start(m)
        \/ state'[m] = state[m] /\ asset'[m] = asset[m] /\ DropClaim(m)
    BY <1>1, <1>8 DEF EnqueueSave
  <2>7. /\ run'[m].why = "none"
        /\ IF m \in claimed' THEN run'[m].pc = "spawned" /\ state'[m] = "queued" /\ asset'[m]
                             ELSE run'[m].pc = "none"
        /\ Unfinished(m)' => asset'[m] /\ (Quitting \/ m \in claimed')
    BY <1>1, <2>2, <2>6 DEF Start, DropClaim, NoRun, Unfinished
  <2>8. RunFits(m)'
    BY <2>7 DEF RunFits, EarlyPcs, Unfinished
  <2> QED BY <1>3, <1>4, <1>7, <2>1, <2>2, <2>3, <2>4, <2>5, <2>7, <2>8, EntryPlaces
<1>9. CASE EnqueueSaved(m)
  <2>1. m \in saved /\ saved' = saved \ {m}
    BY <1>9 DEF EnqueueSaved
  <2>2. Unfinished(m) /\ asset[m] /\ \A p \in Places \ {"saved"} : ~IsIn(m, p)
    BY <1>2, <2>1 DEF Fits, OnePlace, IsIn, Places
  <2>3. m \notin claimed /\ m \notin exports /\ op[m].pc = "none" /\ m \notin inFlight
    BY <1>2, <1>3, <2>2, NotExported DEF IsIn, Places, AdmittedPcs
  <2>4. Start(m) /\ UNCHANGED <<state, asset>>
    BY <1>9, <2>3 DEF EnqueueSaved, ClaimFree
  <2>5. UNCHANGED <<waiting, forStore, aside, resumer, exports, op, launch, quit, owed,
                    locked>>
    BY <1>9 DEF EnqueueSaved
  <2>6. \A n \in Meetings \ {m} : run'[n] = run[n] /\ (n \in claimed' <=> n \in claimed)
    BY <1>1, <2>4 DEF Start
  <2>7. /\ run'[m].why = "none"
        /\ IF m \in claimed' THEN run'[m].pc = "spawned" ELSE run'[m].pc = "none"
        /\ Quitting \/ m \in claimed'
    BY <1>1, <2>4 DEF Start, NoRun
  <2>8. RunFits(m)'
    BY <2>2, <2>4, <2>7 DEF RunFits, EarlyPcs, Unfinished
  <2> QED BY <1>4, <2>1, <2>2, <2>3, <2>4, <2>5, <2>6, <2>7, <2>8, EntryPlaces DEF Unfinished
<1>10. CASE EnqueueClaim(m)
  <2>1. /\ state[m] \in {"none", "recording"} /\ ~Unfinished(m) /\ Listed
        /\ claimed' = claimed \cup {m}
    BY <1>4, <1>10 DEF EnqueueClaim, Unfinished, InUse, QueuesOnly
  <2>2. UNCHANGED <<state, asset, saved, waiting, forStore, aside, resumer, exports, op,
                    launch, quit, owed, locked>>
    BY <1>10 DEF EnqueueClaim
  <2>3. /\ \A n \in Meetings \ {m} : run'[n] = run[n]
        /\ run'[m].pc = "saving" /\ run'[m].why = "none"
    BY <1>1, <1>10 DEF EnqueueClaim, NoRun
  <2>4. RunFits(m)'
    BY <2>1, <2>2, <2>3 DEF RunFits, EarlyPcs
  <2>5. m \notin saved
    BY <1>7, <2>1 DEF IsIn, Places
  <2> QED BY <1>7, <2>1, <2>2, <2>3, <2>4, <2>5, EntryPlaces DEF Unfinished
<1>11. CASE SaveQueued(m)
  <2>1. /\ state[m] = "none" /\ ~Unfinished(m) /\ Listed /\ m \notin claimed
        /\ saved' = saved \cup {m} /\ state'[m] = "queued" /\ asset'[m]
    BY <1>1, <1>4, <1>11 DEF SaveQueued, Unfinished, InUse, QueuesOnly
  <2>2. UNCHANGED <<run, claimed, waiting, forStore, aside, resumer, exports, op,
                    launch, quit, owed, locked>>
    BY <1>11 DEF SaveQueued
  <2>3. \A n \in Meetings \ {m} : state'[n] = state[n] /\ asset'[n] = asset[n]
    BY <1>1, <1>11 DEF SaveQueued
  <2>4. run'[m].pc = "none" /\ run'[m].why = "none"
    BY <1>2, <1>3, <2>1, <2>2 DEF RunFits
  <2>5. RunFits(m)'
    BY <2>4 DEF RunFits, EarlyPcs
  <2> QED BY <1>7, <2>1, <2>2, <2>3, <2>5, EntryPlaces DEF Unfinished
<1>12. CASE QuitSaves(m)
  <2>1. Quitting /\ "lock" \notin Events
    BY <1>12 DEF QuitSaves, Quitting, InPlace, LaunchFindsQueued
  <2>2. UNCHANGED <<asset, run, op, claimed, saved, waiting, forStore, aside, exports, launch,
                    resumer, owed, quit, locked>>
    BY <1>12 DEF QuitSaves
  <2>3. \A n \in Meetings : StaysAs(n)
    BY <1>1, <1>12 DEF QuitSaves, BestEffort, StaysAs
  <2>4. \A n \in Meetings, r \in Threads : Hand(r, n)' <=> Hand(r, n)
    BY <2>2, <2>3, SameHand
  <2>5. ASSUME NEW n \in Meetings PROVE Fits(n)'
    <3>1. Same(n)
      BY <2>2, <2>3, <2>4 DEF Same
    <3> QED BY <2>2, <3>1, SameFits DEF InPlace, Quitting
  <2>6. LaunchIsFirst' /\ LaunchFindsQueued'
    BY <2>1, <2>2 DEF InPlace, LaunchIsFirst, LaunchFindsQueued, Quiet, Free
  <2> QED BY <2>5, <2>6 DEF InPlace
<1> QED BY <1>5, <1>8, <1>9, <1>10, <1>11, <1>12 DEF CallStep

\* A meeting that moves from one wait to another, or is dropped at the exit.
LEMMA MovedFits ==
  ASSUME NEW n \in Meetings, Fits(n), Unfinished(n), NEW q \in Places \ {"run", "saved"},
         state'[n] = state[n], asset'[n] = asset[n], run'[n] = run[n], op'[n] = op[n],
         UNCHANGED <<exports, quit>>,
         n \notin saved', \A p \in Places : IsIn(n, p)' => p = q,
         IsIn(n, q)' \/ Quitting,
         \A t, u \in aside' : t.meeting = n /\ u.meeting = n => t = u,
         \A r, s \in Threads : Hand(r, n)' /\ Hand(s, n)' => r = s
  PROVE  Fits(n)'
<1>1. Unfinished(n)' /\ (Quitting' <=> Quitting)
  BY DEF Unfinished, Quitting
<1>2. OnePlace(n)'
  BY DEF OnePlace
<1>3. RunFits(n)'
  BY <1>1 DEF Fits, RunFits, Refused
<1> QED BY <1>1, <1>2, <1>3 DEF Fits

\* A step that touches neither rows nor places.
LEMMA NothingMoves ==
  ASSUME InPlace,
         UNCHANGED <<state, asset, run, op, claimed, saved, waiting, forStore, aside,
                     resumer, owed>>,
         \/ UNCHANGED <<exports, launch>>
         \/ Listed /\ launch' # "due" /\ \A n \in exports' : n \in Meetings /\ state[n] = "ready",
         quit' = quit \/ (Quitting' /\ "lock" \notin Events),
         locked' => "lock" \in Events
  PROVE  InPlace'
<1>1. \A n \in Meetings, r \in Threads : Hand(r, n)' <=> Hand(r, n)
  BY SameHand DEF StaysAs
<1>2. Quitting => Quitting'
  BY DEF Quitting
<1>3. ASSUME NEW n \in Meetings PROVE Fits(n)'
  <2>1. Same(n)
    BY <1>1 DEF Same, StaysAs
  <2> QED BY <1>2, <2>1, SameFits DEF InPlace, Listed
<1>4. LaunchIsFirst'
  BY DEF InPlace, LaunchIsFirst, Quiet, Free, Listed
<1>5. LaunchFindsQueued'
  BY DEF InPlace, LaunchFindsQueued, NothingProcessing, Listed
<1> QED BY <1>3, <1>4, <1>5 DEF InPlace

\* The exit, the hold, the models, the lock and the launch's re-exports.
LEMMA WorldPlaces ==
  ASSUME TypeOK, Marks, InPlace, QueuesOnly,
         \/ RetryWakes \/ RedeliverUnfinished \/ QuitLatches \/ QuitLists \/ QuitSaved
         \/ Exit \/ Crash \/ TakeHold \/ DropHold \/ RemoveModels \/ InstallModels \/ Reload
         \/ Lock \/ Unlock \/ UNCHANGED vars
  PROVE  InPlace'
<1> USE DEF rows, marks, tasks, callers, exit, outside, waits
<1>1. locked => "lock" \in Events
  BY DEF InPlace, LaunchFindsQueued
<1>2. CASE \/ RetryWakes \/ QuitLists \/ QuitSaved \/ TakeHold \/ DropHold \/ RemoveModels
           \/ InstallModels \/ Reload \/ Lock \/ Unlock \/ UNCHANGED vars
  <2>1. /\ UNCHANGED <<state, asset, run, op, claimed, saved, waiting, forStore, aside,
                       resumer, owed, exports, launch>>
        /\ locked' => locked \/ "lock" \in Events
    BY <1>2 DEF RetryWakes, QuitLists, QuitSaved, TakeHold, DropHold, RemoveModels,
       InstallModels, Reload, Lock, Unlock, Event, vars
  <2>2. quit' = quit \/ (Quitting /\ Quitting')
    BY <1>2 DEF RetryWakes, QuitLists, QuitSaved, TakeHold, DropHold, RemoveModels,
       InstallModels, Reload, Lock, Unlock, vars, Quitting
  <2>3. Quitting => "lock" \notin Events
    BY DEF InPlace, LaunchFindsQueued, Quitting
  <2> QED BY <1>1, <2>1, <2>2, <2>3, NothingMoves
<1>3. CASE QuitLatches
  <2>1. /\ UNCHANGED <<state, asset, run, op, claimed, saved, waiting, forStore, aside,
                       resumer, owed, exports, launch, locked>>
        /\ Quitting' /\ "quit" \in Events
    BY <1>3 DEF QuitLatches, Event, Quitting
  <2>2. "lock" \notin Events
    BY <2>1 DEF QueuesOnly
  <2> QED BY <1>1, <2>1, <2>2, NothingMoves
<1>4. CASE RedeliverUnfinished
  <2>1. /\ UNCHANGED <<state, asset, run, op, claimed, saved, waiting, forStore, aside,
                       resumer, owed, quit, locked>>
        /\ launch = "exports" /\ launch' # "due"
    BY <1>4 DEF RedeliverUnfinished
  <2>2. exports' = exports \/ \A n \in exports' : n \in Meetings /\ state[n] = "ready"
    BY <1>4 DEF RedeliverUnfinished
  <2>3. Listed
    BY <2>1, BusyIsListed DEF InPlace
  <2>4. \A n \in exports : n \in Meetings /\ state[n] = "ready"
    BY DEF TypeOK, InPlace, Fits
  <2> QED BY <1>1, <2>1, <2>2, <2>3, <2>4, NothingMoves
<1>5. CASE Exit \/ Crash
  <2>1. "lock" \notin Events
    BY <1>5 DEF Exit, Crash, Event, QueuesOnly, InPlace, LaunchFindsQueued
  <2>2. Relaunch
    BY <1>5 DEF Exit, Crash
  <2>3. LaunchIsFirst'
    BY <2>2 DEF Relaunch, LaunchIsFirst, Quiet, Free, NoRun, NoOp, NoResumer
  <2>4. LaunchFindsQueued'
    BY <1>1, <2>1, <2>2 DEF Relaunch, LaunchFindsQueued
  <2>5. ASSUME NEW n \in Meetings PROVE Fits(n)'
    <3>1. \A r \in Threads : ~Hand(r, n)'
      BY <2>2 DEF Relaunch, Hand, NoResumer
    <3>2. \A p \in Places : ~IsIn(n, p)'
      BY <2>2, <3>1 DEF Relaunch, IsIn, Places
    <3>3. OnePlace(n)'
      BY <2>2, <3>1, <3>2 DEF Relaunch, OnePlace
    <3>4. run'[n].pc = "none" /\ run'[n].why = "none" /\ op'[n].pc = "none"
      BY <2>2 DEF Relaunch, NoRun, NoOp
    <3>5. RunFits(n)'
      BY <3>4 DEF RunFits, EarlyPcs
    <3> QED BY <2>1, <2>2, <3>2, <3>3, <3>4, <3>5 DEF Relaunch, Fits
  <2> QED BY <2>3, <2>4, <2>5 DEF InPlace
<1> QED BY <1>2, <1>3, <1>4, <1>5

\* A thread that takes meetings out of one wait has them in hand.
LEMMA PickedUp ==
  ASSUME TypeOK, InPlace, NEW r \in Threads, Free(r), Listed, NEW T \in SUBSET Meetings,
         NEW w \in {"models", "store", "aside"},
         UNCHANGED <<state, asset, run, op, exports, claimed, saved, launch, owed, quit,
                     locked>>,
         \A s \in Threads \ {r} : resumer'[s] = resumer[s],
         resumer'[r].pc = "listing", ~resumer'[r].all, resumer'[r].among = T,
         resumer'[r].todo = {}, resumer'[r].busy = {},
         \A n \in T : IsIn(n, w) /\ ~IsIn(n, w)',
         w # "models" => waiting' = waiting, w # "store" => forStore' = forStore,
         w # "aside" => aside' = aside, aside' \subseteq aside,
         \A n \in Meetings \ T :
           /\ n \in waiting' <=> n \in waiting
           /\ n \in forStore' <=> n \in forStore
           /\ \A t \in aside : t.meeting = n => t \in aside'
  PROVE  InPlace'
<1>1. LaunchIsFirst' /\ LaunchFindsQueued'
  <2>1. ~Free(r)'
    BY DEF Free
  <2> QED BY <2>1, ThreadIsKept DEF InPlace, Listed
<1>2. \A n \in Meetings : ~Hand(r, n) /\ (Hand(r, n)' <=> n \in T)
  BY DEF Free, Hand, LoopPcs
<1>3. \A n \in Meetings, s \in Threads \ {r} : Hand(s, n)' <=> Hand(s, n)
  BY SameHand DEF StaysAs
<1>4. ASSUME NEW n \in Meetings \ T PROVE Fits(n)'
  <2>1. Same(n)
    BY <1>2, <1>3, <1>4 DEF Same, StaysAs
  <2> QED BY <2>1, SameFits DEF InPlace, Quitting
<1>5. ASSUME NEW n \in T PROVE Fits(n)'
  <2>1. Fits(n) /\ IsIn(n, w) /\ w \in Places /\ w \notin {"run", "saved", "resume"}
    BY <1>5 DEF InPlace, Places
  <2>2. Unfinished(n) /\ \A p \in Places \ {w} : ~IsIn(n, p)
    BY <2>1 DEF Fits, OnePlace
  <2>3. \A s \in Threads : Hand(s, n)' <=> s = r
    <3>1. \A s \in Threads : ~Hand(s, n)
      BY <2>1, <2>2 DEF IsIn, Places
    <3> QED BY <1>2, <1>3, <1>5, <3>1
  <2>4. \A p \in Places : IsIn(n, p)' <=> p = "resume"
    <3>1. /\ n \notin claimed /\ n \notin saved
          /\ w # "models" => n \notin waiting
          /\ w # "store" => n \notin forStore
          /\ w # "aside" => \A t \in aside : t.meeting # n
      BY <2>2 DEF IsIn, Places
    <3>2. ~IsIn(n, w)'
      BY <1>5
    <3>3. n \notin waiting' /\ n \notin forStore' /\ \A t \in aside' : t.meeting # n
      BY <3>1, <3>2 DEF IsIn
    <3> QED BY <2>3, <3>1, <3>3 DEF IsIn, Places
  <2>5. \A t, u \in aside' : t.meeting = n /\ u.meeting = n => t = u
    BY <2>1 DEF Fits, OnePlace
  <2>6. n \notin saved' /\ "resume" \in Places \ {"run", "saved"}
    BY <2>2 DEF IsIn, Places
  <2> QED BY <2>1, <2>2, <2>3, <2>4, <2>5, <2>6, MovedFits
<1> QED BY <1>1, <1>4, <1>5 DEF InPlace

\* The calls that start a resume, and the refusals that are recorded.
LEMMA WaitPlaces ==
  ASSUME TypeOK, Marks, InPlace, QueuesOnly, NEW r \in Threads,
         ResumeUnfinished(r) \/ ResumeWaiting(r) \/ RetryTakes(r)
  PROVE  InPlace'
<1> USE DEF rows, marks, tasks, callers, exit, outside, waits
<1>1. resumer \in [Threads -> ResumerType] /\ (locked => "lock" \in Events) /\ owed = FALSE
  BY DEF TypeOK, InPlace, LaunchFindsQueued, LaunchIsFirst
<1>2. CASE ResumeUnfinished(r)
  <2>1. /\ launch = "due" /\ Quiet({}) /\ launch' # "due"
        /\ UNCHANGED <<state, asset, run, op, exports, claimed, saved, forStore, aside, owed,
                       quit, locked>>
    BY <1>2 DEF ResumeUnfinished, InPlace, LaunchIsFirst
  <2>2. /\ \A s \in Threads : resumer[s] = NoResumer
        /\ waiting = {} /\ forStore = {} /\ aside = {} /\ saved = {} /\ claimed = {}
    BY <2>1, ClaimedRuns DEF Quiet, InPlace, LaunchIsFirst, TypeOK
  <2>3. waiting' = {}
    BY <1>2, <2>2 DEF ResumeUnfinished, CountResume
  <2>4. CASE Quitting
    <3>1. UNCHANGED resumer
      BY <1>2, <2>4 DEF ResumeUnfinished
    <3>2. LaunchIsFirst'
      BY <2>1, <2>2, <3>1 DEF InPlace, LaunchIsFirst, Free, NoResumer
    <3>3. LaunchFindsQueued'
      BY <1>1, <2>1, <2>2, <2>4, <3>1 DEF InPlace, LaunchFindsQueued, Quitting
    <3>4. \A n \in Meetings, s \in Threads : Hand(s, n)' <=> Hand(s, n)
      BY <2>1, <3>1, SameHand DEF StaysAs
    <3>5. ASSUME NEW n \in Meetings PROVE Fits(n)'
      <4>1. Same(n)
        BY <2>1, <2>2, <2>3, <3>4 DEF Same, StaysAs
      <4> QED BY <2>1, <2>4, <4>1, SameFits DEF InPlace, Quitting
    <3> QED BY <3>2, <3>3, <3>5 DEF InPlace
  <2>5. CASE ~Quitting
    <3>1. launch' = "resuming" /\ Resumes(r, "launch", TRUE, {}, {})
      BY <1>2, <2>5 DEF ResumeUnfinished
    <3>2. /\ \A s \in Threads \ {r} : resumer'[s] = NoResumer
          /\ resumer'[r].pc = "listing" /\ resumer'[r].all /\ resumer'[r].todo = {}
          /\ resumer'[r].busy = {} /\ resumer'[r].list = NoList
      BY <1>1, <2>2, <3>1 DEF Resumes, NoResumer
    <3>3. Quiet({r})'
      BY <2>1, <2>3, <3>2 DEF Quiet, Free, NoResumer
    <3>4. LaunchIsFirst'
      <4>1. ~Free(r)' /\ owed' = FALSE /\ launch' = "resuming"
        BY <1>1, <2>1, <3>1, <3>2 DEF Free
      <4>2. /\ NoResumer.pc = "none" /\ NoResumer.busy = {} /\ NoResumer.todo = {}
            /\ ~NoResumer.all
        BY DEF NoResumer
      <4> QED BY <3>2, <3>3, <4>1, <4>2 DEF LaunchIsFirst, Free
    <3>5. "lock" \in Events => quit = "no" /\ NothingProcessing
      BY <2>1 DEF InPlace, LaunchFindsQueued
    <3>6. LaunchFindsQueued'
      BY <1>1, <2>1, <3>2, <3>5 DEF LaunchFindsQueued, NothingProcessing, NoResumer
    <3>7. ASSUME NEW n \in Meetings PROVE Fits(n)'
      <4>1. \A s \in Threads : Hand(s, n)' <=> s = r /\ Unfinished(n)
        BY <2>1, <3>2 DEF Hand, Unfinished, NoResumer
      <4>2. \A p \in Places : IsIn(n, p)' <=> p = "resume" /\ Unfinished(n)
        BY <2>1, <2>2, <2>3, <4>1 DEF IsIn, Places
      <4>3. CASE Unfinished(n)
        BY <2>1, <2>2, <4>1, <4>2, <4>3, MovedFits DEF InPlace, Places
      <4>4. CASE ~Unfinished(n)
        <5>1. OnePlace(n)'
          BY <2>1, <2>2, <4>1, <4>2, <4>4 DEF OnePlace
        <5>2. Fits(n) /\ RunFits(n)
          BY DEF InPlace, Fits
        <5>3. RunFits(n)' /\ ~Unfinished(n)'
          BY <2>1, <4>4, <5>2 DEF RunFits, Refused, Unfinished, Quitting
        <5> QED BY <2>1, <2>2, <4>2, <4>4, <5>1, <5>2, <5>3 DEF Fits
      <4> QED BY <4>3, <4>4
    <3> QED BY <3>4, <3>6, <3>7 DEF InPlace
  <2> QED BY <2>4, <2>5
<1>3. CASE ResumeWaiting(r)
  <2>1. UNCHANGED <<state, asset, run, op, exports, claimed, saved, forStore, aside, owed,
                    launch, quit, locked>>
    BY <1>3 DEF ResumeWaiting
  <2>2. CASE UNCHANGED <<waiting, resumer>>
    BY <1>1, <2>1, <2>2, NothingMoves
  <2>3. CASE ~UNCHANGED <<waiting, resumer>>
    <3>1. waiting' = {} /\ waiting # {} /\ Free(r) /\ Resumes(r, "models", FALSE, waiting, {})
      BY <1>3, <2>3 DEF ResumeWaiting, CountResume
    <3>2. /\ \A s \in Threads \ {r} : resumer'[s] = resumer[s]
          /\ resumer'[r].pc = "listing" /\ ~resumer'[r].all /\ resumer'[r].among = waiting
          /\ resumer'[r].todo = {} /\ resumer'[r].busy = {}
      BY <1>1, <3>1 DEF Resumes, NoResumer
    <3>3. Listed /\ waiting \in SUBSET Meetings
      BY <3>1, BusyIsListed DEF InPlace, TypeOK
    <3>4. \A n \in waiting : IsIn(n, "models") /\ ~IsIn(n, "models")'
      BY <3>1 DEF IsIn
    <3> QED BY <2>1, <3>1, <3>2, <3>3, <3>4, PickedUp
  <2> QED BY <2>2, <2>3
<1>4. CASE RetryTakes(r)
  <2>1. UNCHANGED <<state, asset, run, op, exports, claimed, saved, aside, launch, quit,
                    locked, waiting>> /\ owed' = owed
    BY <1>1, <1>4 DEF RetryTakes
  <2>2. CASE UNCHANGED <<forStore, resumer>>
    BY <1>1, <2>1, <2>2, NothingMoves
  <2>3. CASE ~UNCHANGED <<forStore, resumer>>
    <3>1. forStore' = {} /\ forStore # {} /\ Free(r) /\ Resumes(r, "retry", FALSE, forStore, {})
      BY <1>1, <1>4, <2>3 DEF RetryTakes
    <3>2. /\ \A s \in Threads \ {r} : resumer'[s] = resumer[s]
          /\ resumer'[r].pc = "listing" /\ ~resumer'[r].all /\ resumer'[r].among = forStore
          /\ resumer'[r].todo = {} /\ resumer'[r].busy = {}
      BY <1>1, <3>1 DEF Resumes, NoResumer
    <3>3. Listed /\ forStore \in SUBSET Meetings
      BY <3>1, BusyIsListed DEF InPlace, TypeOK
    <3>4. \A n \in forStore : IsIn(n, "store") /\ ~IsIn(n, "store")'
      BY <3>1 DEF IsIn
    <3> QED BY <2>1, <3>1, <3>2, <3>3, <3>4, PickedUp
  <2> QED BY <2>2, <2>3
<1> QED BY <1>2, <1>3, <1>4

\* A refusal is recorded in one of the two waits, or dropped at the exit.
LEMMA PutAway ==
  ASSUME TypeOK, InPlace, NEW t \in aside, aside' = aside \ {t},
         NEW q \in {"models", "store"},
         UNCHANGED <<state, asset, run, op, exports, claimed, saved, resumer, launch, owed,
                     quit, locked>>,
         waiting \subseteq waiting', forStore \subseteq forStore',
         waiting' \subseteq (IF q = "models" THEN waiting \cup {t.meeting} ELSE waiting),
         forStore' \subseteq (IF q = "store" THEN forStore \cup {t.meeting} ELSE forStore),
         Quitting \/ t.meeting \in waiting' \/ t.meeting \in forStore'
  PROVE  InPlace'
<1> DEFINE m == t.meeting
<1>1. m \in Meetings
  BY DEF TypeOK, Refusals
<1>2. Listed
  BY BusyIsListed DEF InPlace
<1>3. LaunchIsFirst' /\ LaunchFindsQueued'
  BY <1>2, LaunchIsKept DEF InPlace, Listed
<1>4. \A n \in Meetings, r \in Threads : Hand(r, n)' <=> Hand(r, n)
  BY SameHand DEF StaysAs
<1>5. ASSUME NEW n \in Meetings \ {m} PROVE Fits(n)'
  <2>1. Same(n)
    BY <1>4, <1>5 DEF Same, StaysAs
  <2> QED BY <2>1, SameFits DEF InPlace, Quitting
<1>6. Fits(m)'
  <2>1. Fits(m) /\ IsIn(m, "aside")
    BY <1>1 DEF InPlace, IsIn
  <2>2. Unfinished(m) /\ \A p \in Places \ {"aside"} : ~IsIn(m, p)
    BY <2>1 DEF Fits, OnePlace, Places
  <2>3. \A u \in aside' : u.meeting # m
    BY <2>1 DEF Fits, OnePlace
  <2>4. m \notin claimed' /\ m \notin saved' /\ \A r \in Threads : ~Hand(r, m)'
    BY <1>1, <1>4, <2>2 DEF IsIn, Places
  <2>5. m \notin waiting /\ m \notin forStore
    BY <2>2 DEF IsIn, Places
  <2>6. (q # "models" => m \notin waiting') /\ (q # "store" => m \notin forStore')
    BY <2>5
  <2>7. \A p \in Places : IsIn(m, p)' => p = q
    BY <2>3, <2>4, <2>6 DEF IsIn, Places
  <2>8. IsIn(m, q)' \/ Quitting
    BY <2>6 DEF IsIn
  <2>9. q \in Places \ {"run", "saved"}
    BY DEF Places
  <2> HIDE DEF m
  <2> QED BY <1>1, <2>1, <2>2, <2>3, <2>4, <2>7, <2>8, <2>9, MovedFits
<1> QED BY <1>3, <1>5, <1>6 DEF InPlace

\* Both refusals are put away, or their meeting starts again.
LEMMA AsidePlaces ==
  ASSUME TypeOK, InPlace, NEW t \in aside,
         SetAsideForStore(t) \/ (\E r \in Threads : SetAsideForModels(t, r))
  PROVE  InPlace'
<1> USE DEF rows, marks, tasks, callers, exit, outside, waits
<1>1. CASE SetAsideForStore(t)
  <2>1. /\ UNCHANGED <<state, asset, run, op, exports, claimed, saved, resumer, launch, owed,
                       quit, locked, waiting>>
        /\ aside' = aside \ {t}
    BY <1>1 DEF SetAsideForStore
  <2>2. IF Quitting THEN forStore' = forStore ELSE forStore' = forStore \cup {t.meeting}
    BY <1>1 DEF SetAsideForStore, WaitForStore
  <2> QED BY <2>1, <2>2, PutAway
<1>2. ASSUME NEW r \in Threads, SetAsideForModels(t, r) PROVE InPlace'
  <2>1. /\ UNCHANGED <<state, asset, run, op, exports, claimed, saved, launch, owed,
                       quit, locked, forStore>>
        /\ aside' = aside \ {t}
    BY <1>2 DEF SetAsideForModels
  <2>2. CASE /\ UNCHANGED resumer
             /\ \/ waiting' = waiting \cup {t.meeting}
                \/ Quitting /\ waiting' = waiting
    BY <2>1, <2>2, PutAway
  <2>3. CASE Free(r) /\ Resumes(r, "restart", FALSE, {t.meeting}, {}) /\ UNCHANGED waiting
    <3>1. t.meeting \in Meetings /\ resumer \in [Threads -> ResumerType]
      BY DEF TypeOK, Refusals
    <3>2. /\ \A s \in Threads \ {r} : resumer'[s] = resumer[s]
          /\ resumer'[r].pc = "listing" /\ ~resumer'[r].all
          /\ resumer'[r].among = {t.meeting}
          /\ resumer'[r].todo = {} /\ resumer'[r].busy = {}
      BY <2>3, <3>1 DEF Resumes, NoResumer
    <3>3. Listed
      BY BusyIsListed DEF InPlace
    <3>4. IsIn(t.meeting, "aside")
      BY DEF IsIn
    <3>5. \A u \in aside : u.meeting = t.meeting => u = t
      BY <3>1 DEF InPlace, Fits, OnePlace
    <3>6. ~IsIn(t.meeting, "aside")'
      BY <2>1, <3>5 DEF IsIn
    <3>7. \A n \in Meetings \ {t.meeting} : \A u \in aside : u.meeting = n => u \in aside'
      BY <2>1
    <3> QED BY <2>1, <2>3, <3>1, <3>2, <3>3, <3>4, <3>6, <3>7, PickedUp
  <2> QED BY <1>2, <2>2, <2>3 DEF SetAsideForModels
<1> QED BY <1>1, <1>2

\* A resume turns what it was asked for into a list, starts what it lists, and
\* ends with an empty one; it finds no meeting held and meets no error.
LEMMA LoopPlaces ==
  ASSUME TypeOK, Marks, AtListed, InPlace, QueuesOnly, NEW r \in Threads,
         \/ ResumeLists(r) \/ (\E m \in Meetings : ResumeTakes(r, m))
         \/ ResumeEnds(r) \/ ResumeMeetsLock(r) \/ ResumeMissesRow(r) \/ ResumeFaults(r)
  PROVE  InPlace'
<1> USE DEF rows, marks, tasks, callers, exit, outside, waits
<1>1. resumer \in [Threads -> ResumerType] /\ run \in [Meetings -> RunType]
      /\ state \in [Meetings -> States]
  BY DEF TypeOK
<1>2. /\ resumer[r].todo # {} => resumer[r].pc \in LoopPcs
      /\ resumer[r].at \subseteq resumer[r].todo
  BY DEF AtListed
<1>3. ~Free(r)
  <2>1. ASSUME NEW m \in Meetings, ResumeTakes(r, m) PROVE ~Free(r)
    BY <2>1, LoopMoves DEF Free, LoopPcs
  <2> QED
    BY <2>1 DEF ResumeLists, ResumeEnds, ResumeMeetsLock, ResumeMissesRow, ResumeFaults, Free
<1>4. \A m \in Meetings \cap resumer[r].todo : Hand(r, m) /\ Unfinished(m)
  <2>1. \A m \in Meetings \cap resumer[r].todo : Hand(r, m)
    BY <1>2 DEF Hand
  <2>2. \A m \in Meetings : Hand(r, m) => IsIn(m, "resume") /\ "resume" \in Places \ {"run"}
    BY DEF IsIn, Places
  <2> QED BY <2>1, <2>2 DEF InPlace, Fits
<1>5. resumer[r].todo \subseteq Meetings /\ resumer[r].busy = {}
  BY <1>1 DEF ResumerType, InPlace, LaunchIsFirst
<1>6. /\ launch # "due"
      /\ \A s \in Threads \ {r} : ~(resumer[s].all /\ resumer[s].pc = "listing")
  BY <1>3, OthersAreListed DEF InPlace
<1>7. ~ResumeMeetsLock(r)
  BY DEF ResumeMeetsLock, InPlace, LaunchFindsQueued
<1>8. ~ResumeFaults(r) /\ ~ResumeMissesRow(r)
  BY <1>2, <1>4, <1>5 DEF ResumeFaults, ResumeMissesRow, Event, QueuesOnly, HasRow, Unfinished
<1>9. CASE ResumeLists(r)
  <2>1. /\ UNCHANGED <<state, asset, run, op, exports, claimed, saved, waiting, forStore,
                       aside, launch, owed, quit, locked>>
        /\ \A s \in Threads \ {r} : resumer'[s] = resumer[s]
        /\ resumer[r].pc = "listing" /\ resumer'[r].pc = "looping"
        /\ resumer'[r].busy = {} /\ resumer'[r].all = resumer[r].all
        /\ resumer'[r].list = [m \in Meetings |->
             IF state[m] = "processing" THEN "processing" ELSE "queued"]
        /\ resumer'[r].todo = {m \in Meetings : /\ Unfinished(m)
                                                /\ resumer[r].all \/ m \in resumer[r].among}
    BY <1>1, <1>5, <1>9 DEF ResumeLists, Unfinished, ResumerType
  <2>2. "lock" \in Events => (resumer[r].all => NothingProcessing)
    BY <2>1 DEF InPlace, LaunchFindsQueued
  <2>3. "lock" \in Events => (resumer'[r].all => resumer'[r].list = NoList)
    BY <2>1, <2>2 DEF NothingProcessing, NoList
  <2>4. LaunchIsFirst' /\ LaunchFindsQueued'
    BY <1>6, <2>1, <2>3, ThreadIsKept DEF InPlace, Free
  <2>5. ASSUME NEW n \in Meetings PROVE Fits(n)'
    <3>1. \A s \in Threads \ {r} : Hand(s, n)' <=> Hand(s, n)
      BY <2>1, SameHand DEF StaysAs
    <3>2. Hand(r, n) => Unfinished(n)
      BY DEF IsIn, Places, InPlace, Fits
    <3>3. Hand(r, n)' <=> Hand(r, n)
      BY <2>1, <3>2 DEF Hand, LoopPcs
    <3>4. Same(n)
      BY <2>1, <3>1, <3>3 DEF Same, StaysAs
    <3> QED BY <1>6, <2>1, <3>4, SameFits DEF InPlace, Quitting
  <2> QED BY <2>4, <2>5 DEF InPlace
<1>10. ASSUME NEW m \in Meetings, ResumeTakes(r, m) PROVE InPlace'
  <2>1. m \in resumer[r].todo /\ Hand(r, m) /\ Unfinished(m) /\ Fits(m)
    BY <1>2, <1>4, <1>10, LoopMoves DEF InPlace
  <2>2. \A p \in Places \ {"resume"} : ~IsIn(m, p)
    BY <2>1 DEF Fits, OnePlace, IsIn, Places
  <2>3. /\ m \notin claimed /\ m \notin saved /\ m \notin waiting /\ m \notin forStore
        /\ (\A t \in aside : t.meeting # m)
        /\ \A s \in Threads \ {r} : ~Hand(s, m)
    BY <2>1, <2>2 DEF IsIn, Places, Fits, OnePlace
  <2>4. run[m].pc = "none" /\ run[m].why = "none" /\ m \notin exports /\ op[m].pc = "none"
    BY <2>1, <2>3, ClaimedRuns, NotExported DEF Fits, RunFits
  <2>5. ClaimFree(m)
    BY <2>1, <2>3, <2>4, NotExported DEF ClaimFree, AdmittedPcs
  <2>6. /\ UNCHANGED <<asset, op, exports, saved, waiting, forStore, aside, launch, owed, quit,
                       locked>>
        /\ \A s \in Threads \ {r} : resumer'[s] = resumer[s]
        /\ resumer[r].pc \in LoopPcs /\ resumer'[r].pc \in LoopPcs
        /\ resumer'[r].all = resumer[r].all /\ resumer'[r].list = resumer[r].list
    BY <1>10, LoopMoves
  <2>7. m \notin inFlight
    BY <2>1, <2>4, NotExported DEF AdmittedPcs
  <2>8. \/ /\ resumer'[r].pc = "reading" /\ resumer'[r].todo = resumer[r].todo
           /\ UNCHANGED <<state, claimed, run>>
        \/ /\ resumer'[r].pc = IF MarksFailed(r, m) THEN "failing" ELSE "claiming"
           /\ resumer'[r].todo = resumer[r].todo /\ UNCHANGED <<state, claimed, run>>
        \/ /\ resumer'[r].pc = "looping" /\ resumer'[r].todo = resumer[r].todo \ {m}
           /\ state' = [state EXCEPT ![m] = "failed"] /\ UNCHANGED <<claimed, run>>
        \/ /\ resumer'[r].pc = "looping" /\ resumer'[r].todo = resumer[r].todo \ {m}
           /\ Start(m) /\ UNCHANGED state /\ asset[m]
    <3>1. resumer[r].pc = "claiming" /\ m \in resumer[r].at => asset[m]
      BY DEF AtListed, QueuesOnly
    <3> QED BY <1>10, <2>5, <2>7, <3>1, LoopMoves
  <2>9. resumer'[r].busy = {}
    BY <1>5, <1>10, <2>5, <2>7, LoopMoves
  <2>10. "lock" \in Events =>
           ~MarksFailed(r, m) /\ (resumer'[r].all => resumer'[r].list = NoList)
    BY <2>1, <2>6 DEF InPlace, LaunchFindsQueued, MarksFailed, Fits, NoList
  <2>11. LaunchIsFirst' /\ LaunchFindsQueued'
    BY <1>6, <2>6, <2>8, <2>9, <2>10, ThreadIsKept DEF InPlace, Free, LoopPcs
  <2>12. CASE resumer'[r].todo = resumer[r].todo /\ UNCHANGED <<state, claimed, run>>
    <3> SUFFICES ASSUME NEW n \in Meetings PROVE Fits(n)'
      BY <2>11 DEF InPlace
    <3>1. \A s \in Threads \ {r} : Hand(s, n)' <=> Hand(s, n)
      BY <2>6, <2>12, SameHand DEF StaysAs
    <3>2. Hand(r, n)' <=> Hand(r, n)
      BY <2>6, <2>12 DEF Hand, LoopPcs
    <3>3. Same(n)
      BY <2>6, <2>12, <3>1, <3>2 DEF Same, StaysAs
    <3> QED BY <1>6, <2>6, <3>3, SameFits DEF InPlace, Quitting
  <2>13. CASE /\ resumer'[r].pc = "looping" /\ resumer'[r].todo = resumer[r].todo \ {m}
              /\ \/ state' = [state EXCEPT ![m] = "failed"] /\ UNCHANGED <<claimed, run>>
                 \/ Start(m) /\ UNCHANGED state /\ asset[m]
    <3>1. \A n \in Meetings \ {m} :
            state'[n] = state[n] /\ run'[n] = run[n] /\ (n \in claimed' <=> n \in claimed)
      BY <1>1, <2>13 DEF Start
    <3>2. ASSUME NEW n \in Meetings \ {m} PROVE Fits(n)'
      <4>1. \A s \in Threads \ {r} : Hand(s, n)' <=> Hand(s, n)
        BY <2>6, <3>1, SameHand DEF StaysAs
      <4>2. Hand(r, n)' <=> Hand(r, n)
        BY <2>6, <2>13 DEF Hand, LoopPcs
      <4>3. Same(n)
        BY <2>6, <3>1, <4>1, <4>2 DEF Same, StaysAs
      <4> QED BY <1>6, <2>6, <4>3, SameFits DEF InPlace, Quitting
    <3>3. Fits(m)'
      <4>1. \A s \in Threads : ~Hand(s, m)'
        BY <1>6, <2>3, <2>6, <2>13 DEF Hand
      <4>2. \A p \in Places : IsIn(m, p)' <=> p = "run" /\ m \in claimed'
        BY <2>3, <2>6, <4>1 DEF IsIn, Places
      <4>3. OnePlace(m)'
        BY <2>3, <2>6, <4>1, <4>2 DEF OnePlace
      <4>4. /\ run'[m].why = "none"
            /\ \/ state'[m] = "failed" /\ m \notin claimed' /\ run'[m].pc = "none"
               \/ /\ state'[m] = state[m] /\ asset[m]
                  /\ IF Quitting THEN m \notin claimed' /\ run'[m].pc = "none"
                                 ELSE m \in claimed' /\ run'[m].pc = "spawned"
        BY <1>1, <2>3, <2>4, <2>13 DEF Start, NoRun
      <4>5. asset'[m] = asset[m] /\ exports' = exports /\ op'[m] = op[m] /\ quit' = quit
        BY <2>6
      <4>6. RunFits(m)'
        BY <2>1, <4>4, <4>5 DEF RunFits, EarlyPcs, Unfinished
      <4>7. "run" \in Places /\ "saved" \in Places
        BY DEF Places
      <4> QED BY <2>1, <2>4, <2>6, <2>3, <4>2, <4>3, <4>4, <4>5, <4>6, <4>7
              DEF Fits, Unfinished, Quitting
    <3> QED BY <2>11, <3>2, <3>3 DEF InPlace
  <2> QED BY <2>8, <2>12, <2>13
<1>11. CASE ResumeEnds(r)
  <2>1. UNCHANGED <<state, asset, run, op, exports, claimed, saved, aside, owed, quit, locked>>
    BY <1>11 DEF ResumeEnds
  <2>2. UNCHANGED <<waiting, forStore>>
    BY <1>1, <1>5, <1>11 DEF ResumeEnds, WaitForStore, ResumerType, ResumeKinds
  <2>3. /\ \A s \in Threads \ {r} : resumer'[s] = resumer[s]
        /\ resumer'[r] = NoResumer /\ launch' # "due"
    BY <1>1, <1>6, <1>11 DEF ResumeEnds, Returns
  <2>4. /\ resumer'[r].pc = "none" /\ resumer'[r].busy = {} /\ resumer'[r].todo = {}
        /\ ~resumer'[r].all
    BY <2>3 DEF NoResumer
  <2>5. LaunchIsFirst' /\ LaunchFindsQueued'
    BY <1>6, <2>1, <2>3, <2>4, ThreadIsKept DEF InPlace
  <2>6. \A n \in Meetings : ~Hand(r, n) /\ ~Hand(r, n)'
    BY <1>11, <2>4 DEF ResumeEnds, Hand
  <2>7. ASSUME NEW n \in Meetings PROVE Fits(n)'
    <3>1. \A s \in Threads \ {r} : Hand(s, n)' <=> Hand(s, n)
      BY <2>1, <2>3, SameHand DEF StaysAs
    <3>2. Same(n)
      BY <2>1, <2>2, <2>6, <3>1 DEF Same, StaysAs
    <3> QED BY <1>6, <2>1, <3>2, SameFits DEF InPlace, Quitting
  <2> QED BY <2>5, <2>7 DEF InPlace
<1> QED BY <1>7, <1>8, <1>9, <1>10, <1>11

\* No unfinished meeting is left out of all the places it can be in, whatever
\* the order of its refusals, the resumes and the exit: the rules of ModelWaits
\* and the store's retry lose none (set_aside, resume_waiting, resume_among,
\* resume_waiting_for_store).  A re-processing, a re-export or a fault in
\* between is outside the assumption.
THEOREM NothingSkipped ==
  ASSUME QueuesOnly
  PROVE  Spec => []NoMeetingSkipped
<1>1. Init => InPlace
  <2> SUFFICES ASSUME Init PROVE InPlace
    OBVIOUS
  <2>1. PICK found \in [Meetings -> InitialRows] :
          /\ state = [m \in Meetings |-> found[m].state]
          /\ asset = [m \in Meetings |-> found[m].asset]
    BY DEF Init
  <2>2. "lock" \in Events => \A m \in Meetings :
          state[m] # "processing" /\ (Unfinished(m) => asset[m])
    BY <2>1 DEF QueuesOnly, Unfinished
  <2>3. \A r \in Threads : resumer[r] = NoResumer
    BY DEF Init
  <2>4. /\ NoResumer.pc = "none" /\ NoResumer.busy = {} /\ NoResumer.todo = {}
        /\ ~NoResumer.all
    BY DEF NoResumer
  <2>5. LaunchIsFirst /\ LaunchFindsQueued
    BY <2>2, <2>3, <2>4
       DEF Init, LaunchIsFirst, LaunchFindsQueued, NothingProcessing, Quiet, Free, NoRun, NoOp
  <2>6. ASSUME NEW m \in Meetings PROVE Fits(m)
    <3>1. \A r \in Threads : ~Hand(r, m)
      BY <2>3, <2>4 DEF Hand
    <3>2. \A p \in Places : ~IsIn(m, p)
      BY <3>1 DEF Init, IsIn, Places
    <3>3. OnePlace(m)
      BY <3>1, <3>2 DEF Init, OnePlace
    <3>4. run[m].pc = "none" /\ run[m].why = "none" /\ op[m].pc = "none"
      BY DEF Init, NoRun, NoOp
    <3>5. RunFits(m)
      BY <3>4 DEF RunFits, EarlyPcs
    <3> QED BY <2>2, <3>2, <3>3, <3>4, <3>5 DEF Init, Fits
  <2> QED BY <2>5, <2>6 DEF InPlace
<1>2. TypeOK /\ Marks /\ AtListed /\ InPlace /\ [Next]_vars => InPlace'
  BY RunPlaces, OpPlaces, CallPlaces, WaitPlaces, AsidePlaces, LoopPlaces, WorldPlaces
     DEF Next, Request, ResumeStep, World, Idle
<1>3. InPlace => NoMeetingSkipped
  <2> SUFFICES ASSUME InPlace, ~Quitting, NEW m \in Meetings, Unfinished(m)
               PROVE  Promised(m)
    BY DEF NoMeetingSkipped, Unfinished
  <2>1. launch = "due" \/ \E p \in Places : IsIn(m, p)
    BY DEF InPlace, Fits
  <2>2. \A r \in Threads : Hand(r, m) => InHand(r, m)
    BY DEF Hand, InHand
  <2> QED BY <2>1, <2>2 DEF Promised, IsIn, Places
<1> QED BY <1>1, <1>2, <1>3, AtAlways, PTL DEF Spec
=============================================================================
