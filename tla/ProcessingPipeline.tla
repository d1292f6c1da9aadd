------------------------- MODULE ProcessingPipeline -------------------------
(***************************************************************************)
(* The processing pipeline of steno-pipeline (src/pipeline.rs) as the app  *)
(* runs it: background runs of `process`, the re-exports and summary       *)
(* re-runs, the three kinds of resume, the app's exit, an update's hold on *)
(* the jobs, and a crash at any point.                                     *)
(*                                                                         *)
(* Every meeting has one audio asset, so an asset's claim is the meeting's.*)
(* A step of the model is one critical section or one store transaction of *)
(* the code; between two steps every other thread may run.  What a stage   *)
(* computes is left out: a run is the writes it makes to the meeting's and *)
(* the delivery's rows, and the points where it can fail.                  *)
(*                                                                         *)
(* Two runs of one meeting cannot overlap (the claim), so `run` is indexed *)
(* by meeting, and so is `op` (the admission).  A run that gave its claim  *)
(* up but has not recorded its refusal yet is a member of `aside`.         *)
(***************************************************************************)
EXTENDS Naturals, FiniteSets

CONSTANTS
  Meetings,    \* the meetings (and, one each, their audio assets)
  Threads,     \* threads that can be inside a resume at one time
  InitialRows, \* the meeting rows a launch may find in the database
  Events,      \* the kinds of outside event this instance has
  MaxEvents,   \* how many of them happen at most
  ResumeWrap,  \* where the resume counter wraps (2^64 in the code)
  InProcess,   \* the speech engine runs in the app's process
  KeyringAsks  \* the launch's recovery waits for the keyring or the import,
               \* with the app in use meanwhile

States == {"none", "recording", "queued", "processing", "ready", "failed", "gone"}

EventKinds == {"enqueue", "save", "reprocess", "redeliver", "rerun", "delete",
               "reload", "remove", "lock", "hold", "fault", "quit", "crash"}

Statuses == {"none", "pending", "delivered", "failed"}

\* A meeting's rows: its state, whether its asset and its transcript exist,
\* and the status of its delivery.
RowType == [state : States, asset : BOOLEAN, transcript : BOOLEAN, delivery : Statuses]

ASSUME ConstantsAssumption ==
  /\ InitialRows \subseteq RowType
  /\ Events \subseteq EventKinds
  /\ MaxEvents \in Nat
  /\ ResumeWrap \in Nat \ {0}
  /\ InProcess \in BOOLEAN
  /\ KeyringAsks \in BOOLEAN

VARIABLES
  state,      \* meeting.state in the database
  asset,      \* whether the meeting's audioAsset row exists
  transcript, \* the meetings with transcript segments in the database
  delivery,   \* the status of the meeting's delivery row
  claimed,    \* InFlightSet.assets
  inFlight,   \* InFlightSet.meetings
  jobHold,    \* InFlightSet.held
  waiting,    \* Waits.waiting: the meetings waiting for models
  resumes,    \* Waits.resumes
  forStore,   \* Waits.for_store
  owed,       \* Waits.unfinished_owed
  retryWake,  \* the permit of SharedWaits.store_retry
  retry,      \* where retry_the_store is
  run,        \* the background run of each meeting
  aside,      \* the refused runs that still have to record their wait
  op,         \* the re-export or summary re-run admitted for each meeting
  exports,    \* the meetings the launch's re-export task has left
  resumer,    \* what each thread inside a resume is doing
  launch,     \* how far the launch's recover_unfinished is
  saved,      \* meetings saved queued, their enqueue_saved still to come
  quit,       \* how far the app's exit is
  quitTodo,   \* the meetings quit still has to save back
  installed,  \* whether the models are installed
  resumeDue,  \* a model install or a reload has resume_waiting to call
  locked,     \* another process holds the database's write lock
  events      \* outside events so far

rows     == <<state, asset, transcript, delivery>>
marks    == <<claimed, inFlight, jobHold>>
waits    == <<waiting, resumes, forStore, owed, retryWake, retry>>
tasks    == <<run, aside, op, exports>>
callers  == <<resumer, launch, saved>>
exit     == <<quit, quitTodo>>
outside  == <<installed, resumeDue, locked, events>>
vars     == <<rows, marks, waits, tasks, callers, exit, outside>>

-----------------------------------------------------------------------------
(* The shapes of the volatile state. *)

\* Where a background run is; the asset is claimed everywhere but in "none".
RunPcs == {"none", "saving", "rereading", "requeueing", "spawned", "reading", "warming",
           "marking", "transcribing", "summarizing", "persisting", "owing",
           "readying", "delivering", "exporting", "failing", "leaving", "dropping"}

\* The run holds the meeting from its admission until it leaves.
AdmittedPcs == RunPcs \ {"none", "saving", "rereading", "requeueing", "spawned",
                         "reading", "dropping"}

Causes == {"none", "models", "busy", "other"}

RunType == [pc : RunPcs, seen : 0..(ResumeWrap - 1), why : Causes]
NoRun == [pc |-> "none", seen |-> 0, why |-> "none"]

Refusals == [meeting : Meetings, awaits : {"models", "store"}, seen : 0..(ResumeWrap - 1)]

OpPcs == {"none", "owing", "admitted", "working", "marking", "delivering", "exporting",
          "closing"}
OpKinds == {"redeliver", "rerun", "launch"}
OpType == [pc : OpPcs, kind : OpKinds]
NoOp == [pc |-> "none", kind |-> "redeliver"]

\* Where a thread is inside resume_among's loop: between two meetings, or at
\* a read, the claim or the write of the meeting in `at`.
LoopPcs == {"looping", "reading", "claiming", "failing"}

ResumeKinds == {"launch", "models", "retry", "restart"}
ResumerType ==
  [pc : {"none", "listing"} \cup LoopPcs, by : ResumeKinds, all : BOOLEAN,
   among : SUBSET Meetings, models : SUBSET Meetings,
   list : [Meetings -> {"queued", "processing"}], todo : SUBSET Meetings,
   busy : SUBSET Meetings, at : SUBSET Meetings]
NoList == [m \in Meetings |-> "queued"]
NoResumer ==
  [pc |-> "none", by |-> "models", all |-> FALSE, among |-> {}, models |-> {},
   list |-> NoList, todo |-> {}, busy |-> {}, at |-> {}]

\* The type of every variable.
TypeOK ==
  /\ state \in [Meetings -> States]
  /\ asset \in [Meetings -> BOOLEAN]
  /\ transcript \subseteq Meetings
  /\ delivery \in [Meetings -> Statuses]
  /\ claimed \subseteq Meetings
  /\ inFlight \subseteq Meetings
  /\ jobHold \in BOOLEAN
  /\ waiting \subseteq Meetings
  /\ resumes \in 0..(ResumeWrap - 1)
  /\ forStore \subseteq Meetings
  /\ owed \in BOOLEAN
  /\ retryWake \in BOOLEAN
  /\ retry \in {"waiting", "sleeping", "trying", "ended"}
  /\ run \in [Meetings -> RunType]
  /\ aside \subseteq Refusals
  /\ op \in [Meetings -> OpType]
  /\ exports \subseteq Meetings
  /\ resumer \in [Threads -> ResumerType]
  /\ launch \in {"due", "resuming", "exports", "done"}
  /\ saved \subseteq Meetings
  /\ quit \in {"no", "latched", "saving", "done"}
  /\ quitTodo \subseteq Meetings
  /\ installed \in BOOLEAN
  /\ resumeDue \in BOOLEAN
  /\ locked \in BOOLEAN
  /\ events \in 0..MaxEvents

-----------------------------------------------------------------------------
(* Helpers. *)

Quitting == quit # "no"

\* The database holds a row for the meeting.
HasRow(m) == state[m] \notin {"none", "gone"}

\* A write of the meeting's row goes through.
CanWrite(m) == ~locked /\ HasRow(m)

\* Store::set_state where the caller ignores a failure.
BestEffort(m, s) == IF CanWrite(m) THEN [state EXCEPT ![m] = s] ELSE state

\* Mutant of IsIdle: the claimed assets are forgotten.
IsIdleMeetingsOnly == inFlight = {}

\* InFlightSet::is_idle.
IsIdle == inFlight = {} /\ claimed = {}

\* claim_start's check.
ClaimFree(m) == m \notin inFlight /\ m \notin claimed

At(m, pc) == run[m].pc = pc
Goto(m, pc) == run' = [run EXCEPT ![m].pc = pc]

\* `start`, given the claim: nothing starts once the app quits.
Start(m) ==
  IF Quitting
  THEN /\ claimed' = claimed \ {m}
       /\ run' = [run EXCEPT ![m] = NoRun]
  ELSE /\ claimed' = claimed \cup {m}
       /\ run' = [run EXCEPT ![m] = [NoRun EXCEPT !.pc = "spawned"]]

\* An AssetClaim dropped before anything started.
DropClaim(m) ==
  /\ claimed' = claimed \ {m}
  /\ run' = [run EXCEPT ![m] = NoRun]

\* recover_at_launch: the recovery runs before the app can be used, unless it
\* waits for the keyring's answer or the Swift import.
InUse == KeyringAsks \/ launch \in {"exports", "done"}

\* One outside event of kind `e`, within the bound.
Event(e) ==
  /\ e \in Events
  /\ events < MaxEvents
  /\ events' = events + 1

-----------------------------------------------------------------------------
(* Entering the queue: enqueue, enqueue_new, enqueue_stopped_recording,     *)
(* enqueue_saved and reprocess.                                             *)

\* claim_or_refuse for a recording that ended or an adopted one.
EnqueueClaim(m) ==
  /\ Event("enqueue") /\ InUse
  /\ state[m] \in {"none", "recording"}
  /\ ClaimFree(m)
  /\ claimed' = claimed \cup {m}
  /\ run' = [run EXCEPT ![m] = [NoRun EXCEPT !.pc = "saving"]]
  /\ UNCHANGED <<rows, inFlight, jobHold, waits, aside, op, exports, callers,
                 exit, installed, resumeDue, locked>>

\* enqueue_claimed: the rows in one transaction, then start; a save that
\* fails gives the claim up.
EnqueueSave(m) ==
  /\ At(m, "saving")
  /\ \/ /\ ~locked /\ state[m] \in {"none", "recording"}
        /\ state' = [state EXCEPT ![m] = "queued"]
        /\ asset' = [asset EXCEPT ![m] = TRUE]
        /\ Start(m)
     \/ /\ locked \/ state[m] \notin {"none", "recording"}
        /\ DropClaim(m)
        /\ UNCHANGED <<state, asset>>
  /\ UNCHANGED <<transcript, delivery, inFlight, jobHold, waits, aside, op,
                 exports, callers, exit, outside>>

\* A phone's recording or an adopted one, saved queued by its caller.
SaveQueued(m) ==
  /\ Event("save") /\ InUse
  /\ state[m] = "none" /\ ~locked /\ m \notin claimed
  /\ state' = [state EXCEPT ![m] = "queued"]
  /\ asset' = [asset EXCEPT ![m] = TRUE]
  /\ saved' = saved \cup {m}
  /\ UNCHANGED <<transcript, delivery, marks, waits, tasks, resumer, launch, exit,
                 installed, resumeDue, locked>>

\* enqueue_saved: claims and starts, or is refused.
EnqueueSaved(m) ==
  /\ m \in saved
  /\ saved' = saved \ {m}
  /\ IF ClaimFree(m) THEN Start(m) ELSE UNCHANGED <<claimed, run>>
  /\ UNCHANGED <<rows, inFlight, jobHold, waits, aside, op, exports, resumer,
                 launch, exit, outside>>

\* reprocess_if, the first half: the asset is claimed.
ReprocessClaim(m) ==
  /\ Event("reprocess") /\ InUse
  /\ ~Quitting
  /\ asset[m] /\ ClaimFree(m)
  /\ claimed' = claimed \cup {m}
  /\ run' = [run EXCEPT ![m] = [NoRun EXCEPT !.pc = "rereading"]]
  /\ UNCHANGED <<rows, inFlight, jobHold, waits, aside, op, exports, callers,
                 exit, installed, resumeDue, locked>>

\* reprocess_if: the meeting is read under the claim.  A call for an
\* unfinished one is refused; a ready one may not be offered, and its master
\* may be gone.
ReprocessReads(m) ==
  /\ At(m, "rereading")
  /\ \/ state[m] \in {"ready", "failed"} /\ Goto(m, "requeueing") /\ UNCHANGED claimed
     \/ DropClaim(m)
  /\ UNCHANGED <<rows, inFlight, jobHold, waits, aside, op, exports, callers,
                 exit, outside>>

\* reprocess_if, the rest: save_meeting_with_asset writes the rows as read, a
\* deleted meeting's too, and the run starts.
ReprocessSave(m) ==
  /\ At(m, "requeueing")
  /\ \/ /\ ~locked
        /\ state' = [state EXCEPT ![m] = "queued"]
        /\ asset' = [asset EXCEPT ![m] = TRUE]
        /\ Start(m)
     \/ /\ locked
        /\ DropClaim(m)
        /\ UNCHANGED <<state, asset>>
  /\ UNCHANGED <<transcript, delivery, inFlight, jobHold, waits, aside, op,
                 exports, callers, exit, outside>>

-----------------------------------------------------------------------------
(* A background run: start's task, process_held, process_until_persist.     *)

\* The task's first check, the wait for a JobHold, and the check after it.
RunBegin(m) ==
  /\ At(m, "spawned")
  /\ \/ Quitting /\ Goto(m, "dropping")
     \/ ~Quitting /\ ~jobHold /\ Goto(m, "reading")
  /\ UNCHANGED <<rows, marks, waits, aside, op, exports, callers, exit, outside>>

\* Mutant of RunAdmit: an operation in progress does not refuse the run.
RunAdmitUnchecked(m) ==
  /\ At(m, "reading")
  /\ HasRow(m) /\ asset[m]
  /\ inFlight' = inFlight \cup {m}
  /\ run' = [run EXCEPT ![m].pc = "warming", ![m].seen = resumes]
  /\ UNCHANGED <<rows, claimed, jobHold, waits, aside, op, exports, callers,
                 exit, outside>>

\* The rows are read, then `exclusively` admits the meeting and the resume
\* count is read; a missing row or an operation in progress ends the run.  One
\* step for the three: a row deleted in between is missed at the run's first
\* write instead, and a resume in between meets the claim as it would the mark.
RunAdmit(m) ==
  /\ At(m, "reading")
  /\ \/ /\ HasRow(m) /\ asset[m] /\ m \notin inFlight
        /\ inFlight' = inFlight \cup {m}
        /\ run' = [run EXCEPT ![m].pc = "warming", ![m].seen = resumes]
     \/ /\ ~HasRow(m) \/ ~asset[m] \/ m \in inFlight
        /\ Goto(m, "dropping")
        /\ UNCHANGED inFlight
  /\ UNCHANGED <<rows, claimed, jobHold, waits, aside, op, exports, callers,
                 exit, outside>>

\* in_process_turn and warm_up_for_job: an in-process engine's turn ends the
\* job once the app quits.
RunWarmUp(m) ==
  /\ At(m, "warming")
  /\ IF InProcess /\ Quitting
     THEN Goto(m, "leaving")
     ELSE installed /\ Goto(m, "marking")
  /\ UNCHANGED <<rows, marks, waits, aside, op, exports, callers, exit, outside>>

\* A stage that ends by writing the meeting's columns, its state among them.
RunWrites(m, from, to) ==
  /\ At(m, from)
  /\ CanWrite(m)
  /\ state' = [state EXCEPT ![m] = "processing"]
  /\ Goto(m, to)
  /\ UNCHANGED <<asset, delivery, marks, waits, aside, op, exports, callers,
                 exit, outside>>

\* The state becomes processing once the models are loaded.
RunMark(m) == RunWrites(m, "marking", "transcribing") /\ UNCHANGED transcript

\* decode, transcribe, diarize, match, and merge's replace_transcript.
RunMerge(m) ==
  RunWrites(m, "transcribing", "summarizing") /\ transcript' = transcript \cup {m}

\* cleanup's and summarize's writes.
RunSummarize(m) == RunWrites(m, "summarizing", "persisting") /\ UNCHANGED transcript

\* persist: the mixdown and the asset's row.
RunPersist(m) ==
  /\ At(m, "persisting")
  /\ CanWrite(m)
  /\ Goto(m, "owing")
  /\ UNCHANGED <<rows, marks, waits, aside, op, exports, callers, exit, outside>>

\* DeliveryCoordinator::mark_pending, whose failed save is ignored.
MarkPending(m) ==
  delivery' = IF CanWrite(m) THEN [delivery EXCEPT ![m] = "pending"] ELSE delivery

\* Mutant of RunOwe: the export is not owed before the meeting is ready.
RunOweForgets(m) ==
  /\ At(m, "owing")
  /\ Goto(m, "readying")
  /\ UNCHANGED <<rows, marks, waits, aside, op, exports, callers, exit, outside>>

\* persist: the export is owed before the meeting is ready.
RunOwe(m) ==
  /\ At(m, "owing")
  /\ MarkPending(m)
  /\ Goto(m, "readying")
  /\ UNCHANGED <<state, asset, transcript, marks, waits, aside, op, exports,
                 callers, exit, outside>>

\* persist: the meeting is ready.
RunReady(m) ==
  /\ At(m, "readying")
  /\ CanWrite(m)
  /\ state' = [state EXCEPT ![m] = "ready"]
  /\ Goto(m, "delivering")
  /\ UNCHANGED <<asset, transcript, delivery, marks, waits, aside, op, exports,
                 callers, exit, outside>>

\* deliver_all's last save: the row says how the export ended, unless the
\* save failed.
SaveOutcome(m) ==
  \E s \in (IF CanWrite(m) THEN {"delivered", "failed"} ELSE {delivery[m]}) :
     delivery' = [delivery EXCEPT ![m] = s]

\* deliver: deliver_all saves the row pending before it exports,
RunDeliver(m) ==
  /\ At(m, "delivering")
  /\ MarkPending(m)
  /\ Goto(m, "exporting")
  /\ UNCHANGED <<state, asset, transcript, marks, waits, aside, op, exports,
                 callers, exit, outside>>

\* and its outcome after; the retention stamp that follows is not modelled
\* here.
RunExport(m) ==
  /\ At(m, "exporting")
  /\ SaveOutcome(m)
  /\ Goto(m, "leaving")
  /\ UNCHANGED <<state, asset, transcript, marks, waits, aside, op, exports,
                 callers, exit, outside>>

-----------------------------------------------------------------------------
(* A run that fails: process_held's arms after process_until_persist.       *)

\* The latch is asked before anything is written.
FailsWith(m, why) ==
  /\ IF Quitting
     THEN Goto(m, "leaving")
     ELSE run' = [run EXCEPT ![m].pc = "failing", ![m].why = why]
  /\ UNCHANGED <<rows, marks, waits, aside, op, exports, callers, exit,
                 installed, resumeDue, locked>>

WritingPcs == {"marking", "transcribing", "summarizing", "persisting", "readying"}

\* warm_up's check, or models_gone after transcribe or diarize.
RunMissesModels(m) ==
  /\ run[m].pc \in {"warming", "transcribing"} /\ ~installed
  /\ FailsWith(m, "models")
  /\ UNCHANGED events

\* Another process held the write lock past the busy timeout.
RunMeetsLock(m) ==
  /\ run[m].pc \in WritingPcs /\ locked
  /\ FailsWith(m, "busy")
  /\ UNCHANGED events

\* The meeting's row is gone,
RunMissesRow(m) ==
  /\ run[m].pc \in WritingPcs /\ ~HasRow(m)
  /\ FailsWith(m, "other")
  /\ UNCHANGED events

\* or any other failure: an engine, a file, a panic.
RunFaults(m) ==
  /\ run[m].pc \in WritingPcs \cup {"warming"}
  /\ Event("fault")
  /\ FailsWith(m, "other")

\* park for models, the delivery of a meeting that is ready already,
\* park_for_store, or the meeting marked failed.  Each write is best effort.
RunHandlesFailure(m) ==
  /\ At(m, "failing")
  /\ LET why == run[m].why IN
     \/ /\ why = "models"
        /\ state' = BestEffort(m, "queued")
        /\ Goto(m, "leaving")
     \/ /\ why # "models" /\ state[m] = "ready"
        /\ run' = [run EXCEPT ![m].pc = "delivering", ![m].why = "none"]
        /\ UNCHANGED state
     \/ /\ why = "busy" /\ state[m] # "ready"
        /\ state' = IF state[m] = "processing" THEN BestEffort(m, "queued") ELSE state
        /\ Goto(m, "leaving")
     \/ /\ why = "other" /\ state[m] # "ready"
        /\ state' = BestEffort(m, "failed")
        /\ run' = [run EXCEPT ![m].pc = "leaving", ![m].why = "none"]
  /\ UNCHANGED <<asset, transcript, delivery, marks, waits, aside, op, exports,
                 callers, exit, outside>>

\* The Admitted mark drops.
RunLeave(m) ==
  /\ At(m, "leaving")
  /\ inFlight' = inFlight \ {m}
  /\ Goto(m, "dropping")
  /\ UNCHANGED <<rows, claimed, jobHold, waits, aside, op, exports, callers,
                 exit, outside>>

\* spawn_tracked: the claim drops, and a refusal goes on to set_aside.
RunDrop(m) ==
  /\ At(m, "dropping")
  /\ claimed' = claimed \ {m}
  /\ run' = [run EXCEPT ![m] = NoRun]
  /\ aside' = IF run[m].why \in {"models", "busy"}
              THEN aside \cup {[meeting |-> m,
                                awaits |-> IF run[m].why = "models" THEN "models" ELSE "store",
                                seen |-> run[m].seen]}
              ELSE aside
  /\ UNCHANGED <<rows, inFlight, jobHold, waits, op, exports, callers, exit, outside>>

-----------------------------------------------------------------------------
(* Recording a refused run's wait, and the resumes.                         *)

Free(r) == resumer[r].pc = "none"

\* A call of resume_among by thread `r`: everything unfinished, or `among`.
Resumes(r, by, all, among, models) ==
  resumer' = [resumer EXCEPT ![r] =
    [NoResumer EXCEPT !.pc = "listing", !.by = by, !.all = all,
                      !.among = among, !.models = models]]

\* ModelWaits::resume: a resume is counted and takes every waiting meeting.
CountResume ==
  /\ resumes' = (resumes + 1) % ResumeWrap
  /\ waiting' = {}

\* ModelWaits::wait_for_store, whose empty call changes nothing.
WaitForStore(ms) ==
  /\ forStore' = forStore \cup ms
  /\ retryWake' = (retryWake \/ ms # {})

\* Mutant of SetAsideForModels: after a resume nothing is recorded or started.
SetAsideWithoutRestart(t, r) ==
  /\ t.awaits = "models"
  /\ aside' = aside \ {t}
  /\ waiting' = IF t.seen = resumes THEN waiting \cup {t.meeting} ELSE waiting
  /\ UNCHANGED <<rows, marks, resumes, forStore, owed, retryWake, retry, run, op,
                 exports, callers, exit, outside>>

\* Mutant of SetAsideForModels: the resume count is not compared.
SetAsideAlwaysWaits(t, r) ==
  /\ t.awaits = "models"
  /\ aside' = aside \ {t}
  /\ waiting' = waiting \cup {t.meeting}
  /\ UNCHANGED <<rows, marks, resumes, forStore, owed, retryWake, retry, run, op,
                 exports, callers, exit, outside>>

\* set_aside of a run that missed the models: it waits, unless a resume ran
\* since its run started; then it starts again at once (rule 3).
SetAsideForModels(t, r) ==
  /\ t.awaits = "models"
  /\ aside' = aside \ {t}
  /\ \/ /\ t.seen = resumes
        /\ waiting' = waiting \cup {t.meeting}
        /\ UNCHANGED resumer
     \/ /\ t.seen # resumes /\ Quitting
        /\ UNCHANGED <<waiting, resumer>>
     \/ /\ t.seen # resumes /\ ~Quitting /\ Free(r)
        /\ Resumes(r, "restart", FALSE, {t.meeting}, {})
        /\ UNCHANGED waiting
  /\ UNCHANGED <<rows, marks, resumes, forStore, owed, retryWake, retry, run, op,
                 exports, launch, saved, exit, outside>>

\* set_aside of a run that met the busy store.
SetAsideForStore(t) ==
  /\ t.awaits = "store"
  /\ aside' = aside \ {t}
  /\ IF Quitting THEN UNCHANGED <<forStore, retryWake>> ELSE WaitForStore({t.meeting})
  /\ UNCHANGED <<rows, marks, waiting, resumes, owed, retry, run, op, exports,
                 callers, exit, outside>>

\* resume_unfinished, the launch's.
ResumeUnfinished(r) ==
  /\ launch = "due"
  /\ \/ /\ Quitting
        /\ launch' = "exports"
        /\ UNCHANGED <<resumes, waiting, resumer>>
     \/ /\ ~Quitting /\ Free(r)
        /\ launch' = "resuming"
        /\ CountResume
        /\ Resumes(r, "launch", TRUE, {}, {})
  /\ UNCHANGED <<rows, marks, forStore, owed, retryWake, retry, tasks, saved, exit,
                 outside>>

\* CurrentPipeline::resume_waiting, after a model install or a reload.
ResumeWaiting(r) ==
  /\ resumeDue
  /\ resumeDue' = FALSE
  /\ \/ /\ ~installed \/ Quitting
        /\ UNCHANGED <<resumes, waiting, resumer>>
     \/ /\ installed /\ ~Quitting
        /\ CountResume
        /\ IF waiting = {}
           THEN UNCHANGED resumer
           ELSE Free(r) /\ Resumes(r, "models", FALSE, waiting, {})
  /\ UNCHANGED <<rows, marks, forStore, owed, retryWake, retry, tasks, launch,
                 saved, exit, installed, locked, events>>

\* retry_the_store: something waits for the store.
RetryWakes ==
  /\ retry = "waiting" /\ retryWake
  /\ retry' = "sleeping"
  /\ retryWake' = FALSE
  /\ UNCHANGED <<rows, marks, waiting, resumes, forStore, owed, tasks, callers,
                 exit, outside>>

\* retry_the_store once its wait is over, and resume_waiting_for_store up to
\* its call of resume_among.
RetryTakes(r) ==
  /\ retry = "sleeping"
  /\ \/ /\ Quitting
        /\ retry' = "ended"
        /\ UNCHANGED <<forStore, owed, resumes, waiting, resumer>>
     \/ /\ ~Quitting /\ ~owed /\ forStore = {}
        /\ retry' = "waiting"
        /\ UNCHANGED <<forStore, owed, resumes, waiting, resumer>>
     \/ /\ ~Quitting /\ (owed \/ forStore # {})
        /\ Free(r)
        /\ retry' = "trying"
        /\ forStore' = {}
        /\ owed' = FALSE
        /\ IF owed
           THEN CountResume /\ Resumes(r, "retry", TRUE, forStore, waiting)
           ELSE /\ Resumes(r, "retry", FALSE, forStore, {})
                /\ UNCHANGED <<resumes, waiting>>
  /\ UNCHANGED <<rows, marks, retryWake, tasks, launch, saved, exit, outside>>

\* resume_among's read: the queued and processing meetings as they are now.
ResumeLists(r) ==
  /\ resumer[r].pc = "listing"
  /\ resumer' = [resumer EXCEPT
       ![r].pc = "looping",
       ![r].list = [m \in Meetings |->
                      IF state[m] = "processing" THEN "processing" ELSE "queued"],
       ![r].todo = {m \in Meetings : /\ state[m] \in {"queued", "processing"}
                                     /\ resumer[r].all \/ m \in resumer[r].among}]
  /\ UNCHANGED <<rows, marks, waits, tasks, launch, saved, exit, outside>>

\* resume_among's loop takes up a listed meeting.  One in flight is left to
\* its run, whose asset row may be gone.
ResumeLooks(r, m) ==
  /\ resumer[r].pc = "looping" /\ m \in resumer[r].todo
  /\ \/ /\ m \in inFlight
        /\ resumer' = [resumer EXCEPT ![r].todo = @ \ {m}, ![r].busy = @ \cup {m}]
     \/ /\ m \notin inFlight
        /\ resumer' = [resumer EXCEPT ![r].pc = "reading", ![r].at = {m}]
  /\ UNCHANGED <<rows, marks, waits, tasks, launch, saved, exit, outside>>

\* Mutant of MarksFailed: every resume fails what it lists processing.
MarksFailedAlways(r, m) == ~asset[m] \/ resumer[r].list[m] = "processing"

\* The meeting is to be failed: its asset row is missing, or a launch's
\* resume lists it processing.
MarksFailed(r, m) ==
  ~asset[m] \/ (resumer[r].all /\ resumer[r].list[m] = "processing")

\* The asset's row is read, which decides between the write and the claim.
ResumeReads(r, m) ==
  /\ resumer[r].pc = "reading" /\ m \in resumer[r].at
  /\ resumer' = [resumer EXCEPT
       ![r].pc = IF MarksFailed(r, m) THEN "failing" ELSE "claiming"]
  /\ UNCHANGED <<rows, marks, waits, tasks, launch, saved, exit, outside>>

\* The loop is through with `m`, which it could not claim if `b`.
LoopsOn(r, m, b) ==
  resumer' = [resumer EXCEPT
    ![r].pc = "looping", ![r].at = {}, ![r].todo = @ \ {m},
    ![r].busy = IF b THEN @ \cup {m} ELSE @]

\* The meeting is failed, whatever its row says by now.
ResumeFails(r, m) ==
  /\ resumer[r].pc = "failing" /\ m \in resumer[r].at
  /\ CanWrite(m)
  /\ state' = [state EXCEPT ![m] = "failed"]
  /\ LoopsOn(r, m, FALSE)
  /\ UNCHANGED <<asset, transcript, delivery, marks, waits, tasks, launch, saved,
                 exit, outside>>

\* claim_start and start, or the meeting counts as held.
ResumeClaims(r, m) ==
  /\ resumer[r].pc = "claiming" /\ m \in resumer[r].at
  /\ LoopsOn(r, m, ~ClaimFree(m))
  /\ IF ClaimFree(m) THEN Start(m) ELSE UNCHANGED <<claimed, run>>
  /\ UNCHANGED <<rows, inFlight, jobHold, waits, aside, op, exports, launch,
                 saved, exit, outside>>

\* A step of resume_among's loop over one listed meeting.
ResumeTakes(r, m) ==
  ResumeLooks(r, m) \/ ResumeReads(r, m) \/ ResumeFails(r, m) \/ ResumeClaims(r, m)

\* The caller's thread is done; the launch goes on to the exports, and
\* retry_the_store waits for the next wake-up.
Returns(r) ==
  /\ resumer' = [resumer EXCEPT ![r] = NoResumer]
  /\ launch' = IF resumer[r].by = "launch" THEN "exports" ELSE launch
  /\ retry' = IF resumer[r].by = "retry" THEN "waiting" ELSE retry

\* resume_among returned: the meetings held meanwhile go back to waiting.
ResumeEnds(r) ==
  /\ resumer[r].pc = "looping" /\ resumer[r].todo = {}
  /\ LET c == resumer[r] IN
     CASE c.by = "launch" -> UNCHANGED <<waiting, forStore, retryWake>>
       [] c.by \in {"models", "restart"} ->
            /\ waiting' = waiting \cup c.busy
            /\ UNCHANGED <<forStore, retryWake>>
       [] c.by = "retry" ->
            /\ waiting' = waiting \cup (c.busy \cap c.models)
            /\ WaitForStore(c.busy \cap c.among)
  /\ Returns(r)
  /\ UNCHANGED <<rows, marks, resumes, owed, tasks, saved, exit, outside>>

\* What a failed resume_among leaves: a busy store's meetings wait for the
\* store's retry, the others wait as before or, in the retry, for the next
\* launch.
FailedResume(r, busy) ==
  /\ LET c == resumer[r] IN
     CASE c.by = "launch" ->
            /\ owed' = (owed \/ busy)
            /\ retryWake' = (retryWake \/ busy)
            /\ UNCHANGED <<waiting, forStore>>
       [] c.by \in {"models", "restart"} ->
            /\ IF busy /\ ~Quitting
               THEN WaitForStore(c.among) /\ UNCHANGED waiting
               ELSE waiting' = waiting \cup c.among /\ UNCHANGED <<forStore, retryWake>>
            /\ UNCHANGED owed
       [] c.by = "retry" ->
            /\ waiting' = waiting \cup c.models
            /\ owed' = (owed \/ (busy /\ c.all))
            /\ IF busy /\ ~c.all
               THEN WaitForStore(c.among)
               ELSE retryWake' = (retryWake \/ busy) /\ UNCHANGED forStore
  /\ Returns(r)
  /\ UNCHANGED <<rows, marks, resumes, tasks, saved, exit, installed, resumeDue, locked>>

\* resume_among stops at the first store error; a read never meets the lock.
ResumeMeetsLock(r) ==
  /\ locked
  /\ resumer[r].pc = "failing"
  /\ FailedResume(r, TRUE)
  /\ UNCHANGED events

\* The meeting was deleted meanwhile: the write finds no row,
ResumeMissesRow(r) ==
  /\ resumer[r].pc = "failing" /\ \E m \in resumer[r].at : ~HasRow(m)
  /\ FailedResume(r, FALSE)
  /\ UNCHANGED events

\* or a read or the write fails otherwise.
ResumeFaults(r) ==
  /\ resumer[r].pc \in {"listing", "reading", "failing"}
  /\ Event("fault")
  /\ FailedResume(r, FALSE)

-----------------------------------------------------------------------------
(* Re-exports and summary re-runs.                                          *)

OpAt(m, pc) == op[m].pc = pc
OpGoto(m, pc) == op' = [op EXCEPT ![m].pc = pc]

\* admit for an operation of kind `k`.
AdmitOp(m, k, pc) ==
  /\ m \notin inFlight
  /\ inFlight' = inFlight \cup {m}
  /\ op' = [op EXCEPT ![m] = [pc |-> pc, kind |-> k]]

\* claim_deliver_again and claim_rerun_summary: the meeting's row exists.
ClaimOperation(m, k) ==
  /\ k \in {"redeliver", "rerun"} /\ Event(k) /\ InUse
  /\ HasRow(m)
  /\ AdmitOp(m, k, "admitted")
  /\ UNCHANGED <<rows, claimed, jobHold, waits, run, aside, exports, callers, exit,
                 installed, resumeDue, locked>>

\* Mutant of RedeliverUnfinished: a pending export is left to its run.
RedeliverOnlyFailed ==
  /\ launch = "exports"
  /\ launch' = "done"
  /\ IF Quitting
     THEN UNCHANGED exports
     ELSE exports' = {m \in Meetings : state[m] = "ready" /\ delivery[m] = "failed"}
  /\ UNCHANGED <<rows, marks, waits, run, aside, op, resumer, saved, exit, outside>>

\* redeliver_unfinished: the ready meetings whose export is pending, or
\* failed long enough ago.
RedeliverUnfinished ==
  /\ launch = "exports"
  /\ launch' = "done"
  /\ IF Quitting
     THEN UNCHANGED exports
     ELSE \E old \in SUBSET {m \in Meetings : delivery[m] = "failed"} :
            exports' = {m \in Meetings : /\ state[m] = "ready"
                                         /\ delivery[m] = "pending" \/ m \in old}
  /\ UNCHANGED <<rows, marks, waits, run, aside, op, resumer, saved, exit, outside>>

\* redeliver_at_launch: one meeting at a time; one another operation holds
\* is skipped, and all once the app quits.
RedeliverAtLaunch(m) ==
  /\ m \in exports
  /\ \A n \in Meetings : op[n].kind = "launch" => op[n].pc = "none"
  /\ IF Quitting
     THEN exports' = {} /\ UNCHANGED <<inFlight, op>>
     ELSE /\ exports' = exports \ {m}
          /\ \/ AdmitOp(m, "launch", "owing")
             \/ m \in inFlight /\ UNCHANGED <<inFlight, op>>
  /\ UNCHANGED <<rows, claimed, jobHold, waits, run, aside, callers, exit, outside>>

\* The Admitted mark of an operation drops.
ReleaseOp(m) ==
  /\ inFlight' = inFlight \ {m}
  /\ op' = [op EXCEPT ![m] = NoOp]

\* still_owed: ready with a delivery that is pending or failed.
StillOwed(m) ==
  /\ OpAt(m, "owing")
  /\ IF state[m] = "ready" /\ delivery[m] \in {"pending", "failed"}
     THEN OpGoto(m, "admitted") /\ UNCHANGED inFlight
     ELSE ReleaseOp(m)
  /\ UNCHANGED <<rows, claimed, jobHold, waits, run, aside, exports, callers, exit,
                 outside>>

\* until_jobs_may_start.
OpBegin(m) ==
  /\ OpAt(m, "admitted") /\ ~jobHold
  /\ OpGoto(m, IF op[m].kind = "rerun" THEN "working" ELSE "delivering")
  /\ UNCHANGED <<rows, marks, waits, run, aside, exports, callers, exit, outside>>

\* resummarize: replace_summary writes the state ready with the summary; a
\* failure leaves the meeting as it was.
Resummarize(m) ==
  /\ OpAt(m, "working")
  /\ \/ /\ CanWrite(m)
        /\ state' = [state EXCEPT ![m] = "ready"]
        /\ OpGoto(m, "marking")
     \/ /\ OpGoto(m, "closing")
        /\ UNCHANGED state
  /\ UNCHANGED <<asset, transcript, delivery, marks, waits, run, aside, exports,
                 callers, exit, outside>>

\* resummarize: mark_pending.
OpMarkPending(m) ==
  /\ OpAt(m, "marking")
  /\ MarkPending(m)
  /\ OpGoto(m, "delivering")
  /\ UNCHANGED <<state, asset, transcript, marks, waits, run, aside, exports,
                 callers, exit, outside>>

\* deliver_all's first save; or deliver_again failed before it.
OpDeliver(m) ==
  /\ OpAt(m, "delivering")
  /\ \/ MarkPending(m) /\ OpGoto(m, "exporting")
     \/ UNCHANGED delivery /\ OpGoto(m, "closing")
  /\ UNCHANGED <<state, asset, transcript, marks, waits, run, aside, exports,
                 callers, exit, outside>>

OpExport(m) ==
  /\ OpAt(m, "exporting")
  /\ SaveOutcome(m)
  /\ OpGoto(m, "closing")
  /\ UNCHANGED <<state, asset, transcript, marks, waits, run, aside, exports,
                 callers, exit, outside>>

\* A re-export saves a row left pending as failed before it lets go.
OpClose(m) ==
  /\ OpAt(m, "closing")
  /\ delivery' = IF /\ op[m].kind # "rerun" /\ delivery[m] = "pending" /\ CanWrite(m)
                 THEN [delivery EXCEPT ![m] = "failed"] ELSE delivery
  /\ ReleaseOp(m)
  /\ UNCHANGED <<state, asset, transcript, claimed, jobHold, waits, run, aside,
                 exports, callers, exit, outside>>

-----------------------------------------------------------------------------
(* The app's exit, an update's hold, and the world outside.                 *)

\* ProcessingPipeline::quit: the latch first,
QuitLatches ==
  /\ Event("quit")
  /\ quit = "no"
  /\ quit' = "latched"
  /\ UNCHANGED <<rows, marks, waits, tasks, callers, quitTodo, installed, resumeDue, locked>>

\* then the meetings in flight and those waiting for the store,
QuitLists ==
  /\ quit = "latched"
  /\ quit' = "saving"
  /\ quitTodo' = inFlight \cup forStore
  /\ UNCHANGED <<rows, marks, waits, tasks, callers, outside>>

\* each one saved back as queued while it reads processing.
QuitSaves(m) ==
  /\ quit = "saving" /\ m \in quitTodo
  /\ quitTodo' = quitTodo \ {m}
  /\ state' = IF state[m] = "processing" THEN BestEffort(m, "queued") ELSE state
  /\ UNCHANGED <<asset, transcript, delivery, marks, waits, tasks, callers, quit, outside>>

\* The rest of App::shutdown, during which the jobs go on.
QuitSaved ==
  /\ quit = "saving" /\ quitTodo = {}
  /\ quit' = "done"
  /\ UNCHANGED <<rows, marks, waits, tasks, callers, quitTodo, outside>>

\* The process ends and the app is launched again: only the rows are left.
Relaunch ==
  /\ claimed' = {} /\ inFlight' = {} /\ jobHold' = FALSE
  /\ waiting' = {} /\ resumes' = 0 /\ forStore' = {} /\ owed' = FALSE
  /\ retryWake' = FALSE /\ retry' = "waiting"
  /\ run' = [m \in Meetings |-> NoRun] /\ aside' = {}
  /\ op' = [m \in Meetings |-> NoOp] /\ exports' = {}
  /\ resumer' = [r \in Threads |-> NoResumer]
  /\ launch' = "due" /\ saved' = {} /\ quit' = "no" /\ quitTodo' = {}
  /\ resumeDue' = FALSE
  /\ UNCHANGED <<rows, installed, locked>>

Exit == quit = "done" /\ Relaunch /\ UNCHANGED events
Crash == Event("crash") /\ Relaunch

\* InFlight::try_hold for an update's install, and the hold's drop.
TakeHold ==
  /\ Event("hold")
  /\ ~jobHold /\ IsIdle /\ ~Quitting
  /\ jobHold' = TRUE
  /\ UNCHANGED <<rows, claimed, inFlight, waits, tasks, callers, exit, installed,
                 resumeDue, locked>>

DropHold ==
  /\ jobHold
  /\ jobHold' = FALSE
  /\ UNCHANGED <<rows, claimed, inFlight, waits, tasks, callers, exit, outside>>

\* Store::delete_meeting, refused while recording or processing.
DeleteMeeting(m) ==
  /\ Event("delete")
  /\ state[m] \in {"queued", "ready", "failed"} /\ ~locked
  /\ state' = [state EXCEPT ![m] = "gone"]
  /\ asset' = [asset EXCEPT ![m] = FALSE]
  /\ transcript' = transcript \ {m}
  /\ delivery' = [delivery EXCEPT ![m] = "none"]
  /\ UNCHANGED <<marks, waits, tasks, callers, exit, installed, resumeDue, locked>>

\* The models disappear from disk, or are installed (again), after which
\* resume_waiting is called.
RemoveModels ==
  /\ Event("remove") /\ installed
  /\ installed' = FALSE
  /\ UNCHANGED <<rows, marks, waits, tasks, callers, exit, resumeDue, locked>>

InstallModels ==
  /\ ~installed
  /\ installed' = TRUE /\ resumeDue' = TRUE
  /\ UNCHANGED <<rows, marks, waits, tasks, callers, exit, locked, events>>

\* CurrentPipeline::reload: the new pipeline shares every mark and wait, so
\* the swap itself changes none, and it ends with resume_waiting.
Reload ==
  /\ Event("reload")
  /\ resumeDue' = TRUE
  /\ UNCHANGED <<rows, marks, waits, tasks, callers, exit, installed, locked>>

\* Another process takes and lets go of the database's write lock.
Lock ==
  /\ Event("lock") /\ ~locked
  /\ locked' = TRUE
  /\ UNCHANGED <<rows, marks, waits, tasks, callers, exit, installed, resumeDue>>

Unlock ==
  /\ locked
  /\ locked' = FALSE
  /\ UNCHANGED <<rows, marks, waits, tasks, callers, exit, installed, resumeDue, events>>

-----------------------------------------------------------------------------
(* The specification.                                                       *)

\* A launch over the rows the database holds.
Init ==
  /\ \E found \in [Meetings -> InitialRows] :
       /\ state = [m \in Meetings |-> found[m].state]
       /\ asset = [m \in Meetings |-> found[m].asset]
       /\ transcript = {m \in Meetings : found[m].transcript}
       /\ delivery = [m \in Meetings |-> found[m].delivery]
  /\ claimed = {} /\ inFlight = {} /\ jobHold = FALSE
  /\ waiting = {} /\ resumes = 0 /\ forStore = {} /\ owed = FALSE
  /\ retryWake = FALSE /\ retry = "waiting"
  /\ run = [m \in Meetings |-> NoRun] /\ aside = {}
  /\ op = [m \in Meetings |-> NoOp] /\ exports = {}
  /\ resumer = [r \in Threads |-> NoResumer]
  /\ launch = "due" /\ saved = {} /\ quit = "no" /\ quitTodo = {}
  /\ installed = TRUE /\ resumeDue = FALSE /\ locked = FALSE /\ events = 0

\* Nothing is under way: the app waits for its user.
Quiescent ==
  /\ \A m \in Meetings : At(m, "none") /\ OpAt(m, "none")
  /\ \A r \in Threads : Free(r)
  /\ aside = {} /\ saved = {} /\ exports = {} /\ launch = "done"
  /\ ~resumeDue /\ ~retryWake /\ retry = "waiting"
  /\ installed /\ ~locked /\ ~jobHold /\ ~Quitting

Idle == Quiescent /\ UNCHANGED vars

RunStep(m) ==
  \/ RunBegin(m) \/ RunAdmit(m) \/ RunWarmUp(m)
  \/ RunMark(m) \/ RunMerge(m) \/ RunSummarize(m)
  \/ RunPersist(m) \/ RunOwe(m) \/ RunReady(m) \/ RunDeliver(m) \/ RunExport(m)
  \/ RunMissesModels(m) \/ RunMeetsLock(m) \/ RunMissesRow(m) \/ RunHandlesFailure(m)
  \/ RunLeave(m) \/ RunDrop(m)

OpStep(m) ==
  \/ RedeliverAtLaunch(m) \/ StillOwed(m) \/ OpBegin(m)
  \/ Resummarize(m) \/ OpMarkPending(m) \/ OpDeliver(m) \/ OpExport(m) \/ OpClose(m)

ResumeStep(r) ==
  \/ ResumeUnfinished(r) \/ ResumeWaiting(r) \/ RetryTakes(r)
  \/ \E t \in aside : SetAsideForModels(t, r)
  \/ ResumeLists(r) \/ (\E m \in Meetings : ResumeTakes(r, m))
  \/ ResumeEnds(r) \/ ResumeMeetsLock(r) \/ ResumeMissesRow(r)

\* Requests the app completes once they were made.
CallStep(m) ==
  \/ EnqueueSave(m) \/ EnqueueSaved(m)
  \/ ReprocessReads(m) \/ ReprocessSave(m)
  \/ QuitSaves(m)

\* What users, updates, other processes and failures may do at any time.
Request(m) ==
  \/ EnqueueClaim(m) \/ SaveQueued(m) \/ ReprocessClaim(m)
  \/ (\E k \in {"redeliver", "rerun"} : ClaimOperation(m, k))
  \/ DeleteMeeting(m) \/ RunFaults(m)

World ==
  \/ QuitLatches \/ Crash \/ TakeHold \/ RemoveModels \/ Reload \/ Lock
  \/ \E r \in Threads : ResumeFaults(r)

Next ==
  \/ \E m \in Meetings : RunStep(m) \/ OpStep(m) \/ CallStep(m) \/ Request(m)
  \/ \E r \in Threads : ResumeStep(r)
  \/ \E t \in aside : SetAsideForStore(t)
  \/ RetryWakes \/ RedeliverUnfinished
  \/ QuitLists \/ QuitSaved \/ Exit
  \/ DropHold \/ InstallModels \/ Unlock
  \/ World \/ Idle

Spec == Init /\ [][Next]_vars

\* The runtime polls every task and thread that can go on, a hold ends with
\* its install, the user installs missing models, and the other process lets
\* go of the lock.
Fairness ==
  /\ \A m \in Meetings : WF_vars(RunStep(m)) /\ WF_vars(OpStep(m)) /\ WF_vars(CallStep(m))
  /\ \A r \in Threads : WF_vars(ResumeStep(r))
  /\ WF_vars(\E t \in aside : SetAsideForStore(t))
  /\ WF_vars(RetryWakes) /\ WF_vars(RedeliverUnfinished)
  /\ WF_vars(QuitLists) /\ WF_vars(QuitSaved) /\ WF_vars(Exit)
  /\ WF_vars(DropHold) /\ WF_vars(InstallModels) /\ WF_vars(Unlock)

FairSpec == Spec /\ Fairness

-----------------------------------------------------------------------------
(* Properties.                                                              *)

\* A run and a re-export or summary re-run never work on one meeting at the
\* same time, and both marks name exactly what is under way
\* (InFlightSet.meetings and .assets, admit, claim_start, and the drops).
OneOperationPerMeeting ==
  /\ \A m \in Meetings : ~(run[m].pc \in AdmittedPcs /\ op[m].pc # "none")
  /\ inFlight = {m \in Meetings : run[m].pc \in AdmittedPcs \/ op[m].pc # "none"}
  /\ claimed = {m \in Meetings : run[m].pc # "none"}

\* While an update's JobHold lives, no run has read a row and no operation
\* has begun its work, whichever was claimed before or after (try_hold,
\* until_released).
HoldKeepsJobsWaiting ==
  jobHold => \A m \in Meetings :
    /\ run[m].pc \in {"none", "saving", "rereading", "requeueing", "spawned", "dropping"}
    /\ op[m].pc \in {"none", "owing", "admitted"}

\* Some thread inside a resume still has the meeting in hand.
InHand(r, m) ==
  LET c == resumer[r] IN
  \/ c.pc = "listing" /\ (c.all \/ m \in c.among)
  \/ c.pc \in LoopPcs /\ (m \in c.todo \/ m \in c.busy \cap (c.among \cup c.models))

\* Something will start the meeting without another launch.
Promised(m) ==
  \/ m \in claimed \cup waiting \cup forStore \cup saved
  \/ \E t \in aside : t.meeting = m
  \/ \E r \in Threads : InHand(r, m)
  \/ launch = "due" \/ owed

\* No unfinished meeting is skipped: while the app runs, each one has a run,
\* waits for the models or the store, or is in some resume's hands (the rules
\* of ModelWaits, resume_among, start_waiting, resume_waiting_for_store).
NoMeetingSkipped ==
  ~Quitting => \A m \in Meetings : state[m] \in {"queued", "processing"} => Promised(m)

\* Nothing takes a ready meeting back but "Process again" and a delete
\* (process: "nothing downgrades it").
ReadyIsKept ==
  [][\A m \in Meetings : (state[m] = "ready" /\ state'[m] # "ready") =>
        \/ state'[m] = "gone"
        \/ state'[m] = "queued" /\ run[m].pc = "requeueing"]_vars

\* No stage faults, nothing crashes, quits or is deleted, and the app is in use
\* only after its launch, which finds nothing processing, and nothing without
\* its audio where the store may be locked: its resume never comes late.
FindsOrder ==
  /\ {"fault", "crash", "quit", "delete"} \cap Events = {} /\ ~KeyringAsks
  /\ \A row \in InitialRows : row.state # "processing" /\ (row.state = "failed" => ~row.asset)
  /\ "lock" \in Events => \A row \in InitialRows : row.state = "queued" => row.asset

\* Then missing models, a busy store, a reload, a hold and whatever the user
\* asks for fail no meeting that has its audio: a resume that lists one as
\* processing under another's run leaves it alone (resume_among, park,
\* park_for_store, process_held).  A launch's resume that comes late, and the
\* launch after an exit, do fail such meetings.
FailedOnlyForCause ==
  FindsOrder => \A m \in Meetings : state[m] = "failed" => ~asset[m]

\* A ready meeting has the transcript of a run.
ReadyHasTranscript == \A m \in Meetings : state[m] = "ready" => m \in transcript

\* The export of a ready meeting was owed before it was ready: a crash at any
\* point leaves a row that says so (persist, resummarize).
ReadyIsExportedOrOwed == \A m \in Meetings : state[m] = "ready" => delivery[m] # "none"

\* An orderly exit leaves no meeting processing, which the next launch would
\* fail as a crash (quit, resume_among).
ExitLeavesNothingProcessing ==
  [][(quit = "done" /\ quit' = "no") => \A m \in Meetings : state[m] # "processing"]_vars

\* Every queued meeting is finished at last, however often its models were
\* missing or the store was busy.
EveryMeetingFinishes ==
  \A m \in Meetings :
    (state[m] = "queued") ~> (state[m] \in {"ready", "failed", "gone"})

\* Every export owed is tried, if need be by the next launch.
OwedExportsAreTried ==
  \A m \in Meetings :
    (state[m] = "ready" /\ delivery[m] = "pending")
       ~> (delivery[m] # "pending" \/ state[m] # "ready")
=============================================================================
