--------------------------- MODULE CaptureSession ---------------------------
(***************************************************************************)
(* A capture session of steno-audio (capture/session.rs): one recording at *)
(* a time, and the threads that start it, follow its device changes and    *)
(* end it.  The session's mutex is held over every action that reads or    *)
(* writes `state`, `active` or what stands beside them; stops and joins of *)
(* other threads are actions of their own, as the code makes them with the *)
(* mutex released.                                                         *)
(*                                                                         *)
(* Time, sample counts and which input a stream runs on are left open: a   *)
(* wait may end whenever nothing else ends it, and a restart's plan is any *)
(* the reason allows.  Panics (Unwinding) and the level meter are left     *)
(* out.                                                                    *)
(***************************************************************************)
EXTENDS Naturals, FiniteSets

CONSTANTS
  Callers,            \* threads that call stop()
  RestartAttempts,    \* RESTART_ATTEMPTS
  Chosen,             \* a microphone is configured: input_device_uid
  MayBeTheMicrophone, \* stall_may_be_the_microphone
  Watched,            \* the backend delivers continuously
  MaxStarts,          \* recordings begun in a behaviour: a bound
  MaxReports          \* device changes reported in a behaviour: a bound

ASSUME SessionAssumption ==
  /\ RestartAttempts \in Nat \ {0} /\ MaxStarts \in Nat /\ MaxReports \in Nat
  /\ Chosen \in BOOLEAN /\ MayBeTheMicrophone \in BOOLEAN /\ Watched \in BOOLEAN

Recordings == 1..MaxStarts
Generations == 1..MaxReports
Reasons == {"device", "service", "stalled"}

\* The threads that may end a recording.
Finishers == ({"call"} \X Callers) \cup ({"writer"} \X Recordings)
             \cup ({"rebuild"} \X Generations)

VARIABLES
  state,      \* CaptureState, and the recording a Failed carries
  started,    \* recordings_started
  generation, \* rebuild_generation
  finalised,  \* the newest recording a Failed carried, 0 before the first
  held,       \* the session holds the echo canceller
  active,     \* Active, NoActive for None
  latch,      \* device_change_reported, per recording's sink
  stream,     \* what the backend captures into, and whether its device changed
  report,     \* the backend's watcher, reporting a change
  reports,    \* changes reported so far
  watch,      \* the watch thread, per recording
  running,    \* the processing thread, per recording
  writer,     \* the writer thread, per recording
  wfail,      \* the thread a failed write spawns, per recording
  rb,         \* the rebuild threads
  call,       \* the callers, and each one's newest answer from stop()
  fin,        \* where each finisher is in finish()
  files       \* a recording's files

session == <<state, started, generation, finalised, held, active>>
backend == <<stream, report, reports>>
threads == <<watch, running, writer, wfail, rb>>
vars == <<session, latch, backend, threads, call, fin, files>>

NoActive == [recording |-> 0, processing |-> FALSE, rebuild |-> 0, pending |-> "none"]
NoStream == [recording |-> 0, delivering |-> FALSE, changed |-> FALSE]
NoReport == [pc |-> "none", recording |-> 0, reason |-> "none"]
NotFinishing == [step |-> "no", taken |-> NoActive, result |-> "none"]
NoRebuild == [pc |-> "none", recording |-> 0, reason |-> "none", cancelled |-> FALSE,
              took |-> FALSE, canceller |-> FALSE, attempt |-> 0, try |-> "chosen",
              tried |-> FALSE, onFallback |-> FALSE, first |-> FALSE, didNotRun |-> FALSE]

Maybe(S) == S \cup {"none"}
Actives == [recording : 0..MaxStarts, processing : BOOLEAN, rebuild : 0..MaxReports,
            pending : Maybe(Reasons)]
RebuildPcs == {"none", "spawned", "stopOld", "join", "handBack", "rearm", "restart", "try",
               "waiting", "giveUp", "forget", "rearmAgain", "silence", "resume",
               "exhausted", "finishing", "ended"}
Steps == {"no", "take", "watch", "rebuild", "backend", "processing", "writer", "close", "set"}

TypeOK ==
  /\ state \in [kind : {"idle", "recording", "stopping", "failed"}, recording : 0..MaxStarts]
  /\ started \in 0..MaxStarts /\ generation \in 0..MaxReports
  /\ finalised \in 0..MaxStarts /\ held \in BOOLEAN
  /\ active \in Actives
  /\ latch \in [Recordings -> BOOLEAN]
  /\ stream \in [recording : 0..MaxStarts, delivering : BOOLEAN, changed : BOOLEAN]
  /\ report \in [pc : {"none", "decided", "handling"}, recording : 0..MaxStarts,
                 reason : Maybe(Reasons)]
  /\ reports \in 0..MaxReports
  /\ watch \in [Recordings -> [pc : {"none", "watching", "decided", "handling", "ended"},
                               reason : Maybe(Reasons), cancelled : BOOLEAN]]
  /\ running \in [Recordings -> {"no", "plain", "cancelling"}]
  /\ writer \in [Recordings -> {"no", "runs", "failed", "ended"}]
  /\ wfail \in [Recordings -> {"none", "spawned", "finishing", "ended"}]
  /\ rb \in [Generations ->
       [pc : RebuildPcs, recording : 0..MaxStarts, reason : Maybe(Reasons), cancelled : BOOLEAN,
        took : BOOLEAN, canceller : BOOLEAN, attempt : 0..RestartAttempts,
        try : {"first", "chosen", "default"}, tried : BOOLEAN, onFallback : BOOLEAN,
        first : BOOLEAN, didNotRun : BOOLEAN]]
  /\ call \in [Callers -> [pc : {"idle", "waiting", "finishing"}, of : 0..MaxStarts,
                           got : 0..MaxStarts, waited : BOOLEAN]]
  /\ fin \in [Finishers -> [step : Steps, taken : Actives,
                            result : {"none", "clean", "failed", "gone"}]]
  /\ files \in [Recordings -> {"none", "open", "saved", "gone"}]

Init ==
  /\ state = [kind |-> "idle", recording |-> 0]
  /\ started = 0 /\ generation = 0 /\ finalised = 0 /\ held = TRUE
  /\ active = NoActive
  /\ latch = [r \in Recordings |-> FALSE]
  /\ stream = NoStream /\ report = NoReport /\ reports = 0
  /\ watch = [r \in Recordings |-> [pc |-> "none", reason |-> "none", cancelled |-> FALSE]]
  /\ running = [r \in Recordings |-> "no"]
  /\ writer = [r \in Recordings |-> "no"]
  /\ wfail = [r \in Recordings |-> "none"]
  /\ rb = [g \in Generations |-> NoRebuild]
  /\ call = [c \in Callers |-> [pc |-> "idle", of |-> 0, got |-> 0, waited |-> FALSE]]
  /\ fin = [p \in Finishers |-> NotFinishing]
  /\ files = [r \in Recordings |-> "none"]

Recording == state.kind = "recording"

\* set_state(Failed): a recording it carries is kept beside its number.
Fails(r) ==
  /\ state' = [kind |-> "failed", recording |-> r]
  /\ finalised' = IF r = 0 THEN finalised ELSE r

\* set_state(Stopping) by the thread that goes on to finish().
BeginsFinish(p) ==
  /\ state' = [kind |-> "stopping", recording |-> 0]
  /\ fin' = [fin EXCEPT ![p] = [NotFinishing EXCEPT !.step = "take"]]

-----------------------------------------------------------------------------
(* start() and stop().                                                      *)

\* A new processing thread takes the canceller the session holds.
ProcessingOf(r) == running' = [running EXCEPT ![r] = IF held THEN "cancelling" ELSE "plain"]

StartRuns(r) ==
  /\ state' = [kind |-> "recording", recording |-> 0]
  /\ stream' = [NoStream EXCEPT !.recording = r]
  /\ active' = [NoActive EXCEPT !.recording = r, !.processing = TRUE]
  /\ ProcessingOf(r) /\ held' = FALSE
  /\ writer' = [writer EXCEPT ![r] = "runs"]
  /\ watch' = IF Watched THEN [watch EXCEPT ![r].pc = "watching"] ELSE watch
  /\ files' = [files EXCEPT ![r] = "open"]
  /\ UNCHANGED finalised

\* The writer, or every start of the backend, refused.
StartFails ==
  /\ Fails(0)
  /\ UNCHANGED <<stream, active, running, held, writer, watch, files>>

\* By any thread.  The mutex is held throughout, so Starting is seen by nobody.
Start ==
  /\ started < MaxStarts
  /\ state.kind \in {"idle", "failed"}
  /\ started' = started + 1
  /\ StartRuns(started + 1) \/ StartFails
  /\ UNCHANGED <<generation, latch, report, reports, wfail, rb, call, fin>>

Answers(c, of, got, waited) ==
  call' = [call EXCEPT ![c] = [pc |-> "idle", of |-> of, got |-> got, waited |-> waited]]

\* stop() with the mutex, once no finalise runs.
StopDecides(c, of, waited) ==
  \/ /\ started # of
     /\ Answers(c, of, IF finalised = of THEN of ELSE 0, waited)
     /\ UNCHANGED <<state, fin>>
  \/ /\ started = of /\ Recording
     /\ BeginsFinish(<<"call", c>>)
     /\ call' = [call EXCEPT ![c] = [pc |-> "finishing", of |-> of, got |-> 0,
                                     waited |-> waited]]
  \/ /\ started = of /\ ~Recording
     /\ Answers(c, of, IF state.kind = "failed" THEN state.recording ELSE 0, waited)
     /\ UNCHANGED <<state, fin>>

StopOthers == UNCHANGED <<started, generation, finalised, held, active, latch, backend, threads,
                          files>>

Stop(c) ==
  /\ call[c].pc = "idle"
  /\ \/ /\ state.kind = "stopping"
        /\ call' = [call EXCEPT ![c] = [pc |-> "waiting", of |-> started, got |-> 0,
                                        waited |-> TRUE]]
        /\ UNCHANGED <<state, fin>>
     \/ state.kind # "stopping" /\ StopDecides(c, started, FALSE)
  /\ StopOthers

\* Woken by set_state, with whatever happened since.
StopWakes(c) ==
  /\ call[c].pc = "waiting" /\ state.kind # "stopping"
  /\ StopDecides(c, call[c].of, TRUE)
  /\ StopOthers

-----------------------------------------------------------------------------
(* finish(), by whoever set Stopping.                                       *)

At(p, step) == fin[p].step = step
Goes(p, step) == fin' = [fin EXCEPT ![p].step = step]
Ends(p, result) == fin' = [fin EXCEPT ![p].step = "set", ![p].result = result]
Taken(p) == fin[p].taken

FinishOthers == UNCHANGED <<state, started, generation, finalised, call>>

\* Takes the recording out of the session, and cancels its watch.
TakeActive(p) ==
  /\ At(p, "take")
  /\ IF active = NoActive
     THEN Ends(p, "gone") /\ UNCHANGED <<active, watch>>
     ELSE /\ fin' = [fin EXCEPT ![p].step = "watch", ![p].taken = active]
          /\ active' = NoActive
          /\ watch' = [watch EXCEPT ![active.recording].cancelled = TRUE]
  /\ FinishOthers /\ UNCHANGED <<held, latch, backend, running, writer, wfail, rb, files>>

\* Joins the watch thread, then cancels the rebuild.
JoinWatch(p) ==
  /\ At(p, "watch")
  /\ watch[Taken(p).recording].pc \in {"none", "ended"}
  /\ rb' = IF Taken(p).rebuild = 0 THEN rb ELSE [rb EXCEPT ![Taken(p).rebuild].cancelled = TRUE]
  /\ Goes(p, "rebuild")
  /\ FinishOthers
  /\ UNCHANGED <<held, active, latch, backend, watch, running, writer, wfail, files>>

\* Mutant of JoinRebuild: cancelled is taken for ended.
LeaveRebuild(p) ==
  /\ At(p, "rebuild")
  /\ Goes(p, "backend")
  /\ FinishOthers /\ UNCHANGED <<held, active, latch, backend, threads, files>>

JoinRebuild(p) ==
  /\ At(p, "rebuild")
  /\ Taken(p).rebuild # 0 => rb[Taken(p).rebuild].pc = "ended"
  /\ Goes(p, "backend")
  /\ FinishOthers /\ UNCHANGED <<held, active, latch, backend, threads, files>>

\* CaptureBackend::stop: the gate lets no new report in and waits for the
\* one inside to leave. The deadline past which it leaves a report behind is
\* left out: a report only takes the mutex, and nobody stops the backend with it.
BackendStops == report.pc = "none" /\ stream' = NoStream /\ UNCHANGED <<report, reports>>

StopBackend(p) ==
  /\ At(p, "backend")
  /\ BackendStops
  /\ Goes(p, "processing")
  /\ FinishOthers /\ UNCHANGED <<held, active, latch, threads, files>>

\* Joins the processing thread, unless a rebuild did, and takes its canceller
\* back.
JoinProcessing(p) ==
  LET r == Taken(p).recording IN
  /\ At(p, "processing")
  /\ IF Taken(p).processing
     THEN held' = (running[r] = "cancelling") /\ running' = [running EXCEPT ![r] = "no"]
     ELSE UNCHANGED <<held, running>>
  /\ Goes(p, "writer")
  /\ FinishOthers /\ UNCHANGED <<active, latch, backend, watch, writer, wfail, rb, files>>

\* Joins the writer thread after its last drain; a thread that died leaves no
\* writer to close.
JoinWriter(p) ==
  LET r == Taken(p).recording IN
  /\ At(p, "writer")
  /\ writer' = [writer EXCEPT ![r] = "ended"]
  /\ \/ fin' = [fin EXCEPT ![p].step = "close",
                           ![p].result = IF writer[r] = "failed" THEN "failed" ELSE "none"]
        /\ UNCHANGED files
     \/ Ends(p, "gone") /\ files' = [files EXCEPT ![r] = "gone"]
  /\ FinishOthers /\ UNCHANGED <<held, active, latch, backend, watch, running, wfail, rb>>

\* sink.clear(), writer.finish() and the look for the master.
CloseFiles(p) ==
  LET r == Taken(p).recording IN
  /\ At(p, "close")
  /\ \/ Ends(p, "gone") /\ files' = [files EXCEPT ![r] = "gone"]
     \/ /\ \/ Ends(p, "failed")
           \/ At(p, "close") /\ fin[p].result = "none" /\ Ends(p, "clean")
        /\ files' = [files EXCEPT ![r] = "saved"]
  /\ FinishOthers /\ UNCHANGED <<held, active, latch, backend, threads>>

\* The state after finish(): only a clean stop() returns to Idle.
SetFinished(p) ==
  LET r == Taken(p).recording
      result == fin[p].result IN
  /\ At(p, "set")
  /\ \/ /\ result = "clean" /\ p[1] = "call"
        /\ state' = [kind |-> "idle", recording |-> 0]
        /\ UNCHANGED finalised
     \/ /\ ~(result = "clean" /\ p[1] = "call")
        /\ Fails(IF result = "gone" THEN 0 ELSE r)
  /\ fin' = [fin EXCEPT ![p] = NotFinishing]
  /\ call' = IF p[1] = "call"
             THEN [call EXCEPT ![p[2]].pc = "idle", ![p[2]].got = IF result = "gone" THEN 0 ELSE r]
             ELSE call
  /\ wfail' = IF p[1] = "writer" THEN [wfail EXCEPT ![p[2]] = "ended"] ELSE wfail
  /\ rb' = IF p[1] = "rebuild" THEN [rb EXCEPT ![p[2]].pc = "ended"] ELSE rb
  /\ UNCHANGED <<started, generation, held, active, latch, backend, watch, running, writer, files>>

Finish(p) ==
  \/ TakeActive(p) \/ JoinWatch(p) \/ JoinRebuild(p) \/ StopBackend(p)
  \/ JoinProcessing(p) \/ JoinWriter(p) \/ CloseFiles(p) \/ SetFinished(p)

-----------------------------------------------------------------------------
(* A failed write.                                                          *)

\* The handler runs once, on the writer thread; spawning may be refused.
WriterFails(r) ==
  /\ writer[r] = "runs"
  /\ writer' = [writer EXCEPT ![r] = "failed"]
  /\ wfail' \in {[wfail EXCEPT ![r] = "spawned"], wfail}
  /\ UNCHANGED <<session, latch, backend, watch, running, rb, call, fin, files>>

\* Ends recording r, and only r.
WriterFailed(r) ==
  /\ wfail[r] = "spawned"
  /\ \/ /\ Recording /\ started = r
        /\ BeginsFinish(<<"writer", r>>)
        /\ wfail' = [wfail EXCEPT ![r] = "finishing"]
     \/ /\ ~(Recording /\ started = r)
        /\ wfail' = [wfail EXCEPT ![r] = "ended"]
        /\ UNCHANGED <<state, fin>>
  /\ UNCHANGED <<started, generation, finalised, held, active, latch, backend, watch, running,
                 writer, rb, call, files>>

-----------------------------------------------------------------------------
(* Device changes: who reports them, and the rebuild they begin.            *)

\* begin_rebuild with `a` the session's active recording and `threads0` the
\* rebuild threads; a spawn that fails opens the latch again, and the stream
\* runs on from the device that is gone.
BeginRebuild(a, threads0, reason) ==
  \/ /\ ~Recording \/ a = NoActive
     /\ active' = a /\ rb' = threads0 /\ UNCHANGED <<generation, latch, stream>>
  \/ /\ Recording /\ a # NoActive /\ a.rebuild # 0
     /\ active' = [a EXCEPT !.pending = reason]
     /\ rb' = threads0 /\ UNCHANGED <<generation, latch, stream>>
  \/ /\ Recording /\ a # NoActive /\ a.rebuild = 0
     /\ generation' = generation + 1
     /\ active' = [a EXCEPT !.rebuild = generation + 1]
     /\ rb' = [threads0 EXCEPT ![generation + 1] =
                 [NoRebuild EXCEPT !.pc = "spawned", !.recording = started, !.reason = reason]]
     /\ UNCHANGED <<latch, stream>>
  \/ /\ Recording /\ a # NoActive /\ a.rebuild = 0
     /\ latch' = [latch EXCEPT ![a.recording] = FALSE]
     /\ active' = a /\ rb' = threads0 /\ UNCHANGED <<generation, stream>>

\* The sink's handler, for a report from the backend of recording r.
DeviceChangedIn(r, reason) ==
  \/ started = r /\ BeginRebuild(active, rb, reason)
  \/ started # r /\ UNCHANGED <<active, rb, generation, latch, stream>>

\* A stream's first frame, after its start or a gap.
StreamDelivers ==
  /\ stream # NoStream /\ ~stream.delivering
  /\ stream' = [stream EXCEPT !.delivering = TRUE]
  /\ UNCHANGED <<session, latch, report, reports, threads, call, fin, files>>

\* The device changed under the running stream: its watcher is inside the
\* gate with a report.
DeviceChanges(reason) ==
  /\ stream # NoStream /\ report = NoReport /\ reports < MaxReports
  /\ reports' = reports + 1
  /\ stream' = [stream EXCEPT !.changed = TRUE]
  /\ report' = [pc |-> "decided", recording |-> stream.recording, reason |-> reason]
  /\ UNCHANGED <<session, latch, threads, call, fin, files>>

\* report_device_change: the compare-exchange on the sink's latch.
ReportLatches ==
  /\ report.pc = "decided"
  /\ latch' = [latch EXCEPT ![report.recording] = TRUE]
  /\ report' = IF latch[report.recording] THEN NoReport ELSE [report EXCEPT !.pc = "handling"]
  /\ UNCHANGED <<session, stream, reports, threads, call, fin, files>>

ReportHandled ==
  /\ report.pc = "handling"
  /\ DeviceChangedIn(report.recording, report.reason)
  /\ report' = NoReport
  /\ UNCHANGED <<state, started, finalised, held, reports, watch, running, writer, wfail, call,
                 fin, files>>

WatchGoes(r, pc) ==
  watch' = [watch EXCEPT ![r].pc = pc, ![r].reason = IF pc = "handling" THEN @ ELSE "none"]

WatchOthers == UNCHANGED <<state, started, finalised, held, report, running, writer, wfail, call,
                           fin, files>>

\* A sample of the watch thread, under the mutex: it judges nothing while a
\* rebuild runs, and the report it decides on is made after the mutex.
WatchDecides(r, reason) ==
  /\ watch[r].pc = "watching" /\ ~watch[r].cancelled
  /\ started = r /\ Recording /\ active # NoActive /\ active.rebuild = 0
  /\ reports < MaxReports
  /\ reports' = reports + 1
  /\ watch' = [watch EXCEPT ![r].pc = "decided", ![r].reason = reason]
  /\ WatchOthers /\ UNCHANGED <<active, generation, latch, stream, rb>>

WatchEnds(r) ==
  /\ watch[r].pc = "watching"
  /\ watch[r].cancelled \/ started # r \/ ~Recording \/ active = NoActive
  /\ WatchGoes(r, "ended")
  /\ WatchOthers /\ UNCHANGED <<active, generation, latch, stream, reports, rb>>

WatchLatches(r) ==
  /\ watch[r].pc = "decided"
  /\ latch' = [latch EXCEPT ![r] = TRUE]
  /\ WatchGoes(r, IF latch[r] THEN "watching" ELSE "handling")
  /\ WatchOthers /\ UNCHANGED <<active, generation, stream, reports, rb>>

WatchHandled(r) ==
  /\ watch[r].pc = "handling"
  /\ DeviceChangedIn(r, watch[r].reason)
  /\ WatchGoes(r, "watching")
  /\ WatchOthers /\ UNCHANGED reports

-----------------------------------------------------------------------------
(* The rebuild thread.                                                      *)

RAt(g, pc) == rb[g].pc = pc
RGoes(g, pc) == rb' = [rb EXCEPT ![g].pc = pc]

\* Past the restarts nothing of the plan is read again.
Past(g, pc) == [rb EXCEPT ![g] = [NoRebuild EXCEPT !.pc = pc, !.recording = rb[g].recording,
                                                   !.cancelled = rb[g].cancelled]]
RPast(g, pc) == rb' = Past(g, pc)

StillRebuilding(g) == Recording /\ active.rebuild # 0 /\ generation = g

RebuildOthers ==
  UNCHANGED <<state, started, generation, finalised, reports, watch, writer, wfail, call, fin,
              files>>

RebuildBegins(g) ==
  /\ RAt(g, "spawned")
  /\ \/ ~StillRebuilding(g) /\ RPast(g, "ended") /\ UNCHANGED active
     \/ /\ StillRebuilding(g)
        /\ active' = [active EXCEPT !.processing = FALSE]
        /\ \E onFallback, soon \in BOOLEAN, continues \in 0..RestartAttempts :
             /\ onFallback => Chosen
             /\ continues # 0 => rb[g].reason = "stalled"
             /\ rb' = [rb EXCEPT
                  ![g].pc = "stopOld", ![g].took = active.processing,
                  ![g].attempt = continues, ![g].onFallback = onFallback,
                  ![g].first = /\ rb[g].reason = "stalled" /\ soon /\ MayBeTheMicrophone
                               /\ ~onFallback /\ Chosen]
  /\ RebuildOthers /\ UNCHANGED <<held, latch, stream, report, running>>

\* Mutant of StopOldStream: the old stream runs on until the start.
LeaveOldStream(g) ==
  /\ RAt(g, "stopOld") /\ RGoes(g, "join")
  /\ RebuildOthers /\ UNCHANGED <<held, active, latch, stream, report, running>>

StopOldStream(g) ==
  /\ RAt(g, "stopOld")
  /\ BackendStops
  /\ RGoes(g, "join")
  /\ RebuildOthers /\ UNCHANGED <<held, active, latch, running>>

\* Mutant of JoinOldProcessing: asked to stop, and not waited for.
LeaveOldProcessing(g) ==
  /\ RAt(g, "join") /\ RGoes(g, "handBack")
  /\ RebuildOthers /\ UNCHANGED <<held, active, latch, stream, report, running>>

JoinOldProcessing(g) ==
  LET r == rb[g].recording IN
  /\ RAt(g, "join")
  /\ IF rb[g].took
     THEN /\ running' = [running EXCEPT ![r] = "no"]
          /\ rb' = [rb EXCEPT ![g].pc = "handBack", ![g].took = FALSE,
                                ![g].canceller = running[r] = "cancelling"]
     ELSE RGoes(g, "handBack") /\ UNCHANGED running
  /\ RebuildOthers /\ UNCHANGED <<held, active, latch, stream, report>>

\* Under the mutex, whether or not the recording is still there.
HandBackCanceller(g) ==
  /\ RAt(g, "handBack")
  /\ held' = rb[g].canceller
  /\ rb' = [rb EXCEPT ![g].pc = "rearm", ![g].canceller = FALSE]
  /\ RebuildOthers /\ UNCHANGED <<active, latch, stream, report, running>>

\* Mutant of Rearm: the latch stays closed for the next stream.
RearmNothing(g, pc, next) ==
  /\ RAt(g, pc)
  /\ rb' = [rb EXCEPT ![g] = next]
  /\ RebuildOthers /\ UNCHANGED <<held, active, latch, stream, report, running>>

\* rearm_device_change: the next stream's first report goes through.
Rearm(g, pc, next) ==
  /\ RAt(g, pc)
  /\ latch' = [latch EXCEPT ![rb[g].recording] = FALSE]
  /\ rb' = [rb EXCEPT ![g] = next]
  /\ RebuildOthers /\ UNCHANGED <<held, active, stream, report, running>>

\* An attempt whose starts all failed: the last one ends the recording,
\* unless the restarts go on until one runs.
AttemptFailed(t) ==
  [t EXCEPT !.pc = IF t.attempt = RestartAttempts /\ t.reason = "device" /\ ~t.didNotRun
                   THEN "exhausted" ELSE "restart"]

\* One start failed, or it started what did not run (DidNotRun): the next one
\* of the attempt, or the attempt.
StartFailed(t, didNotRun) ==
  LET u == [t EXCEPT !.didNotRun = IF t.try = "chosen" THEN didNotRun ELSE @]
      last == u.attempt = RestartAttempts
      early == ~u.tried /\ (u.onFallback \/ (u.didNotRun /\ MayBeTheMicrophone))
      mayHelp == ~u.didNotRun \/ MayBeTheMicrophone IN
  IF t.try = "first" THEN [u EXCEPT !.pc = "try", !.try = "chosen"]
  ELSE IF t.try = "chosen" /\ (early \/ (last /\ mayHelp)) /\ Chosen
       THEN [u EXCEPT !.pc = "try", !.try = "default", !.tried = TRUE]
       ELSE AttemptFailed(u)

\* The top of restart_backend's loop: the backoff, cut short by a cancel, and
\* the attempt's first start.
NextAttempt(g) ==
  /\ RAt(g, "restart")
  /\ \/ rb[g].attempt > 0 /\ rb[g].cancelled /\ RPast(g, "ended")
     \/ LET first == rb[g].first /\ ~rb[g].tried IN
        rb' = [rb EXCEPT ![g].pc = "try",
                         ![g].attempt = IF @ < RestartAttempts THEN @ + 1 ELSE @,
                         ![g].try = IF first THEN "first" ELSE "chosen",
                         ![g].tried = @ \/ first]
  /\ RebuildOthers /\ UNCHANGED <<held, active, latch, stream, report, running>>

\* One start of the backend, under the mutex.
TryStart(g) ==
  /\ RAt(g, "try")
  /\ \/ ~StillRebuilding(g) /\ RPast(g, "ended") /\ UNCHANGED stream
     \/ /\ StillRebuilding(g)
        /\ stream' = [NoStream EXCEPT !.recording = rb[g].recording]
        /\ IF Watched THEN RGoes(g, "waiting") ELSE RPast(g, "silence")
     \/ /\ StillRebuilding(g)
        /\ \E didNotRun \in BOOLEAN : rb' = [rb EXCEPT ![g] = StartFailed(@, didNotRun)]
        /\ UNCHANGED stream
  /\ RebuildOthers /\ UNCHANGED <<held, active, latch, report, running>>

\* The wait for the first frame ends with it, with a stop, or unanswered.
WaitForFrame(g) ==
  /\ RAt(g, "waiting")
  /\ IF stream.delivering \/ rb[g].cancelled THEN RPast(g, "silence") ELSE RGoes(g, "giveUp")
  /\ RebuildOthers /\ UNCHANGED <<held, active, latch, stream, report, running>>

GiveUpStream(g) ==
  /\ RAt(g, "giveUp")
  /\ BackendStops
  /\ RGoes(g, "forget")
  /\ RebuildOthers /\ UNCHANGED <<held, active, latch, running>>

\* What the stopped stream reported concerns nobody.
ForgetChange(g) ==
  /\ RAt(g, "forget")
  /\ active' = IF active = NoActive THEN active ELSE [active EXCEPT !.pending = "none"]
  /\ RGoes(g, "rearmAgain")
  /\ RebuildOthers /\ UNCHANGED <<held, latch, stream, report, running>>

\* write_silence and relay_has_room: each step looks for a stop, and a full
\* relay is waited out.
Fill(g) ==
  /\ RAt(g, "silence")
  /\ \/ ~StillRebuilding(g) /\ RPast(g, "ended")
     \/ RGoes(g, "resume")
  /\ RebuildOthers /\ UNCHANGED <<held, active, latch, stream, report, running>>

\* Mutant of Resume: the change reported meanwhile is left behind.
ResumeForgets(g) ==
  LET r == rb[g].recording IN
  /\ RAt(g, "resume")
  /\ \/ ~StillRebuilding(g) /\ RPast(g, "ended") /\ UNCHANGED <<active, held, running>>
     \/ /\ StillRebuilding(g)
        /\ ProcessingOf(r) /\ held' = FALSE
        /\ active' = [active EXCEPT !.processing = TRUE, !.rebuild = 0, !.pending = "none"]
        /\ RPast(g, "ended")
  /\ RebuildOthers /\ UNCHANGED <<latch, stream, report>>

\* The new processing thread; a change reported meanwhile begins the next
\* rebuild under the same guard.
Resume(g) ==
  LET r == rb[g].recording
      a == [active EXCEPT !.processing = TRUE, !.rebuild = 0, !.pending = "none"]
      ended == Past(g, "ended") IN
  /\ RAt(g, "resume")
  /\ \/ /\ ~StillRebuilding(g) /\ rb' = ended
        /\ UNCHANGED <<active, generation, held, running, latch, stream>>
     \/ /\ StillRebuilding(g)
        /\ ProcessingOf(r) /\ held' = FALSE
        /\ IF active.pending = "none"
           THEN active' = a /\ rb' = ended /\ UNCHANGED <<generation, latch, stream>>
           ELSE BeginRebuild(a, ended, active.pending)
  /\ UNCHANGED <<state, started, finalised, reports, report, watch, writer, wfail, call, fin,
                 files>>

\* Mutant of DeviceLost: finish() finds the rebuild it runs in.
DeviceLostJoinsItself(g) ==
  /\ RAt(g, "exhausted")
  /\ \/ /\ Recording /\ started = rb[g].recording /\ generation = g /\ active # NoActive
        /\ BeginsFinish(<<"rebuild", g>>)
        /\ RPast(g, "finishing")
     \/ /\ ~(Recording /\ started = rb[g].recording /\ generation = g /\ active # NoActive)
        /\ RPast(g, "ended")
        /\ UNCHANGED <<state, fin>>
  /\ UNCHANGED <<started, generation, finalised, held, active, latch, backend, watch, running,
                 writer, wfail, call, files>>

\* Every restart failed: the rebuild thread itself ends the recording, and
\* takes itself out of what finish() joins.
DeviceLost(g) ==
  /\ RAt(g, "exhausted")
  /\ \/ /\ Recording /\ started = rb[g].recording /\ generation = g /\ active # NoActive
        /\ active' = [active EXCEPT !.rebuild = 0]
        /\ BeginsFinish(<<"rebuild", g>>)
        /\ RPast(g, "finishing")
     \/ /\ ~(Recording /\ started = rb[g].recording /\ generation = g /\ active # NoActive)
        /\ RPast(g, "ended")
        /\ UNCHANGED <<active, state, fin>>
  /\ UNCHANGED <<started, generation, finalised, held, latch, backend, watch, running, writer,
                 wfail, call, files>>

Rebuilds(g) ==
  \/ RebuildBegins(g) \/ StopOldStream(g) \/ JoinOldProcessing(g) \/ HandBackCanceller(g)
  \/ Rearm(g, "rearm", [rb[g] EXCEPT !.pc = "restart"])
  \/ NextAttempt(g) \/ TryStart(g) \/ WaitForFrame(g) \/ GiveUpStream(g) \/ ForgetChange(g)
  \/ Rearm(g, "rearmAgain", StartFailed(rb[g], TRUE))
  \/ Fill(g) \/ Resume(g) \/ DeviceLost(g)

-----------------------------------------------------------------------------

Next ==
  \/ Start \/ \E c \in Callers : Stop(c) \/ StopWakes(c)
  \/ \E p \in Finishers : Finish(p)
  \/ \E r \in Recordings :
       \/ WriterFails(r) \/ WriterFailed(r)
       \/ WatchEnds(r) \/ WatchLatches(r) \/ WatchHandled(r)
       \/ \E reason \in {"stalled", "device"} : WatchDecides(r, reason)
  \/ StreamDelivers \/ ReportLatches \/ ReportHandled
  \/ \E reason \in {"device", "service"} : DeviceChanges(reason)
  \/ \E g \in Generations : Rebuilds(g)

Spec == Init /\ [][Next]_vars

\* Every thread goes on; nothing is asked of callers, devices or disks.
Fairness ==
  /\ \A c \in Callers : WF_vars(StopWakes(c))
  /\ \A p \in Finishers : WF_vars(Finish(p))
  /\ \A r \in Recordings :
       /\ WF_vars(WriterFailed(r)) /\ WF_vars(WatchEnds(r))
       /\ WF_vars(WatchLatches(r)) /\ WF_vars(WatchHandled(r))
  /\ WF_vars(ReportLatches) /\ WF_vars(ReportHandled)
  /\ \A g \in Generations : WF_vars(Rebuilds(g))

FairSpec == Spec /\ Fairness

-----------------------------------------------------------------------------
(* What the session promises.                                               *)

\* Once a recording is over, by whichever of its threads, none of them runs,
\* the backend is stopped and the echo canceller is back for the next start
\* (finish(), start_recording).
QuietOnceOver ==
  state.kind \in {"idle", "failed"} =>
    /\ active = NoActive /\ stream = NoStream /\ held
    /\ \A r \in Recordings :
         /\ running[r] = "no" /\ writer[r] \in {"no", "ended"}
         /\ watch[r].pc \in {"none", "ended"} /\ files[r] # "open"
    /\ \A g \in Generations : rb[g].pc \in {"none", "ended"}
    /\ \A p \in Finishers : fin[p] = NotFinishing

\* The relay into the writer has one producer: while a rebuild writes the
\* gap's silence into a recording, neither its processing thread nor another
\* rebuild does, and the writer is there to read it (write_silence, resume).
OneRelayProducer ==
  \A g \in Generations : rb[g].pc = "silence" =>
    /\ running[rb[g].recording] = "no"
    /\ writer[rb[g].recording] \in {"runs", "failed"}
    /\ \A h \in Generations \ {g} : rb[h].pc \in {"none", "ended"}

\* A device change reported under the running stream is never left behind
\* with the latch closed: a report is on its way to the session, or a rebuild
\* will yet stop this stream, or one is pending for after it; else the latch
\* is open (a rebuild's thread could not be spawned), so that the backend's
\* next report goes through (report_device_change, rearm, resume,
\* begin_rebuild).
ChangeIsFollowed ==
  Recording /\ stream.changed =>
    \/ report # NoReport \/ watch[started].pc = "handling"
    \/ active.pending # "none" \/ ~latch[started]
    \/ \E g \in Generations :
         rb[g].pc \in {"spawned", "stopOld", "waiting", "giveUp"} /\ active.rebuild = g

\* Whoever ends a recording ends its own: a stop() the one that ran when it
\* was called, a failed write its writer's, a lost device its rebuild's; and
\* no two end one at a time (recordings_started, rebuild_generation).
EachEndsItsOwn ==
  \A p \in Finishers : fin[p].step # "no" =>
    /\ state.kind = "stopping"
    /\ started = CASE p[1] = "call" -> call[p[2]].of
                   [] p[1] = "writer" -> p[2]
                   [] OTHER -> rb[p[2]].recording
    /\ \A q \in Finishers \ {p} : fin[q] = NotFinishing

\* A stop() answers with the recording that ran when it was called, its files
\* saved, or with none: never with one that began while it waited (stop,
\* finalised).
StopAnswersItsOwn ==
  \A c \in Callers : call[c].got # 0 =>
    call[c].got = call[c].of /\ files[call[c].got] = "saved"

\* No stream is started over a running one, and the rings are cleared and the
\* files closed with nothing left to write them (CaptureBackend::start,
\* LaneFrameSink::clear).
StreamsAreStoppedFirst ==
  [][/\ stream # NoStream /\ stream' # NoStream => stream.recording = stream'.recording
                                                  /\ (stream.delivering => stream'.delivering)
     /\ \A r \in Recordings : files[r] = "open" /\ files'[r] = "saved" =>
          /\ stream = NoStream /\ running[r] = "no" /\ writer[r] = "ended"
          /\ \A g \in Generations : rb[g].recording = r => rb[g].pc \in {"ended", "finishing"}
    ]_vars

\* Every stop() answers: no thread it joins waits for it, a restart that goes
\* on until one runs included (finish, stop, device_lost).
StopsAnswer ==
  \A c \in Callers : call[c].pc # "idle" ~> call[c].pc = "idle"

\* A stream whose device changed is stopped in the end, however many changes
\* come while it is being replaced; or, when a rebuild's thread could not be
\* spawned, the latch is open for the next report, which begins one again
\* (begin_rebuild, rearm_device_change).
ChangesEnd ==
  stream.changed ~>
    ~stream.changed \/ (report = NoReport /\ ~latch[stream.recording])

\* stop()'s doc: "while a finalise runs, waits for it and returns its
\* recording".
WaitingStopReturnsTheRecording ==
  \A c \in Callers :
    call[c].pc = "idle" /\ call[c].waited /\ call[c].of # 0 /\ files[call[c].of] = "saved"
      => call[c].got = call[c].of
=============================================================================
