------------------------------- MODULE Recorder -------------------------------
(***************************************************************************)
(* The recorder of steno-services (recorder.rs) and its auto-stop          *)
(* (auto_stop.rs).  Its status, the recording in progress and the          *)
(* auto-stop's countdown stand under one mutex, `inner`; a start and a     *)
(* stop give the mutex back while they open devices, save and join, and    *)
(* tell everybody else of each change with notify().  Every action that    *)
(* reads or writes `inner` is one critical section of the code.            *)
(*                                                                         *)
(* The capture session is CaptureSession's: here it runs, may fail on its  *)
(* own, reports device changes and answers a stop.  Time is left open: a   *)
(* countdown, a patience or a disk reading may end at any moment.  Panics  *)
(* (Unwinding, BegunMeeting), levels, status texts other than a refusal's  *)
(* and the calendar's name for a meeting are left out.                     *)
(***************************************************************************)
EXTENDS Naturals, Sequences

CONSTANTS
  Callers,        \* threads the host runs commands on
  Commands,       \* the commands they run
  Exits,          \* threads that end the app
  Modes,          \* the capture modes a start asks for: "call", "inPerson"
  Tests,          \* system audio tests that may run at once
  Installers,     \* threads that ask for an install's hold
  CommitAttempts, \* COMMIT_ATTEMPTS
  Spawns,         \* {TRUE}, or BOOLEAN where a thread may fail to spawn
  MaxStarts,      \* starts asked for in a behaviour: a bound
  MaxReleases,    \* releases of the microphone forwarded: a bound
  MaxChanges,     \* device changes of one recording: a bound
  MaxFaults       \* failures met in a behaviour: a bound

ASSUME RecorderAssumption ==
  /\ MaxStarts \in Nat /\ MaxReleases \in Nat /\ MaxChanges \in Nat /\ MaxFaults \in Nat
  /\ CommitAttempts \in Nat \ {0}
  /\ Commands \subseteq {"start", "toggle", "stop", "keep", "clear"}
  /\ Modes \subseteq {"call", "inPerson"}
  /\ Spawns \subseteq BOOLEAN

Recordings == 1..MaxStarts

\* A release arms one countdown, which another may replace once.
Countdowns == 1..(2 * MaxReleases)

Caller(c) == <<"call", c>>
Watcher(r) == <<"watch", r>>
Notices(r) == <<"notices", r>>
Countdown(n) == <<"countdown", n>>
Installer(i) == <<"install", i>>
Exit(x) == <<"exit", x>>
Detector == <<"detect", 0>>

Threads ==
  ({"call"} \X Callers) \cup ({"watch", "notices"} \X Recordings)
  \cup ({"countdown"} \X Countdowns) \cup ({"install"} \X Installers)
  \cup ({"exit"} \X Exits) \cup {Detector}

VARIABLES
  state,    \* status.state
  active,   \* the recording of Active, 0 for None
  quitting, \* Inner::quitting
  holds,    \* start_holds
  error,    \* status.error: INSTALLING_UPDATE, or anything else
  calls,    \* CallWatch: saw_foreign, and the armed countdown, 0 for None
  arms,     \* countdowns armed so far
  live,     \* the pipelines' LiveRecording flag
  refused,  \* starts_refused
  tone,     \* the system audio tests running, and their cancel
  sleepers, \* the threads `changes` has yet to wake
  th,       \* where each thread is
  rec,      \* each recording: its session, its row and its noted folder
  capture,  \* what each recording's capture does
  notices,  \* each session's notices on their way
  outage,   \* Outage, per recording
  starts,   \* starts asked for so far
  releases, \* releases forwarded so far
  faults    \* failures met so far

inner == <<state, active, quitting, holds, error>>
watch == <<calls, arms>>
flags == <<live, refused, tone, sleepers>>
session == <<capture, notices, outage>>
bounds == <<starts, releases, faults>>
vars == <<inner, watch, flags, th, rec, session, bounds>>

Busy == state # "idle"

NoThread == [at |-> "none", then |-> "none", rec |-> 0, why |-> "none", mode |-> "none",
             app |-> FALSE, tries |-> 0]
NoRecording == [session |-> "none", lost |-> FALSE, spoiled |-> FALSE, mode |-> "none",
                row |-> "none", overTone |-> FALSE]
Steady == [changes |-> 0, changing |-> FALSE, warned |-> FALSE]
NoOutage == [recovering |-> FALSE, restarting |-> FALSE]

Places == {"none", "ready", "gone", "announce", "hook", "start", "tones", "toneWait", "open",
           "begin", "session", "record", "watcher", "refuse", "stop", "quit", "settle",
           "keep", "clear", "cancelTests", "stopSession", "recover", "save",
           "join", "toIdle", "watching", "asking", "ending", "ended", "following", "resuming",
           "asleep", "out", "hold", "look", "held", "drop"}

TypeOK ==
  /\ state \in {"idle", "starting", "recording", "stopping"}
  /\ active \in 0..MaxStarts /\ quitting \in BOOLEAN /\ holds \in Nat
  /\ error \in {"none", "installing"}
  /\ calls \in [seen : BOOLEAN, armed : 0..(2 * MaxReleases), postponable : BOOLEAN]
  /\ arms \in 0..(2 * MaxReleases)
  /\ live \in BOOLEAN /\ refused \in BOOLEAN
  /\ tone \in [running : SUBSET Tests, raised : BOOLEAN]
  /\ sleepers \subseteq Threads
  /\ th \in [Threads -> [at : Places, then : Places, rec : 0..MaxStarts,
                         why : {"none", "manual", "quit", "callEnded", "deviceLost", "failed"},
                         mode : Modes \cup {"none", "call"}, app : BOOLEAN,
                         tries : 0..CommitAttempts]]
  /\ rec \in [Recordings -> [session : {"none", "open", "runs", "failed", "stopped", "dropped"},
                             lost : BOOLEAN, spoiled : BOOLEAN,
                             mode : Modes \cup {"none", "call"},
                             row : {"none", "recording", "queued", "failed"},
                             overTone : BOOLEAN]]
  /\ capture \in [Recordings -> [changes : 0..MaxChanges, changing : BOOLEAN, warned : BOOLEAN]]
  /\ notices \in [Recordings -> Seq({"changed", "restarting", "resumed", "delivering"})]
  /\ outage \in [Recordings -> [recovering : BOOLEAN, restarting : BOOLEAN]]
  /\ starts \in 0..MaxStarts /\ releases \in 0..MaxReleases /\ faults \in 0..MaxFaults

Init ==
  /\ state = "idle" /\ active = 0 /\ quitting = FALSE /\ holds = 0 /\ error = "none"
  /\ calls = [seen |-> FALSE, armed |-> 0, postponable |-> FALSE] /\ arms = 0
  /\ live = FALSE /\ refused = FALSE
  /\ tone = [running |-> {}, raised |-> FALSE] /\ sleepers = {}
  /\ th = [t \in Threads |->
             [NoThread EXCEPT !.at = IF t[1] \in {"call", "install", "exit", "detect"} THEN "ready"
                                                                              ELSE "none"]]
  /\ rec = [r \in Recordings |-> NoRecording]
  /\ capture = [r \in Recordings |-> Steady]
  /\ notices = [r \in Recordings |-> <<>>]
  /\ outage = [r \in Recordings |-> NoOutage]
  /\ starts = 0 /\ releases = 0 /\ faults = 0

\* Something fails; MaxFaults bounds how often.
Fails == faults < MaxFaults /\ faults' = faults + 1

At(t, place) == th[t].at = place
Goes(t, place) == th' = [th EXCEPT ![t].at = place]
Announces(t, next) == [th EXCEPT ![t].at = "announce", ![t].then = next]

\* Where a thread goes once its stop is over: the app is gone after a quit's.
Rest(t) == CASE t[1] = "call" -> "ready" [] t[1] = "exit" -> "gone" [] OTHER -> "ended"

-----------------------------------------------------------------------------
(* notify().                                                                *)

\* A thread that is through forgets what it was about.
Through(t, place) ==
  [th EXCEPT ![t] = IF place \in {"ready", "gone", "ended"}
                      THEN [NoThread EXCEPT !.at = place]
                      ELSE [@ EXCEPT !.at = place, !.then = "none"]]

\* Mutant: the waiters are not woken.
NotifiedAsleep(t, threads) ==
  /\ At(t, "announce")
  /\ live' = Busy
  /\ th' = threads
  /\ UNCHANGED <<inner, watch, refused, tone, sleepers, rec, session, bounds>>

\* The live flag follows the state under `inner`, then `changes` wakes its
\* waiters, then the hook runs on the same thread with no lock held.
Notified(t, threads) ==
  /\ At(t, "announce")
  /\ live' = Busy
  /\ sleepers' = {}
  /\ th' = threads
  /\ UNCHANGED <<inner, watch, refused, tone, rec, session, bounds>>

Notify(t) == Notified(t, Through(t, th[t].then))

-----------------------------------------------------------------------------
(* The auto-stop.                                                           *)

\* disarm(): the armed countdown's thread ends unless it has already woken.
Disarmed(threads) ==
  LET n == calls.armed
  IN  IF n # 0 /\ threads[Countdown(n)].at = "asleep"
        THEN [threads EXCEPT ![Countdown(n)].at = "ended"]
        ELSE threads

NoCountdown == [calls EXCEPT !.armed = 0, !.postponable = FALSE]
KeptRecording == [NoCountdown EXCEPT !.seen = FALSE]
Forgotten == [seen |-> FALSE, armed |-> 0, postponable |-> FALSE]

CallRecords == state = "recording" /\ active # 0 /\ rec[active].mode = "call"

\* arm_auto_stop() by t where a countdown is due: the next one is armed and
\* its thread spawned, in the armed one's place; without its thread the
\* recording is kept.
Arms(t, next, postponable) ==
  LET n == arms + 1
  IN  /\ arms' = n
      /\ \E spawned \in Spawns :
           IF spawned
             THEN /\ calls' = [calls EXCEPT !.armed = n, !.postponable = postponable]
                  /\ th' = [Disarmed(Announces(t, next)) EXCEPT
                              ![Countdown(n)].at = "asleep", ![Countdown(n)].rec = active]
             ELSE /\ calls' = KeptRecording
                  /\ th' = Disarmed(Announces(t, next))

\* microphone_activity(Opened): a call, and a countdown goes.
MicrophoneOpened ==
  /\ th' = Disarmed(Announces(Detector, "ready"))
  /\ calls' = [NoCountdown EXCEPT !.seen = TRUE]
  /\ UNCHANGED <<inner, arms, flags, rec, session, bounds>>

OpenedCounts == state \in {"starting", "recording"}

\* microphone_activity(Released): arms the countdown of a call that was
\* seen, unless one is armed.
MicrophoneReleased ==
  /\ Arms(Detector, "ready", TRUE)
  /\ UNCHANGED <<inner, flags, rec, session, bounds>>

ReleasedCounts == CallRecords /\ calls.seen /\ calls.armed = 0

\* The grace is over: the sleep that was not cancelled returns.
CountdownRunsOut(n) ==
  /\ At(Countdown(n), "asleep")
  /\ Goes(Countdown(n), "out")
  /\ UNCHANGED <<inner, watch, flags, rec, session, bounds>>

\* Mutant: the stop leaves the auto-stop as it is.
BeginsStopStillArmed(t, why) ==
  /\ state' = "stopping"
  /\ active' = 0
  /\ calls' = calls
  /\ th' = [Announces(t, "stopSession") EXCEPT ![t].rec = active, ![t].why = why, ![t].tries = 0]

\* begin_stop(): t takes the recording in progress, to end it for `why`.
BeginsStop(t, why) ==
  /\ state' = "stopping"
  /\ active' = 0
  /\ calls' = Forgotten
  /\ th' = [Disarmed(Announces(t, "stopSession")) EXCEPT
              ![t].rec = active, ![t].why = why, ![t].tries = 0]

\* postpone(): the release's countdown ran out while the capture recovers.
Postpones(n) ==
  calls.armed = n /\ calls.postponable /\ CallRecords /\ outage[active].recovering

\* elapsed(): the countdown is still the armed one.
Elapsed(n) == state = "recording" /\ calls.armed = n

\* call_ended(number).
CallEnded(n) ==
  /\ At(Countdown(n), "out")
  /\ \/ /\ Postpones(n)
        /\ Arms(Countdown(n), "ended", FALSE)
        /\ UNCHANGED inner
     \/ /\ ~Postpones(n) /\ Elapsed(n)
        /\ BeginsStop(Countdown(n), "callEnded")
        /\ UNCHANGED <<arms, quitting, holds, error>>
     \/ /\ ~Postpones(n) /\ ~Elapsed(n)
        /\ Goes(Countdown(n), "ended")
        /\ UNCHANGED <<inner, watch>>
  /\ UNCHANGED <<flags, rec, session, bounds>>

-----------------------------------------------------------------------------
(* Commands.                                                                *)

\* A start is asked for: the host's command, a toggle while idle, or the
\* detection prompt's Record, which names the app whose call it saw.
AsksToStart(c, mode, app) ==
  /\ starts < MaxStarts
  /\ starts' = starts + 1
  /\ th' = [th EXCEPT ![Caller(c)] =
              [NoThread EXCEPT !.at = "start", !.rec = starts + 1, !.mode = mode, !.app = app]]

Asks(c, command) ==
  /\ At(Caller(c), "ready")
  /\ command \in Commands
  /\ \/ command = "start" /\ \E mode \in Modes : AsksToStart(c, mode, FALSE)
     \/ command = "toggle" /\ state = "idle" /\ AsksToStart(c, "call", FALSE)
     \/ command = "toggle" /\ state = "recording" /\ Goes(Caller(c), "stop") /\ UNCHANGED starts
     \/ command \notin {"start", "toggle"} /\ Goes(Caller(c), command) /\ UNCHANGED starts
  /\ UNCHANGED <<inner, watch, flags, rec, session, releases, faults>>

\* keep_recording(): the countdown goes until the next call is seen.
KeepRecording(c) ==
  /\ At(Caller(c), "keep")
  /\ calls' = IF calls.armed # 0 THEN KeptRecording ELSE calls
  /\ th' = Disarmed(Announces(Caller(c), "ready"))
  /\ UNCHANGED <<inner, arms, flags, rec, session, bounds>>

ClearMessages(c) ==
  /\ At(Caller(c), "clear")
  /\ error' = "none"
  /\ th' = Announces(Caller(c), "ready")
  /\ UNCHANGED <<state, active, quitting, holds, watch, flags, rec, session, bounds>>

Stop(c) ==
  /\ At(Caller(c), "stop")
  /\ \/ /\ active # 0
        /\ BeginsStop(Caller(c), "manual")
        /\ UNCHANGED <<arms, quitting, holds, error>>
     \/ /\ active = 0
        /\ Goes(Caller(c), "ready")
        /\ UNCHANGED <<inner, watch>>
  /\ UNCHANGED <<flags, rec, session, bounds>>

-----------------------------------------------------------------------------
(* An exit of the app: a menu Quit refuses starts first, every exit stops   *)
(* the recording.                                                           *)

\* refuse_starts(): the flag, then the cancel under its own lock.
RefuseStarts(x) ==
  /\ At(Exit(x), "ready")
  /\ refused' = TRUE
  /\ Goes(Exit(x), "cancelTests")
  /\ UNCHANGED <<inner, watch, live, tone, sleepers, rec, session, bounds>>

CancelTests(x) ==
  /\ At(Exit(x), "cancelTests")
  /\ tone' = [tone EXCEPT !.raised = TRUE]
  /\ Goes(Exit(x), "quit")
  /\ UNCHANGED <<inner, watch, live, refused, sleepers, rec, session, bounds>>

\* stop_for_quit() up to its wait.
Quit(x) ==
  /\ At(Exit(x), "ready") \/ At(Exit(x), "quit")
  /\ quitting' = TRUE
  /\ tone' = [tone EXCEPT !.raised = TRUE]
  /\ Goes(Exit(x), "settle")
  /\ UNCHANGED <<state, active, holds, error, watch, live, refused, sleepers, rec, session, bounds>>

\* Mutant: an exit does not wait for a start.
SettledUnlessStopping == state # "stopping"

Settled == state \notin {"starting", "stopping"}

\* settle() and what follows it, under the lock it hands back.
Settle(x) ==
  LET t == Exit(x)
  IN  /\ At(t, "settle") /\ t \notin sleepers
      /\ \/ /\ ~Settled
            /\ sleepers' = sleepers \cup {t}
            /\ UNCHANGED <<inner, calls, th>>
         \/ /\ Settled /\ active # 0
            /\ BeginsStop(t, "quit")
            /\ UNCHANGED <<quitting, holds, error, sleepers>>
         \/ /\ Settled /\ active = 0
            /\ Goes(t, "gone")
            /\ UNCHANGED <<inner, calls, sleepers>>
      /\ UNCHANGED <<arms, live, refused, tone, rec, session, bounds>>

-----------------------------------------------------------------------------
(* start().                                                                 *)

MayStart == ~quitting /\ state = "idle"

\* The check and the change, under one guard.
Start(c) ==
  LET t == Caller(c)
  IN  /\ At(t, "start")
      /\ \/ /\ ~MayStart
            /\ Goes(t, "ready")
            /\ UNCHANGED <<state, error, calls>>
         \/ /\ MayStart /\ (refused \/ holds > 0)
            /\ error' = IF refused THEN "none" ELSE "installing"
            /\ th' = Announces(t, "ready")
            /\ UNCHANGED <<state, calls>>
         \/ /\ MayStart /\ ~refused /\ holds = 0
            /\ state' = "starting"
            /\ error' = "none"
            /\ calls' = [Forgotten EXCEPT !.seen = th[t].app]
            /\ th' = Disarmed(Announces(t, "tones"))
      /\ UNCHANGED <<active, quitting, holds, arms, flags, rec, session, bounds>>

\* stop_tone_tests() and its wait.
StopToneTests(c) ==
  LET t == Caller(c)
  IN  /\ \/ /\ At(t, "tones")
            /\ tone' = [tone EXCEPT !.raised = @ \/ tone.running # {}]
         \/ /\ At(t, "toneWait") /\ t \notin sleepers
            /\ UNCHANGED tone
      /\ sleepers' = IF tone.running = {} THEN sleepers ELSE sleepers \cup {t}
      /\ Goes(t, IF tone.running = {} THEN "open" ELSE "toneWait")
      /\ UNCHANGED <<inner, watch, live, refused, rec, session, bounds>>

\* The recording starts all the same once TONE_TEST_PATIENCE is over.
ToneTestPatience(c) ==
  /\ At(Caller(c), "toneWait") /\ tone.running # {}
  /\ sleepers' = sleepers \ {Caller(c)}
  /\ Goes(Caller(c), "open")
  /\ rec' = [rec EXCEPT ![th[Caller(c)].rec].overTone = TRUE]
  /\ UNCHANGED <<inner, watch, live, refused, tone, session, bounds>>

\* The settings, the room on the disk and the session, or a refusal.
OpenSession(c) ==
  /\ At(Caller(c), "open")
  /\ \/ Goes(Caller(c), "begin") /\ UNCHANGED faults
     \/ Goes(Caller(c), "refuse") /\ Fails
  /\ UNCHANGED <<inner, watch, flags, rec, session, starts, releases>>

\* record_audio_folder(), whose failure is only logged, and begin_meeting().
BeginMeeting(c) ==
  LET t == Caller(c)
      r == th[t].rec
  IN  /\ At(t, "begin")
      /\ \/ /\ rec' = [rec EXCEPT ![r] = [@ EXCEPT !.session = "open", !.mode = th[t].mode,
                                                   !.row = "recording"]]
            /\ Goes(t, "session")
            /\ UNCHANGED faults
         \/ /\ Goes(t, "refuse")
            /\ Fails
            /\ UNCHANGED rec
      /\ UNCHANGED <<inner, watch, flags, session, starts, releases>>

\* session.start(): it runs, its notice thread with it (a recording whose
\* notice thread could not be spawned is left out: it follows no notice and has
\* none to join); else the meeting fails, where the store lets it.
StartSession(c) ==
  LET t == Caller(c)
      r == th[t].rec
  IN  /\ At(t, "session")
      /\ \/ /\ rec' = [rec EXCEPT ![r].session = "runs"]
            /\ th' = [th EXCEPT ![t].at = "record", ![Notices(r)].at = "following",
                                ![Notices(r)].rec = r]
            /\ UNCHANGED faults
         \/ /\ Fails
            /\ \E row \in {"failed", "recording"} :
                 rec' = [rec EXCEPT ![r].session = "none", ![r].row = row]
            /\ Goes(t, "refuse")
      /\ UNCHANGED <<inner, watch, flags, session, starts, releases>>

\* The recording becomes the one in progress.
GoRecording(c) ==
  LET t == Caller(c)
  IN  /\ At(t, "record")
      /\ state' = "recording"
      /\ active' = th[t].rec
      /\ error' = "none"
      /\ Goes(t, "watcher")
      /\ UNCHANGED <<quitting, holds, watch, flags, rec, session, bounds>>

\* The watcher's thread, and the end of a start that went through.
SpawnWatcher(c) ==
  LET t == Caller(c)
      r == th[t].rec
  IN  /\ At(t, "watcher")
      /\ \E spawned \in Spawns :
           th' = [Announces(t, "ready") EXCEPT
                    ![Watcher(r)].at = IF spawned THEN "watching" ELSE "ended",
                    ![Watcher(r)].rec = r]
      /\ UNCHANGED <<inner, watch, flags, rec, session, bounds>>

\* A start that failed leaves the recorder idle, with why.
RefuseStart(c) ==
  /\ At(Caller(c), "refuse")
  /\ state' = "idle"
  /\ error' = "none"
  /\ th' = Announces(Caller(c), "ready")
  /\ UNCHANGED <<active, quitting, holds, watch, flags, rec, session, bounds>>

-----------------------------------------------------------------------------
(* finish_stop(), by whichever thread began the stop.                       *)

\* session.stop(): the result, or an error that takes the asset with it.
StopSession(t) ==
  /\ At(t, "stopSession")
  /\ rec' = [rec EXCEPT ![th[t].rec].session = "stopped"]
  /\ capture' = [capture EXCEPT ![th[t].rec] = Steady]
  /\ \/ Goes(t, "save") /\ UNCHANGED faults
     \/ Goes(t, "recover") /\ Fails
  /\ UNCHANGED <<inner, watch, flags, notices, outage, starts, releases>>

\* The session is let go, so its notice thread ends.
LetsGo(t, row) ==
  /\ rec' = [rec EXCEPT ![th[t].rec] = [@ EXCEPT !.row = row, !.session = "dropped",
                                                 !.mode = "none", !.overTone = FALSE]]
  /\ Goes(t, "join")

\* complete(): the row is queued; a busy commit is tried again until the
\* attempts are over or the app quits; any other failure keeps the row.
Save(t) ==
  LET tried == th[t].tries + 1
  IN  /\ At(t, "save")
      /\ \/ LetsGo(t, "queued") /\ UNCHANGED faults
         \/ LetsGo(t, "recording") /\ Fails
         \/ /\ tried < CommitAttempts /\ ~quitting
            /\ th' = [th EXCEPT ![t].tries = tried]
            /\ Fails
            /\ UNCHANGED rec
      /\ UNCHANGED <<inner, watch, flags, session, starts, releases>>

\* recover_failed_stop(): recovered, left for the next launch, or failed.
RecoverFailedStop(t) ==
  /\ At(t, "recover")
  /\ \E row \in {"queued", "recording", "failed"} : LetsGo(t, row)
  /\ UNCHANGED <<inner, watch, flags, session, bounds>>

\* Mutant: nobody waits for the notice thread.
JoinNoticesNever(t) ==
  /\ At(t, "join")
  /\ Goes(t, "toIdle")
  /\ UNCHANGED <<inner, watch, flags, rec, session, bounds>>

\* The notice thread is joined before the recorder is idle again.
JoinNotices(t) ==
  /\ At(t, "join")
  /\ At(Notices(th[t].rec), "ended")
  /\ Goes(t, "toIdle")
  /\ UNCHANGED <<inner, watch, flags, rec, session, bounds>>

\* Mutant: the end of a stop is told to nobody.
EndStopSilently(t) ==
  /\ At(t, "toIdle")
  /\ state' = "idle"
  /\ error' = "none"
  /\ calls' = Forgotten
  /\ th' = Disarmed(Through(t, Rest(t)))
  /\ UNCHANGED <<active, quitting, holds, arms, flags, rec, session, bounds>>

EndStop(t) ==
  /\ At(t, "toIdle")
  /\ state' = "idle"
  /\ error' = "none"
  /\ calls' = Forgotten
  /\ th' = Disarmed(Announces(t, Rest(t)))
  /\ UNCHANGED <<active, quitting, holds, arms, flags, rec, session, bounds>>

-----------------------------------------------------------------------------
(* The watcher of a recording.                                              *)

\* Mutant: whatever records is ended.
StopsAnyRecording(r, why) ==
  \/ /\ active # 0
     /\ BeginsStop(Watcher(r), why)
     /\ UNCHANGED <<arms, quitting, holds, error>>
  \/ /\ active = 0
     /\ Goes(Watcher(r), "ended")
     /\ UNCHANGED <<inner, watch>>

\* stop_recording(meeting_id): only if it is still the one in progress.
StopsRecording(r, why) ==
  \/ /\ active = r
     /\ BeginsStop(Watcher(r), why)
     /\ UNCHANGED <<arms, quitting, holds, error>>
  \/ /\ active # r
     /\ Goes(Watcher(r), "ended")
     /\ UNCHANGED <<inner, watch>>

\* Mutant: a failed session ends its watcher like a stopped one.
WatchFailedEnds(r) ==
  /\ At(Watcher(r), "watching") /\ rec[r].lost
  /\ Goes(Watcher(r), "ended")
  /\ UNCHANGED <<inner, watch, flags, rec, session, bounds>>

\* The session failed on its own.
WatchFailed(r) ==
  /\ At(Watcher(r), "watching") /\ rec[r].lost
  /\ \E why \in {"deviceLost", "failed"} : StopsRecording(r, why)
  /\ UNCHANGED <<flags, rec, session, bounds>>

\* write_failed(), when no state waits to be read: the session is cloned
\* under the lock and asked without.
WatchReads(r) ==
  /\ At(Watcher(r), "watching") /\ ~rec[r].lost /\ active = r
  /\ Goes(Watcher(r), "asking")
  /\ UNCHANGED <<inner, watch, flags, rec, session, bounds>>

\* A failed write or a full disk ends the recording.
WatchAnswers(r) ==
  /\ At(Watcher(r), "asking")
  /\ \/ ~rec[r].spoiled /\ Goes(Watcher(r), "watching") /\ UNCHANGED faults
     \/ rec[r].spoiled /\ Goes(Watcher(r), "ending") /\ UNCHANGED faults
     \/ ~rec[r].spoiled /\ Goes(Watcher(r), "ending") /\ Fails
  /\ UNCHANGED <<inner, watch, flags, rec, session, starts, releases>>

WatchStops(r) ==
  /\ At(Watcher(r), "ending")
  /\ StopsRecording(r, "failed")
  /\ UNCHANGED <<flags, rec, session, bounds>>

\* The session left Recording without failing, or is gone.
WatchEnds(r) ==
  /\ At(Watcher(r), "watching") /\ ~rec[r].lost
  /\ rec[r].session \in {"stopped", "dropped"}
  /\ Goes(Watcher(r), "ended")
  /\ UNCHANGED <<inner, watch, flags, rec, session, bounds>>

-----------------------------------------------------------------------------
(* The capture session, and the thread that follows its notices.            *)

SessionFails(r) ==
  /\ rec[r].session = "runs"
  /\ rec' = [rec EXCEPT ![r].session = "failed", ![r].lost = TRUE]
  /\ Fails
  /\ UNCHANGED <<inner, watch, flags, th, session, starts, releases>>

WriteFails(r) ==
  /\ rec[r].session = "runs" /\ ~rec[r].spoiled
  /\ rec' = [rec EXCEPT ![r].spoiled = TRUE]
  /\ Fails
  /\ UNCHANGED <<inner, watch, flags, th, session, starts, releases>>

Sends(r, some) == notices' = [notices EXCEPT ![r] = @ \o some]

\* A device change begins a rebuild; a long one is still restarting; it
\* resumes, and audio that arrives then ends the warning.
DeviceChanges(r) ==
  /\ rec[r].session = "runs" /\ ~capture[r].changing /\ capture[r].changes < MaxChanges
  /\ capture' = [capture EXCEPT ![r].changing = TRUE, ![r].changes = @ + 1]
  /\ Sends(r, <<"changed">>)
  /\ UNCHANGED <<inner, watch, flags, th, rec, outage, bounds>>

StillRestarting(r) ==
  /\ rec[r].session = "runs" /\ capture[r].changing /\ ~capture[r].warned
  /\ capture' = [capture EXCEPT ![r].warned = TRUE]
  /\ Sends(r, <<"restarting">>)
  /\ UNCHANGED <<inner, watch, flags, th, rec, outage, bounds>>

DeviceResumes(r) ==
  /\ rec[r].session = "runs" /\ capture[r].changing
  /\ \/ /\ capture' = [capture EXCEPT ![r].changing = FALSE]
        /\ Sends(r, <<"resumed">>)
     \/ /\ capture[r].warned
        /\ capture' = [capture EXCEPT ![r].changing = FALSE, ![r].warned = FALSE]
        /\ Sends(r, <<"resumed", "delivering">>)
  /\ UNCHANGED <<inner, watch, flags, th, rec, outage, bounds>>

Delivers(r) ==
  /\ rec[r].session = "runs" /\ ~capture[r].changing /\ capture[r].warned
  /\ capture' = [capture EXCEPT ![r].warned = FALSE]
  /\ Sends(r, <<"delivering">>)
  /\ UNCHANGED <<inner, watch, flags, th, rec, outage, bounds>>

\* Outage::follow: the outage after a notice.
Followed(out, notice) ==
  CASE notice = "changed" -> [out EXCEPT !.recovering = TRUE]
    [] notice = "restarting" -> [out EXCEPT !.restarting = TRUE]
    [] notice = "resumed" -> [out EXCEPT !.recovering = @ /\ out.restarting]
    [] notice = "delivering" -> NoOutage

\* The session, its notices and its outage are gone once nobody holds it, the watcher included.
SessionGone(r) == rec[r].session = "dropped" /\ ~At(Watcher(r), "asking")

\* A notice is followed; the end of a recovery resumes the auto-stop.
FollowNotice(r) ==
  LET out == Followed(outage[r], Head(notices[r]))
  IN  /\ At(Notices(r), "following") /\ notices[r] # <<>> /\ ~SessionGone(r)
      /\ notices' = [notices EXCEPT ![r] = Tail(@)]
      /\ outage' = [outage EXCEPT ![r] = out]
      /\ Goes(Notices(r), IF outage[r].recovering /\ ~out.recovering THEN "resuming"
                                                                     ELSE "following")
      /\ UNCHANGED <<inner, watch, flags, rec, capture, bounds>>

\* resume_auto_stop(): a fresh countdown for the release's.
ResumeAutoStop(r) ==
  /\ At(Notices(r), "resuming")
  /\ \/ /\ CallRecords /\ calls.armed # 0 /\ calls.postponable
        /\ Arms(Notices(r), "following", FALSE)
     \/ /\ ~(CallRecords /\ calls.armed # 0 /\ calls.postponable)
        /\ Goes(Notices(r), "following")
        /\ UNCHANGED watch
  /\ UNCHANGED <<inner, flags, rec, session, bounds>>

NoticesEnd(r) ==
  /\ At(Notices(r), "following") /\ SessionGone(r)
  /\ notices' = [notices EXCEPT ![r] = <<>>]
  /\ outage' = [outage EXCEPT ![r] = NoOutage]
  /\ Goes(Notices(r), "ended")
  /\ UNCHANGED <<inner, watch, flags, rec, capture, bounds>>

-----------------------------------------------------------------------------
(* System audio tests, and the hold of an install.                          *)

\* Mutants: the recorder is not asked; the refusal of starts is not.
BeginTestUnasked(test) ==
  /\ test \notin tone.running
  /\ ~quitting /\ ~refused
  /\ tone' = [running |-> tone.running \cup {test},
              raised |-> tone.running # {} /\ tone.raised]
  /\ UNCHANGED <<inner, watch, live, refused, sleepers, th, rec, session, bounds>>

BeginTestUnrefused(test) ==
  /\ test \notin tone.running
  /\ ~quitting /\ state = "idle"
  /\ tone' = [running |-> tone.running \cup {test},
              raised |-> tone.running # {} /\ tone.raised]
  /\ UNCHANGED <<inner, watch, live, refused, sleepers, th, rec, session, bounds>>

\* run_tone_test(): counted in under `inner` and the cancel's lock.
BeginTest(test) ==
  /\ test \notin tone.running
  /\ ~quitting /\ state = "idle" /\ ~refused
  /\ tone' = [running |-> tone.running \cup {test},
              raised |-> tone.running # {} /\ tone.raised]
  /\ UNCHANGED <<inner, watch, live, refused, sleepers, th, rec, session, bounds>>

\* A test ends, stopped or not, and wakes a waiting start: one step, as a start
\* that comes between the count and the wake-up reads the count and waits for none.
EndTest(test) ==
  /\ test \in tone.running
  /\ tone' = [tone EXCEPT !.running = @ \ {test}]
  /\ sleepers' = {}
  /\ UNCHANGED <<inner, watch, live, refused, th, rec, session, bounds>>

\* IdleGate::try_hold: an idle app's starts are held, then its status is
\* read, then the jobs, which may be busy.
TryHold(i) ==
  /\ At(Installer(i), "ready")
  /\ ~Busy
  /\ Goes(Installer(i), "hold")
  /\ UNCHANGED <<inner, watch, flags, rec, session, bounds>>

HoldStarts(i) ==
  /\ At(Installer(i), "hold")
  /\ holds' = holds + 1
  /\ Goes(Installer(i), "look")
  /\ UNCHANGED <<state, active, quitting, error, watch, flags, rec, session, bounds>>

\* Mutant: the status read before the hold is trusted.
LookAtStatusNever(i) ==
  /\ At(Installer(i), "look")
  /\ Goes(Installer(i), "held") \/ Goes(Installer(i), "drop")
  /\ UNCHANGED <<inner, watch, flags, rec, session, bounds>>

LookAtStatus(i) ==
  /\ At(Installer(i), "look")
  /\ \/ ~Busy /\ Goes(Installer(i), "held")
     \/ Goes(Installer(i), "drop")
  /\ UNCHANGED <<inner, watch, flags, rec, session, bounds>>

InstallFails(i) ==
  /\ At(Installer(i), "held")
  /\ Goes(Installer(i), "drop")
  /\ UNCHANGED <<inner, watch, flags, rec, session, bounds>>

\* HeldStarts::drop: the last hold takes its refusal's error with it.
DropHold(i) ==
  /\ At(Installer(i), "drop")
  /\ holds' = holds - 1
  /\ \/ /\ holds = 1 /\ error = "installing"
        /\ error' = "none"
        /\ th' = Announces(Installer(i), "ready")
     \/ /\ ~(holds = 1 /\ error = "installing")
        /\ Goes(Installer(i), "ready")
        /\ UNCHANGED error
  /\ UNCHANGED <<state, active, quitting, watch, flags, rec, session, bounds>>

-----------------------------------------------------------------------------
\* The steps a thread takes by itself.
CallerStep(c) ==
  \/ KeepRecording(c) \/ ClearMessages(c) \/ Stop(c)
  \/ Start(c) \/ StopToneTests(c) \/ ToneTestPatience(c) \/ OpenSession(c) \/ BeginMeeting(c)
  \/ StartSession(c) \/ GoRecording(c) \/ SpawnWatcher(c) \/ RefuseStart(c)

ExitStep(x) == CancelTests(x) \/ (Quit(x) /\ At(Exit(x), "quit")) \/ Settle(x)

Finish(t) ==
  StopSession(t) \/ Save(t) \/ RecoverFailedStop(t) \/ JoinNotices(t) \/ EndStop(t)

WatcherStep(r) ==
  WatchFailed(r) \/ WatchReads(r) \/ WatchAnswers(r) \/ WatchStops(r) \/ WatchEnds(r)

NoticesStep(r) == FollowNotice(r) \/ ResumeAutoStop(r) \/ NoticesEnd(r)

CountdownStep(n) == CountdownRunsOut(n) \/ CallEnded(n)

CaptureStep(r) ==
  \/ SessionFails(r) \/ WriteFails(r)
  \/ DeviceChanges(r) \/ StillRestarting(r) \/ DeviceResumes(r) \/ Delivers(r)

InstallerStep(i) ==
  TryHold(i) \/ HoldStarts(i) \/ LookAtStatus(i) \/ InstallFails(i) \/ DropHold(i)

\* Everything but the announcements and the microphone's activity.
Works ==
  \/ \E t \in Threads : Finish(t)
  \/ \E c \in Callers : CallerStep(c) \/ \E command \in Commands : Asks(c, command)
  \/ \E x \in Exits : RefuseStarts(x) \/ CancelTests(x) \/ Quit(x) \/ Settle(x)
  \/ \E r \in Recordings : WatcherStep(r) \/ NoticesStep(r) \/ CaptureStep(r)
  \/ \E n \in Countdowns : CountdownStep(n)
  \/ \E test \in Tests : BeginTest(test) \/ EndTest(test)
  \/ \E i \in Installers : InstallerStep(i)

Next == Works \/ \E t \in Threads : Notify(t)

Spec == Init /\ [][Next]_vars

\* Every thread goes on.  Nothing is asked of the users, the capture, the
\* tests or an install, nor of the watcher's reading of the disk.
Fairness ==
  /\ \A t \in Threads : WF_vars(Notify(t)) /\ WF_vars(Finish(t))
  /\ \A c \in Callers : WF_vars(CallerStep(c))
  /\ \A x \in Exits : WF_vars(ExitStep(x))
  /\ \A r \in Recordings :
       /\ WF_vars(WatchFailed(r) \/ WatchAnswers(r) \/ WatchStops(r) \/ WatchEnds(r))
       /\ WF_vars(NoticesStep(r))

FairSpec == Spec /\ Fairness

-----------------------------------------------------------------------------
(* What the recorder promises.                                              *)

\* No system audio test plays its tone into a recording, unless the start
\* waited for it as long as it may: the test and the start each check the
\* other under the lock.  (run_tone_test, stop_tone_tests)
NoToneInARecording ==
  active # 0 /\ tone.running # {} => rec[active].overTone

\* Once the app refuses starts or quits, every test still running has been
\* told to stop: either the test saw the flag, or its cancel was raised.
\* (refuse_starts, stop_for_quit, run_tone_test)
TestsAreToldToStop ==
  (quitting \/ (refused /\ \A x \in Exits : ~At(Exit(x), "cancelTests")))
    => (tone.running # {} => tone.raised)

\* An install that holds the starts off finds no recording under way and
\* lets none begin.  (IdleGate::try_hold, start)
InstallStopsNoRecording ==
  \A i \in Installers : At(Installer(i), "held") => ~Busy

\* The pipelines' flag says what the recorder does, but for a change whose
\* thread is about to announce it: two changes are never announced in the
\* wrong order.  (notify)
LiveFlagFollows == live # Busy => \E t \in Threads : At(t, "announce")

\* Once a quit's stop has returned nothing records and nothing will: the
\* start or stop it met has been waited for.  (stop_for_quit, settle)
QuitLeavesNothing ==
  (\E x \in Exits : At(Exit(x), "gone")) => ~Busy /\ active = 0

\* A refusal for an install stands only as long as the install's hold.
\* (start, HeldStarts::drop)
RefusalGoesWithItsHold == error = "installing" => holds > 0

\* A watcher or a countdown ends the recording it was spawned for and no
\* later one, however late it comes.  (stop_recording, call_ended)
StopsEndTheirOwn ==
  [][\A t \in Threads :
       t[1] \in {"watch", "countdown"} /\ active' = 0 /\ th'[t].at = "announce"
         /\ th'[t].why # th[t].why
         => th[t].rec = active]_vars

\* Every command returns, whatever fails: a wait for a stop, a start or a
\* test is woken, and a stop joins its threads.  (settle, finish_stop)
EveryCommandReturns ==
  /\ \A c \in Callers : ~At(Caller(c), "ready") ~> At(Caller(c), "ready")
  /\ \A x \in Exits : ~At(Exit(x), "ready") ~> At(Exit(x), "gone")

\* A session that failed on its own is ended by its watcher, where it has
\* one.  (watch)
LostRecordingsEnd ==
  \A r \in Recordings :
    active = r /\ rec[r].lost /\ At(Watcher(r), "watching") ~> active # r
=============================================================================
