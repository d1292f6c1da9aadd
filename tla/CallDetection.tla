---------------------------- MODULE CallDetection ----------------------------
(***************************************************************************)
(* The meeting detection controller (steno-services/src/detection.rs)      *)
(* beside the recorder: the detector's events raise a prompt while nothing *)
(* records and feed the recorder's auto-stop while it is busy; a change of *)
(* the recorder takes the prompt down.  The controller's `state` has a     *)
(* mutex of its own, under which it asks the recorder whether it is busy;  *)
(* it hands an activity on, and starts a recording, with that mutex        *)
(* released.  The detector's debounce is left out: it reports an app that  *)
(* opens the microphone and that app's letting go, in turn.                *)
(***************************************************************************)
EXTENDS Recorder

CONSTANTS
  MaxOpens, \* times an app is reported to open the microphone: a bound
  Switches  \* {TRUE} where the setting may be switched, else {}

ASSUME DetectionAssumption == MaxOpens \in Nat /\ Switches \subseteq {TRUE}

VARIABLES
  enabled, \* State::enabled
  prompt,  \* the prompt that is up, and whether it names its app
  mic,     \* what the detector last reported, "off" while it does not run
  events,  \* its events on their way to the controller
  activity,\* what the controller is about to hand to the recorder
  opens    \* openings reported so far

recorder == vars
detection == <<enabled, prompt, mic, events, activity, opens>>
allVars == <<recorder, detection>>

Prompts == {"none", "named", "unnamed"}

DetectionTypeOK ==
  /\ TypeOK
  /\ enabled \in BOOLEAN /\ prompt \in Prompts
  /\ mic \in {"off", "released", "open"}
  /\ events \in Seq({"opened", "released"})
  /\ activity \in {"none", "opened", "released"}
  /\ opens \in 0..MaxOpens

DetectionInit ==
  /\ Init
  /\ enabled = TRUE /\ prompt = "none" /\ mic = "released"
  /\ events = <<>> /\ activity = "none" /\ opens = 0

-----------------------------------------------------------------------------
(* The detector, and the setting.                                           *)

AppOpens ==
  /\ mic = "released" /\ opens < MaxOpens
  /\ mic' = "open" /\ opens' = opens + 1
  /\ events' = Append(events, "opened")
  /\ UNCHANGED <<recorder, enabled, prompt, activity>>

AppLetsGo ==
  /\ mic = "open" /\ releases < MaxReleases
  /\ mic' = "released" /\ releases' = releases + 1
  /\ events' = Append(events, "released")
  /\ UNCHANGED <<inner, watch, flags, th, rec, session, starts, faults,
                 enabled, prompt, activity, opens>>

\* set_enabled(false): the prompt goes with the setting, then the detector
\* stops and forgets who holds the microphone.
SwitchOff ==
  /\ Switches # {} /\ enabled
  /\ enabled' = FALSE
  /\ prompt' = "none"
  /\ UNCHANGED <<recorder, mic, events, activity, opens>>

StopDetector ==
  /\ ~enabled /\ mic # "off"
  /\ mic' = "off"
  /\ UNCHANGED <<recorder, enabled, prompt, events, activity, opens>>

\* set_enabled(true): the detector starts once the thread of the events
\* before it is joined.
SwitchOn ==
  /\ ~enabled /\ mic = "off"
  /\ events = <<>> /\ activity = "none" /\ At(Detector, "ready")
  /\ enabled' = TRUE
  /\ mic' = "released"
  /\ UNCHANGED <<recorder, prompt, events, activity, opens>>

-----------------------------------------------------------------------------
(* handle(event).                                                           *)

\* Mutant: the recorder is not asked before a prompt is raised.
HandleUnasked ==
  /\ At(Detector, "ready") /\ activity = "none" /\ events # <<>>
  /\ events' = Tail(events)
  /\ activity' = IF Busy THEN Head(events) ELSE "none"
  /\ prompt' \in IF Head(events) = "opened" /\ enabled THEN {"named"} ELSE {"none"}
  /\ UNCHANGED <<recorder, enabled, mic, opens>>

\* Under `state`: whether the recorder is busy decides where the event goes.
\* A prompt whose countdown cannot be spawned is taken down again.
Handle ==
  /\ At(Detector, "ready") /\ activity = "none" /\ events # <<>>
  /\ events' = Tail(events)
  /\ activity' = IF Busy THEN Head(events) ELSE "none"
  /\ \/ /\ Head(events) = "released"
        /\ prompt' = "none"
     \/ /\ Head(events) = "opened"
        /\ IF Busy \/ ~enabled \/ prompt # "none"
             THEN UNCHANGED prompt
             ELSE \E spawned \in Spawns :
                    prompt' \in IF spawned THEN {"named", "unnamed"} ELSE {"none"}
  /\ UNCHANGED <<recorder, enabled, mic, opens>>

\* With `state` released: microphone_activity().
HandOver ==
  /\ At(Detector, "ready") /\ activity # "none"
  /\ activity' = "none"
  /\ \/ activity = "opened" /\ OpenedCounts /\ MicrophoneOpened
     \/ activity = "released" /\ ReleasedCounts /\ MicrophoneReleased
     \/ /\ ~(activity = "opened" /\ OpenedCounts)
        /\ ~(activity = "released" /\ ReleasedCounts)
        /\ UNCHANGED recorder
  /\ UNCHANGED <<enabled, prompt, mic, events, opens>>

-----------------------------------------------------------------------------
(* The prompt.                                                              *)

\* Its Record: a call recording, of the app it named.
RecordFromPrompt(c) ==
  /\ At(Caller(c), "ready") /\ prompt # "none"
  /\ AsksToStart(c, "call", prompt = "named")
  /\ prompt' = "none"
  /\ UNCHANGED <<inner, watch, flags, rec, session, releases, faults,
                 enabled, mic, events, activity, opens>>

\* Its X, or its countdown.
PromptCloses ==
  /\ prompt # "none"
  /\ prompt' = "none"
  /\ UNCHANGED <<recorder, enabled, mic, events, activity, opens>>

\* notify() calls the hook once the lock is released.
Announce(t) ==
  /\ Notified(t, [th EXCEPT ![t].at = "hook"])
  /\ UNCHANGED detection

\* recorder_changed(): a recording starting takes the prompt down.
RecorderChanged(t) ==
  /\ At(t, "hook")
  /\ th' = Through(t, th[t].then)
  /\ prompt' = IF Busy THEN "none" ELSE prompt
  /\ UNCHANGED <<inner, watch, flags, rec, session, bounds,
                 enabled, mic, events, activity, opens>>

-----------------------------------------------------------------------------
DetectionNext ==
  \/ Works /\ UNCHANGED detection
  \/ \E t \in Threads : Announce(t) \/ RecorderChanged(t)
  \/ AppOpens \/ AppLetsGo \/ SwitchOff \/ StopDetector \/ SwitchOn
  \/ Handle \/ HandOver \/ PromptCloses
  \/ \E c \in Callers : RecordFromPrompt(c)

DetectionSpec == DetectionInit /\ [][DetectionNext]_allVars

-----------------------------------------------------------------------------
(* What the recorder and the detection promise together.                    *)

\* A prompt is up while a recording is under way only until the recorder's
\* change, announced or about to be, takes it down: neither a start that
\* overtakes the detector's event nor the event leaves one behind.
\* (handle, recorder_changed)
PromptComesDown ==
  prompt # "none" /\ Busy => \E t \in Threads : At(t, "announce") \/ At(t, "hook")

\* The armed countdown is this recording's, of a call that was seen, and its
\* thread still has to decide; every other countdown is cancelled.
\* (CallWatch::disarm, reset, arm)
ArmedCountdownIsItsCalls ==
  /\ calls.armed # 0 =>
       /\ CallRecords /\ calls.seen
       /\ At(Countdown(calls.armed), "asleep") \/ At(Countdown(calls.armed), "out")
       /\ th[Countdown(calls.armed)].rec = active
  /\ \A n \in Countdowns : At(Countdown(n), "asleep") => calls.armed = n

\* While the capture recovers, the countdown a release armed ends nothing.
\* (postpone)
RecoveryPostpones ==
  [][\A n \in Countdowns :
       active # 0 /\ active' = 0 /\ At(Countdown(n), "out") /\ ~At(Countdown(n), "out")'
         => ~(outage[active].recovering /\ calls.postponable)]_allVars

\* The notices of a recording never move the countdown of another: its stop
\* joins their thread first.  (finish_stop, follow_the_notices)
NoticesAreTheirOwn ==
  \A r \in Recordings : At(Notices(r), "resuming") => active \in {0, r}

\* "A call recording during which another app held the microphone stops on
\* its own after that app released it" (auto_stop.rs:1): once the release has
\* been handed over, its countdown is armed.
SeenCallIsCountedDown ==
  CallRecords /\ calls.seen /\ mic = "released" /\ events = <<>> /\ activity = "none"
    => calls.armed # 0
=============================================================================
