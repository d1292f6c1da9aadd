---------------------------- MODULE SpeechEngine ----------------------------
(***************************************************************************)
(* The speech engine the jobs share (SharedSpeechEngine), and the sidecar  *)
(* process that runs its models (SidecarSpeechEngine): who may load and    *)
(* release it, who waits for whom, and what becomes of a child that dies,  *)
(* hangs, grows or breaks the protocol at any point of any call.           *)
(*                                                                         *)
(* A job claims the engine, warms it up, transcribes its lanes, gives the  *)
(* claim up, releases the engine when it was the last, and diarizes in the *)
(* child as well, without a claim. The recorder warms up as a recording    *)
(* starts, without a claim too. On the Mac the engine runs in this process *)
(* and the child only diarizes (`runtime').                                *)
(*                                                                         *)
(* One step is what happens between two awaits or two waits of a blocking  *)
(* thread. The requests' ids are left out: a reply is told by the request  *)
(* it answers. Panics, the tests' health request and downloads are too.    *)
(***************************************************************************)
EXTENDS Integers, FiniteSets, Sequences

CONSTANTS Jobs,       \* the runs of the pipelines, each once
          WarmUps,    \* the recorder's warm-ups, one for each recording
          Lanes,      \* lanes of a recording
          Runtimes,   \* where the engine may run, decided at launch
          DirectMl,   \* whether loads ask for DirectML until it is off
          MaxFaults,  \* bound: deaths, overruns, failures, models that change
          NoOne

ASSUME SpeechAssumption ==
    /\ IsFiniteSet(Jobs)
    /\ Jobs \cap WarmUps = {}
    /\ NoOne \notin Jobs \cup WarmUps
    /\ Lanes \in Nat \ {0}
    /\ Runtimes \subseteq {"in_process", "sidecar"}
    /\ DirectMl \in BOOLEAN
    /\ MaxFaults \in Nat

Tasks == Jobs \cup WarmUps

VARIABLES
    runtime,    \* SpeechSetup::runtime
    installed,  \* every model is on disk at its size
    live,       \* LiveRecording
    quit,       \* QuitLatch
    claims,     \* SharedEngineState.count
    preparing,  \* who has SharedEngineState.preparing
    turn,       \* who has SharedEngineState.turn
    model,      \* who has OneCallAtATime.turn
    at,         \* where each task is
    warmed,     \* the jobs whose warm-up returned
    lanes,      \* lanes each job transcribed
    failed,     \* the jobs whose run ended in an error before the speakers
    answer,     \* where the task's call of the engine or the diarizer is
    holder,     \* who has Shared.process
    child,      \* SidecarProcess, and the process behind it
    off,        \* DIRECTML_SWITCHED_OFF
    faults

locks == <<claims, preparing, turn, model>>
jobs == <<at, warmed, lanes, failed>>
process == <<holder, child, off>>
world == <<runtime, installed, live, quit, faults>>
vars == <<locks, jobs, process, world, answer>>

InProcess == runtime = "in_process"

---------------------------------------------------------------------------
(* The child. *)

NoChild == [runs |-> FALSE]

Requests == {"ready", "load", "transcribe", "load_diarizer", "diarize", "bye"}

\* What the reader threads queue: a reply with the request it answers, whether
\* it is no error, and the encoder's provider it names; or a fault.
Providers == {"none", "cpu", "directml"}
Replies == [is : {"reply"}, to : Requests, ok : BOOLEAN, provider : Providers]
Faults == [is : {"closed", "over", "garbage"}]
Events == Replies \cup Faults

\* `owes' is what the process works on, `awaits' what the parent waits for;
\* `ended' that the reader thread is through with its stdout, `faulted' that
\* it queued a fault; the rest is the parent's.
Children == [runs : {TRUE}, alive : BOOLEAN, ended : BOOLEAN, faulted : BOOLEAN,
             owes : Requests \cup {"none"}, awaits : Requests \cup {"none"},
             queue : Seq(Events), provider : Providers,
             asked : BOOLEAN, diarizer : BOOLEAN]

\* A child just spawned, whose Ready the parent waits for.
Spawned(directml) ==
    [runs |-> TRUE, alive |-> TRUE, ended |-> FALSE, faulted |-> FALSE,
     owes |-> "ready", awaits |-> "ready", queue |-> <<>>, provider |-> "none",
     asked |-> directml, diarizer |-> FALSE]

\* A request is written to the child and its reply awaited; a dead child does
\* not read it.
Asked(c, request) ==
    [c EXCEPT !.awaits = request,
              !.owes = IF c.alive THEN request ELSE "none"]

\* The child with the reply awaited taken.
Heard(c) == [c EXCEPT !.queue = Tail(@), !.awaits = "none"]

\* Mutant: the switch is not asked.
WantsDirectMlAlways(switchedOff) == DirectMl

WantsDirectMl(switchedOff) == DirectMl /\ ~switchedOff

\* Whether a child's end counts against DirectML: it died, hung or overran
\* with its encoder there, or inside a load that asked for it.
EndedOnDirectMl(c) ==
    IF c.provider = "none" THEN c.asked ELSE c.provider = "directml"

---------------------------------------------------------------------------
Init ==
    /\ runtime \in Runtimes
    /\ installed \in BOOLEAN
    /\ live = FALSE /\ quit = FALSE
    /\ claims = 0
    /\ preparing = NoOne /\ turn = NoOne /\ model = NoOne
    /\ at = [t \in Tasks |-> "idle"]
    /\ warmed = {} /\ failed = {}
    /\ lanes = [j \in Jobs |-> 0]
    /\ answer = [t \in Tasks |-> "none"]
    /\ holder = NoOne /\ child = NoChild /\ off = FALSE
    /\ faults = 0

---------------------------------------------------------------------------
(* A job, and a warm-up. *)

Goes(t, place) == at' = [at EXCEPT ![t] = place]

\* The task calls the engine or the diarizer: `check' of the models comes
\* first where the call makes one before it takes the child's lock.
Calls(t, first) == answer' = [answer EXCEPT ![t] = first]

Gives(lock, t) == IF lock = t THEN NoOne ELSE lock

Claim(j) ==
    /\ at[j] = "idle"
    /\ claims' = claims + 1
    /\ Goes(j, IF InProcess THEN "turn" ELSE "warm")
    /\ UNCHANGED <<preparing, turn, model, warmed, lanes, failed, process,
                   world, answer>>

\* in_process_turn: one job at a time waits for the recording to end.
TakesTurn(j) ==
    /\ at[j] = "turn"
    /\ turn = NoOne
    /\ turn' = j
    /\ Goes(j, "live")
    /\ UNCHANGED <<claims, preparing, model, warmed, lanes, failed, process,
                   world, answer>>

NoRecording(j) ==
    /\ at[j] = "live"
    /\ ~live
    /\ \/ /\ quit
          /\ turn' = NoOne
          /\ failed' = failed \cup {j}
          /\ Goes(j, "drop")
          /\ UNCHANGED answer
       \/ /\ ~quit /\ j \notin warmed
          /\ Goes(j, "warm")
          /\ UNCHANGED <<turn, failed, answer>>
       \/ /\ ~quit /\ j \in warmed
          /\ Goes(j, "lane")
          /\ Calls(j, "queued")
          /\ UNCHANGED <<turn, failed>>
    /\ UNCHANGED <<claims, preparing, model, warmed, lanes, process, world>>

\* A job's warm-up failed; a warm-up of the recorder is over either way.
WarmUpFails(t) ==
    /\ Goes(t, IF t \in Jobs THEN "drop" ELSE "over")
    /\ failed' = failed \cup ({t} \cap Jobs)
    /\ turn' = Gives(turn, t)

\* warm_up: the models are looked for before the lock.
LooksForModels(t) ==
    /\ at[t] = "warm"
    /\ \/ installed /\ Goes(t, "preparing") /\ UNCHANGED <<turn, failed>>
       \/ ~installed /\ WarmUpFails(t)
    /\ UNCHANGED <<claims, preparing, model, warmed, lanes, process, world,
                   answer>>

\* A warm-up of the recorder beside the sidecar looks for the diarizer alone.
Prepares(t) ==
    /\ at[t] = "preparing"
    /\ preparing = NoOne
    /\ IF t \in WarmUps /\ ~InProcess
         THEN /\ Goes(t, "over")
              /\ UNCHANGED <<preparing, answer>>
         ELSE /\ preparing' = t
              /\ Goes(t, "prepare")
              /\ Calls(t, IF InProcess THEN "queued" ELSE "check")
    /\ UNCHANGED <<claims, turn, model, warmed, lanes, failed, process, world>>

\* The engine is loaded, or not; the diarizer's prepare only looks for its
\* models, and missing ones end the job as the engine's failure does.
Prepared(t) ==
    /\ at[t] = "prepare"
    /\ answer[t] \in {"ok", "failed"}
    /\ Calls(t, "none")
    /\ preparing' = NoOne
    /\ IF answer[t] = "ok" /\ installed /\ t \in Jobs
         THEN /\ turn' = Gives(turn, t)
              /\ warmed' = warmed \cup {t}
              /\ Goes(t, "decode")
              /\ UNCHANGED failed
         ELSE WarmUpFails(t) /\ UNCHANGED warmed
    /\ UNCHANGED <<claims, model, lanes, process, world>>

\* decode_and_transcribe, between two lanes; a decode or a write of it fails.
NextLane(j) ==
    /\ at[j] = "decode"
    /\ \/ /\ lanes[j] < Lanes
          /\ IF InProcess
               THEN Goes(j, "turn") /\ UNCHANGED answer
               ELSE Goes(j, "lane") /\ Calls(j, "queued")
          /\ UNCHANGED <<failed, faults>>
       \/ /\ lanes[j] = Lanes
          /\ Goes(j, "drop")
          /\ UNCHANGED <<failed, faults, answer>>
       \/ /\ faults < MaxFaults
          /\ faults' = faults + 1
          /\ failed' = failed \cup {j}
          /\ Goes(j, "drop")
          /\ UNCHANGED answer
    /\ UNCHANGED <<locks, warmed, lanes, process, runtime, installed, live,
                   quit>>

Transcribed(j) ==
    /\ at[j] = "lane"
    /\ answer[j] \in {"ok", "failed"}
    /\ Calls(j, "none")
    /\ turn' = Gives(turn, j)
    /\ \/ /\ answer[j] = "ok"
          /\ lanes' = [lanes EXCEPT ![j] = @ + 1]
          /\ Goes(j, "decode")
          /\ UNCHANGED failed
       \/ /\ answer[j] = "failed"
          /\ failed' = failed \cup {j}
          /\ Goes(j, "drop")
          /\ UNCHANGED lanes
    /\ UNCHANGED <<claims, preparing, model, warmed, process, world>>

\* finish_speech, whatever the lanes came to.
DropsClaim(j) ==
    /\ at[j] = "drop"
    /\ claims' = claims - 1
    /\ Goes(j, "recount")
    /\ UNCHANGED <<preparing, turn, model, warmed, lanes, failed, process,
                   world, answer>>

\* What a job does once it is through with the engine.
Speakers(j) ==
    IF j \in failed
      THEN Goes(j, "over") /\ Calls(j, "none")
      ELSE Goes(j, "speakers") /\ Calls(j, "check")

Recounts(j) ==
    /\ at[j] = "recount"
    /\ IF claims > 0
         THEN Speakers(j)
         ELSE Goes(j, "last") /\ UNCHANGED answer
    /\ UNCHANGED <<locks, warmed, lanes, failed, process, world>>

\* Mutant: the count is not read again under `preparing'.
ReleasesUncounted(j) ==
    /\ at[j] = "last"
    /\ preparing = NoOne
    /\ preparing' = j
    /\ Goes(j, "release")
    /\ Calls(j, "queued")
    /\ UNCHANGED <<claims, turn, model, warmed, lanes, failed, process, world>>

\* The count again under `preparing', then the release.
Releases(j) ==
    /\ at[j] = "last"
    /\ preparing = NoOne
    /\ IF claims > 0
         THEN Speakers(j) /\ UNCHANGED preparing
         ELSE /\ preparing' = j
              /\ Goes(j, "release")
              /\ Calls(j, "queued")
    /\ UNCHANGED <<claims, turn, model, warmed, lanes, failed, process, world>>

Released(j) ==
    /\ at[j] = "release"
    /\ answer[j] \in {"ok", "failed"}
    /\ preparing' = NoOne
    /\ Speakers(j)
    /\ UNCHANGED <<claims, turn, model, warmed, lanes, failed, process, world>>

\* Failing or not, the run goes on to the stages that need no engine.
Diarized(j) ==
    /\ at[j] = "speakers"
    /\ answer[j] \in {"ok", "failed"}
    /\ Calls(j, "none")
    /\ Goes(j, "over")
    /\ UNCHANGED <<locks, warmed, lanes, failed, process, world>>

---------------------------------------------------------------------------
(* A call of the engine in this process (OneCallAtATime). *)

RunsHere(t) == InProcess /\ at[t] \in {"prepare", "lane", "release"}

CallBegins(t) ==
    /\ RunsHere(t) /\ answer[t] = "queued"
    /\ model = NoOne
    /\ model' = t
    /\ Calls(t, "runs")
    /\ UNCHANGED <<claims, preparing, turn, jobs, process, world>>

CallEnds(t) ==
    /\ RunsHere(t) /\ answer[t] = "runs"
    /\ model' = NoOne
    /\ \/ Calls(t, "ok") /\ UNCHANGED faults
       \/ /\ faults < MaxFaults
          /\ faults' = faults + 1
          /\ Calls(t, "failed")
    /\ UNCHANGED <<claims, preparing, turn, jobs, process, runtime, installed,
                   live, quit>>

---------------------------------------------------------------------------
(* A call that needs the child. *)

NeedsChild(t) == ~RunsHere(t)
Speech(t) == at[t] \in {"prepare", "lane"}

\* Install::Never: what is missing fails the call before the lock is taken.
ChecksModels(t) ==
    /\ answer[t] = "check"
    /\ Calls(t, IF installed THEN "queued" ELSE "failed")
    /\ UNCHANGED <<locks, jobs, process, world>>

\* The call's end: the lock is let go of with what is left of the child.
Returns(t, result, c) ==
    /\ Calls(t, result)
    /\ holder' = NoOne
    /\ child' = c

\* The call waits for the child's reply with the lock held.
Waits(t, c) ==
    /\ Calls(t, "runs")
    /\ holder' = t
    /\ child' = c

\* failed_while_idle: a fault is queued, or the process has exited.
FailedWhileIdle(c) == c.runs /\ (c.queue # <<>> \/ ~c.alive)

\* Of what ends a child between two calls only an overrun counts.
OverrunCounts(c) ==
    c.queue # <<>> /\ Head(c.queue).is = "over" /\ EndedOnDirectMl(c)

\* load: in the child that runs, or in one spawned for it.
Load(c, directml) ==
    IF c = NoChild THEN Spawned(directml)
    ELSE Asked([c EXCEPT !.asked = directml], "load")

\* ensure_loaded, and for a lane its request.
EntersForSpeech(t) ==
    LET dropped == FailedWhileIdle(child)
        kept == IF dropped THEN NoChild ELSE child
            loaded == kept.runs /\ kept.provider # "none"
    IN  /\ off' = (off \/ (dropped /\ OverrunCounts(child)))
        /\ \/ /\ loaded
              /\ IF at[t] = "prepare"
                   THEN Returns(t, "ok", kept)
                   ELSE Waits(t, Asked(kept, "transcribe"))
           \/ /\ ~loaded /\ ~installed
              /\ Returns(t, "failed", kept)
           \/ /\ ~loaded /\ installed
              /\ Waits(t, Load(kept, WantsDirectMl(off')))

\* diarize: an overrun it finds does not count.
EntersForSpeakers(t) ==
    LET kept == IF FailedWhileIdle(child) THEN NoChild ELSE child
    IN  /\ Waits(t, IF kept = NoChild THEN Spawned(FALSE)
                    ELSE Asked(kept, IF kept.diarizer THEN "diarize"
                                     ELSE "load_diarizer"))
        /\ UNCHANGED off

\* shut_down asks whatever child there is to exit.
EntersForRelease(t) ==
    /\ IF child = NoChild
         THEN Returns(t, "ok", NoChild)
         ELSE Waits(t, Asked(child, "bye"))
    /\ UNCHANGED off

Enters(t) ==
    /\ answer[t] = "queued" /\ NeedsChild(t)
    /\ holder = NoOne
    /\ \/ Speech(t) /\ EntersForSpeech(t)
       \/ at[t] = "speakers" /\ EntersForSpeakers(t)
       \/ at[t] = "release" /\ EntersForRelease(t)
    /\ UNCHANGED <<locks, jobs, world>>

\* Mutant: the child is kept.
SpeakersDoneKeeps(t, c) == Returns(t, "ok", c)

\* The diarization is over, with clusters or an error the child reported: a
\* child without speech's models is stopped.
SpeakersDone(t, c) ==
    IF c.provider = "none" THEN Waits(t, Asked(c, "bye")) ELSE Returns(t, "ok", c)

\* The reply asked for.
Answered(t) ==
    LET e == Head(child.queue)
        c == Heard(child)
    IN  /\ CASE child.awaits = "ready" ->
                  Waits(t, Asked(c, IF Speech(t) THEN "load" ELSE "load_diarizer"))
             [] child.awaits = "load" ->
                  LET loaded == [c EXCEPT !.provider = e.provider]
                  IN  IF at[t] = "prepare"
                        THEN Returns(t, "ok", loaded)
                        ELSE Waits(t, Asked(loaded, "transcribe"))
             [] child.awaits = "transcribe" ->
                  Returns(t, "ok", [c EXCEPT !.provider = e.provider])
             [] child.awaits = "load_diarizer" ->
                  Waits(t, Asked([c EXCEPT !.diarizer = TRUE], "diarize"))
             [] child.awaits = "diarize" -> SpeakersDone(t, c)
             [] OTHER -> Returns(t, "ok", NoChild)
        /\ UNCHANGED off

\* An error the child reports: it is kept.
Reported(t) ==
    LET c == Heard(child)
    IN  /\ IF Speech(t)
             THEN Returns(t, "failed", IF child.awaits = "load"
                                       THEN [c EXCEPT !.asked = FALSE] ELSE c)
             ELSE SpeakersDone(t, c)
        /\ UNCHANGED off

\* Mutant: the load is tried again as it was.
EndsAsksAgain(t, counts) ==
    LET blamed == counts /\ Speech(t) /\ child.awaits # "ready"
                         /\ EndedOnDirectMl(child)
    IN  /\ off' = (off \/ blamed)
        /\ IF blamed /\ child.awaits = "load"
             THEN Waits(t, Spawned(DirectMl))
             ELSE Returns(t, IF Speech(t) THEN "failed" ELSE "ok", NoChild)

\* Anything else ends the child. A load whose DirectML probe ended it is tried
\* again on the CPU, within the call; no audio was sent yet.
Ends(t, counts) ==
    LET blamed == counts /\ Speech(t) /\ child.awaits # "ready"
                         /\ EndedOnDirectMl(child)
    IN  /\ off' = (off \/ blamed)
        /\ IF blamed /\ child.awaits = "load"
             THEN Waits(t, Spawned(FALSE))
             ELSE Returns(t, IF Speech(t) THEN "failed" ELSE "ok", NoChild)

\* wait_for takes the next event.
Hears(t) ==
    /\ holder = t
    /\ child.queue # <<>>
    /\ LET e == Head(child.queue)
       IN  CASE e.is = "reply" /\ e.to = child.awaits /\ e.ok -> Answered(t)
             [] /\ e.is = "reply" /\ e.to = child.awaits /\ ~e.ok
                /\ child.awaits \notin {"ready", "bye"} -> Reported(t)
             [] OTHER -> Ends(t, e.is \in {"closed", "over"})
    /\ UNCHANGED <<locks, jobs, world>>

\* Mutant: the child is kept for the next call.
TimesOutKeeps(t) ==
    /\ holder = t
    /\ Returns(t, "failed", [child EXCEPT !.awaits = "none"])
    /\ UNCHANGED <<locks, jobs, off, world>>

\* The deadline passes, an answer that has just come included.
TimesOut(t) ==
    /\ holder = t
    /\ Ends(t, TRUE)
    /\ UNCHANGED <<locks, jobs, world>>

\* The binary does not start, or a thread beside it.
SpawnFails(t) ==
    /\ holder = t
    /\ child.awaits = "ready" /\ child.owes = "ready"
    /\ faults < MaxFaults
    /\ faults' = faults + 1
    /\ Returns(t, IF Speech(t) THEN "failed" ELSE "ok", NoChild)
    /\ UNCHANGED <<locks, jobs, off, runtime, installed, live, quit>>

---------------------------------------------------------------------------
(* The process. *)

Queues(c, e) == [c EXCEPT !.queue = Append(@, e)]

Reply(c, ok, provider) ==
    [is |-> "reply", to |-> c.owes, ok |-> ok, provider |-> provider]

\* serve, one request: a load answers with the provider the probe allowed, a
\* transcription with the one it ended on. Bye is the last reply.
ChildAnswers ==
    /\ child.runs /\ child.alive /\ ~child.ended
    /\ child.owes # "none"
    /\ \E ok \in BOOLEAN, provider \in Providers :
        /\ ~ok => child.owes \notin {"ready", "bye"} /\ faults < MaxFaults
        /\ faults' = IF ok THEN faults ELSE faults + 1
        /\ provider \in CASE child.owes = "load" /\ ok ->
                               {"cpu"} \cup IF child.asked THEN {"directml"} ELSE {}
                          [] child.owes = "transcribe" /\ ok ->
                               {"cpu", child.provider}
                          [] OTHER -> {"none"}
        /\ child' = [Queues(child, Reply(child, ok, provider)) EXCEPT
                        !.owes = "none", !.alive = child.owes # "bye"]
    /\ UNCHANGED <<locks, jobs, answer, holder, off, runtime, installed, live,
                   quit>>

\* It aborts, is killed, or exits for want of its encoder; a heartbeat tells of
\* an overrun of the ceiling, queued unless a fault is; what is no frame ends
\* the reader thread.
ChildFails ==
    /\ child.runs /\ child.alive
    /\ faults < MaxFaults
    /\ faults' = faults + 1
    /\ \/ child' = [child EXCEPT !.alive = FALSE, !.owes = "none"]
       \/ /\ child.owes # "ready" /\ ~child.faulted
          /\ child' = [Queues(child, [is |-> "over"]) EXCEPT !.faulted = TRUE]
       \/ /\ child.owes # "none" /\ ~child.ended
          /\ child' = [Queues(child, [is |-> "garbage"])
                          EXCEPT !.faulted = TRUE, !.ended = TRUE]
    /\ UNCHANGED <<locks, jobs, answer, holder, off, runtime, installed, live,
                   quit>>

\* The reader finds the end of a dead child's stdout.
ReaderEnds ==
    /\ child.runs /\ ~child.alive /\ ~child.ended
    /\ child' = [Queues(child, [is |-> "closed"])
                    EXCEPT !.faulted = TRUE, !.ended = TRUE]
    /\ UNCHANGED <<locks, jobs, answer, holder, off, world>>

---------------------------------------------------------------------------
(* The recorder and the user. *)

\* A recording starts, and with it the warm-up its models allow.
RecordingStarts(w) ==
    /\ ~live
    /\ at[w] = "idle"
    /\ live' = TRUE
    /\ Goes(w, IF ~installed THEN "over"
               ELSE IF InProcess THEN "warm" ELSE "preparing")
    /\ UNCHANGED <<locks, warmed, lanes, failed, answer, process, runtime,
                   installed, quit, faults>>

RecordingEnds ==
    /\ live
    /\ live' = FALSE
    /\ UNCHANGED <<locks, jobs, answer, process, runtime, installed, quit,
                   faults>>

ModelsChange ==
    /\ faults < MaxFaults
    /\ faults' = faults + 1
    /\ installed' = ~installed
    /\ UNCHANGED <<locks, jobs, answer, process, runtime, live, quit>>

\* Asked by jobs of an engine in this process alone.
Quits ==
    /\ InProcess /\ ~quit
    /\ quit' = TRUE
    /\ UNCHANGED <<locks, jobs, answer, process, runtime, installed, live,
                   faults>>

\* Nobody has anything left to do.
Idle ==
    /\ \A t \in Tasks : at[t] \in {"idle", "over"}
    /\ UNCHANGED vars

JobSteps(j) ==
    \/ Claim(j) \/ TakesTurn(j) \/ NoRecording(j) \/ NextLane(j)
    \/ Transcribed(j) \/ DropsClaim(j) \/ Recounts(j) \/ Releases(j)
    \/ Released(j) \/ Diarized(j)

TaskSteps(t) ==
    \/ LooksForModels(t) \/ Prepares(t) \/ Prepared(t)
    \/ CallBegins(t) \/ CallEnds(t)
    \/ ChecksModels(t) \/ Enters(t) \/ Hears(t) \/ TimesOut(t)

Next ==
    \/ \E j \in Jobs : JobSteps(j)
    \/ \E t \in Tasks : TaskSteps(t) \/ SpawnFails(t)
    \/ \E w \in WarmUps : RecordingStarts(w)
    \/ ChildAnswers \/ ChildFails \/ ReaderEnds
    \/ RecordingEnds \/ ModelsChange \/ Quits \/ Idle

Spec == Init /\ [][Next]_vars

\* The runtime polls what is ready, and a deadline passes. Nothing is asked of
\* the child, the recorder or the user.
FairSpec ==
    /\ Spec
    /\ \A j \in Jobs : WF_vars(JobSteps(j) \/ TaskSteps(j))
    /\ \A w \in WarmUps : WF_vars(TaskSteps(w))

---------------------------------------------------------------------------
Places == {"idle", "turn", "live", "warm", "preparing", "prepare", "decode",
           "lane", "drop", "recount", "last", "release", "speakers", "over"}

TypeOK ==
    /\ runtime \in {"in_process", "sidecar"}
    /\ installed \in BOOLEAN /\ live \in BOOLEAN /\ quit \in BOOLEAN
    /\ claims \in Nat
    /\ {preparing, turn, model, holder} \subseteq Tasks \cup {NoOne}
    /\ at \in [Tasks -> Places]
    /\ warmed \subseteq Jobs /\ failed \subseteq Jobs
    /\ lanes \in [Jobs -> Nat]
    /\ answer \in [Tasks -> {"none", "check", "queued", "runs", "ok", "failed"}]
    /\ child \in Children \cup {NoChild}
    /\ off \in BOOLEAN
    /\ faults \in Nat

\* The jobs with a claim on the engine (SpeechClaim).
Claiming == {j \in Jobs : at[j] \in {"turn", "live", "warm", "preparing",
                                     "prepare", "decode", "lane", "drop"}}

\* The engine is never released under a job that warmed it up and is not
\* through with its lanes, however claims, recounts and releases interleave
\* (the recount under `preparing' in finish_speech).
ReleaseSparesTheLanes ==
    (\E j \in Jobs : at[j] = "release") => Claiming \cap warmed = {}

\* A child no call has is one that owes nothing and has no reply queued: a
\* call that gave up on its reply left nobody else to take it for its own
\* (kill_unless_reported, SidecarProcess::wait_for).
FreeChildOwesNothing ==
    holder = NoOne /\ child.runs =>
        /\ child.owes = "none" /\ child.awaits = "none"
        /\ \A i \in DOMAIN child.queue : child.queue[i].is # "reply"

\* Once no job is under way no child is left behind with its models, whoever
\* loaded it, and whether runs failed, diarized, or died on the way
\* (finish_speech, SidecarSpeechEngine::diarize).
NothingStaysLoaded ==
    (\A j \in Jobs : at[j] \in {"idle", "over"}) => ~child.runs

\* After a child's end switched DirectML off no child has its encoder there or
\* is asked to load it there (wants_directml, the retry of Shared::load).
SwitchedOffRunsOnCpu ==
    off /\ child.runs =>
        /\ child.provider # "directml"
        /\ child.awaits \in {"ready", "load"} => ~child.asked

\* Every job that starts ends, though jobs wait for one another's turns, for a
\* recording, for the warm-ups' lock and for the child, and a child may say
\* nothing (in_process_turn, warm_up, finish_speech, wait_for).
EveryJobEnds ==
    (<>[]~live) => \A j \in Jobs : (at[j] # "idle") ~> (at[j] = "over")
=============================================================================
